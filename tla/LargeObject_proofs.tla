------------------------- MODULE LargeObject_proofs ------------------------
(***************************************************************************)
(* Proofs about smart large objects, for every set of objects, every       *)
(* buffer and chunk size and every number of descriptors and sessions.     *)
(*                                                                         *)
(* Server lemmas say what each change of the server's session leaves; then *)
(* one lemma per call shows that it preserves the invariant, for which     *)
(* only the status of a read matters.  What it delivers, however the       *)
(* server cuts the bytes into chunks, comes last.                          *)
(***************************************************************************)
EXTENDS LargeObject, TLAPS, WellFoundedInduction, SequenceTheorems
---------------------------------------------------------------------------
(* Operators of the model.                                                 *)

\* A nonempty set of numbers has a least element.
LEMMA LeastOf ==
    ASSUME NEW S, S \subseteq Nat, S # {}
    PROVE  \E d \in S : \A e \in S : d <= e
<1> DEFINE R == {ss \in Nat \X Nat : ss[1] < ss[2]}
<1>1. IsWellFoundedOn(R, Nat)
  BY NatLessThanWellFounded DEF OpToRel
<1>2. PICK d \in S : \A e \in S : ~(<<e, d>> \in R)
  <2> HIDE DEF R
  <2> QED
    BY <1>1, WFMin
<1>3. \A e \in S : d <= e
  <2> SUFFICES ASSUME NEW e \in S PROVE d <= e
    OBVIOUS
  <2>1. d \in Nat /\ e \in Nat /\ <<e, d>> \notin R
    BY <1>2
  <2>2. <<e, d>> \in Nat \X Nat /\ <<e, d>>[1] = e /\ <<e, d>>[2] = d
    BY <2>1
  <2> QED
    BY <2>1, <2>2, SMT
<1> QED
  BY <1>3

\* The descriptor the server hands out is one that is not open.
LEMMA NextUnusedFree ==
    ASSUME Unused # {}
    PROVE  NextUnused \in Descriptors /\ NextUnused \notin DOMAIN server.open
<1>1. Unused \subseteq Nat
  BY LargeObjectAssumption DEF Unused, Descriptors
<1>2. \E d \in Unused : \A e \in Unused : d <= e
  BY <1>1, LeastOf
<1>3. NextUnused \in Unused
  BY <1>2 DEF NextUnused
<1> QED
  BY <1>3 DEF Unused

---------------------------------------------------------------------------
(* The server.                                                             *)

\* An open descriptor.
Open == [object: Objects, pos: 0 .. MaxBytes]

\* The server's session: descriptors are open on objects that exist and stand
\* within them.
ServerOK(s) ==
    /\ s = [session |-> s.session, open |-> s.open, data |-> s.data]
    /\ s.session \in 1 .. MaxSessions
    /\ s.open \in [DOMAIN s.open -> Open] /\ DOMAIN s.open \subseteq Descriptors
    /\ s.data \in [DOMAIN s.data -> Seq(1 .. MaxBytes)] /\ DOMAIN s.data \subseteq Objects
    /\ \A o \in DOMAIN s.data : Len(s.data[o]) <= MaxBytes
    /\ \A d \in DOMAIN s.open :
          s.open[d].object \in DOMAIN s.data /\ s.open[d].pos <= Len(s.data[s.open[d].object])

LEMMA OpenedOK ==
    ASSUME NEW s, ServerOK(s), NEW d \in Descriptors, d \notin DOMAIN s.open,
           NEW o \in DOMAIN s.data
    PROVE  /\ ServerOK(Opened(s, d, o))
           /\ DOMAIN Opened(s, d, o).open = DOMAIN s.open \cup {d}
           /\ Opened(s, d, o).open[d] = [object |-> o, pos |-> 0]
           /\ \A e \in DOMAIN s.open : Opened(s, d, o).open[e] = s.open[e]
           /\ Opened(s, d, o).data = s.data /\ Opened(s, d, o).session = s.session
<1> DEFINE t == Opened(s, d, o)
<1>1. t = [session |-> s.session, open |-> With(s.open, d, Descriptor(o)), data |-> s.data]
  BY DEF ServerOK, Opened
<1>2. /\ DOMAIN t.open = DOMAIN s.open \cup {d}
      /\ t.open[d] = [object |-> o, pos |-> 0]
      /\ \A e \in DOMAIN s.open : t.open[e] = s.open[e]
      /\ t.data = s.data /\ t.session = s.session
  BY <1>1 DEF With, Descriptor
<1>3. t.open \in [DOMAIN t.open -> Open]
  BY <1>1, <1>2, LargeObjectAssumption DEF With, Descriptor, ServerOK, Open
<1>4. Len(s.data[o]) \in Nat
  BY LenProperties DEF ServerOK
<1> HIDE DEF t
<1> QED
  <2>1. ServerOK(t)
    BY <1>1, <1>2, <1>3, <1>4 DEF ServerOK
  <2> QED
    BY <2>1, <1>2 DEF t

\* ifx_lo_create: the object is there, empty, and a descriptor is open on it.
CreatedIn(s, d, o) == [Opened(s, d, o) EXCEPT !.data = With(@, o, <<>>)]

LEMMA CreatedOK ==
    ASSUME NEW s, ServerOK(s), NEW d \in Descriptors, d \notin DOMAIN s.open,
           NEW o \in Objects, o \notin DOMAIN s.data
    PROVE  /\ ServerOK(CreatedIn(s, d, o))
           /\ DOMAIN CreatedIn(s, d, o).open = DOMAIN s.open \cup {d}
           /\ CreatedIn(s, d, o).open[d] = [object |-> o, pos |-> 0]
           /\ \A e \in DOMAIN s.open : CreatedIn(s, d, o).open[e] = s.open[e]
           /\ DOMAIN CreatedIn(s, d, o).data = DOMAIN s.data \cup {o}
           /\ CreatedIn(s, d, o).data[o] = <<>>
           /\ \A p \in DOMAIN s.data : CreatedIn(s, d, o).data[p] = s.data[p]
           /\ CreatedIn(s, d, o).session = s.session
<1> DEFINE t == CreatedIn(s, d, o)
<1>1. t = [session |-> s.session, open |-> With(s.open, d, Descriptor(o)),
           data |-> With(s.data, o, <<>>)]
  <2>1. Opened(s, d, o) = [session |-> s.session, open |-> With(s.open, d, Descriptor(o)),
                           data |-> s.data]
    BY DEF ServerOK, Opened
  <2> QED
    BY <2>1 DEF CreatedIn
<1>2. /\ DOMAIN t.open = DOMAIN s.open \cup {d}
      /\ t.open[d] = [object |-> o, pos |-> 0]
      /\ \A e \in DOMAIN s.open : t.open[e] = s.open[e]
      /\ t.session = s.session
  BY <1>1 DEF With, Descriptor
<1>3. /\ DOMAIN t.data = DOMAIN s.data \cup {o}
      /\ t.data[o] = <<>>
      /\ \A p \in DOMAIN s.data : t.data[p] = s.data[p]
  BY <1>1 DEF With
<1>4. t.open \in [DOMAIN t.open -> Open]
  BY <1>1, <1>2, LargeObjectAssumption DEF With, Descriptor, ServerOK, Open
<1>5. t.data \in [DOMAIN t.data -> Seq(1 .. MaxBytes)]
  <2>1. t.data = [p \in DOMAIN t.data |-> t.data[p]]
    BY <1>1 DEF With
  <2>2. <<>> \in Seq(1 .. MaxBytes)
    BY EmptySeq
  <2>3. \A p \in DOMAIN s.data : s.data[p] \in Seq(1 .. MaxBytes)
    BY DEF ServerOK
  <2> HIDE DEF t
  <2> QED
    BY <2>1, <2>2, <2>3, <1>3
<1> HIDE DEF t
<1>6. \A p \in DOMAIN t.data : Len(t.data[p]) <= MaxBytes
  BY <1>3, LargeObjectAssumption DEF ServerOK
<1> QED
  <2>1. ServerOK(t)
    <3>1. \A e \in DOMAIN t.open :
            t.open[e].object \in DOMAIN t.data /\ t.open[e].pos <= Len(t.data[t.open[e].object])
      BY <1>2, <1>3 DEF ServerOK
    <3> QED
      BY <1>1, <1>2, <1>3, <1>4, <1>5, <1>6, <3>1 DEF ServerOK
  <2> QED
    BY <2>1, <1>2, <1>3 DEF t

LEMMA ClosedOK ==
    ASSUME NEW s, ServerOK(s), NEW d
    PROVE  /\ ServerOK(ClosedAt(s, d))
           /\ DOMAIN ClosedAt(s, d).open = DOMAIN s.open \ {d}
           /\ \A e \in DOMAIN s.open \ {d} : ClosedAt(s, d).open[e] = s.open[e]
           /\ ClosedAt(s, d).data = s.data /\ ClosedAt(s, d).session = s.session
<1> DEFINE t == ClosedAt(s, d)
<1>1. t = [session |-> s.session, open |-> Without(s.open, d), data |-> s.data]
  BY DEF ServerOK, ClosedAt
<1>2. /\ DOMAIN t.open = DOMAIN s.open \ {d}
      /\ \A e \in DOMAIN s.open \ {d} : t.open[e] = s.open[e]
      /\ t.data = s.data /\ t.session = s.session
  BY <1>1 DEF Without
<1>3. t.open \in [DOMAIN t.open -> Open]
  BY <1>1, <1>2 DEF Without, ServerOK
<1> HIDE DEF t
<1>4. ServerOK(t)
  BY <1>1, <1>2, <1>3 DEF ServerOK
<1> QED
  BY <1>4, <1>2 DEF t

\* An object nothing is open on is released.
ReleasedIn(s, o) == [s EXCEPT !.data = Without(@, o)]

LEMMA ReleasedOK ==
    ASSUME NEW s, ServerOK(s), NEW o, \A d \in DOMAIN s.open : s.open[d].object # o
    PROVE  /\ ServerOK(ReleasedIn(s, o))
           /\ ReleasedIn(s, o).open = s.open
           /\ DOMAIN ReleasedIn(s, o).data = DOMAIN s.data \ {o}
           /\ \A p \in DOMAIN s.data \ {o} : ReleasedIn(s, o).data[p] = s.data[p]
           /\ ReleasedIn(s, o).session = s.session
<1> DEFINE t == ReleasedIn(s, o)
<1>1. t = [session |-> s.session, open |-> s.open, data |-> Without(s.data, o)]
  BY DEF ServerOK, ReleasedIn
<1>2. /\ t.open = s.open /\ t.session = s.session
      /\ DOMAIN t.data = DOMAIN s.data \ {o}
      /\ \A p \in DOMAIN s.data \ {o} : t.data[p] = s.data[p]
  BY <1>1 DEF Without
<1>3. t.data \in [DOMAIN t.data -> Seq(1 .. MaxBytes)]
  BY <1>1, <1>2 DEF Without, ServerOK
<1> HIDE DEF t
<1>4. ServerOK(t)
  BY <1>1, <1>2, <1>3 DEF ServerOK
<1> QED
  BY <1>4, <1>2 DEF t

LEMMA EndedOK ==
    ASSUME NEW s, ServerOK(s)
    PROVE  /\ ServerOK(SessionEnds(s))
           /\ DOMAIN SessionEnds(s).open = {}
           /\ SessionEnds(s).data = s.data
<1>1. DOMAIN <<>> = {} /\ <<>> \in [{} -> Open]
  OBVIOUS
<1>2. SessionEnds(s) = [session |-> s.session, open |-> <<>>, data |-> s.data]
  BY DEF ServerOK, SessionEnds
<1> QED
  BY <1>1, <1>2 DEF ServerOK

\* A descriptor moves within its object.
MovedIn(s, d, p) == [s EXCEPT !.open[d].pos = p]

LEMMA MovedOK ==
    ASSUME NEW s, ServerOK(s), NEW d \in DOMAIN s.open, NEW p \in Nat,
           p <= Len(s.data[s.open[d].object])
    PROVE  /\ ServerOK(MovedIn(s, d, p))
           /\ DOMAIN MovedIn(s, d, p).open = DOMAIN s.open
           /\ \A e \in DOMAIN s.open :
                 /\ MovedIn(s, d, p).open[e].object = s.open[e].object
                 /\ e # d => MovedIn(s, d, p).open[e] = s.open[e]
           /\ MovedIn(s, d, p).data = s.data /\ MovedIn(s, d, p).session = s.session
<1> DEFINE t == MovedIn(s, d, p)
           f == [s.open EXCEPT ![d].pos = p]
<1>1. t = [session |-> s.session, open |-> f, data |-> s.data]
  <2>1. s = [session |-> s.session, open |-> s.open, data |-> s.data]
    BY DEF ServerOK
  <2>2. [s EXCEPT !.open = f] = [session |-> s.session, open |-> f, data |-> s.data]
    BY <2>1
  <2>3. t = [s EXCEPT !.open = f]
    BY <2>1 DEF MovedIn
  <2> QED
    BY <2>2, <2>3
<1>2. /\ s.open[d] \in Open /\ s.data[s.open[d].object] \in Seq(1 .. MaxBytes)
      /\ Len(s.data[s.open[d].object]) <= MaxBytes
  BY DEF ServerOK
<1>3. p \in 0 .. MaxBytes
  BY <1>2, LenProperties, LargeObjectAssumption
<1>4. /\ DOMAIN f = DOMAIN s.open
      /\ \A e \in DOMAIN s.open : e # d => f[e] = s.open[e]
      /\ f[d] = [object |-> s.open[d].object, pos |-> p]
  BY <1>2 DEF ServerOK, Open
<1>5. f \in [DOMAIN f -> Open]
  BY <1>3, <1>4, <1>2 DEF ServerOK, Open
<1>6. t.open = f /\ t.data = s.data /\ t.session = s.session
  BY <1>1
<1> HIDE DEF t, f
<1>7. \A e \in DOMAIN f : f[e].object = s.open[e].object
  BY <1>4
<1>8. ServerOK(t)
  <2>1. \A e \in DOMAIN t.open :
          t.open[e].object \in DOMAIN t.data /\ t.open[e].pos <= Len(t.data[t.open[e].object])
    <3> SUFFICES ASSUME NEW e \in DOMAIN t.open
                 PROVE  /\ t.open[e].object \in DOMAIN t.data
                        /\ t.open[e].pos <= Len(t.data[t.open[e].object])
      OBVIOUS
    <3>1. /\ e \in DOMAIN s.open /\ t.open[e].object = s.open[e].object
          /\ s.open[e].object \in DOMAIN s.data
      BY <1>4, <1>6, <1>7 DEF ServerOK
    <3>2. t.open[e].pos <= Len(s.data[s.open[e].object])
      <4>1. CASE e = d
        BY <1>4, <1>6, <4>1
      <4>2. CASE e # d
        BY <1>4, <1>6, <4>2, <3>1 DEF ServerOK
      <4> QED
        BY <4>1, <4>2
    <3> QED
      BY <3>1, <3>2, <1>6
  <2> QED
    BY <1>1, <1>4, <1>5, <1>6, <2>1 DEF ServerOK
<1> QED
  BY <1>4, <1>6, <1>7, <1>8 DEF t

\* What an object holds once n bytes are written behind place p of it.
Overwritten(old, p, n) == SubSeq(old, 1, p) \o Supply(n) \o SubSeq(old, p + n + 1, Len(old))

LEMMA OverwrittenOK ==
    ASSUME NEW old \in Seq(1 .. MaxBytes), Len(old) <= MaxBytes, NEW p \in Nat, NEW n \in Nat,
           p <= Len(old), lob.confirmed \in Nat, p <= lob.confirmed,
           lob.confirmed + n <= MaxBytes
    PROVE  /\ Overwritten(old, p, n) \in Seq(1 .. MaxBytes)
           /\ Len(Overwritten(old, p, n)) = IF p + n >= Len(old) THEN p + n ELSE Len(old)
           /\ \A i \in 1 .. p : Overwritten(old, p, n)[i] = old[i]
           /\ \A i \in p + 1 .. p + n : Overwritten(old, p, n)[i] = lob.confirmed + (i - p)
<1> DEFINE a == SubSeq(old, 1, p)
           b == Supply(n)
           c == SubSeq(old, p + n + 1, Len(old))
           B == 1 .. MaxBytes
<1>0. MaxBytes \in Nat /\ Len(old) \in Nat
  BY LargeObjectAssumption, LenProperties
<1>1. \A i \in 1 .. Len(old) : old[i] \in B
  BY ElementOfSeq
<1>2. a \in Seq(B) /\ Len(a) = p /\ \A i \in 1 .. p : a[i] = old[i]
  <2>1. \A i \in 1 .. p : old[i] \in B
    BY <1>0, <1>1
  <2>2. /\ a \in Seq(B)
        /\ Len(a) = IF 1 <= p THEN p - 1 + 1 ELSE 0
        /\ \A i \in 1 .. p - 1 + 1 : a[i] = old[1 + i - 1]
    BY <2>1, SubSeqProperties
  <2> HIDE DEF a
  <2> QED
    BY <2>2
<1>3. b \in Seq(B) /\ Len(b) = n /\ \A i \in 1 .. n : b[i] = lob.confirmed + i
  BY <1>0 DEF Supply
<1>4. c \in Seq(B) /\ Len(c) = IF p + n + 1 <= Len(old) THEN Len(old) - (p + n + 1) + 1 ELSE 0
  <2>1. \A i \in p + n + 1 .. Len(old) : old[i] \in B
    BY <1>0, <1>1
  <2>2. p + n + 1 \in Int /\ Len(old) \in Int
    BY <1>0
  <2> QED
    BY <2>1, <2>2, SubSeqProperties
<1> HIDE DEF a, b, c
<1>5. /\ a \o b \in Seq(B) /\ Len(a \o b) = p + n
      /\ \A i \in 1 .. p + n : (a \o b)[i] = IF i <= p THEN a[i] ELSE b[i - p]
  BY <1>2, <1>3, ConcatProperties
<1> DEFINE ab == a \o b
<1> HIDE DEF ab
<1>6. /\ ab \o c \in Seq(B) /\ Len(ab \o c) = p + n + Len(c)
      /\ \A i \in 1 .. p + n + Len(c) :
            (ab \o c)[i] = IF i <= p + n THEN ab[i] ELSE c[i - (p + n)]
  <2>1. ab \in Seq(B) /\ Len(ab) = p + n
    BY <1>5 DEF ab
  <2>2. c \in Seq(B) /\ Len(c) \in Nat
    BY <1>4, LenProperties
  <2>3. /\ ab \o c \in Seq(B) /\ Len(ab \o c) = Len(ab) + Len(c)
        /\ \A i \in 1 .. Len(ab) + Len(c) :
              (ab \o c)[i] = IF i <= Len(ab) THEN ab[i] ELSE c[i - Len(ab)]
    BY <2>1, <2>2, ConcatProperties
  <2> DEFINE k == Len(ab)
             abc == ab \o c
  <2> HIDE DEF k, abc
  <2>4. /\ abc \in Seq(B) /\ Len(abc) = k + Len(c) /\ k = p + n
        /\ \A i \in 1 .. k + Len(c) : abc[i] = IF i <= k THEN ab[i] ELSE c[i - k]
    BY <2>1, <2>3 DEF k, abc
  <2>5. /\ abc \in Seq(B) /\ Len(abc) = p + n + Len(c)
        /\ \A i \in 1 .. p + n + Len(c) : abc[i] = IF i <= p + n THEN ab[i] ELSE c[i - (p + n)]
    BY <2>4
  <2> QED
    BY <2>5 DEF abc
<1>7. Overwritten(old, p, n) = ab \o c
  BY DEF Overwritten, ab, a, b, c
<1>8. Len(c) = IF p + n >= Len(old) THEN 0 ELSE Len(old) - (p + n)
  <2>1. Len(c) = IF p + n + 1 <= Len(old) THEN Len(old) - (p + n + 1) + 1 ELSE 0
    BY <1>4
  <2> QED
    BY <2>1, <1>0
<1>9. Len(c) \in Nat
  BY <1>0, <1>8
<1>10. \A i \in 1 .. p : (ab \o c)[i] = old[i]
  <2> SUFFICES ASSUME NEW i \in 1 .. p
               PROVE  (ab \o c)[i] = old[i]
    OBVIOUS
  <2>1. i \in 1 .. p + n /\ i \in 1 .. p + n + Len(c) /\ i <= p /\ i <= p + n
    BY <1>9
  <2>2. (ab \o c)[i] = ab[i]
    BY <2>1, <1>6
  <2>3. ab[i] = a[i]
    BY <2>1, <1>5 DEF ab
  <2> QED
    BY <2>2, <2>3, <1>2
<1>11. \A i \in p + 1 .. p + n : (ab \o c)[i] = lob.confirmed + (i - p)
  <2> SUFFICES ASSUME NEW i \in p + 1 .. p + n
               PROVE  (ab \o c)[i] = lob.confirmed + (i - p)
    OBVIOUS
  <2>1. i \in 1 .. p + n /\ i \in 1 .. p + n + Len(c) /\ ~(i <= p) /\ i <= p + n /\ i - p \in 1 .. n
    BY <1>9
  <2>2. (ab \o c)[i] = ab[i]
    BY <2>1, <1>6
  <2>3. ab[i] = b[i - p]
    BY <2>1, <1>5 DEF ab
  <2> QED
    BY <2>1, <2>2, <2>3, <1>3
<1>12. Len(ab \o c) = IF p + n >= Len(old) THEN p + n ELSE Len(old)
  <2>1. Len(ab \o c) = p + n + Len(c)
    BY <1>6
  <2>2. CASE p + n >= Len(old)
    <3>1. Len(c) = 0
      BY <1>8, <2>2
    <3> QED
      BY <2>1, <2>2, <3>1
  <2>3. CASE ~(p + n >= Len(old))
    <3>1. Len(c) = Len(old) - (p + n)
      BY <1>8, <2>3
    <3>2. Len(ab \o c) = Len(old)
      BY ONLY <1>0, <2>1, <3>1, p \in Nat, n \in Nat
    <3> QED
      BY <2>3, <3>2
  <2> QED
    BY <2>2, <2>3
<1> QED
  BY <1>6, <1>7, <1>10, <1>11, <1>12

\* The upload handle's descriptor is open: n bytes are written through it.
LEMMA StoredOK ==
    ASSUME ServerOK(server), lob.lofd \in DOMAIN server.open, lob.confirmed \in Nat,
           NEW n \in Nat, server.open[lob.lofd].pos <= lob.confirmed,
           lob.confirmed + n <= MaxBytes
    PROVE  LET o == server.open[lob.lofd].object
               p == server.open[lob.lofd].pos
           IN /\ ServerOK(Stored(n)) /\ Stored(n).session = server.session
              /\ DOMAIN Stored(n).open = DOMAIN server.open
              /\ \A e \in DOMAIN server.open : Stored(n).open[e].object = server.open[e].object
              /\ Stored(n).open[lob.lofd].pos = p + n
              /\ DOMAIN Stored(n).data = DOMAIN server.data
              /\ \A q \in DOMAIN server.data : q # o => Stored(n).data[q] = server.data[q]
              /\ Stored(n).data[o] = Overwritten(server.data[o], p, n)
<1> DEFINE d == lob.lofd
           o == server.open[d].object
           p == server.open[d].pos
           w == Overwritten(server.data[o], p, n)
           f == [server.open EXCEPT ![d].pos = p + n]
           g == [server.data EXCEPT ![o] = w]
           t == Stored(n)
<1>0. MaxBytes \in Nat
  BY LargeObjectAssumption
<1>1. server = [session |-> server.session, open |-> server.open, data |-> server.data]
  BY DEF ServerOK
<1>2. t = [session |-> server.session, open |-> f, data |-> g]
  <2>1. t = [[server EXCEPT !.open = f] EXCEPT !.data = g]
    BY <1>1 DEF Stored, Overwritten
  <2>2. [server EXCEPT !.open = f] = [session |-> server.session, open |-> f, data |-> server.data]
    BY <1>1
  <2> HIDE DEF f, g, t
  <2> QED
    BY <2>1, <2>2
<1>3. t.session = server.session /\ t.open = f /\ t.data = g
  BY <1>2
<1>4. /\ server.open[d] \in Open /\ o \in DOMAIN server.data /\ p \in 0 .. MaxBytes
      /\ server.data[o] \in Seq(1 .. MaxBytes)
      /\ Len(server.data[o]) <= MaxBytes /\ p <= Len(server.data[o])
  BY DEF ServerOK, Open
<1>5. Len(server.data[o]) \in Nat
  BY <1>4, LenProperties
<1>6. /\ w \in Seq(1 .. MaxBytes)
      /\ Len(w) = IF p + n >= Len(server.data[o]) THEN p + n ELSE Len(server.data[o])
  <2>1. p \in Nat /\ p <= lob.confirmed
    BY <1>0, <1>4
  <2> HIDE DEF o, p
  <2>2. server.data[o] \in Seq(1 .. MaxBytes) /\ Len(server.data[o]) <= MaxBytes /\ p <= Len(server.data[o])
    BY <1>4
  <2> QED
    BY <2>1, <2>2, OverwrittenOK
<1>7. /\ DOMAIN f = DOMAIN server.open
      /\ \A e \in DOMAIN server.open : e # d => f[e] = server.open[e]
      /\ f[d] = [object |-> o, pos |-> p + n]
  BY <1>4 DEF ServerOK, Open
<1>8. /\ DOMAIN g = DOMAIN server.data
      /\ \A q \in DOMAIN server.data : q # o => g[q] = server.data[q]
      /\ g[o] = w
  BY <1>4 DEF ServerOK
<1>9. p + n \in 0 .. MaxBytes
  BY <1>0, <1>4
<1>10. f \in [DOMAIN f -> Open]
  BY <1>7, <1>9, <1>4 DEF ServerOK, Open
<1>11. g \in [DOMAIN g -> Seq(1 .. MaxBytes)]
  BY <1>8, <1>6 DEF ServerOK
<1>12. \A e \in DOMAIN f : f[e].object = server.open[e].object
  BY <1>7
<1> HIDE DEF f, g, w, t
<1>13. \A q \in DOMAIN g : Len(g[q]) <= MaxBytes /\ Len(g[q]) >= Len(server.data[q])
  <2> SUFFICES ASSUME NEW q \in DOMAIN g
               PROVE  Len(g[q]) <= MaxBytes /\ Len(g[q]) >= Len(server.data[q])
    OBVIOUS
  <2>1. CASE q = o
    BY <2>1, <1>4, <1>5, <1>6, <1>8, <1>9
  <2>2. CASE q # o
    <3>1. g[q] = server.data[q] /\ q \in DOMAIN server.data
      BY <2>2, <1>8
    <3>2. Len(server.data[q]) \in Nat /\ Len(server.data[q]) <= MaxBytes
      BY <3>1, LenProperties DEF ServerOK
    <3> QED
      BY <3>1, <3>2
  <2> QED
    BY <2>1, <2>2
<1>14. \A e \in DOMAIN f : f[e].object \in DOMAIN g /\ f[e].pos <= Len(g[f[e].object])
  <2> SUFFICES ASSUME NEW e \in DOMAIN f
               PROVE  f[e].object \in DOMAIN g /\ f[e].pos <= Len(g[f[e].object])
    OBVIOUS
  <2>1. e \in DOMAIN server.open /\ f[e].object = server.open[e].object
        /\ server.open[e].object \in DOMAIN g
    BY <1>7, <1>8, <1>12 DEF ServerOK
  <2>2. CASE e = d
    BY <2>1, <2>2, <1>4, <1>5, <1>6, <1>7, <1>8
  <2>3. CASE e # d
    <3>1. f[e] = server.open[e] /\ server.open[e].pos <= Len(server.data[f[e].object])
      BY <2>1, <2>3, <1>7 DEF ServerOK
    <3>2. Len(g[f[e].object]) >= Len(server.data[f[e].object])
      BY <2>1, <1>13
    <3>3. server.open[e].pos \in Int
      BY <2>1 DEF ServerOK, Open
    <3>4. Len(server.data[f[e].object]) \in Int /\ Len(g[f[e].object]) \in Int
      BY <2>1, <1>8, <1>11, LenProperties DEF ServerOK
    <3> QED
      BY <3>1, <3>2, <3>3, <3>4, <2>1
  <2> QED
    BY <2>2, <2>3
<1>15. ServerOK(t)
  BY <1>2, <1>3, <1>7, <1>8, <1>10, <1>11, <1>13, <1>14 DEF ServerOK
<1> QED
  BY <1>3, <1>7, <1>8, <1>12, <1>15 DEF t, w

---------------------------------------------------------------------------
(* Replies to a write.                                                     *)

Marks == {"EOT", "DONE", "LEN", "ERR", "OTHER", "LODATA"}
Tokens == [t: Marks, n: Int]

\* Nothing is skipped of a reply that does not begin with SQ_EOT.
LEMMA NoLeadingEot ==
    ASSUME NEW S, NEW in \in Seq(S), in # <<>>, in[1].t # "EOT"
    PROVE  AfterEots(in) = in
<1>1. Len(in) \in Nat \ {0} /\ DOMAIN in = 1 .. Len(in)
  BY EmptySeq, LenProperties
<1> DEFINE I == {i \in 1 .. Len(in) : in[i].t # "EOT"}
<1>2. 1 \in I /\ \A i \in I : i \in Int /\ 1 <= i
  BY <1>1
<1>3. SelectInSeq(in, LAMBDA k : k.t # "EOT") = IF I # {} THEN Min(I) ELSE 0
  BY DEF SelectInSeq
<1>4. Min(I) = 1
  <2>1. Min(I) = CHOOSE x \in I : \A y \in I : x <= y
    BY DEF Min
  <2> HIDE DEF I
  <2>2. \A x \in I : (\A y \in I : x <= y) => x = 1
    BY <1>2
  <2> QED
    BY <2>1, <2>2, <1>2
<1>5. SelectInSeq(in, LAMBDA k : k.t # "EOT") = 1
  BY <1>2, <1>3, <1>4
<1>6. SubSeq(in, 1, Len(in)) = in
  BY SubSeqFull
<1>7. ~ \A i \in DOMAIN in : in[i].t = "EOT"
  BY <1>1
<1> QED
  BY <1>5, <1>6, <1>7 DEF AfterEots

\* What arrives of a reply is nothing or begins as the reply does.
LEMMA ArrivingHead ==
    ASSUME NEW R, \A q \in R : q \in Seq(Tokens) /\ q # <<>>,
           NEW r \in Arriving(R)
    PROVE  \/ r = <<>>
           \/ r \in Seq(Tokens) /\ r # <<>> /\ \E q \in R : r[1] = q[1]
<1>1. CASE r \in R
  BY <1>1
<1>2. CASE r \notin R
  <2>1. PICK q \in R : r \in {SubSeq(q, 1, k) : k \in 0 .. Len(q) - 1}
    BY <1>2 DEF Arriving
  <2>2. PICK k \in 0 .. Len(q) - 1 : r = SubSeq(q, 1, k)
    BY <2>1
  <2>3. q \in Seq(Tokens) /\ Len(q) \in Nat
    BY LenProperties
  <2>4. CASE k = 0
    BY <2>2, <2>4, SubSeqEmpty
  <2>5. CASE k # 0
    <3>1. \A i \in 1 .. k : q[i] \in Tokens
      BY <2>3, ElementOfSeq
    <3>2. k \in Int /\ 1 <= k
      BY <2>3, <2>5
    <3>3. /\ SubSeq(q, 1, k) \in Seq(Tokens)
          /\ Len(SubSeq(q, 1, k)) = k - 1 + 1
          /\ \A i \in 1 .. k - 1 + 1 : SubSeq(q, 1, k)[i] = q[1 + i - 1]
      BY <3>1, <3>2, SubSeqProperties
    <3>4. r \in Seq(Tokens) /\ Len(r) = k /\ r[1] = q[1]
      BY <3>2, <3>3, <2>2
    <3>5. r # <<>>
      BY <3>2, <3>4, EmptySeq
    <3> QED
      BY <3>4, <3>5
  <2> QED
    BY <2>4, <2>5
<1> QED
  BY <1>1, <1>2

LEMMA DrainTailStatus ==
    ASSUME NEW in, NEW data
    PROVE  DrainTail(in, data).status \in {"OK", "IO_ERROR"}
  BY DEF DrainTail, Read

\* The replies that acknowledge a write of n bytes, and those that do not.
Acknowledged(n) == {<<Tok("LODATA", n)>> \o t : t \in Trailers}
Negative == Refusals \cup (IF "refuse" \in Faults
                           THEN {<<Tok("LODATA", -1), Tok("EOT", 0)>>} ELSE {})

LEMMA AcknowledgedHead ==
    ASSUME NEW n \in Nat, NEW q \in Acknowledged(n)
    PROVE  q \in Seq(Tokens) /\ q # <<>> /\ q[1] = Tok("LODATA", n)
<1>1. PICK t \in Trailers : q = <<Tok("LODATA", n)>> \o t
  BY DEF Acknowledged
<1>2. t \in Seq(Tokens)
  <2> DEFINE eot == Tok("EOT", 0)  done == Tok("DONE", 0)  zero == Tok("LEN", 0)
  <2>1. eot \in Tokens /\ done \in Tokens /\ zero \in Tokens
    BY DEF Tok, Tokens, Marks
  <2>2. t = <<eot>> \/ t = <<done, eot>> \/ t = <<zero, done, eot>>
    BY DEF Trailers
  <2> HIDE DEF eot, done, zero
  <2>3. CASE t = <<eot>>
    BY <2>1, <2>3
  <2>4. CASE t = <<done, eot>>
    BY <2>1, <2>4
  <2>5. CASE t = <<zero, done, eot>>
    BY <2>1, <2>5
  <2> QED
    BY <2>2, <2>3, <2>4, <2>5
<1>3. <<Tok("LODATA", n)>> \in Seq(Tokens) /\ Len(<<Tok("LODATA", n)>>) = 1
      /\ <<Tok("LODATA", n)>>[1] = Tok("LODATA", n)
  <2>1. Tok("LODATA", n) \in Tokens
    BY DEF Tok, Tokens, Marks
  <2> QED
    BY <2>1
<1>4. Len(t) \in Nat
  BY <1>2, LenProperties
<1>5. /\ <<Tok("LODATA", n)>> \o t \in Seq(Tokens)
      /\ Len(<<Tok("LODATA", n)>> \o t) = 1 + Len(t)
      /\ (<<Tok("LODATA", n)>> \o t)[1] = Tok("LODATA", n)
  <2> DEFINE h == <<Tok("LODATA", n)>>
  <2>1. h \in Seq(Tokens) /\ Len(h) = 1 /\ h[1] = Tok("LODATA", n)
    BY <1>3
  <2> HIDE DEF h
  <2>2. /\ h \o t \in Seq(Tokens)
        /\ Len(h \o t) = Len(h) + Len(t)
        /\ \A i \in 1 .. Len(h) + Len(t) : (h \o t)[i] = IF i <= Len(h) THEN h[i] ELSE t[i - Len(h)]
    BY <2>1, <1>2, ConcatProperties
  <2>3. (h \o t)[1] = h[1]
    BY <2>1, <2>2, <1>4
  <2>4. Len(h \o t) = 1 + Len(t)
    BY <2>1, <2>2
  <2> QED
    BY <2>1, <2>2, <2>3, <2>4 DEF h
<1> QED
  BY <1>1, <1>4, <1>5, EmptySeq

LEMMA NegativeHead ==
    ASSUME NEW q \in Negative
    PROVE  /\ q \in Seq(Tokens) /\ q # <<>>
           /\ q[1] \in {Tok("ERR", 0), Tok("OTHER", 0), Tok("LODATA", -1)}
<1>1. /\ Tok("EOT", 0) \in Tokens /\ Tok("ERR", 0) \in Tokens
      /\ Tok("OTHER", 0) \in Tokens /\ Tok("LODATA", -1) \in Tokens
  BY DEF Tok, Tokens, Marks
<1>2. \/ q = <<Tok("ERR", 0), Tok("EOT", 0)>> \/ q = <<Tok("OTHER", 0), Tok("EOT", 0)>>
      \/ q = <<Tok("LODATA", -1), Tok("EOT", 0)>>
  BY DEF Negative, Refusals
<1> DEFINE eot == Tok("EOT", 0)  err == Tok("ERR", 0)
           other == Tok("OTHER", 0)  nack == Tok("LODATA", -1)
<1> HIDE DEF eot, err, other, nack
<1>3. /\ eot \in Tokens /\ err \in Tokens /\ other \in Tokens /\ nack \in Tokens
      /\ q = <<err, eot>> \/ q = <<other, eot>> \/ q = <<nack, eot>>
  BY <1>1, <1>2 DEF eot, err, other, nack
<1>4. q \in Seq(Tokens) /\ q # <<>> /\ q[1] \in {err, other, nack}
  <2>1. CASE q = <<err, eot>>
    BY <1>3, <2>1
  <2>2. CASE q = <<other, eot>>
    BY <1>3, <2>2
  <2>3. CASE q = <<nack, eot>>
    BY <1>3, <2>3
  <2> QED
    BY <1>3, <2>1, <2>2, <2>3
<1> QED
  BY <1>4 DEF err, other, nack

\* An acknowledgement is taken for one, or the link breaks.
LEMMA AcknowledgedStatus ==
    ASSUME NEW n \in Nat, NEW r \in Arriving(Acknowledged(n))
    PROVE  WriteReply(r).status \in {"OK", "IO_ERROR"}
<1>1. \/ r = <<>>
      \/ r \in Seq(Tokens) /\ r # <<>> /\ \E q \in Acknowledged(n) : r[1] = q[1]
  BY AcknowledgedHead, ArrivingHead
<1>2. CASE r = <<>>
  <2>1. AfterEots(r) = <<>>
    BY <1>2 DEF AfterEots
  <2> QED
    BY <2>1 DEF WriteReply, Read
<1>3. CASE r # <<>>
  <2>1. r \in Seq(Tokens) /\ r[1] = Tok("LODATA", n)
    BY <1>1, <1>3, AcknowledgedHead
  <2>5. r[1].t = "LODATA" /\ r[1].n = n
    BY <2>1 DEF Tok
  <2>2. AfterEots(r) = r
    BY <2>1, <2>5, <1>3, NoLeadingEot
  <2>3. WriteReply(r) = DrainTail(Tail(r), <<>>)
    BY <2>5, <2>2, <1>3 DEF WriteReply
  <2> QED
    BY <2>3, DrainTailStatus
<1> QED
  BY <1>2, <1>3

\* An answer that acknowledges nothing is not taken for an acknowledgement.
LEMMA NegativeStatus ==
    ASSUME NEW r \in Arriving(Negative)
    PROVE  WriteReply(r).status # "OK"
<1>1. \/ r = <<>>
      \/ r \in Seq(Tokens) /\ r # <<>> /\ \E q \in Negative : r[1] = q[1]
  BY NegativeHead, ArrivingHead
<1>2. CASE r = <<>>
  <2>1. AfterEots(r) = <<>>
    BY <1>2 DEF AfterEots
  <2> QED
    BY <2>1 DEF WriteReply, Read
<1>3. CASE r # <<>>
  <2>1. /\ r \in Seq(Tokens)
        /\ \/ r[1].t = "ERR" \/ r[1].t = "OTHER"
           \/ r[1].t = "LODATA" /\ r[1].n = -1
    BY <1>1, <1>3, NegativeHead DEF Tok
  <2>2. AfterEots(r) = r
    BY <2>1, <1>3, NoLeadingEot
  <2>3. CASE r[1].t = "ERR"
    BY <2>2, <2>3, <1>3 DEF WriteReply, TakeError, Read
  <2>4. CASE r[1].t = "OTHER"
    BY <2>2, <2>4, <1>3 DEF WriteReply, Read
  <2>5. CASE r[1].t = "LODATA" /\ r[1].n = -1
    <3> DEFINE done == DrainTail(Tail(r), <<>>)
    <3>1. WriteReply(r) = IF done.status = "OK" /\ r[1].n < 0 THEN [done EXCEPT !.status = "ERR"]
                          ELSE done
      BY <2>2, <2>5, <1>3 DEF WriteReply
    <3>2. done = [status |-> done.status, data |-> done.data, left |-> done.left]
      BY DEF DrainTail, Read
    <3> HIDE DEF done
    <3>3. [done EXCEPT !.status = "ERR"].status = "ERR"
      BY <3>2
    <3> QED
      BY <3>1, <3>3, <2>5
  <2> QED
    BY <2>1, <2>3, <2>4, <2>5
<1> QED
  BY <1>2, <1>3

\* A write that is reported is stored as a whole, one that is refused leaves the
\* object alone, and any other breaks the session.
LEMMA WritesFacts ==
    ASSUME NEW n \in Nat \ {0}, NEW w \in Writes(n)
    PROVE  \/ w.status = "OK" /\ w.server = Stored(Least(n, MaxInt32))
           \/ w.status # "OK" /\ w.server = server
           \/ w.status = "IO_ERROR" /\ \E k \in 0 .. n : w.server = Stored(k)
<1> DEFINE announced == Least(n, MaxInt32)
<1>1. announced \in 0 .. n
  BY LargeObjectAssumption DEF Least
<1>2. \/ \E r \in Arriving(Acknowledged(announced)) :
            w = [status |-> WriteReply(r).status, server |-> Stored(announced)]
      \/ \E r \in Arriving(Negative) : w = [status |-> WriteReply(r).status, server |-> server]
      \/ \E k \in 0 .. announced - 1 : w = [status |-> "IO_ERROR", server |-> Stored(k)]
  BY DEF Writes, Acknowledged, Negative
<1> HIDE DEF announced
<1>3. CASE \E r \in Arriving(Acknowledged(announced)) :
            w = [status |-> WriteReply(r).status, server |-> Stored(announced)]
  <2>1. announced \in Nat
    BY <1>1
  <2>2. w.status \in {"OK", "IO_ERROR"} /\ w.server = Stored(announced)
    BY <1>3, <2>1, AcknowledgedStatus
  <2> QED
    BY <2>2, <1>1 DEF announced
<1>4. CASE \E r \in Arriving(Negative) : w = [status |-> WriteReply(r).status, server |-> server]
  BY <1>4, NegativeStatus
<1>5. CASE \E k \in 0 .. announced - 1 : w = [status |-> "IO_ERROR", server |-> Stored(k)]
  BY <1>5, <1>1
<1> QED
  BY <1>2, <1>3, <1>4, <1>5

---------------------------------------------------------------------------
(* The inductive invariant.                                                *)

\* What TypeOK says of the library's own state.
Types ==
    /\ conn \in [state: {"READY", "CLOSED", "ERROR"}, discarded: BOOLEAN, routine: 0 .. MaxSessions]
    /\ lob \in [exists: BOOLEAN, lofd: {-1} \cup Descriptors, locator: {0} \cup Objects,
                open: BOOLEAN, confirmed: 0 .. MaxBytes]
    /\ reader \in [exists: BOOLEAN, descriptor: {-1} \cup Descriptors,
                   object: {0} \cup Objects, open: BOOLEAN]
    /\ stream \in [on: BOOLEAN, total: 0 .. MaxBytes]
    /\ suspect \in BOOLEAN /\ last.exact \in BOOLEAN /\ lost \subseteq Descriptors

\* The routine handle is the session's own and nothing is open without a connection.
Connected ==
    /\ conn.routine \in {0, server.session}
    /\ conn.discarded => conn.state = "ERROR"
    /\ conn.state # "READY" => DOMAIN server.open = {} /\ lost = {} /\ conn.routine = 0

\* Handles that are open exist and name what they were opened for.
Handles ==
    /\ ~lob.exists => lob = NoLob
    /\ lob.open => lob.exists /\ lob.lofd \in Descriptors /\ lob.locator \in Objects
    /\ reader.open => reader.exists /\ reader.descriptor \in Descriptors /\ reader.object \in Objects

\* A stream writes through an open handle in a sound session and counts no more than
\* the handle has had confirmed.
Streaming == stream.on =>
    conn.state = "READY" /\ ~suspect /\ LobOpen /\ stream.total <= lob.confirmed

Sound == conn.state = "READY" /\ ~suspect

\* The object of a handle exists, and the handle's descriptor stands no further than
\* what has been confirmed.
Located ==
    /\ ~suspect /\ lob.locator # 0 => lob.locator \in DOMAIN server.data
    /\ Sound /\ lob.open => server.open[lob.lofd].pos <= lob.confirmed

Inv == Types /\ ServerOK(server) /\ Connected /\ Handles /\ Streaming /\ Located /\ DescriptorsKnown

LEMMA InvTypeOK == Inv => TypeOK
<1> SUFFICES ASSUME Inv PROVE TypeOK
  OBVIOUS
<1>1. \A d \in DOMAIN server.open : d \in Descriptors /\ server.open[d].object \in Objects
                                     /\ server.open[d].pos \in 0 .. MaxBytes
  BY DEF Inv, ServerOK, Open
<1>2. \A o \in DOMAIN server.data : o \in Objects /\ server.data[o] \in Seq(1 .. MaxBytes)
  BY DEF Inv, ServerOK
<1>3. server.session \in 1 .. MaxSessions
  BY DEF Inv, ServerOK
<1> QED
  BY <1>1, <1>2, <1>3 DEF Inv, Types, TypeOK

LEMMA InitInv == Init => Inv
<1> SUFFICES ASSUME Init PROVE Inv
  OBVIOUS
<1>1. DOMAIN <<>> = {} /\ <<>> \in [{} -> Open] /\ <<>> \in [{} -> Seq(1 .. MaxBytes)]
  OBVIOUS
<1>2. server.open = <<>> /\ server.data = <<>> /\ server.session = 1
      /\ server = [session |-> server.session, open |-> server.open, data |-> server.data]
  BY DEF Init
<1>3. ServerOK(server)
  BY <1>1, <1>2, LargeObjectAssumption DEF ServerOK
<1>4. Types
  <2>1. 0 \in 0 .. MaxSessions /\ 0 \in 0 .. MaxBytes
    BY LargeObjectAssumption
  <2>2. conn \in [state: {"READY", "CLOSED", "ERROR"}, discarded: BOOLEAN, routine: 0 .. MaxSessions]
    BY <2>1 DEF Init
  <2>3. lob \in [exists: BOOLEAN, lofd: {-1} \cup Descriptors, locator: {0} \cup Objects,
                 open: BOOLEAN, confirmed: 0 .. MaxBytes]
    BY <2>1 DEF Init, NoLob
  <2>4. reader \in [exists: BOOLEAN, descriptor: {-1} \cup Descriptors,
                    object: {0} \cup Objects, open: BOOLEAN]
    BY DEF Init, NoReader
  <2>5. stream \in [on: BOOLEAN, total: 0 .. MaxBytes]
    BY <2>1 DEF Init, Idle
  <2> QED
    BY <2>2, <2>3, <2>4, <2>5 DEF Init, Types, Quiet
<1>5. Connected /\ Handles /\ Streaming /\ Located
  BY <1>1, <1>2 DEF Init, Connected, Handles, Streaming, Located, Sound, NoLob, NoReader, Idle
<1>6. DescriptorsKnown
  BY <1>1, <1>2 DEF Init, DescriptorsKnown, NoLob, NoReader
<1> QED
  BY <1>3, <1>4, <1>5, <1>6 DEF Inv

LEMMA OutcomeFacts ==
    ASSUME NEW status, Outcome(status), suspect \in BOOLEAN
    PROVE  /\ suspect' \in BOOLEAN /\ last'.exact \in BOOLEAN
           /\ suspect => suspect'
           /\ Failed(status) => suspect'
           /\ ~Failed(status) => suspect' = suspect
  BY DEF Outcome, Quiet, Failed

\* A query that is reported as done was executed, one that is refused was not, and
\* the link breaks otherwise.
LEMMA QueryFacts ==
    ASSUME NEW q \in QueryResults
    PROVE  /\ q.done \in BOOLEAN
           /\ \/ q.status = "OK" /\ q.done
              \/ q.status = "ERR" /\ ~q.done
              \/ q.status = "IO_ERROR" /\ Failed(q.status)
           /\ ~Failed("OK") /\ ~Failed("ERR") /\ ~Failed("INVALID_STATE")
<1>1. \/ q = [status |-> "OK", done |-> TRUE] \/ q = [status |-> "ERR", done |-> FALSE]
      \/ q \in [status: {"IO_ERROR"}, done: BOOLEAN]
  BY DEF QueryResults
<1>2. /\ q.done \in BOOLEAN
      /\ \/ q.status = "OK" /\ q.done
         \/ q.status = "ERR" /\ ~q.done
         \/ q.status = "IO_ERROR"
  <2>1. CASE q = [status |-> "OK", done |-> TRUE]
    <3>1. q.status = "OK" /\ q.done = TRUE
      BY <2>1
    <3> QED
      BY <3>1
  <2>2. CASE q = [status |-> "ERR", done |-> FALSE]
    <3>1. q.status = "ERR" /\ q.done = FALSE
      BY <2>2
    <3> QED
      BY <3>1
  <2>3. CASE q \in [status: {"IO_ERROR"}, done: BOOLEAN]
    <3>1. q.status = "IO_ERROR" /\ q.done \in BOOLEAN
      BY <2>3
    <3> QED
      BY <3>1
  <2> QED
    BY <1>1, <2>1, <2>2, <2>3
<1> QED
  BY <1>2 DEF Failed

\* A call that leaves the handles and the server as they are.
Untouched == UNCHANGED <<conn, server, lob, reader, lost>>

LEMMA UntouchedInv ==
    ASSUME Inv, Untouched, suspect => suspect', suspect' \in BOOLEAN, last'.exact \in BOOLEAN,
           stream' \in [on: BOOLEAN, total: 0 .. MaxBytes], Streaming'
    PROVE  Inv'
<1>1. Types'
  BY DEF Inv, Types, Untouched
<1>2. ServerOK(server)'
  BY DEF Inv, Untouched, ServerOK
<1>3. Connected' /\ Handles'
  BY DEF Inv, Connected, Handles, Untouched, NoLob
<1>4. Located'
  BY DEF Inv, Located, Sound, Untouched
<1>5. DescriptorsKnown'
  BY DEF Inv, DescriptorsKnown, Untouched
<1> QED
  BY <1>1, <1>2, <1>3, <1>4, <1>5 DEF Inv

---------------------------------------------------------------------------
(* The calls.                                                              *)

LEMMA StreamEndsInv ==
    ASSUME Inv, StartStream \/ StreamEnd \/ Unready
    PROVE  Inv'
<1>0. Types /\ suspect \in BOOLEAN /\ 0 \in 0 .. MaxBytes
  BY LargeObjectAssumption DEF Inv, Types
<1>1. CASE StartStream
  <2>1. suspect' = suspect /\ suspect' \in BOOLEAN /\ last'.exact \in BOOLEAN /\ Untouched
        /\ stream' = [on |-> TRUE, total |-> 0]
    BY <1>0, <1>1, OutcomeFacts DEF StartStream, Untouched, Failed
  <2>2. Streaming'
    BY <1>0, <1>1, <2>1 DEF StartStream, Streaming, Ready, Untouched, LobOpen, Types
  <2>3. stream' \in [on: BOOLEAN, total: 0 .. MaxBytes]
    BY <1>0, <2>1
  <2> QED
    BY <2>1, <2>2, <2>3, UntouchedInv
<1>2. CASE StreamEnd
  <2>1. suspect' = suspect /\ suspect' \in BOOLEAN /\ last'.exact \in BOOLEAN /\ Untouched
    BY <1>0, <1>2, OutcomeFacts DEF StreamEnd, Untouched, Failed
  <2>2. stream' \in [on: BOOLEAN, total: 0 .. MaxBytes] /\ ~stream'.on
    BY <1>0, <1>2 DEF StreamEnd, Types
  <2> QED
    BY <2>1, <2>2, UntouchedInv DEF Streaming
<1>3. CASE Unready
  <2>1. suspect' = suspect /\ suspect' \in BOOLEAN /\ last'.exact \in BOOLEAN /\ Untouched
    BY <1>0, <1>3, OutcomeFacts DEF Unready, Untouched, Failed
  <2>2. stream' \in [on: BOOLEAN, total: 0 .. MaxBytes] /\ ~stream'.on
    BY <1>0, <1>3 DEF Unready, Types
  <2> QED
    BY <2>1, <2>2, UntouchedInv DEF Streaming
<1> QED
  BY <1>1, <1>2, <1>3

\* The connection goes: its descriptors and its routine handle go with it.
LEMMA DisconnectInv ==
    ASSUME Inv, Discard \/ Close
    PROVE  Inv'
<1>0. Types /\ ServerOK(server) /\ 0 \in 0 .. MaxSessions
  BY LargeObjectAssumption DEF Inv
<1>1. /\ server' = SessionEnds(server) /\ lost' = {} /\ Outcome("OK")
      /\ conn'.state # "READY" /\ conn'.routine = 0
      /\ conn'.discarded => conn'.state = "ERROR"
      /\ conn' \in [state: {"READY", "CLOSED", "ERROR"}, discarded: BOOLEAN, routine: 0 .. MaxSessions]
      /\ UNCHANGED <<lob, reader, stream>> /\ ~stream.on
  <2>1. CASE Discard
    <3>1. conn' = [state |-> "ERROR", discarded |-> TRUE, routine |-> 0]
      BY <2>1 DEF Discard, RoutineAfterClose
    <3>2. /\ conn'.state = "ERROR" /\ conn'.routine = 0
          /\ conn' \in [state: {"READY", "CLOSED", "ERROR"}, discarded: BOOLEAN,
                        routine: 0 .. MaxSessions]
      BY <1>0, <3>1
    <3> QED
      BY <2>1, <3>2 DEF Discard
  <2>2. CASE Close
    <3>1. conn' = [state |-> "CLOSED", discarded |-> conn.discarded, routine |-> 0]
      BY <1>0, <2>2 DEF Close, RoutineAfterClose, Types
    <3>2. /\ conn'.state = "CLOSED" /\ conn'.routine = 0 /\ conn'.discarded = conn.discarded
          /\ conn' \in [state: {"READY", "CLOSED", "ERROR"}, discarded: BOOLEAN,
                        routine: 0 .. MaxSessions]
      BY <1>0, <3>1 DEF Types
    <3>3. ~conn.discarded
      BY <2>2 DEF Inv, Connected, Close
    <3> QED
      BY <2>2, <3>2, <3>3 DEF Close
  <2> QED
    BY <2>1, <2>2
<1>2. suspect' = suspect /\ suspect' \in BOOLEAN /\ last'.exact \in BOOLEAN
  BY <1>0, <1>1, OutcomeFacts DEF Failed, Types
<1>3. ServerOK(server') /\ DOMAIN server'.open = {} /\ server'.data = server.data
  BY <1>0, <1>1, EndedOK
<1>4. ServerOK(server)'
  BY <1>3 DEF ServerOK
<1>5. Types'
  BY <1>0, <1>1, <1>2 DEF Types
<1>6. Connected' /\ Handles' /\ Streaming' /\ Located' /\ DescriptorsKnown'
  BY <1>1, <1>2, <1>3 DEF Inv, Connected, Handles, Streaming, Located, Sound, DescriptorsKnown, NoLob
<1> QED
  BY <1>4, <1>5, <1>6 DEF Inv

LEMMA ReconnectInv ==
    ASSUME Inv, Reconnect
    PROVE  Inv'
<1>0. Types /\ ServerOK(server)
  BY DEF Inv
<1>1. /\ server.session \in 1 .. MaxSessions /\ server.session + 1 \in 1 .. MaxSessions
      /\ server = [session |-> server.session, open |-> server.open, data |-> server.data]
      /\ server' = [server EXCEPT !.session = @ + 1]
  BY <1>0, LargeObjectAssumption DEF Reconnect, ServerOK
<1>2. server' = [session |-> server.session + 1, open |-> server.open, data |-> server.data]
  BY <1>1
<1>3. ServerOK(server)'
  BY <1>0, <1>1, <1>2 DEF ServerOK
<1>4. Types'
  BY <1>0 DEF Types, Reconnect, Quiet
<1>5. /\ ~lob.exists /\ ~reader.exists /\ conn.state = "CLOSED" /\ ~lob.open /\ ~reader.open
      /\ lob.locator = 0 /\ DOMAIN server.open = {} /\ lost = {} /\ conn.routine = 0
      /\ UNCHANGED <<lob, reader, stream, lost>> /\ conn'.routine = conn.routine
      /\ conn'.discarded = conn.discarded /\ conn'.state = "READY"
  BY <1>0 DEF Inv, Handles, Connected, Reconnect, NoLob, Types
<1>6. ~stream.on /\ server'.open = server.open
  BY <1>0, <1>2, <1>5 DEF Inv, Streaming
<1>7. ~conn.discarded
  BY DEF Inv, Connected, Reconnect
<1>8. Connected' /\ Handles' /\ Streaming' /\ Located' /\ DescriptorsKnown'
  BY <1>5, <1>6, <1>7 DEF Inv, Connected, Handles, Streaming, Located, Sound, DescriptorsKnown, NoLob
<1> QED
  BY <1>3, <1>4, <1>8 DEF Inv

LEMMA DestroyInv ==
    ASSUME Inv, DestroyLob \/ ReaderDestroy
    PROVE  Inv'
<1>0. Types /\ ServerOK(server)
  BY DEF Inv
<1>1. /\ Outcome("OK") /\ UNCHANGED <<conn, server, stream, lost>> /\ ~stream.on
      /\ \/ lob' = NoLob /\ reader' = reader /\ (~lob.open \/ conn.state # "READY")
         \/ reader' = NoReader /\ lob' = lob /\ (~reader.open \/ conn.state # "READY")
  BY DEF DestroyLob, ReaderDestroy
<1>2. suspect' = suspect /\ suspect' \in BOOLEAN /\ last'.exact \in BOOLEAN
  BY <1>0, <1>1, OutcomeFacts DEF Failed, Types
<1>3. ServerOK(server)'
  BY <1>0, <1>1 DEF ServerOK
<1>4. 0 \in 0 .. MaxBytes
  BY LargeObjectAssumption
<1>5. Types'
  <2>1. NoLob \in [exists: BOOLEAN, lofd: {-1} \cup Descriptors, locator: {0} \cup Objects,
                   open: BOOLEAN, confirmed: 0 .. MaxBytes]
    BY <1>4 DEF NoLob
  <2>2. NoReader \in [exists: BOOLEAN, descriptor: {-1} \cup Descriptors,
                      object: {0} \cup Objects, open: BOOLEAN]
    BY DEF NoReader
  <2> QED
    BY <1>0, <1>1, <1>2, <2>1, <2>2 DEF Types
<1>6. Connected' /\ Handles' /\ Streaming'
  BY <1>1, <1>2 DEF Inv, Connected, Handles, Streaming, NoLob, NoReader
<1>7. Located'
  BY <1>1, <1>2 DEF Inv, Located, Sound, NoLob
<1>8. DescriptorsKnown'
  BY <1>1, <1>2 DEF Inv, DescriptorsKnown, NoLob, NoReader
<1> QED
  BY <1>3, <1>5, <1>6, <1>7, <1>8 DEF Inv

\* The upload handle forgets its descriptor: it is closed, or it is lost.
LEMMA CloseCreatedInv ==
    ASSUME Inv, CloseCreated
    PROVE  Inv'
<1>0. Types /\ ServerOK(server) /\ Handles /\ Connected /\ Located /\ DescriptorsKnown
      /\ ~stream.on /\ Sound /\ UNCHANGED <<conn, reader, stream>>
  BY DEF Inv, CloseCreated, Ready, Sound
<1>1. CASE ~lob.open
  <2>1. Outcome("OK") /\ UNCHANGED <<server, lob, lost>>
    BY <1>1 DEF CloseCreated
  <2>2. suspect' = suspect /\ suspect' \in BOOLEAN /\ last'.exact \in BOOLEAN
    BY <1>0, <2>1, OutcomeFacts DEF Failed, Types
  <2>3. Streaming' /\ stream' \in [on: BOOLEAN, total: 0 .. MaxBytes]
    BY <1>0 DEF Streaming, Types
  <2> QED
    BY <1>0, <2>1, <2>2, <2>3, UntouchedInv DEF Untouched
<1>2. CASE lob.open
  <2> DEFINE d == lob.lofd
  <2>1. lob' = [lob EXCEPT !.open = FALSE, !.lofd = -1]
    BY <1>2 DEF CloseCreated
  <2>2. PICK q \in QueryResults :
            CloseQuery(d, q) /\ lost' = IF q.done THEN lost ELSE lost \cup {d}
    BY <1>2 DEF CloseCreated
  <2>3. /\ lob' = [exists |-> lob.exists, lofd |-> -1, locator |-> lob.locator,
                   open |-> FALSE, confirmed |-> lob.confirmed]
    BY <1>0, <2>1 DEF Types
  <2>4. /\ lob'.exists = lob.exists /\ ~lob'.open /\ lob'.locator = lob.locator
        /\ lob' \in [exists: BOOLEAN, lofd: {-1} \cup Descriptors, locator: {0} \cup Objects,
                     open: BOOLEAN, confirmed: 0 .. MaxBytes]
    BY <1>0, <2>3 DEF Types
  <2>5. /\ ServerOK(server') /\ server'.data = server.data
        /\ DOMAIN server'.open = IF q.done THEN DOMAIN server.open \ {d} ELSE DOMAIN server.open
        /\ \A e \in DOMAIN server'.open : server'.open[e] = server.open[e]
        /\ server'.session = server.session
    <3>1. CASE q.done
      <4>1. server' = ClosedAt(server, d)
        BY <2>2, <3>1 DEF CloseQuery
      <4> QED
        BY <1>0, <3>1, <4>1, ClosedOK
    <3>2. CASE ~q.done
      BY <1>0, <2>2, <3>2 DEF CloseQuery
    <3> QED
      BY <3>1, <3>2
  <2>6. ServerOK(server)'
    BY <2>5 DEF ServerOK
  <2>7. suspect' \in BOOLEAN /\ last'.exact \in BOOLEAN
    BY <1>0, <2>2, OutcomeFacts DEF CloseQuery, Types
  <2>8. /\ d \in Descriptors /\ lob.exists /\ d \in DOMAIN server.open
        /\ DOMAIN server.open = {d} \cup lost \cup
              (IF reader.exists /\ reader.open THEN {reader.descriptor} ELSE {})
        /\ d \notin lost /\ (reader.open => reader.descriptor # d)
    BY <1>0, <1>2 DEF Handles, Sound, DescriptorsKnown
  <2>9. Types'
    BY <1>0, <2>2, <2>4, <2>7, <2>8 DEF Types
  <2>10. Connected' /\ Handles' /\ Streaming'
    BY <1>0, <2>4, <2>5, <2>8 DEF Connected, Handles, Streaming, Sound
  <2>11. Located'
    BY <1>0, <2>4, <2>5 DEF Located, Sound
  <2>12. DescriptorsKnown'
    BY <1>0, <1>2, <2>2, <2>4, <2>5, <2>8 DEF DescriptorsKnown, Sound, Handles
  <2> QED
    BY <2>6, <2>9, <2>10, <2>11, <2>12 DEF Inv
<1> QED
  BY <1>1, <1>2

\* A reader is closed, stays open when its close is refused, or breaks the session.
LEMMA ReaderCloseInv ==
    ASSUME Inv, ReaderClose
    PROVE  Inv'
<1>0. Types /\ ServerOK(server) /\ Handles /\ Connected /\ Located /\ DescriptorsKnown
      /\ ~stream.on /\ UNCHANGED <<conn, lob, stream, lost>>
  BY DEF Inv, ReaderClose
<1>1. Streaming' /\ stream' \in [on: BOOLEAN, total: 0 .. MaxBytes]
  BY <1>0 DEF Streaming, Types
<1> DEFINE gone == [reader EXCEPT !.open = FALSE, !.descriptor = -1]
           d    == reader.descriptor
<1>2. /\ gone.exists = reader.exists /\ ~gone.open
      /\ gone \in [exists: BOOLEAN, descriptor: {-1} \cup Descriptors,
                   object: {0} \cup Objects, open: BOOLEAN]
  <2>1. reader \in [exists: BOOLEAN, descriptor: {-1} \cup Descriptors,
                    object: {0} \cup Objects, open: BOOLEAN]
    BY <1>0 DEF Types
  <2>2. gone.exists = reader.exists /\ gone.open = FALSE
    BY <2>1
  <2>3. gone \in [exists: BOOLEAN, descriptor: {-1} \cup Descriptors,
                  object: {0} \cup Objects, open: BOOLEAN]
    BY <2>1
  <2> QED
    BY <2>2, <2>3
<1> HIDE DEF gone
<1>3. CASE ~reader.open
  <2>1. Outcome("OK") /\ UNCHANGED <<server, reader>>
    BY <1>3 DEF ReaderClose
  <2>2. suspect' = suspect /\ suspect' \in BOOLEAN /\ last'.exact \in BOOLEAN
    BY <1>0, <2>1, OutcomeFacts DEF Failed, Types
  <2> QED
    BY <1>0, <1>1, <2>1, <2>2, UntouchedInv DEF Untouched
<1>4. CASE reader.open /\ conn.discarded /\ Outcome("OK") /\ reader' = ReaderAfter("OK")
           /\ server' = server
  <2>1. reader' = gone
    BY <1>4 DEF ReaderAfter, gone
  <2>2. suspect' = suspect /\ suspect' \in BOOLEAN /\ last'.exact \in BOOLEAN
    BY <1>0, <1>4, OutcomeFacts DEF Failed, Types
  <2>3. Types'
    BY <1>0, <1>2, <2>1, <2>2 DEF Types
  <2>4. ServerOK(server)'
    BY <1>0, <1>4 DEF ServerOK
  <2>5. conn'.state # "READY"
    BY <1>0, <1>4 DEF Connected
  <2>6. Connected' /\ Handles' /\ Located' /\ DescriptorsKnown'
    BY <1>0, <1>4, <1>2, <2>1, <2>2, <2>5 DEF Connected, Handles, Located, Sound, DescriptorsKnown, NoLob
  <2> QED
    BY <1>1, <2>3, <2>4, <2>6 DEF Inv
<1>5. CASE /\ reader.open /\ Ready
           /\ \E q \in QueryResults : CloseQuery(d, q) /\ reader' = ReaderAfter(q.status)
  <2>1. PICK q \in QueryResults : CloseQuery(d, q) /\ reader' = ReaderAfter(q.status)
    BY <1>5
  <2>2. /\ ServerOK(server') /\ server'.data = server.data
        /\ DOMAIN server'.open = IF q.done THEN DOMAIN server.open \ {d} ELSE DOMAIN server.open
        /\ \A e \in DOMAIN server'.open : server'.open[e] = server.open[e]
        /\ server'.session = server.session
    <3>1. CASE q.done
      <4>1. server' = ClosedAt(server, d)
        BY <2>1, <3>1 DEF CloseQuery
      <4> QED
        BY <1>0, <3>1, <4>1, ClosedOK
    <3>2. CASE ~q.done
      BY <1>0, <2>1, <3>2 DEF CloseQuery
    <3> QED
      BY <3>1, <3>2
  <2>3. ServerOK(server)'
    BY <2>2 DEF ServerOK
  <2>4. suspect' \in BOOLEAN /\ last'.exact \in BOOLEAN /\ (Failed(q.status) => suspect')
    BY <1>0, <2>1, OutcomeFacts DEF CloseQuery, Types
  <2>5. reader' = gone \/ reader' = reader
    BY <2>1 DEF ReaderAfter, gone
  <2>6. Types'
    BY <1>0, <1>2, <2>4, <2>5 DEF Types
  <2>7. Sound
    BY <1>5 DEF Ready, Sound
  <2>8. Connected' /\ Handles'
    BY <1>0, <1>2, <2>2, <2>5, <2>7 DEF Connected, Handles, NoLob, Sound
  <2>9. /\ reader.exists /\ DOMAIN server.open = {d} \cup lost \cup
              (IF lob.exists /\ lob.open THEN {lob.lofd} ELSE {})
        /\ d \notin lost /\ (lob.open => lob.lofd # d /\ lob.lofd \in DOMAIN server.open)
    BY <1>0, <1>5, <2>7 DEF Handles, Sound, DescriptorsKnown
  <2>10. Located'
    <3>1. ~suspect /\ lob' = lob /\ conn' = conn
      BY <1>0, <2>7 DEF Sound
    <3>2. lob.locator # 0 => lob.locator \in DOMAIN server'.data
      BY <1>0, <2>2, <3>1 DEF Located
    <3>3. lob.open => server'.open[lob.lofd] = server.open[lob.lofd]
      BY <2>2, <2>9
    <3>4. lob.open => server.open[lob.lofd].pos <= lob.confirmed
      BY <1>0, <2>7 DEF Located
    <3> QED
      BY <3>1, <3>2, <3>3, <3>4 DEF Located
  <2>11. DescriptorsKnown'
    <3>1. CASE q.status = "OK" /\ q.done
      <4>1. reader' = gone
        BY <2>1, <3>1 DEF ReaderAfter, gone
      <4> QED
        BY <1>0, <1>2, <3>1, <4>1, <2>2, <2>9, <2>7 DEF DescriptorsKnown, Sound
    <3>2. CASE q.status = "ERR" /\ ~q.done
      <4>1. reader' = reader
        BY <2>1, <3>2 DEF ReaderAfter
      <4>2. server' = server
        BY <2>1, <3>2 DEF CloseQuery
      <4> QED
        BY <1>0, <4>1, <4>2, <2>7 DEF DescriptorsKnown, Sound
    <3>3. CASE Failed(q.status)
      BY <3>3, <2>4 DEF DescriptorsKnown
    <3> QED
      BY <3>1, <3>2, <3>3, QueryFacts
  <2> QED
    BY <1>1, <2>3, <2>6, <2>8, <2>10, <2>11 DEF Inv
<1> QED
  BY <1>3, <1>4, <1>5 DEF ReaderClose

\* A descriptor is opened for a reader, or is left open by an answer that is lost.
LEMMA ReaderOpenInv ==
    ASSUME Inv, ReaderOpen
    PROVE  Inv'
<1>0. Types /\ ServerOK(server) /\ Handles /\ Connected /\ Located /\ DescriptorsKnown
      /\ ~stream.on /\ Sound /\ UNCHANGED <<conn, lob, stream>> /\ ~reader.exists /\ ~reader.open
      /\ lob.exists
  BY DEF Inv, ReaderOpen, Ready, Sound, Handles
<1>1. Streaming' /\ stream' \in [on: BOOLEAN, total: 0 .. MaxBytes]
  BY <1>0 DEF Streaming, Types
<1>2. CASE lob.locator = 0 /\ Outcome("INVALID_STATE") /\ UNCHANGED <<server, reader, lost>>
  <2>1. suspect' = suspect /\ suspect' \in BOOLEAN /\ last'.exact \in BOOLEAN
    BY <1>0, <1>2, OutcomeFacts DEF Failed, Types
  <2> QED
    BY <1>0, <1>1, <1>2, <2>1, UntouchedInv DEF Untouched
<1>3. ASSUME lob.locator \in DOMAIN server.data,
             NEW q \in QueryResults,
             server' = IF q.done THEN Opened(server, NextUnused, lob.locator) ELSE server,
             reader' = IF q.status = "OK"
                       THEN [exists |-> TRUE, descriptor |-> NextUnused,
                             object |-> lob.locator, open |-> TRUE]
                       ELSE reader,
             lost' = IF q.done /\ q.status # "OK" THEN lost \cup {NextUnused} ELSE lost,
             Outcome(q.status)
      PROVE  Inv'
  <2> DEFINE d == NextUnused
  <2>1. d \in Descriptors /\ d \notin DOMAIN server.open /\ lob.locator \in Objects
    BY <1>0, <1>3, NextUnusedFree DEF ReaderOpen, ServerOK
  <2> HIDE DEF d
  <2>2. /\ ServerOK(server') /\ server'.data = server.data /\ server'.session = server.session
        /\ DOMAIN server'.open = IF q.done THEN DOMAIN server.open \cup {d} ELSE DOMAIN server.open
        /\ q.done => server'.open[d] = [object |-> lob.locator, pos |-> 0]
        /\ \A e \in DOMAIN server.open : server'.open[e] = server.open[e]
    <3>1. CASE q.done
      <4>1. server' = Opened(server, d, lob.locator)
        BY <1>3, <3>1 DEF d
      <4> QED
        BY <1>0, <1>3, <2>1, <3>1, <4>1, OpenedOK
    <3>2. CASE ~q.done
      BY <1>0, <1>3, <3>2
    <3> QED
      BY <3>1, <3>2
  <2>3. ServerOK(server)'
    BY <2>2 DEF ServerOK
  <2>4. suspect' \in BOOLEAN /\ last'.exact \in BOOLEAN /\ (Failed(q.status) => suspect')
    BY <1>0, <1>3, OutcomeFacts DEF Types
  <2>5. \/ reader' = reader
        \/ reader' = [exists |-> TRUE, descriptor |-> d, object |-> lob.locator, open |-> TRUE]
    BY <1>3 DEF d
  <2>6. lost' \subseteq lost \cup {d}
    BY <1>3 DEF d
  <2>7. Types'
    <3>1. [exists |-> TRUE, descriptor |-> d, object |-> lob.locator, open |-> TRUE]
          \in [exists: BOOLEAN, descriptor: {-1} \cup Descriptors,
               object: {0} \cup Objects, open: BOOLEAN]
      BY <2>1
    <3> QED
      BY <1>0, <2>1, <2>4, <2>5, <2>6, <3>1 DEF Types
  <2>8. Connected' /\ Handles'
    BY <1>0, <2>1, <2>2, <2>5 DEF Connected, Handles, NoLob, Sound
  <2>9. /\ DOMAIN server.open = lost \cup (IF lob.exists /\ lob.open THEN {lob.lofd} ELSE {})
        /\ lob.open => lob.lofd \notin lost /\ lob.lofd \in DOMAIN server.open
                       /\ server.open[lob.lofd].object = lob.locator
    BY <1>0 DEF Sound, DescriptorsKnown, Handles
  <2>10. Located'
    BY <1>0, <2>2, <2>9 DEF Located, Sound
  <2>11. DescriptorsKnown'
    <3>1. CASE q.status = "OK" /\ q.done
      <4>1. /\ reader' = [exists |-> TRUE, descriptor |-> d, object |-> lob.locator, open |-> TRUE]
            /\ lost' = lost
        BY <1>3, <3>1 DEF d
      <4> QED
        BY <1>0, <2>1, <2>2, <2>9, <3>1, <4>1 DEF DescriptorsKnown
    <3>2. CASE q.status = "ERR" /\ ~q.done
      <4>1. reader' = reader /\ server' = server /\ lost' = lost
        BY <1>3, <3>2
      <4> QED
        BY <1>0, <4>1 DEF DescriptorsKnown, Sound
    <3>3. CASE Failed(q.status)
      BY <3>3, <2>4 DEF DescriptorsKnown
    <3> QED
      BY <3>1, <3>2, <3>3, QueryFacts
  <2> QED
    BY <1>1, <2>3, <2>7, <2>8, <2>10, <2>11 DEF Inv
<1> QED
  BY <1>2, <1>3 DEF ReaderOpen

\* A descriptor that is opened and closed again, or is lost, leaves the handles as
\* they are.
LEMMA OpenedLostInv ==
    ASSUME Inv, Sound, ~stream.on, Unused # {},
           UNCHANGED <<conn, lob, reader, stream>>,
           suspect' \in BOOLEAN, last'.exact \in BOOLEAN,
           NEW o \in DOMAIN server.data,
           \/ server' = server /\ lost' = lost
           \/ server' = Opened(server, NextUnused, o) /\ lost' = lost \cup {NextUnused}
    PROVE  Inv'
<1>0. Types /\ ServerOK(server) /\ Handles /\ Connected /\ Located /\ DescriptorsKnown
  BY DEF Inv
<1> DEFINE d == NextUnused
<1>1. d \in Descriptors /\ d \notin DOMAIN server.open
  BY NextUnusedFree
<1> HIDE DEF d
<1>2. LET t == Opened(server, d, o)
      IN  /\ ServerOK(t) /\ t.data = server.data /\ t.session = server.session
          /\ DOMAIN t.open = DOMAIN server.open \cup {d}
          /\ \A e \in DOMAIN server.open : t.open[e] = server.open[e]
  <2>1. ServerOK(server) /\ d \in Descriptors /\ d \notin DOMAIN server.open /\ o \in DOMAIN server.data
    BY <1>0, <1>1
  <2> QED
    BY ONLY <2>1, OpenedOK
<1>3. /\ ServerOK(server') /\ server'.data = server.data /\ server'.session = server.session
      /\ DOMAIN server'.open = DOMAIN server.open \cup (lost' \ lost)
      /\ lost' = lost \/ lost' = lost \cup {d}
      /\ \A e \in DOMAIN server.open : server'.open[e] = server.open[e]
  <2>1. CASE server' = server /\ lost' = lost
    BY <1>0, <2>1
  <2>2. CASE server' = Opened(server, d, o) /\ lost' = lost \cup {d}
    <3>1. lost \subseteq DOMAIN server.open
      BY <1>0 DEF DescriptorsKnown, Sound
    <3>2. /\ ServerOK(server') /\ server'.data = server.data /\ server'.session = server.session
          /\ DOMAIN server'.open = DOMAIN server.open \cup {d}
          /\ \A e \in DOMAIN server.open : server'.open[e] = server.open[e]
      BY <1>2, <2>2
    <3>3. lost' \ lost = {d}
      BY <1>1, <2>2, <3>1
    <3> QED
      BY <2>2, <3>2, <3>3
  <2> QED
    BY <2>1, <2>2 DEF d
<1>4. ServerOK(server)'
  BY <1>3 DEF ServerOK
<1>5. Types'
  BY <1>0, <1>1, <1>3 DEF Types
<1>6. Connected' /\ Handles' /\ Streaming'
  BY <1>0, <1>3 DEF Connected, Handles, Streaming, NoLob, Sound
<1>7. /\ lob.open => lob.exists /\ lob.lofd \in DOMAIN server.open
      /\ reader.open => reader.exists /\ reader.descriptor \in DOMAIN server.open
  BY <1>0 DEF Handles, Sound, DescriptorsKnown
<1>8. Located'
  BY <1>0, <1>3, <1>7 DEF Located, Sound
<1>9. DescriptorsKnown'
  BY <1>0, <1>1, <1>3, <1>7 DEF DescriptorsKnown, Sound
<1> QED
  BY <1>4, <1>5, <1>6, <1>8, <1>9 DEF Inv

LEMMA ReadColumnInv ==
    ASSUME Inv, ReadColumn
    PROVE  Inv'
<1>0. Sound /\ ~stream.on /\ Unused # {} /\ UNCHANGED <<conn, lob, reader, stream>>
  BY DEF ReadColumn, Ready, Sound
<1>1. PICK o \in DOMAIN server.data :
          /\ \/ server' = server /\ lost' = lost
             \/ server' = Opened(server, NextUnused, o) /\ lost' = lost \cup {NextUnused}
          /\ suspect' \in BOOLEAN /\ last'.exact \in BOOLEAN
  <2>1. PICK o \in DOMAIN server.data, capacity \in Capacities \ {0}, q \in QueryResults :
          \/ /\ q.status # "OK" /\ Outcome(q.status)
             /\ server' = IF q.done THEN Opened(server, NextUnused, o) ELSE server
             /\ lost' = IF q.done THEN lost \cup {NextUnused} ELSE lost
          \/ /\ q.status = "OK"
             /\ \E n \in {Least(Len(server.data[o]), Least(capacity, MaxInt32))}, c \in QueryResults :
                \E r \in Arriving(DataReplies(server.data[o], n) \cup Refusals) :
                   LET read   == ReadReply(r, capacity)
                       closed == ~Failed(read.status) /\ c.done
                   IN /\ server' = IF closed THEN server ELSE Opened(server, NextUnused, o)
                      /\ lost' = IF closed THEN lost ELSE lost \cup {NextUnused}
                      /\ last' = Delivered(read, SubSeq(server.data[o], 1, n))
                      /\ suspect' = (Failed(read.status) \/ Failed(c.status))
    BY DEF ReadColumn
  <2>2. CASE q.status # "OK" /\ Outcome(q.status)
             /\ server' = (IF q.done THEN Opened(server, NextUnused, o) ELSE server)
             /\ lost' = IF q.done THEN lost \cup {NextUnused} ELSE lost
    <3>1. suspect' \in BOOLEAN /\ last'.exact \in BOOLEAN
      BY <2>2, OutcomeFacts DEF Inv, Types
    <3> QED
      BY <2>2, <3>1
  <2>3. ASSUME NEW n, NEW c, NEW r,
               LET read   == ReadReply(r, capacity)
                   closed == ~Failed(read.status) /\ c.done
               IN /\ server' = IF closed THEN server ELSE Opened(server, NextUnused, o)
                  /\ lost' = IF closed THEN lost ELSE lost \cup {NextUnused}
                  /\ last' = Delivered(read, SubSeq(server.data[o], 1, n))
                  /\ suspect' = (Failed(read.status) \/ Failed(c.status))
        PROVE  /\ \/ server' = server /\ lost' = lost
                  \/ server' = Opened(server, NextUnused, o) /\ lost' = lost \cup {NextUnused}
               /\ suspect' \in BOOLEAN /\ last'.exact \in BOOLEAN
    <3> DEFINE read == ReadReply(r, capacity)
    <3> HIDE DEF read
    <3>1. /\ suspect' = (Failed(read.status) \/ Failed(c.status))
          /\ last' = Delivered(read, SubSeq(server.data[o], 1, n))
          /\ server' = IF ~Failed(read.status) /\ c.done THEN server ELSE Opened(server, NextUnused, o)
          /\ lost' = IF ~Failed(read.status) /\ c.done THEN lost ELSE lost \cup {NextUnused}
      BY <2>3 DEF read
    <3>2. last'.exact \in BOOLEAN
      BY <3>1 DEF Delivered
    <3>3. suspect' \in BOOLEAN
      BY <3>1 DEF Failed
    <3> QED
      BY <3>1, <3>2, <3>3
  <2> QED
    BY <2>1, <2>2, <2>3
<1> QED
  BY <1>0, <1>1, OpenedLostInv

\* A read moves the reader's descriptor within its object.
LEMMA ReadsPosition ==
    ASSUME Types, ServerOK(server), NEW d \in DOMAIN server.open, NEW capacity \in Capacities,
           NEW offset \in Offsets \cup {0}, NEW r \in Reads(d, offset, capacity)
    PROVE  r.pos \in Nat /\ r.pos <= Len(server.data[server.open[d].object])
<1> DEFINE pos  == server.open[d].pos
           at   == pos + offset
           all  == server.data[server.open[d].object]
           rest == SubSeq(all, at + 1, Len(all))
           n    == Least(Len(rest), Least(capacity, MaxInt32))
<1>1. /\ pos \in Nat /\ offset \in Int /\ capacity \in Nat /\ MaxInt32 \in Nat
      /\ all \in Seq(1 .. MaxBytes) /\ pos <= Len(all)
  BY LargeObjectAssumption DEF ServerOK, Open
<1>2. Len(all) \in Nat
  BY <1>1, LenProperties
<1>3. (r.pos = at + n /\ at \in 0 .. Len(all)) \/ r.pos = pos
  <2> DEFINE good == {[read |-> ReadReply(reply, capacity), owed |-> SubSeq(rest, 1, n),
                       pos |-> at + n] : reply \in Arriving(DataReplies(rest, n))}
             bad(replies) == {[read |-> ReadReply(reply, capacity), owed |-> <<>>,
                               pos |-> pos] : reply \in Arriving(replies)}
             refusal == {<<Tok("ERR", 0), Tok("EOT", 0)>>}
  <2>1. r \in IF at \notin 0 .. Len(all) THEN bad(refusal) ELSE good \cup bad(Refusals)
    BY DEF Reads
  <2> HIDE DEF at, all, rest, n, pos, refusal
  <2>2. \A x \in good : x.pos = at + n
    OBVIOUS
  <2>3. \A replies : \A x \in bad(replies) : x.pos = pos
    OBVIOUS
  <2> HIDE DEF good, bad
  <2> QED
    BY ONLY <2>1, <2>2, <2>3
<1>4. at \in 0 .. Len(all) => Len(rest) = Len(all) - at
  <2> SUFFICES ASSUME at \in 0 .. Len(all) PROVE Len(rest) = Len(all) - at
    OBVIOUS
  <2>0. \A i \in 1 .. Len(all) : all[i] \in 1 .. MaxBytes
    BY <1>1, ElementOfSeq
  <2> HIDE DEF all, at
  <2>1. \A i \in at + 1 .. Len(all) : all[i] \in 1 .. MaxBytes
    BY <1>2, <2>0
  <2>2. at + 1 \in Int /\ Len(all) \in Int
    BY <1>2
  <2>3. Len(rest) = IF at + 1 <= Len(all) THEN Len(all) - (at + 1) + 1 ELSE 0
    BY <2>1, <2>2, SubSeqProperties
  <2> QED
    BY <2>3, <1>2
<1> HIDE DEF all, at, rest
<1>5. at \in 0 .. Len(all) => n \in 0 .. Len(all) - at
  BY <1>1, <1>2, <1>4 DEF Least
<1> HIDE DEF n
<1>6. r.pos \in Nat /\ r.pos <= Len(all)
  BY <1>1, <1>2, <1>3, <1>5
<1> QED
  BY <1>6 DEF all

LEMMA ReaderReadInv ==
    ASSUME Inv, ReaderRead
    PROVE  Inv'
<1>0. Types /\ ServerOK(server) /\ Handles /\ Connected /\ Located /\ DescriptorsKnown
      /\ ~stream.on /\ Sound /\ UNCHANGED <<conn, lob, reader, stream, lost>>
  BY DEF Inv, ReaderRead, Ready, Sound
<1>1. Streaming' /\ stream' \in [on: BOOLEAN, total: 0 .. MaxBytes]
  BY <1>0 DEF Streaming, Types
<1>2. CASE server' = server /\ \E status \in {"INVALID_STATE", "OUT_OF_RANGE"} : Outcome(status)
  <2>1. server' = server
    BY <1>2
  <2>2. suspect' = suspect /\ suspect' \in BOOLEAN /\ last'.exact \in BOOLEAN
    BY <1>0, <1>2, OutcomeFacts DEF Failed, Types
  <2> QED
    BY <1>0, <1>1, <2>1, <2>2, UntouchedInv DEF Untouched
<1>3. CASE reader.open /\ reader.descriptor \in DOMAIN server.open
             /\ \E capacity \in Capacities \cap 1 .. MaxInt32, offset \in Offsets \cup {0} :
                \E r \in Reads(reader.descriptor, offset, capacity) : TakeRead(reader.descriptor, r)
  <2> DEFINE d == reader.descriptor
  <2>1. PICK capacity \in Capacities \cap 1 .. MaxInt32, offset \in Offsets \cup {0} :
          \E r \in Reads(d, offset, capacity) : TakeRead(d, r)
    BY <1>3
  <2>2. PICK r \in Reads(d, offset, capacity) : TakeRead(d, r)
    BY <2>1
  <2>3. d \in DOMAIN server.open
    BY <1>3
  <2>4. r.pos \in Nat /\ r.pos <= Len(server.data[server.open[d].object])
    BY <1>0, <2>3, ReadsPosition
  <2>5. server' = MovedIn(server, d, r.pos)
    BY <2>2 DEF TakeRead, MovedIn
  <2>6. suspect' \in BOOLEAN /\ last'.exact \in BOOLEAN
    BY <2>2 DEF TakeRead, Delivered, Failed
  <2>7. /\ ServerOK(server') /\ DOMAIN server'.open = DOMAIN server.open
        /\ \A e \in DOMAIN server.open :
              /\ server'.open[e].object = server.open[e].object
              /\ e # d => server'.open[e] = server.open[e]
        /\ server'.data = server.data /\ server'.session = server.session
    BY <1>0, <2>3, <2>4, <2>5, MovedOK
  <2>8. ServerOK(server)'
    BY <2>7 DEF ServerOK
  <2>9. Types' /\ Connected' /\ Handles'
    BY <1>0, <2>6, <2>7 DEF Types, Connected, Handles, NoLob
  <2>10. lob.open => lob.exists /\ lob.lofd \in DOMAIN server.open /\ lob.lofd # d
    BY <1>0, <1>3 DEF Handles, Sound, DescriptorsKnown
  <2>11. Located'
    BY <1>0, <2>7, <2>10 DEF Located, Sound
  <2>12. DescriptorsKnown'
    BY <1>0, <2>7, <2>10, <1>3 DEF DescriptorsKnown, Sound, Handles
  <2> QED
    BY <1>1, <2>8, <2>9, <2>11, <2>12 DEF Inv
<1> QED
  BY <1>2, <1>3 DEF ReaderRead

\* What an open upload handle knows in a sound session.
LEMMA LobFacts ==
    ASSUME Inv, Sound, lob.open
    PROVE  /\ lob.exists /\ lob.lofd \in DOMAIN server.open /\ lob.lofd \in Descriptors
           /\ server.open[lob.lofd].object = lob.locator /\ lob.locator \in DOMAIN server.data
           /\ server.open[lob.lofd].pos <= lob.confirmed /\ server.open[lob.lofd].pos \in Nat
           /\ lob.confirmed \in Nat /\ lob.confirmed <= MaxBytes
<1>1. /\ lob.exists /\ lob.lofd \in DOMAIN server.open /\ lob.lofd \in Descriptors
      /\ server.open[lob.lofd].object = lob.locator
  BY DEF Inv, Handles, DescriptorsKnown, Sound
<1>2. lob.locator \in DOMAIN server.data /\ server.open[lob.lofd].pos \in Nat
  BY <1>1 DEF Inv, ServerOK, Open
<1>3. server.open[lob.lofd].pos <= lob.confirmed
  BY DEF Inv, Located
<1>4. lob.confirmed \in Nat /\ lob.confirmed <= MaxBytes
  BY LargeObjectAssumption DEF Inv, Types
<1> QED
  BY <1>1, <1>2, <1>3, <1>4

\* The handle's progress follows what the server stores.
LEMMA WrittenInv ==
    ASSUME Inv, Sound, LobOpen, NEW n \in Nat \ {0}, Fits(n), NEW w \in Writes(n),
           server' = w.server, Outcome(w.status),
           \/ w.status = "OK" /\ lob' = [lob EXCEPT !.confirmed = @ + n]
           \/ w.status # "OK" /\ lob' = lob,
           UNCHANGED <<conn, reader, lost>>,
           stream' \in [on: BOOLEAN, total: 0 .. MaxBytes], Streaming'
    PROVE  Inv'
<1>0. Types /\ ServerOK(server) /\ Handles /\ Connected /\ Located /\ DescriptorsKnown
  BY DEF Inv
<1>1. /\ lob.exists /\ lob.lofd \in DOMAIN server.open /\ lob.lofd \in Descriptors /\ lob.open
      /\ server.open[lob.lofd].object = lob.locator /\ lob.locator \in DOMAIN server.data
      /\ server.open[lob.lofd].pos <= lob.confirmed /\ server.open[lob.lofd].pos \in Nat
      /\ lob.confirmed \in Nat /\ lob.confirmed <= MaxBytes
  BY LobFacts DEF LobOpen
<1>2. MaxBytes \in Nat /\ MaxInt32 \in Nat
  BY LargeObjectAssumption
<1> DEFINE m == Least(n, MaxInt32)
<1>3. m \in 0 .. n
  BY <1>2 DEF Least
<1>4. PICK k \in 0 .. n :
         \/ w.status = "OK" /\ w.server = Stored(k)
         \/ w.status # "OK" /\ w.server = server
         \/ w.status = "IO_ERROR" /\ w.server = Stored(k)
  <2>1. \/ w.status = "OK" /\ w.server = Stored(m)
        \/ w.status # "OK" /\ w.server = server
        \/ w.status = "IO_ERROR" /\ \E k \in 0 .. n : w.server = Stored(k)
    BY WritesFacts
  <2>2. 0 \in 0 .. n
    OBVIOUS
  <2> HIDE DEF m
  <2> QED
    BY <2>1, <2>2, <1>3
<1>5. k \in Nat /\ k <= n /\ lob.confirmed + k <= MaxBytes /\ lob.confirmed + n <= MaxBytes
  BY <1>1, <1>2 DEF Fits
<1>6. /\ ServerOK(Stored(k)) /\ Stored(k).session = server.session
      /\ DOMAIN Stored(k).open = DOMAIN server.open
      /\ \A e \in DOMAIN server.open : Stored(k).open[e].object = server.open[e].object
      /\ Stored(k).open[lob.lofd].pos = server.open[lob.lofd].pos + k
      /\ DOMAIN Stored(k).data = DOMAIN server.data
  BY <1>0, <1>1, <1>5, StoredOK
<1>7. /\ ServerOK(server') /\ server'.session = server.session
      /\ DOMAIN server'.open = DOMAIN server.open
      /\ \A e \in DOMAIN server.open : server'.open[e].object = server.open[e].object
      /\ DOMAIN server'.data = DOMAIN server.data
      /\ \/ server' = server
         \/ server'.open[lob.lofd].pos = server.open[lob.lofd].pos + k /\ w.status \in {"OK", "IO_ERROR"}
  <2>1. CASE w.server = Stored(k) /\ w.status \in {"OK", "IO_ERROR"}
    BY <1>6, <2>1
  <2>2. CASE w.server = server
    BY <1>0, <2>2
  <2> QED
    BY <1>4, <2>1, <2>2
<1>8. ServerOK(server)'
  BY <1>7 DEF ServerOK
<1>9. /\ suspect' \in BOOLEAN /\ last'.exact \in BOOLEAN /\ (w.status = "IO_ERROR" => suspect')
  BY <1>0, OutcomeFacts DEF Types, Failed
<1>10. /\ lob'.exists = lob.exists /\ lob'.lofd = lob.lofd /\ lob'.locator = lob.locator
       /\ lob'.open = lob.open
       /\ lob' \in [exists: BOOLEAN, lofd: {-1} \cup Descriptors, locator: {0} \cup Objects,
                    open: BOOLEAN, confirmed: 0 .. MaxBytes]
       /\ w.status = "OK" => lob'.confirmed = lob.confirmed + n
       /\ w.status # "OK" => lob' = lob
  <2>1. lob \in [exists: BOOLEAN, lofd: {-1} \cup Descriptors, locator: {0} \cup Objects,
                 open: BOOLEAN, confirmed: 0 .. MaxBytes]
    BY <1>0 DEF Types
  <2>2. CASE lob' = [lob EXCEPT !.confirmed = @ + n] /\ w.status = "OK"
    <3>1. lob.confirmed + n \in 0 .. MaxBytes
      BY <1>1, <1>2, <1>5
    <3> QED
      BY <2>1, <2>2, <3>1
  <2>3. CASE lob' = lob /\ w.status # "OK"
    BY <2>1, <2>3
  <2> QED
    BY <2>2, <2>3
<1>11. Types'
  BY <1>0, <1>9, <1>10 DEF Types
<1>12. Connected' /\ Handles'
  BY <1>0, <1>1, <1>7, <1>10 DEF Connected, Handles, Sound
<1>13. Located'
  <2>1. CASE suspect'
    BY <2>1 DEF Located, Sound
  <2>2. CASE ~suspect'
    <3>1. lob'.locator \in DOMAIN server'.data
      BY <1>1, <1>7, <1>10
    <3>2. server'.open[lob'.lofd].pos <= lob'.confirmed
      <4>1. CASE w.status = "OK"
        BY <1>1, <1>5, <1>7, <1>10, <4>1
      <4>2. CASE w.status # "OK"
        BY <1>1, <1>7, <1>9, <1>10, <2>2, <4>2
      <4> QED
        BY <4>1, <4>2
    <3> QED
      BY <3>1, <3>2 DEF Located
  <2> QED
    BY <2>1, <2>2
<1>14. DescriptorsKnown'
  BY <1>0, <1>1, <1>7, <1>10 DEF DescriptorsKnown, Sound, Handles
<1> QED
  BY <1>8, <1>11, <1>12, <1>13, <1>14 DEF Inv

LEMMA WriteBufferInv ==
    ASSUME Inv, WriteBuffer
    PROVE  Inv'
<1>0. /\ Types /\ Sound /\ ~stream.on /\ lob.exists
      /\ UNCHANGED <<conn, reader, stream, lost>>
  BY DEF Inv, WriteBuffer, Ready, Sound
<1>1. Streaming' /\ stream' \in [on: BOOLEAN, total: 0 .. MaxBytes]
  BY <1>0 DEF Streaming, Types
<1>2. CASE ~lob.open /\ Outcome("INVALID_STATE") /\ UNCHANGED <<server, lob>>
  <2>1. suspect' = suspect /\ suspect' \in BOOLEAN /\ last'.exact \in BOOLEAN
    BY <1>0, <1>2, OutcomeFacts DEF Failed, Types
  <2> QED
    BY <1>0, <1>1, <1>2, <2>1, UntouchedInv DEF Untouched
<1>3. ASSUME lob.open, NEW n \in Capacities \ {0}, Fits(n), NEW w \in Writes(n),
             server' = w.server, Outcome(w.status),
             lob' = IF w.status = "OK" THEN [lob EXCEPT !.confirmed = @ + n] ELSE lob
      PROVE  Inv'
  <2>1. n \in Nat \ {0}
    BY LargeObjectAssumption
  <2>2. LobOpen
    BY <1>0, <1>3 DEF LobOpen
  <2>3. \/ w.status = "OK" /\ lob' = [lob EXCEPT !.confirmed = @ + n]
        \/ w.status # "OK" /\ lob' = lob
    BY <1>3
  <2> QED
    BY <1>0, <1>1, <1>3, <2>1, <2>2, <2>3, WrittenInv
<1> QED
  BY <1>2, <1>3 DEF WriteBuffer

LEMMA StreamMoreInv ==
    ASSUME Inv, StreamMore
    PROVE  Inv'
<1>0. /\ Types /\ Sound /\ LobOpen /\ stream.on /\ stream.total <= lob.confirmed
      /\ UNCHANGED <<conn, reader, lost>>
  BY DEF Inv, StreamMore, Streaming, Sound
<1>1. PICK n \in (Capacities \ {0}) \cap 1 .. ChunkSize : Fits(n) /\ \E w \in Writes(n) :
          LET total == Progress(stream.total, n, w.status)
          IN /\ server' = w.server /\ Outcome(w.status)
             /\ stream' = [on |-> w.status = "OK", total |-> total]
             /\ lob' = [lob EXCEPT !.confirmed = @ + (total - stream.total)]
  BY DEF StreamMore
<1>2. PICK w \in Writes(n) :
          LET total == Progress(stream.total, n, w.status)
          IN /\ server' = w.server /\ Outcome(w.status)
             /\ stream' = [on |-> w.status = "OK", total |-> total]
             /\ lob' = [lob EXCEPT !.confirmed = @ + (total - stream.total)]
  BY <1>1
<1>3. /\ MaxBytes \in Nat /\ n \in Nat \ {0} /\ lob.confirmed \in 0 .. MaxBytes
      /\ stream.total \in 0 .. MaxBytes /\ lob.confirmed + n <= MaxBytes
  BY <1>0, <1>1, LargeObjectAssumption DEF Types, Fits
<1>4. lob \in [exists: BOOLEAN, lofd: {-1} \cup Descriptors, locator: {0} \cup Objects,
               open: BOOLEAN, confirmed: 0 .. MaxBytes]
  BY <1>0 DEF Types
<1>5. CASE w.status = "OK"
  <2>1. stream' = [on |-> TRUE, total |-> stream.total + n]
    BY <1>2, <1>5 DEF Progress
  <2>2. lob' = [lob EXCEPT !.confirmed = @ + n]
    <3>1. (stream.total + n) - stream.total = n
      BY <1>3
    <3>2. lob' = [lob EXCEPT !.confirmed = @ + ((stream.total + n) - stream.total)]
      BY <1>2, <1>5 DEF Progress
    <3> QED
      BY <3>1, <3>2
  <2>3. suspect' = suspect
    BY <1>0, <1>2, <1>5, OutcomeFacts DEF Types, Failed
  <2>4. /\ lob'.exists = lob.exists /\ lob'.open = lob.open
        /\ lob'.confirmed = lob.confirmed + n
    BY <1>4, <2>2
  <2>5. stream' \in [on: BOOLEAN, total: 0 .. MaxBytes]
    <3>1. stream.total + n \in 0 .. MaxBytes
      BY <1>0, <1>3
    <3> QED
      BY <2>1, <3>1
  <2>6. Streaming'
    <3>1. stream'.total = stream.total + n
      BY <2>1
    <3> QED
      BY <1>0, <1>3, <2>3, <2>4, <3>1 DEF Streaming, LobOpen, Sound
  <2> QED
    BY <1>0, <1>1, <1>2, <1>3, <1>5, <2>2, <2>5, <2>6, WrittenInv
<1>6. CASE w.status # "OK"
  <2>1. stream' = [on |-> FALSE, total |-> stream.total]
    BY <1>2, <1>6 DEF Progress
  <2>2. lob' = lob
    <3>1. lob.confirmed + (stream.total - stream.total) = lob.confirmed
      BY <1>3
    <3>2. lob' = [lob EXCEPT !.confirmed = @ + (stream.total - stream.total)]
      BY <1>2, <1>6 DEF Progress
    <3>3. lob' = [lob EXCEPT !.confirmed = lob.confirmed]
      BY <3>1, <3>2
    <3> QED
      BY <1>4, <3>3
  <2>3. stream' \in [on: BOOLEAN, total: 0 .. MaxBytes] /\ ~stream'.on
    BY <1>3, <2>1
  <2>4. Streaming'
    BY <2>3 DEF Streaming
  <2> QED
    BY <1>0, <1>1, <1>2, <1>3, <1>6, <2>2, <2>3, <2>4, WrittenInv
<1> QED
  BY <1>5, <1>6

\* What a creation does once the replies are known.
CreateEffect(o, lookup, exec, whole, close) ==
    LET ran     == Executes(lookup, exec)
        answer  == RoutineFound(lookup) /\ exec.status = "OK"
        created == [Opened(server, NextUnused, o) EXCEPT !.data = With(@, o, <<>>)]
        dropped == answer /\ ~whole /\ close.done
    IN /\ conn' = [conn EXCEPT !.routine = RoutineCached(lookup)]
       /\ server' = IF ~ran THEN server
                    ELSE IF dropped THEN ClosedAt(created, NextUnused) ELSE created
       /\ lob' = IF answer THEN Created(o, whole) ELSE lob
       /\ lost' = IF ran /\ ~(answer /\ whole) /\ ~dropped
                  THEN lost \cup {NextUnused} ELSE lost
       /\ Outcome(IF ~RoutineFound(lookup) THEN lookup.status
                  ELSE IF ~answer THEN exec.status
                  ELSE IF whole THEN "OK" ELSE "ERR")
       /\ UNCHANGED <<reader, stream>>

\* An object is created: the new handle has its descriptor, which is closed again or
\* lost when the answer does not name it.
LEMMA CreateInv ==
    ASSUME Inv, Create
    PROVE  /\ Inv'
           /\ \/ ~lob'.exists
              \/ /\ lob'.confirmed = 0 /\ server'.data[lob'.locator] = <<>>
                 /\ server'.open[lob'.lofd].pos = 0
<1>0. /\ Types /\ ServerOK(server) /\ Handles /\ Connected /\ Located /\ DescriptorsKnown
      /\ Sound /\ ~stream.on /\ ~lob.exists /\ Unused # {} /\ UNCHANGED <<reader, stream>>
      /\ lob = NoLob /\ ~lob.open
  BY DEF Inv, Create, Ready, Sound, Handles, NoLob
<1>1. PICK o \in NextObject, lookup \in QueryResults, exec \in QueryResults,
           whole \in {TRUE} \cup {"malformed" \notin Faults}, close \in QueryResults :
              CreateEffect(o, lookup, exec, whole, close)
  BY DEF Create, CreateEffect
<1> DEFINE d       == NextUnused
           ran     == Executes(lookup, exec)
           answer  == RoutineFound(lookup) /\ exec.status = "OK"
           created == CreatedIn(server, d, o)
           status  == IF ~RoutineFound(lookup) THEN lookup.status
                      ELSE IF ~answer THEN exec.status
                      ELSE IF whole THEN "OK" ELSE "ERR"
           new     == [NoLob EXCEPT !.exists = TRUE, !.lofd = NextUnused, !.locator = o, !.open = TRUE]
<1>2. /\ conn' = [conn EXCEPT !.routine = RoutineCached(lookup)]
      /\ server' = IF ~ran THEN server
                   ELSE IF answer /\ ~whole /\ close.done THEN ClosedAt(created, d) ELSE created
      /\ lob' = IF answer THEN Created(o, whole) ELSE lob
      /\ lost' = IF ran /\ ~(answer /\ whole) /\ ~(answer /\ ~whole /\ close.done)
                 THEN lost \cup {d} ELSE lost
      /\ Outcome(status)
  BY <1>1 DEF CreateEffect, CreatedIn
<1>3. d \in Descriptors /\ d \notin DOMAIN server.open
  BY <1>0, NextUnusedFree
<1>4. o \in Objects /\ o \notin DOMAIN server.data /\ whole \in BOOLEAN
  BY DEF NextObject
<1>5. answer => ran
  <2>1. SUFFICES ASSUME answer PROVE ran
    OBVIOUS
  <2>2. exec.done
    BY <2>1, QueryFacts
  <2>3. conn.routine = 0 \/ conn.routine = server.session
    BY <1>0 DEF Connected
  <2>4. RoutineCached(lookup) = server.session
    BY <2>1, <2>3, <1>0 DEF RoutineCached
  <2> QED
    BY <2>1, <2>2, <2>4 DEF Executes
<1>6. lob' = IF answer /\ whole THEN new ELSE lob
  BY <1>2 DEF Created
<1>7. /\ conn'.state = conn.state /\ conn'.discarded = conn.discarded
      /\ conn'.routine \in {0, server.session}
      /\ conn' \in [state: {"READY", "CLOSED", "ERROR"}, discarded: BOOLEAN, routine: 0 .. MaxSessions]
  <2>1. RoutineCached(lookup) \in {0, server.session}
    BY <1>0 DEF Connected, RoutineCached
  <2>2. server.session \in 0 .. MaxSessions /\ 0 \in 0 .. MaxSessions
    BY <1>0, LargeObjectAssumption DEF ServerOK
  <2> QED
    BY <1>0, <1>2, <2>1, <2>2 DEF Types
<1>8. /\ ServerOK(created) /\ DOMAIN created.open = DOMAIN server.open \cup {d}
      /\ created.open[d] = [object |-> o, pos |-> 0]
      /\ \A e \in DOMAIN server.open : created.open[e] = server.open[e]
      /\ DOMAIN created.data = DOMAIN server.data \cup {o} /\ created.data[o] = <<>>
      /\ created.session = server.session
  BY ONLY <1>0, <1>3, <1>4, CreatedOK
<1>9. /\ ServerOK(ClosedAt(created, d))
      /\ DOMAIN ClosedAt(created, d).open = DOMAIN server.open
      /\ \A e \in DOMAIN server.open : ClosedAt(created, d).open[e] = server.open[e]
      /\ ClosedAt(created, d).data = created.data
      /\ ClosedAt(created, d).session = server.session
  <2> HIDE DEF created
  <2>1. /\ ServerOK(ClosedAt(created, d))
        /\ DOMAIN ClosedAt(created, d).open = DOMAIN created.open \ {d}
        /\ \A e \in DOMAIN created.open \ {d} : ClosedAt(created, d).open[e] = created.open[e]
        /\ ClosedAt(created, d).data = created.data
        /\ ClosedAt(created, d).session = created.session
    BY <1>8, ClosedOK
  <2>2. DOMAIN created.open \ {d} = DOMAIN server.open
    BY <1>3, <1>8
  <2> QED
    BY <2>1, <2>2, <1>8
<1>10. /\ suspect' \in BOOLEAN /\ last'.exact \in BOOLEAN /\ (Failed(status) => suspect')
  <2> HIDE DEF status
  <2> QED
    BY <1>0, <1>2, OutcomeFacts DEF Types
<1> HIDE DEF created, new, status
\* What comes of it: a handle, a descriptor closed again, one that is lost, nothing.
<1>11. \/ answer /\ whole /\ server' = created /\ lob' = new /\ lost' = lost
       \/ server' = ClosedAt(created, d) /\ lob' = lob /\ lost' = lost
       \/ server' = created /\ lob' = lob /\ lost' = lost \cup {d}
       \/ server' = server /\ lob' = lob /\ lost' = lost
  <2> HIDE DEF ran, answer
  <2> QED
    BY <1>2, <1>5, <1>6, <1>4
<1>12. /\ ServerOK(server') /\ server'.session = server.session
       /\ \A e \in DOMAIN server.open : e \in DOMAIN server'.open /\ server'.open[e] = server.open[e]
       /\ DOMAIN server.data \subseteq DOMAIN server'.data
  BY <1>0, <1>8, <1>9, <1>11
<1>13. ServerOK(server)'
  BY <1>12 DEF ServerOK
<1>14. /\ new \in [exists: BOOLEAN, lofd: {-1} \cup Descriptors, locator: {0} \cup Objects,
                   open: BOOLEAN, confirmed: 0 .. MaxBytes]
       /\ new.locator = o /\ new.lofd = d /\ new.confirmed = 0 /\ new.exists /\ new.open
  <2>1. NoLob \in [exists: BOOLEAN, lofd: {-1} \cup Descriptors, locator: {0} \cup Objects,
                   open: BOOLEAN, confirmed: 0 .. MaxBytes]
        /\ NoLob.confirmed = 0
    BY LargeObjectAssumption DEF NoLob
  <2> QED
    BY <1>3, <1>4, <2>1 DEF new
<1>15. Types'
  BY <1>0, <1>3, <1>7, <1>10, <1>11, <1>14 DEF Types
<1>16. Connected'
  BY <1>0, <1>7, <1>12 DEF Connected, Sound
<1>17. Handles'
  BY <1>0, <1>3, <1>4, <1>11, <1>14 DEF Handles
<1>18. Streaming'
  BY <1>0 DEF Streaming
<1>19. lob.locator = 0
  BY <1>0 DEF NoLob
<1>20. Located'
  <2>1. CASE server' = created /\ lob' = new
    BY <2>1, <1>8, <1>14 DEF Located
  <2>2. CASE lob' = lob
    BY <2>2, <1>0, <1>19 DEF Located
  <2> QED
    BY <1>11, <2>1, <2>2
<1>21. DOMAIN server.open = lost \cup (IF reader.exists /\ reader.open THEN {reader.descriptor} ELSE {})
       /\ (reader.exists /\ reader.open =>
             /\ reader.descriptor \notin lost
             /\ server.open[reader.descriptor].object = reader.object)
  BY <1>0 DEF DescriptorsKnown, Sound
<1>22. DescriptorsKnown'
  <2>1. CASE server' = created /\ lob' = new /\ lost' = lost
    BY <2>1, <1>0, <1>3, <1>8, <1>14, <1>21 DEF DescriptorsKnown
  <2>2. CASE server' = ClosedAt(created, d) /\ lob' = lob /\ lost' = lost
    BY <2>2, <1>0, <1>9, <1>21 DEF DescriptorsKnown
  <2>3. CASE server' = created /\ lob' = lob /\ lost' = lost \cup {d}
    BY <2>3, <1>0, <1>3, <1>8, <1>21 DEF DescriptorsKnown
  <2>4. CASE server' = server /\ lob' = lob /\ lost' = lost
    BY <2>4, <1>0, <1>21 DEF DescriptorsKnown
  <2> QED
    BY <1>11, <2>1, <2>2, <2>3, <2>4
<1>23. \/ ~lob'.exists
       \/ /\ lob'.confirmed = 0 /\ server'.data[lob'.locator] = <<>>
          /\ server'.open[lob'.lofd].pos = 0
  <2>1. CASE server' = created /\ lob' = new
    BY <2>1, <1>8, <1>14
  <2>2. CASE lob' = lob
    BY <2>2, <1>0
  <2> QED
    BY <1>11, <2>1, <2>2
<1> QED
  BY <1>13, <1>15, <1>16, <1>17, <1>18, <1>20, <1>22, <1>23 DEF Inv

\* What a release does once the replies to its close and to its request are known.
ReleaseAnswer(c, q, after) ==
    LET busy == \E d \in DOMAIN after.open : after.open[d].object = lob.locator
    IN IF lob.open /\ c.status = "IO_ERROR" THEN [status |-> "IO_ERROR", done |-> FALSE]
       ELSE IF busy /\ q.done THEN [status |-> "ERR", done |-> FALSE]
       ELSE q
ReleaseEffect(c, q) ==
    LET closing == lob.open
        after   == IF closing /\ c.done THEN ClosedAt(server, lob.lofd) ELSE server
        answer  == ReleaseAnswer(c, q, after)
    IN /\ server' = IF answer.done
                    THEN [after EXCEPT !.data = Without(@, lob.locator)] ELSE after
       /\ lob' = ReleasedLob(answer)
       /\ lost' = IF closing /\ ~c.done THEN lost \cup {lob.lofd} ELSE lost
       /\ Outcome(answer.status)

\* The object goes only when the server says so, and the handle gives it up only then.
LEMMA ReleaseFacts ==
    ASSUME Inv, Release, lob.locator # 0
    PROVE  \E after, answer :
              /\ \/ after = server /\ ~lob.open /\ lost' = lost
                 \/ after = server /\ lob.open /\ lost' = lost \cup {lob.lofd}
                 \/ after = ClosedAt(server, lob.lofd) /\ lob.open /\ lost' = lost
              /\ Outcome(answer.status) /\ lob' = ReleasedLob(answer)
              /\ \/ answer.status = "OK" /\ answer.done
                 \/ answer.status = "ERR" /\ ~answer.done
                 \/ answer.status = "IO_ERROR"
              /\ \/ answer.done /\ server' = ReleasedIn(after, lob.locator)
                    /\ \A e \in DOMAIN after.open : after.open[e].object # lob.locator
                 \/ ~answer.done /\ server' = after
<1>1. PICK c \in QueryResults, q \in QueryResults : ReleaseEffect(c, q)
  BY DEF Release, ReleaseEffect, ReleaseAnswer
<1> DEFINE after  == IF lob.open /\ c.done THEN ClosedAt(server, lob.lofd) ELSE server
           answer == ReleaseAnswer(c, q, after)
<1>2. /\ server' = IF answer.done THEN ReleasedIn(after, lob.locator) ELSE after
      /\ lob' = ReleasedLob(answer) /\ Outcome(answer.status)
      /\ lost' = IF lob.open /\ ~c.done THEN lost \cup {lob.lofd} ELSE lost
  BY <1>1 DEF ReleaseEffect, ReleasedIn
<1>3. c.done \in BOOLEAN /\ lob.open \in BOOLEAN
  BY QueryFacts DEF Inv, Types
<1>4. \/ after = server /\ ~lob.open /\ lost' = lost
      \/ after = server /\ lob.open /\ lost' = lost \cup {lob.lofd}
      \/ after = ClosedAt(server, lob.lofd) /\ lob.open /\ lost' = lost
  BY <1>2, <1>3
<1> HIDE DEF after
<1>5. \/ answer = [status |-> "IO_ERROR", done |-> FALSE]
      \/ answer = [status |-> "ERR", done |-> FALSE]
      \/ answer = q /\ (q.done => \A e \in DOMAIN after.open : after.open[e].object # lob.locator)
  BY DEF ReleaseAnswer
<1> HIDE DEF answer
<1>6. /\ \/ answer.status = "OK" /\ answer.done
         \/ answer.status = "ERR" /\ ~answer.done
         \/ answer.status = "IO_ERROR"
      /\ answer.done => \A e \in DOMAIN after.open : after.open[e].object # lob.locator
  <2>1. CASE answer = [status |-> "IO_ERROR", done |-> FALSE]
    <3>1. answer.status = "IO_ERROR" /\ answer.done = FALSE
      BY <2>1
    <3> QED
      BY <3>1
  <2>2. CASE answer = [status |-> "ERR", done |-> FALSE]
    <3>1. answer.status = "ERR" /\ answer.done = FALSE
      BY <2>2
    <3> QED
      BY <3>1
  <2>3. CASE answer = q /\ (q.done => \A e \in DOMAIN after.open : after.open[e].object # lob.locator)
    BY <2>3, QueryFacts
  <2> QED
    BY <1>5, <2>1, <2>2, <2>3
<1>7. \/ answer.done /\ server' = ReleasedIn(after, lob.locator)
         /\ \A e \in DOMAIN after.open : after.open[e].object # lob.locator
      \/ ~answer.done /\ server' = after
  BY <1>2, <1>6
<1> QED
  BY <1>2, <1>4, <1>6, <1>7

LEMMA ReleaseInv ==
    ASSUME Inv, Release
    PROVE  Inv'
<1>0. /\ Types /\ ServerOK(server) /\ Handles /\ Connected /\ Located /\ DescriptorsKnown
      /\ Sound /\ ~stream.on /\ UNCHANGED <<conn, reader, stream>> /\ lob.exists
  BY DEF Inv, Release, Ready, Sound
<1>1. Streaming' /\ stream' \in [on: BOOLEAN, total: 0 .. MaxBytes]
  BY <1>0 DEF Streaming, Types
<1>2. CASE lob.locator = 0
  <2>1. Outcome("INVALID_STATE") /\ UNCHANGED <<server, lob, lost>>
    BY <1>2 DEF Release
  <2>2. suspect' = suspect /\ suspect' \in BOOLEAN /\ last'.exact \in BOOLEAN
    BY <1>0, <2>1, OutcomeFacts DEF Failed, Types
  <2> QED
    BY <1>0, <1>1, <2>1, <2>2, UntouchedInv DEF Untouched
<1>3. CASE lob.locator # 0
  <2>1. PICK after, answer :
          /\ \/ after = server /\ ~lob.open /\ lost' = lost
             \/ after = server /\ lob.open /\ lost' = lost \cup {lob.lofd}
             \/ after = ClosedAt(server, lob.lofd) /\ lob.open /\ lost' = lost
          /\ Outcome(answer.status) /\ lob' = ReleasedLob(answer)
          /\ \/ answer.status = "OK" /\ answer.done
             \/ answer.status = "ERR" /\ ~answer.done
             \/ answer.status = "IO_ERROR"
          /\ \/ answer.done /\ server' = ReleasedIn(after, lob.locator)
                /\ \A e \in DOMAIN after.open : after.open[e].object # lob.locator
             \/ ~answer.done /\ server' = after
    BY <1>3, ReleaseFacts
  <2>2. /\ lob.open => lob.lofd \in Descriptors /\ lob.lofd \in DOMAIN server.open /\ lob.lofd \notin lost
        /\ DOMAIN server.open = (IF lob.open THEN {lob.lofd} ELSE {}) \cup lost
                                \cup (IF reader.exists /\ reader.open THEN {reader.descriptor} ELSE {})
        /\ reader.exists /\ reader.open =>
              /\ reader.descriptor \notin lost
              /\ server.open[reader.descriptor].object = reader.object
              /\ ~(lob.open /\ lob.lofd = reader.descriptor)
    BY <1>0 DEF DescriptorsKnown, Handles, Sound
  <2>3. /\ ServerOK(after) /\ after.data = server.data /\ after.session = server.session
        /\ DOMAIN after.open = lost'
              \cup (IF reader.exists /\ reader.open THEN {reader.descriptor} ELSE {})
        /\ \A e \in DOMAIN after.open : after.open[e] = server.open[e]
        /\ lost' \subseteq Descriptors
        /\ reader.exists /\ reader.open => reader.descriptor \notin lost'
    <3>1. lost \subseteq Descriptors
      BY <1>0 DEF Types
    <3>2. CASE after = server /\ ~lob.open /\ lost' = lost
      BY <1>0, <2>2, <3>1, <3>2
    <3>3. CASE after = server /\ lob.open /\ lost' = lost \cup {lob.lofd}
      BY <1>0, <2>2, <3>1, <3>3
    <3>4. CASE after = ClosedAt(server, lob.lofd) /\ lob.open /\ lost' = lost
      <4>1. /\ ServerOK(after) /\ after.data = server.data /\ after.session = server.session
            /\ DOMAIN after.open = DOMAIN server.open \ {lob.lofd}
            /\ \A e \in DOMAIN server.open \ {lob.lofd} : after.open[e] = server.open[e]
        BY <1>0, <3>4, ClosedOK
      <4>2. DOMAIN server.open \ {lob.lofd} =
              lost' \cup (IF reader.exists /\ reader.open THEN {reader.descriptor} ELSE {})
        BY <2>2, <3>4
      <4> QED
        BY <2>2, <3>1, <3>4, <4>1, <4>2
    <3> QED
      BY <2>1, <3>2, <3>3, <3>4
  <2>4. /\ ServerOK(server') /\ server'.open = after.open /\ server'.session = server.session
        /\ answer.done \/ server'.data = server.data
    <3>1. CASE answer.done /\ server' = ReleasedIn(after, lob.locator)
               /\ \A e \in DOMAIN after.open : after.open[e].object # lob.locator
      BY <2>3, <3>1, ReleasedOK
    <3>2. CASE ~answer.done /\ server' = after
      BY <2>3, <3>2
    <3> QED
      BY <2>1, <3>1, <3>2
  <2>5. ServerOK(server)'
    BY <2>4 DEF ServerOK
  <2>6. suspect' \in BOOLEAN /\ last'.exact \in BOOLEAN /\ (answer.status = "IO_ERROR" => suspect')
    BY <1>0, <2>1, OutcomeFacts DEF Types, Failed
  <2>7. /\ lob'.exists = lob.exists /\ ~lob'.open
        /\ lob'.locator = IF answer.status = "OK" THEN 0 ELSE lob.locator
        /\ lob' \in [exists: BOOLEAN, lofd: {-1} \cup Descriptors, locator: {0} \cup Objects,
                     open: BOOLEAN, confirmed: 0 .. MaxBytes]
    <3>1. lob \in [exists: BOOLEAN, lofd: {-1} \cup Descriptors, locator: {0} \cup Objects,
                   open: BOOLEAN, confirmed: 0 .. MaxBytes]
      BY <1>0 DEF Types
    <3>2. CASE answer.status = "OK"
      BY <2>1, <3>1, <3>2 DEF ReleasedLob
    <3>3. CASE answer.status # "OK"
      BY <2>1, <3>1, <3>3 DEF ReleasedLob
    <3> QED
      BY <3>2, <3>3
  <2>8. Types'
    BY <1>0, <2>3, <2>6, <2>7 DEF Types
  <2>9. Connected' /\ Handles'
    BY <1>0, <2>4, <2>7 DEF Connected, Handles, Sound
  <2>10. Located'
    <3>1. CASE answer.status = "ERR" /\ ~answer.done
      BY <1>0, <1>3, <2>4, <2>7, <3>1 DEF Located, Sound
    <3>2. CASE answer.status = "OK"
      BY <2>7, <3>2 DEF Located
    <3>3. CASE answer.status = "IO_ERROR"
      BY <2>6, <3>3 DEF Located, Sound
    <3> QED
      BY <2>1, <3>1, <3>2, <3>3
  <2>11. DescriptorsKnown'
    BY <1>0, <2>2, <2>3, <2>4, <2>7 DEF DescriptorsKnown
  <2> QED
    BY <1>1, <2>5, <2>8, <2>9, <2>10, <2>11 DEF Inv
<1> QED
  BY <1>2, <1>3

---------------------------------------------------------------------------
(* The theorems.                                                           *)

LEMMA NextInv == Inv /\ [Next]_vars => Inv'
<1> SUFFICES ASSUME Inv, [Next]_vars PROVE Inv'
  OBVIOUS
<1>1. CASE Create
  BY <1>1, CreateInv
<1>2. CASE WriteBuffer
  BY <1>2, WriteBufferInv
<1>3. CASE StartStream \/ StreamEnd \/ Unready
  BY <1>3, StreamEndsInv
<1>4. CASE StreamMore
  BY <1>4, StreamMoreInv
<1>5. CASE CloseCreated
  BY <1>5, CloseCreatedInv
<1>6. CASE Release
  BY <1>6, ReleaseInv
<1>7. CASE DestroyLob \/ ReaderDestroy
  BY <1>7, DestroyInv
<1>8. CASE ReaderOpen
  BY <1>8, ReaderOpenInv
<1>9. CASE ReaderRead
  BY <1>9, ReaderReadInv
<1>10. CASE ReaderClose
  BY <1>10, ReaderCloseInv
<1>11. CASE ReadColumn
  BY <1>11, ReadColumnInv
<1>12. CASE Discard \/ Close
  BY <1>12, DisconnectInv
<1>13. CASE Reconnect
  BY <1>13, ReconnectInv
<1>14. CASE UNCHANGED vars
  <2>1. Untouched /\ suspect' = suspect /\ last' = last /\ stream' = stream
    BY <1>14 DEF vars, Untouched
  <2>2. Streaming'
    BY <1>14 DEF vars, Inv, Streaming, LobOpen
  <2> QED
    BY <2>1, <2>2, UntouchedInv DEF Inv, Types
<1> QED
  BY <1>1, <1>2, <1>3, <1>4, <1>5, <1>6, <1>7, <1>8, <1>9, <1>10, <1>11, <1>12, <1>13, <1>14
  DEF Next

LEMMA SpecInv == Spec => []Inv
  BY InitInv, NextInv, PTL DEF Spec

\* The variables of sqli_sblob.c and of the server keep their types: descriptors stand
\* within their objects, an upload handle counts no more bytes than it may.
THEOREM TypesOK == Spec => []TypeOK
  BY SpecInv, InvTypeOK, PTL

\* In a sound session every handle that is open is open on the server, on its own
\* object, and every descriptor of the server is held by a handle or was lost by a
\* close that failed (sqli_sblob_close_created, sqli_sblob_reader_close).
THEOREM KnownDescriptors == Spec => []DescriptorsKnown
<1>1. Inv => DescriptorsKnown
  BY DEF Inv
<1> QED
  BY <1>1, SpecInv, PTL

\* A handle gives its locator up only when the server has released the object
\* (sqli_sblob_release).
THEOREM ReleasedTruthfully == Spec => ReleaseTruthful
<1> DEFINE Truthful == lob.locator # 0 /\ lob'.exists /\ lob'.locator # lob.locator
                          => lob'.locator = 0 /\ lob.locator \notin DOMAIN server'.data
<1>1. Inv /\ [Next]_vars => [Truthful]_vars
  <2> SUFFICES ASSUME Inv, Next, lob.locator # 0, lob'.exists, lob'.locator # lob.locator
               PROVE  lob'.locator = 0 /\ lob.locator \notin DOMAIN server'.data
    BY DEF vars
  <2>1. CASE Release
    <3>1. PICK after, answer :
            /\ \/ after = server /\ ~lob.open /\ lost' = lost
               \/ after = server /\ lob.open /\ lost' = lost \cup {lob.lofd}
               \/ after = ClosedAt(server, lob.lofd) /\ lob.open /\ lost' = lost
            /\ Outcome(answer.status) /\ lob' = ReleasedLob(answer)
            /\ \/ answer.status = "OK" /\ answer.done
               \/ answer.status = "ERR" /\ ~answer.done
               \/ answer.status = "IO_ERROR"
            /\ \/ answer.done /\ server' = ReleasedIn(after, lob.locator)
                  /\ \A e \in DOMAIN after.open : after.open[e].object # lob.locator
               \/ ~answer.done /\ server' = after
      BY <2>1, ReleaseFacts
    <3>2. lob'.locator = IF answer.status = "OK" THEN 0 ELSE lob.locator
      <4>1. lob \in [exists: BOOLEAN, lofd: {-1} \cup Descriptors, locator: {0} \cup Objects,
                     open: BOOLEAN, confirmed: 0 .. MaxBytes]
        BY DEF Inv, Types
      <4>2. CASE answer.status = "OK"
        BY <3>1, <4>1, <4>2 DEF ReleasedLob
      <4>3. CASE answer.status # "OK"
        BY <3>1, <4>1, <4>3 DEF ReleasedLob
      <4> QED
        BY <4>2, <4>3
    <3>3. answer.status = "OK"
      BY <3>2
    <3>4. answer.done /\ server' = ReleasedIn(after, lob.locator)
          /\ \A e \in DOMAIN after.open : after.open[e].object # lob.locator
      BY <3>1, <3>3
    <3>5. ServerOK(after)
      BY <3>1, ClosedOK DEF Inv
    <3>6. DOMAIN server'.data = DOMAIN after.data \ {lob.locator}
      BY <3>4, <3>5, ReleasedOK
    <3> QED
      BY <3>2, <3>3, <3>6
  <2>2. CASE Create
    BY <2>2 DEF Create, Inv, Handles, NoLob
  <2>3. CASE DestroyLob
    BY <2>3 DEF DestroyLob, NoLob
  <2>4. CASE CloseCreated
    <3>1. lob' = lob \/ lob' = [lob EXCEPT !.open = FALSE, !.lofd = -1]
      BY <2>4 DEF CloseCreated
    <3> QED
      BY <3>1 DEF Inv, Types
  <2>5. CASE WriteBuffer \/ StreamMore
    <3>1. lob' = lob \/ \E k : lob' = [lob EXCEPT !.confirmed = @ + k]
      BY <2>5 DEF WriteBuffer, StreamMore
    <3> QED
      BY <3>1 DEF Inv, Types
  <2>6. CASE ~(Release \/ Create \/ DestroyLob \/ CloseCreated \/ WriteBuffer \/ StreamMore)
    BY <2>6 DEF Next, StartStream, StreamEnd, ReaderOpen, ReaderRead, ReaderClose, ReaderDestroy,
                ReadColumn, Discard, Close, Reconnect, Unready
  <2> QED
    BY <2>1, <2>2, <2>3, <2>4, <2>5, <2>6
<1> QED
  BY <1>1, SpecInv, PTL DEF Spec, ReleaseTruthful

---------------------------------------------------------------------------
(* What has been reported as written is stored.                            *)

\* No buffer that an object has room for is longer than a header can announce.  A
\* longer one is announced as an int32 but counted as a whole (sqli_sblob_write, req_len
\* and *bytes_written).
Announced == \A n \in Capacities : n <= MaxBytes => n <= MaxInt32

\* The upload handle's descriptor stands behind what has been confirmed.
AtEnd == Sound /\ lob.open => server.open[lob.lofd].pos = lob.confirmed

WrittenStands == ConfirmedStored /\ AtEnd

\* A step of the readers, or of none: the upload handle, its descriptor and the bytes
\* of the objects are as before.
Kept ==
    /\ lob' = lob /\ server'.data = server.data
    /\ suspect => suspect'
    /\ Sound' => Sound
    /\ Sound /\ lob.open => server'.open[lob.lofd] = server.open[lob.lofd]

LEMMA KeptStored ==
    ASSUME WrittenStands, Kept
    PROVE  WrittenStands'
<1>1. ConfirmedStored'
  BY DEF WrittenStands, ConfirmedStored, Kept
<1>2. AtEnd'
  BY DEF WrittenStands, AtEnd, Kept
<1> QED
  BY <1>1, <1>2 DEF WrittenStands

LEMMA ReadersKeep ==
    ASSUME Inv, ReaderOpen \/ ReaderRead \/ ReaderClose \/ ReaderDestroy \/ ReadColumn
    PROVE  Kept
<1>0. /\ Types /\ ServerOK(server) /\ lob' = lob /\ conn' = conn /\ DescriptorsKnown /\ Handles
  BY DEF Inv, ReaderOpen, ReaderRead, ReaderClose, ReaderDestroy, ReadColumn
<1>1. suspect => suspect'
  <2>1. CASE ReaderOpen \/ ReaderRead \/ ReadColumn
    BY <2>1 DEF ReaderOpen, ReaderRead, ReadColumn, Ready
  <2>2. CASE ReaderClose \/ ReaderDestroy
    <3>1. \E status : Outcome(status)
      BY <2>2 DEF ReaderClose, ReaderDestroy, CloseQuery
    <3> QED
      BY <3>1, <1>0, OutcomeFacts DEF Types
  <2> QED
    BY <2>1, <2>2
<1>2. \/ server' = server
      \/ Unused # {} /\ \E o \in DOMAIN server.data : server' = Opened(server, NextUnused, o)
      \/ reader.exists /\ reader.open /\ server' = ClosedAt(server, reader.descriptor)
      \/ reader.exists /\ reader.open /\ reader.descriptor \in DOMAIN server.open
            /\ \E p \in Nat : p <= Len(server.data[server.open[reader.descriptor].object])
                              /\ server' = MovedIn(server, reader.descriptor, p)
  <2>1. CASE ReaderOpen
    BY <2>1 DEF ReaderOpen
  <2>2. CASE ReaderRead
    <3>1. \/ server' = server
          \/ reader.exists /\ reader.open /\ reader.descriptor \in DOMAIN server.open
             /\ \E capacity \in Capacities, offset \in Offsets \cup {0} :
                \E r \in Reads(reader.descriptor, offset, capacity) :
                   server' = MovedIn(server, reader.descriptor, r.pos)
      BY <2>2 DEF ReaderRead, TakeRead, MovedIn
    <3> QED
      BY <1>0, <3>1, ReadsPosition
  <2>3. CASE ReaderClose
    BY <2>3 DEF ReaderClose, CloseQuery
  <2>4. CASE ReaderDestroy
    BY <2>4 DEF ReaderDestroy
  <2>5. CASE ReadColumn
    BY <2>5 DEF ReadColumn
  <2> QED
    BY <2>1, <2>2, <2>3, <2>4, <2>5
<1>3. Sound /\ lob.open => /\ lob.lofd \in DOMAIN server.open
                           /\ reader.exists /\ reader.open => lob.lofd # reader.descriptor
  BY <1>0 DEF DescriptorsKnown, Sound, Handles
<1>4. /\ server'.data = server.data
      /\ Sound /\ lob.open => server'.open[lob.lofd] = server.open[lob.lofd]
  <2>1. CASE server' = server
    BY <2>1
  <2>2. ASSUME Unused # {}, NEW o \in DOMAIN server.data, server' = Opened(server, NextUnused, o)
        PROVE  /\ server'.data = server.data
               /\ Sound /\ lob.open => server'.open[lob.lofd] = server.open[lob.lofd]
    <3>1. NextUnused \in Descriptors /\ NextUnused \notin DOMAIN server.open
      BY <2>2, NextUnusedFree
    <3>2. /\ Opened(server, NextUnused, o).data = server.data
          /\ \A e \in DOMAIN server.open : Opened(server, NextUnused, o).open[e] = server.open[e]
      BY <1>0, <3>1, OpenedOK
    <3> QED
      BY <2>2, <3>2, <1>3
  <2>3. CASE reader.exists /\ reader.open /\ server' = ClosedAt(server, reader.descriptor)
    BY <1>0, <1>3, <2>3, ClosedOK
  <2>4. ASSUME reader.exists, reader.open, reader.descriptor \in DOMAIN server.open, NEW p \in Nat,
               p <= Len(server.data[server.open[reader.descriptor].object]),
               server' = MovedIn(server, reader.descriptor, p)
        PROVE  /\ server'.data = server.data
               /\ Sound /\ lob.open => server'.open[lob.lofd] = server.open[lob.lofd]
    BY <1>0, <1>3, <2>4, MovedOK
  <2> QED
    BY <1>2, <2>1, <2>2, <2>3, <2>4
<1> QED
  BY <1>0, <1>1, <1>4 DEF Kept, Sound

\* A write that is confirmed as a whole is stored as a whole, behind what was there.
LEMMA WrittenStored ==
    ASSUME Announced, Inv, WrittenStands, Sound, LobOpen, NEW n \in Capacities \ {0}, Fits(n),
           NEW w \in Writes(n), server' = w.server, Outcome(w.status),
           \/ w.status = "OK" /\ lob' = [lob EXCEPT !.confirmed = @ + n]
           \/ w.status # "OK" /\ lob' = lob
    PROVE  WrittenStands'
<1> DEFINE o   == lob.locator
           old == server.data[o]
           p   == lob.confirmed
<1>1. /\ lob.exists /\ lob.lofd \in DOMAIN server.open /\ lob.open
      /\ server.open[lob.lofd].object = o /\ o \in DOMAIN server.data
      /\ p \in Nat /\ p <= MaxBytes
  BY LobFacts DEF LobOpen
<1>2. /\ MaxBytes \in Nat /\ MaxInt32 \in Nat /\ n \in Nat \ {0} /\ n <= MaxInt32
      /\ p + n <= MaxBytes
  <2>1. MaxBytes \in Nat /\ MaxInt32 \in Nat /\ n \in Nat \ {0} /\ p + n <= MaxBytes
    BY LargeObjectAssumption DEF Fits
  <2>2. n <= MaxBytes
    BY <1>1, <2>1
  <2>3. n <= MaxInt32
    BY <2>2 DEF Announced
  <2> QED
    BY <2>1, <2>3
<1>3. server.open[lob.lofd].pos = p
  BY <1>1 DEF WrittenStands, AtEnd
<1>4. /\ old \in Seq(1 .. MaxBytes) /\ Len(old) = p /\ \A i \in 1 .. p : old[i] = i
  <2>1. old \in Seq(1 .. MaxBytes)
    BY <1>1 DEF Inv, ServerOK
  <2>2. DOMAIN old = 1 .. Len(old)
    BY <2>1, LenProperties
  <2>3. p = Len(old) /\ \A i \in DOMAIN old : old[i] = i
    BY <1>1 DEF WrittenStands, ConfirmedStored, Sound
  <2> QED
    BY <2>1, <2>2, <2>3
<1>5. \A k \in 0 .. n :
         /\ Overwritten(old, p, k) \in Seq(1 .. MaxBytes)
         /\ Len(Overwritten(old, p, k)) = p + k
         /\ \A i \in 1 .. p + k : Overwritten(old, p, k)[i] = i
  <2> SUFFICES ASSUME NEW k \in 0 .. n
               PROVE  /\ Overwritten(old, p, k) \in Seq(1 .. MaxBytes)
                      /\ Len(Overwritten(old, p, k)) = p + k
                      /\ \A i \in 1 .. p + k : Overwritten(old, p, k)[i] = i
    OBVIOUS
  <2>1. k \in Nat /\ p + k <= MaxBytes /\ p <= Len(old) /\ Len(old) <= MaxBytes
    BY <1>1, <1>2, <1>4
  <2> DEFINE v == Overwritten(old, p, k)
  <2>2. /\ v \in Seq(1 .. MaxBytes)
        /\ Len(v) = IF p + k >= Len(old) THEN p + k ELSE Len(old)
        /\ \A i \in 1 .. p : v[i] = old[i]
        /\ \A i \in p + 1 .. p + k : v[i] = p + (i - p)
    BY <1>1, <1>4, <2>1, OverwrittenOK
  <2> HIDE DEF v, old, p
  <2>3. Len(v) = p + k
    BY <1>1, <1>4, <2>1, <2>2
  <2>4. \A i \in 1 .. p + k : v[i] = i
    <3> SUFFICES ASSUME NEW i \in 1 .. p + k PROVE v[i] = i
      OBVIOUS
    <3>1. CASE i <= p
      BY <1>1, <1>4, <2>2, <3>1
    <3>2. CASE ~(i <= p)
      <4>1. i \in p + 1 .. p + k
        BY <1>1, <2>1, <3>2
      <4>2. v[i] = p + (i - p)
        BY <2>2, <4>1
      <4> QED
        BY <1>1, <4>1, <4>2
    <3> QED
      BY <3>1, <3>2
  <2> QED
    BY <2>2, <2>3, <2>4 DEF v
<1>6. \A k \in 0 .. n :
         /\ Stored(k).open[lob.lofd].pos = p + k
         /\ Stored(k).data[o] = Overwritten(old, p, k)
  <2> SUFFICES ASSUME NEW k \in 0 .. n
               PROVE  /\ Stored(k).open[lob.lofd].pos = p + k
                      /\ Stored(k).data[o] = Overwritten(old, p, k)
    OBVIOUS
  <2>1. k \in Nat /\ p + k <= MaxBytes /\ server.open[lob.lofd].pos <= lob.confirmed
    BY <1>1, <1>2, <1>3
  <2>2. ServerOK(server) /\ lob.confirmed \in Nat /\ lob.confirmed + k <= MaxBytes
    BY <1>1, <2>1 DEF Inv
  <2>3. /\ Stored(k).open[lob.lofd].pos = server.open[lob.lofd].pos + k
        /\ Stored(k).data[server.open[lob.lofd].object] =
              Overwritten(server.data[server.open[lob.lofd].object], server.open[lob.lofd].pos, k)
    BY <1>1, <2>1, <2>2, StoredOK
  <2> QED
    BY <1>1, <1>3, <2>3
<1>7. /\ w.status = "IO_ERROR" => suspect'
      /\ suspect' \in BOOLEAN
  BY OutcomeFacts DEF Failed, Inv, Types
<1>8. /\ lob'.exists = lob.exists /\ lob'.lofd = lob.lofd /\ lob'.locator = lob.locator
      /\ lob'.open = lob.open
      /\ w.status = "OK" => lob'.confirmed = p + n
      /\ w.status # "OK" => lob'.confirmed = p
  <2>1. lob \in [exists: BOOLEAN, lofd: {-1} \cup Descriptors, locator: {0} \cup Objects,
                 open: BOOLEAN, confirmed: 0 .. MaxBytes]
    BY DEF Inv, Types
  <2>2. CASE lob' = [lob EXCEPT !.confirmed = @ + n] /\ w.status = "OK"
    BY <2>1, <2>2
  <2>3. CASE lob' = lob /\ w.status # "OK"
    BY <2>1, <2>3
  <2> QED
    BY <2>2, <2>3
<1>9. Least(n, MaxInt32) = n
  BY <1>2 DEF Least
<1> DEFINE data == server'.data[o]
           pos  == server'.open[lob.lofd].pos
\* k bytes are stored: all of them when the write is confirmed, none when it is refused.
<1>10. \E k \in 0 .. n : /\ Len(data) = p + k /\ DOMAIN data = 1 .. p + k
                         /\ \A i \in 1 .. p + k : data[i] = i
                         /\ pos = p + k
                         /\ w.status = "OK" => k = n
                         /\ w.status # "OK" => k = 0 \/ suspect'
  <2>1. CASE w.status # "OK" /\ w.server = server
    <3>1. data = old /\ pos = p /\ DOMAIN old = 1 .. p
      BY <2>1, <1>3, <1>4, LenProperties
    <3>2. 0 \in 0 .. n /\ p + 0 = p
      BY <1>1, <1>2
    <3> HIDE DEF data, old, p, pos
    <3> QED
      BY <2>1, <3>1, <3>2, <1>4
  <2>2. ASSUME NEW k \in 0 .. n, w.server = Stored(k),
               w.status = "OK" => k = n, w.status # "OK" => suspect'
        PROVE  \E j \in 0 .. n : /\ Len(data) = p + j /\ DOMAIN data = 1 .. p + j
                                 /\ \A i \in 1 .. p + j : data[i] = i
                                 /\ pos = p + j
                                 /\ w.status = "OK" => j = n
                                 /\ w.status # "OK" => j = 0 \/ suspect'
    <3>1. data = Overwritten(old, p, k) /\ pos = p + k
      BY <2>2, <1>6
    <3> HIDE DEF data, pos
    <3>2. DOMAIN data = 1 .. Len(data)
      BY <3>1, <1>5, LenProperties
    <3> QED
      BY <2>2, <3>1, <3>2, <1>5
  <2>3. \/ w.status = "OK" /\ w.server = Stored(n)
        \/ w.status # "OK" /\ w.server = server
        \/ w.status = "IO_ERROR" /\ \E k \in 0 .. n : w.server = Stored(k)
    <3>1. \/ w.status = "OK" /\ w.server = Stored(Least(n, MaxInt32))
          \/ w.status # "OK" /\ w.server = server
          \/ w.status = "IO_ERROR" /\ \E k \in 0 .. n : w.server = Stored(k)
      BY <1>2, WritesFacts
    <3> QED
      BY <3>1, <1>9
  <2>4. n \in 0 .. n
    BY <1>2
  <2> HIDE DEF data, pos, p
  <2>5. CASE w.status = "OK" /\ w.server = Stored(n)
    BY <2>2, <2>4, <2>5
  <2>6. CASE w.status = "IO_ERROR" /\ \E k \in 0 .. n : w.server = Stored(k)
    BY <2>2, <2>6, <1>7
  <2> QED
    BY <2>1, <2>3, <2>5, <2>6
<1> HIDE DEF data, pos, p
<1>11. PICK k \in 0 .. n : /\ Len(data) = p + k /\ DOMAIN data = 1 .. p + k
                           /\ \A i \in 1 .. p + k : data[i] = i
                           /\ pos = p + k
                           /\ w.status = "OK" => k = n
                           /\ w.status # "OK" => k = 0 \/ suspect'
  BY <1>10
<1>12. /\ lob'.confirmed <= Len(data)
       /\ ~suspect' => lob'.confirmed = Len(data) /\ pos = lob'.confirmed
  <2>1. CASE w.status = "OK"
    BY <1>1, <1>2, <1>8, <1>11, <2>1
  <2>2. CASE w.status # "OK"
    BY <1>1, <1>2, <1>8, <1>11, <2>2
  <2> QED
    BY <2>1, <2>2
<1>13. ConfirmedStored'
  BY <1>8, <1>11, <1>12 DEF ConfirmedStored, data
<1>14. AtEnd'
  BY <1>8, <1>12 DEF AtEnd, Sound, pos
<1> QED
  BY <1>13, <1>14 DEF WrittenStands

\* A step that leaves the upload handle's count and locator, closes its descriptor at
\* most and leaves the bytes of the object.
LEMMA ClosingStored ==
    ASSUME WrittenStands, lob'.exists = lob.exists, lob'.confirmed = lob.confirmed,
           lob'.locator = lob.locator, ~(Sound' /\ lob'.open), suspect => suspect',
           \/ server'.data = server.data
           \/ lob.locator \notin DOMAIN server'.data
    PROVE  WrittenStands'
<1>1. ConfirmedStored'
  BY DEF WrittenStands, ConfirmedStored
<1>2. AtEnd'
  BY DEF AtEnd, Sound
<1> QED
  BY <1>1, <1>2 DEF WrittenStands

\* Without a handle there is nothing to keep.
LEMMA NoHandleStored ==
    ASSUME ~lob'.exists, ~lob'.open
    PROVE  WrittenStands'
  BY DEF WrittenStands, ConfirmedStored, AtEnd

LEMMA ReleaseStored ==
    ASSUME Inv, WrittenStands, Release
    PROVE  WrittenStands'
<1>0. Types /\ ServerOK(server) /\ Inv' /\ suspect \in BOOLEAN
  BY ReleaseInv DEF Inv, Types
<1>1. CASE lob.locator = 0
  <2>1. Outcome("INVALID_STATE") /\ UNCHANGED <<server, lob, conn>>
    BY <1>1 DEF Release
  <2>2. Kept
    BY <1>0, <2>1, OutcomeFacts DEF Kept, Sound, Failed
  <2> QED
    BY <2>2, KeptStored
<1>2. CASE lob.locator # 0
  <2>1. PICK after, answer :
          /\ \/ after = server /\ ~lob.open /\ lost' = lost
             \/ after = server /\ lob.open /\ lost' = lost \cup {lob.lofd}
             \/ after = ClosedAt(server, lob.lofd) /\ lob.open /\ lost' = lost
          /\ Outcome(answer.status) /\ lob' = ReleasedLob(answer)
          /\ \/ answer.status = "OK" /\ answer.done
             \/ answer.status = "ERR" /\ ~answer.done
             \/ answer.status = "IO_ERROR"
          /\ \/ answer.done /\ server' = ReleasedIn(after, lob.locator)
                /\ \A e \in DOMAIN after.open : after.open[e].object # lob.locator
             \/ ~answer.done /\ server' = after
    BY <1>2, ReleaseFacts
  <2>2. /\ lob'.exists = lob.exists /\ lob'.confirmed = lob.confirmed /\ lob'.open = FALSE
        /\ lob'.locator = IF answer.status = "OK" THEN 0 ELSE lob.locator
    <3>1. lob \in [exists: BOOLEAN, lofd: {-1} \cup Descriptors, locator: {0} \cup Objects,
                   open: BOOLEAN, confirmed: 0 .. MaxBytes]
      BY <1>0 DEF Types
    <3>2. CASE answer.status = "OK"
      BY <2>1, <3>1, <3>2 DEF ReleasedLob
    <3>3. CASE answer.status # "OK"
      BY <2>1, <3>1, <3>3 DEF ReleasedLob
    <3> QED
      BY <3>2, <3>3
  <2>3. CASE answer.status = "OK"
    <3>1. DOMAIN server'.data \subseteq Objects
      BY <1>0 DEF Inv, ServerOK
    <3>2. lob'.locator \notin DOMAIN server'.data
      BY <2>2, <2>3, <3>1, LargeObjectAssumption
    <3> QED
      BY <2>2, <3>2 DEF WrittenStands, ConfirmedStored, AtEnd
  <2>4. CASE answer.status # "OK"
    <3>1. ServerOK(after) /\ after.data = server.data
      BY <1>0, <2>1, ClosedOK
    <3>2. \/ server'.data = server.data
          \/ lob.locator \notin DOMAIN server'.data
      <4>1. CASE ~answer.done /\ server' = after
        BY <3>1, <4>1
      <4>2. CASE /\ server' = ReleasedIn(after, lob.locator)
                 /\ \A e \in DOMAIN after.open : after.open[e].object # lob.locator
        <5>1. DOMAIN ReleasedIn(after, lob.locator).data = DOMAIN after.data \ {lob.locator}
          BY <3>1, <4>2, ReleasedOK
        <5> QED
          BY <4>2, <5>1
      <4> QED
        BY <2>1, <4>1, <4>2
    <3>3. suspect => suspect'
      BY <1>0, <2>1, OutcomeFacts
    <3> QED
      BY <2>2, <2>4, <3>2, <3>3, ClosingStored
  <2> QED
    BY <2>3, <2>4
<1> QED
  BY <1>1, <1>2

LEMMA CreateStored ==
    ASSUME Inv, Create
    PROVE  WrittenStands'
<1>1. Inv'
  BY CreateInv
<1>2. CASE ~lob'.exists
  <2>1. ~lob'.open
    BY <1>1, <1>2 DEF Inv, Handles
  <2> QED
    BY <1>2, <2>1, NoHandleStored
<1>3. CASE lob'.confirmed = 0 /\ server'.data[lob'.locator] = <<>> /\ server'.open[lob'.lofd].pos = 0
  <2>1. Len(<<>>) = 0 /\ DOMAIN <<>> = {}
    OBVIOUS
  <2>2. ConfirmedStored'
    BY <1>3, <2>1 DEF ConfirmedStored
  <2>3. AtEnd'
    BY <1>3 DEF AtEnd
  <2> QED
    BY <2>2, <2>3 DEF WrittenStands
<1> QED
  BY <1>2, <1>3, CreateInv

LEMMA WriteStored ==
    ASSUME Announced, Inv, WrittenStands, WriteBuffer \/ StreamMore
    PROVE  WrittenStands'
<1>0. Types /\ Sound /\ lob.exists /\ conn' = conn
  BY DEF Inv, WriteBuffer, StreamMore, Streaming, LobOpen, Ready, Sound
<1>1. CASE WriteBuffer
  <2>1. CASE ~lob.open /\ Outcome("INVALID_STATE") /\ UNCHANGED <<server, lob>>
    <3>1. Kept
      BY <1>0, <2>1, OutcomeFacts DEF Kept, Sound, Failed, Types
    <3> QED
      BY <3>1, KeptStored
  <2>2. ASSUME lob.open, NEW n \in Capacities \ {0}, Fits(n), NEW w \in Writes(n),
               server' = w.server, Outcome(w.status),
               lob' = IF w.status = "OK" THEN [lob EXCEPT !.confirmed = @ + n] ELSE lob
        PROVE  WrittenStands'
    <3>1. \/ w.status = "OK" /\ lob' = [lob EXCEPT !.confirmed = @ + n]
          \/ w.status # "OK" /\ lob' = lob
      BY <2>2
    <3>2. LobOpen
      BY <1>0, <2>2 DEF LobOpen
    <3> QED
      BY <1>0, <2>2, <3>1, <3>2, WrittenStored
  <2> QED
    BY <1>1, <2>1, <2>2 DEF WriteBuffer
<1>2. CASE StreamMore
  <2>0. LobOpen /\ stream.on /\ stream.total \in Nat /\ lob.confirmed \in Nat
    BY <1>0, <1>2, LargeObjectAssumption DEF Inv, StreamMore, Streaming, Sound, Types
  <2>1. PICK n \in (Capacities \ {0}) \cap 1 .. ChunkSize : Fits(n) /\ \E w \in Writes(n) :
            LET total == Progress(stream.total, n, w.status)
            IN /\ server' = w.server /\ Outcome(w.status)
               /\ stream' = [on |-> w.status = "OK", total |-> total]
               /\ lob' = [lob EXCEPT !.confirmed = @ + (total - stream.total)]
    BY <1>2 DEF StreamMore
  <2>2. PICK w \in Writes(n) :
            LET total == Progress(stream.total, n, w.status)
            IN /\ server' = w.server /\ Outcome(w.status)
               /\ stream' = [on |-> w.status = "OK", total |-> total]
               /\ lob' = [lob EXCEPT !.confirmed = @ + (total - stream.total)]
    BY <2>1
  <2>3. n \in Capacities \ {0} /\ n \in Nat /\ Fits(n)
    BY <2>1, LargeObjectAssumption
  <2>4. \/ w.status = "OK" /\ lob' = [lob EXCEPT !.confirmed = @ + n]
        \/ w.status # "OK" /\ lob' = lob
    <3>1. lob \in [exists: BOOLEAN, lofd: {-1} \cup Descriptors, locator: {0} \cup Objects,
                   open: BOOLEAN, confirmed: 0 .. MaxBytes]
      BY <1>0 DEF Types
    <3>2. CASE w.status = "OK"
      <4>1. (stream.total + n) - stream.total = n
        BY <2>0, <2>3
      <4>2. lob' = [lob EXCEPT !.confirmed = @ + ((stream.total + n) - stream.total)]
        BY <2>2, <3>2 DEF Progress
      <4> QED
        BY <3>2, <4>1, <4>2
    <3>3. CASE w.status # "OK"
      <4>1. lob.confirmed + (stream.total - stream.total) = lob.confirmed
        BY <2>0
      <4>2. lob' = [lob EXCEPT !.confirmed = @ + (stream.total - stream.total)]
        BY <2>2, <3>3 DEF Progress
      <4>3. lob' = [lob EXCEPT !.confirmed = lob.confirmed]
        BY <4>1, <4>2
      <4> QED
        BY <3>1, <3>3, <4>3
    <3> QED
      BY <3>2, <3>3
  <2> QED
    BY <1>0, <2>0, <2>2, <2>3, <2>4, WrittenStored
<1> QED
  BY <1>1, <1>2

LEMMA NextStored == Announced /\ Inv /\ WrittenStands /\ [Next]_vars => WrittenStands'
<1> SUFFICES ASSUME Announced, Inv, WrittenStands, [Next]_vars PROVE WrittenStands'
  OBVIOUS
<1>0. Types /\ ServerOK(server) /\ suspect \in BOOLEAN
  BY DEF Inv, Types
<1>1. CASE Create
  BY <1>1, CreateStored
<1>2. CASE WriteBuffer \/ StreamMore
  BY <1>2, WriteStored
<1>3. CASE StartStream \/ StreamEnd \/ Unready
  <2>1. UNCHANGED <<conn, server, lob>> /\ \E status : Outcome(status)
    BY <1>3 DEF StartStream, StreamEnd, Unready
  <2>2. suspect => suspect'
    BY <1>0, <2>1, OutcomeFacts
  <2>3. Kept
    BY <2>1, <2>2 DEF Kept, Sound
  <2> QED
    BY <2>3, KeptStored
<1>4. CASE CloseCreated
  <2>1. \/ lob' = lob /\ server' = server /\ conn' = conn /\ Outcome("OK")
        \/ /\ lob' = [lob EXCEPT !.open = FALSE, !.lofd = -1]
           /\ \E q \in QueryResults : CloseQuery(lob.lofd, q)
    BY <1>4 DEF CloseCreated
  <2>2. CASE lob' = lob /\ server' = server /\ conn' = conn /\ Outcome("OK")
    <3>1. Kept
      BY <1>0, <2>2, OutcomeFacts DEF Kept, Sound
    <3> QED
      BY <3>1, KeptStored
  <2>3. CASE /\ lob' = [lob EXCEPT !.open = FALSE, !.lofd = -1]
             /\ \E q \in QueryResults : CloseQuery(lob.lofd, q)
    <3>1. /\ lob'.exists = lob.exists /\ lob'.confirmed = lob.confirmed
          /\ lob'.locator = lob.locator /\ lob'.open = FALSE
      BY <1>0, <2>3 DEF Types
    <3>2. PICK q \in QueryResults : CloseQuery(lob.lofd, q)
      BY <2>3
    <3>3. suspect => suspect'
      BY <1>0, <3>2, OutcomeFacts DEF CloseQuery
    <3>4. server' = server \/ server' = ClosedAt(server, lob.lofd)
      BY <3>2 DEF CloseQuery
    <3>5. server'.data = server.data
      BY <1>0, <3>4, ClosedOK
    <3> QED
      BY <3>1, <3>3, <3>5, ClosingStored
  <2> QED
    BY <2>1, <2>2, <2>3
<1>5. CASE Release
  BY <1>5, ReleaseStored
<1>6. CASE DestroyLob
  BY <1>6, NoHandleStored DEF DestroyLob, NoLob
<1>7. CASE ReaderOpen \/ ReaderRead \/ ReaderClose \/ ReaderDestroy \/ ReadColumn
  BY <1>7, ReadersKeep, KeptStored
<1>8. CASE Discard \/ Close
  <2>1. lob' = lob /\ server' = SessionEnds(server) /\ Outcome("OK")
    BY <1>8 DEF Discard, Close
  <2>2. conn'.state # "READY"
    <3>1. CASE conn' = [state |-> "ERROR", discarded |-> TRUE, routine |-> RoutineAfterClose]
      BY <3>1
    <3>2. CASE conn' = [conn EXCEPT !.state = "CLOSED", !.routine = RoutineAfterClose]
      BY <1>0, <3>2 DEF Types
    <3> QED
      BY <1>8, <3>1, <3>2 DEF Discard, Close
  <2>3. server'.data = server.data
    BY <1>0, <2>1, EndedOK
  <2>4. suspect => suspect'
    BY <1>0, <2>1, OutcomeFacts
  <2> QED
    BY <2>1, <2>2, <2>3, <2>4, ClosingStored DEF Sound
<1>9. CASE Reconnect
  BY <1>9, NoHandleStored DEF Reconnect, Inv, Handles
<1>10. CASE UNCHANGED vars
  BY <1>10, KeptStored DEF vars, Kept, Sound
<1> QED
  BY <1>1, <1>2, <1>3, <1>4, <1>5, <1>6, <1>7, <1>8, <1>9, <1>10 DEF Next

\* What has been reported as written is what the object holds, in order and in a sound
\* session nothing else, over retries of refused writes and broken streams
\* (sqli_sblob_write, sqli_sblob_write_stream).
THEOREM StoredConfirmed == ASSUME Announced PROVE Spec => []ConfirmedStored
<1>1. Init => WrittenStands
  BY DEF Init, NoLob, WrittenStands, ConfirmedStored, AtEnd
<1>2. Inv /\ WrittenStands /\ [Next]_vars => WrittenStands'
  BY NextStored
<1>3. WrittenStands => ConfirmedStored
  BY DEF WrittenStands
<1> QED
  BY <1>1, <1>2, <1>3, SpecInv, PTL DEF Spec

---------------------------------------------------------------------------
(* The loop over the chunks of a reply is well defined.                    *)

\* What holds of 0 and, with a number below n, of the next one holds up to n.
LEMMA UpwardInduction ==
    ASSUME NEW n \in Nat, NEW P, 0 \in P, \A k \in 0 .. n - 1 : k \in P => k + 1 \in P
    PROVE  n \in P
<1> SUFFICES ASSUME n \notin P PROVE FALSE
  OBVIOUS
<1>1. PICK d \in (0 .. n) \ P : \A e \in (0 .. n) \ P : d <= e
  <2>1. (0 .. n) \ P \subseteq Nat /\ (0 .. n) \ P # {}
    OBVIOUS
  <2> QED
    BY <2>1, LeastOf
<1>2. d # 0 /\ d - 1 \in 0 .. n - 1 /\ d - 1 + 1 = d /\ ~ (d <= d - 1)
  BY <1>1
<1>3. d - 1 \in P
  BY <1>1, <1>2
<1> QED
  BY <1>1, <1>2, <1>3

\* The tokens of a reply that delivers bytes, behind its header.
Piece == [t: {"EOT", "DONE", "LEN", "BYTE", "PAD"}, n: Nat]

\* What the loop over the chunks makes of the reply from a place on, given what it
\* makes of the reply from a later one.
Chunk(in, expected, capacity, from, at, seen) ==
    IF seen >= expected THEN DrainTail(SubSeq(in, at, Len(in)), <<>>)
    ELSE IF at > Len(in) THEN Read("IO_ERROR", <<>>, <<>>)
    ELSE LET len  == in[at].n
             next == at + 1 + len + (len % 2)
         IN IF len = 0 THEN DrainTail(SubSeq(in, next, Len(in)), <<>>)
            ELSE IF next > Len(in) + 1 THEN Read("IO_ERROR", <<>>, <<>>)
            ELSE [from[next][seen + len] EXCEPT
                     !.data = Taken(in, at, len, capacity - seen) \o @]

Chunks(in, expected, capacity, from) ==
    [at \in 1 .. Len(in) + 1 |-> [seen \in Nat |-> Chunk(in, expected, capacity, from, at, seen)]]

From(in, expected, capacity) ==
    CHOOSE from : from = Chunks(in, expected, capacity, from)

LEMMA ChunksOfFrom ==
    ASSUME NEW in, NEW expected, NEW capacity
    PROVE  ChunksOf(in, expected, capacity) = From(in, expected, capacity)[1][0]
  BY DEF ChunksOf, From, Chunks, Chunk

\* A chunk is followed by what lies behind it.
LEMMA ChunkAgrees ==
    ASSUME NEW in \in Seq(Piece), NEW expected, NEW capacity, NEW g, NEW h,
           NEW at \in 1 .. Len(in) + 1, NEW seen \in Nat,
           \A next \in at + 1 .. Len(in) + 1, s \in Nat : g[next][s] = h[next][s]
    PROVE  Chunk(in, expected, capacity, g, at, seen) = Chunk(in, expected, capacity, h, at, seen)
<1> DEFINE len  == in[at].n
           next == at + 1 + len + (len % 2)
<1>1. CASE seen >= expected \/ at > Len(in) \/ len = 0 \/ next > Len(in) + 1
  BY <1>1 DEF Chunk
<1>2. CASE ~ (at > Len(in)) /\ ~ (next > Len(in) + 1)
  <2>1. Len(in) \in Nat /\ in[at] \in Piece
    BY <1>2, LenProperties, ElementOfSeq
  <2>2. len \in Nat
    BY <2>1 DEF Piece
  <2> HIDE DEF len
  <2>3. len % 2 \in {0, 1}
    BY <2>2
  <2>4. next \in at + 1 .. Len(in) + 1 /\ seen + len \in Nat
    BY <1>2, <2>1, <2>2, <2>3
  <2> HIDE DEF next
  <2>5. g[next][seen + len] = h[next][seen + len]
    BY <2>4
  <2> QED
    BY <2>5 DEF Chunk, len, next
<1> QED
  BY <1>1, <1>2

\* The loop is well defined: a function follows the chunks from the last k places on.
Follows(in, expected, capacity, k, g) ==
    \A at \in 1 .. Len(in) + 1, seen \in Nat :
        at + k > Len(in) + 1 => g[at][seen] = Chunk(in, expected, capacity, g, at, seen)

LEMMA FollowsNext ==
    ASSUME NEW in \in Seq(Piece), NEW expected, NEW capacity, NEW k \in Nat, NEW g,
           Follows(in, expected, capacity, k, g)
    PROVE  Follows(in, expected, capacity, k + 1, Chunks(in, expected, capacity, g))
<1> DEFINE h == Chunks(in, expected, capacity, g)
<1>1. ASSUME NEW at \in 1 .. Len(in) + 1, NEW seen \in Nat
      PROVE  h[at][seen] = Chunk(in, expected, capacity, g, at, seen)
  BY DEF Chunks
<1> HIDE DEF h
<1>2. ASSUME NEW at \in 1 .. Len(in) + 1, NEW seen \in Nat, at + (k + 1) > Len(in) + 1
      PROVE  h[at][seen] = Chunk(in, expected, capacity, h, at, seen)
  <2>1. ASSUME NEW next \in at + 1 .. Len(in) + 1, NEW s \in Nat
        PROVE  g[next][s] = h[next][s]
    <3>1. next \in 1 .. Len(in) + 1 /\ next + k > Len(in) + 1
      <4>1. Len(in) \in Nat
        BY LenProperties
      <4> QED
        BY <1>2, <4>1
    <3>2. g[next][s] = Chunk(in, expected, capacity, g, next, s)
      BY <3>1 DEF Follows
    <3> QED
      BY <1>1, <3>1, <3>2
  <2>2. Chunk(in, expected, capacity, g, at, seen) = Chunk(in, expected, capacity, h, at, seen)
    BY <2>1, ChunkAgrees
  <2> QED
    BY <1>1, <2>2
<1>3. Follows(in, expected, capacity, k + 1, h)
  BY <1>2 DEF Follows
<1> QED
  BY <1>3 DEF h

LEMMA FromChunks ==
    ASSUME NEW in \in Seq(Piece), NEW expected, NEW capacity
    PROVE  \A at \in 1 .. Len(in) + 1, seen \in Nat :
              From(in, expected, capacity)[at][seen]
                = Chunk(in, expected, capacity, From(in, expected, capacity), at, seen)
<1> DEFINE n == Len(in) + 1
           P == {k \in 0 .. n : \E g : Follows(in, expected, capacity, k, g)}
<1>0. n \in Nat
  BY LenProperties
<1>1. 0 \in P
  <2>1. Follows(in, expected, capacity, 0, <<>>)
    <3>1. \A at \in 1 .. Len(in) + 1 : ~ (at + 0 > Len(in) + 1)
      BY <1>0
    <3> QED
      BY <3>1 DEF Follows
  <2> QED
    BY <1>0, <2>1
<1>2. ASSUME NEW k \in 0 .. n - 1, k \in P PROVE k + 1 \in P
  <2>1. PICK g : Follows(in, expected, capacity, k, g)
    BY <1>2
  <2>2. Follows(in, expected, capacity, k + 1, Chunks(in, expected, capacity, g))
    BY <1>0, <2>1, FollowsNext
  <2> QED
    BY <1>0, <2>2
<1>3. n \in P
  <2> HIDE DEF P, n
  <2> QED
    BY <1>0, <1>1, <1>2, UpwardInduction
<1>4. PICK g : Follows(in, expected, capacity, n, g)
  BY <1>3
<1> DEFINE h == Chunks(in, expected, capacity, g)
<1>5. ASSUME NEW at \in 1 .. Len(in) + 1, NEW seen \in Nat
      PROVE  g[at][seen] = h[at][seen]
  <2>1. at + n > Len(in) + 1
    BY <1>0
  <2> QED
    BY <1>4, <2>1 DEF Follows, Chunks
<1>6. h = Chunks(in, expected, capacity, h)
  <2>1. ASSUME NEW at \in 1 .. Len(in) + 1, NEW seen \in Nat
        PROVE  Chunk(in, expected, capacity, g, at, seen) = Chunk(in, expected, capacity, h, at, seen)
    <3>1. \A next \in at + 1 .. Len(in) + 1 : next \in 1 .. Len(in) + 1
      BY <1>0
    <3> HIDE DEF h
    <3>2. \A next \in at + 1 .. Len(in) + 1, s \in Nat : g[next][s] = h[next][s]
      BY <1>5, <3>1
    <3> QED
      BY <3>2, ChunkAgrees
  <2> DEFINE row(f, at) == [seen \in Nat |-> Chunk(in, expected, capacity, f, at, seen)]
  <2>2. ASSUME NEW at \in 1 .. Len(in) + 1 PROVE row(g, at) = row(h, at)
    <3> HIDE DEF h
    <3> QED
      BY <2>1
  <2>3. Chunks(in, expected, capacity, g) = [at \in 1 .. Len(in) + 1 |-> row(g, at)]
        /\ Chunks(in, expected, capacity, h) = [at \in 1 .. Len(in) + 1 |-> row(h, at)]
    BY DEF Chunks
  <2> HIDE DEF row
  <2> QED
    BY <2>2, <2>3
<1> HIDE DEF h
<1>7. From(in, expected, capacity) = Chunks(in, expected, capacity, From(in, expected, capacity))
  BY <1>6 DEF From
<1> DEFINE from == From(in, expected, capacity)
<1> HIDE DEF from
<1>8. from = Chunks(in, expected, capacity, from)
  BY <1>7 DEF from
<1>9. \A at \in 1 .. Len(in) + 1, seen \in Nat :
        Chunks(in, expected, capacity, from)[at][seen] = Chunk(in, expected, capacity, from, at, seen)
  BY DEF Chunks
<1> QED
  BY <1>8, <1>9 DEF from

---------------------------------------------------------------------------
(* So are the ways to cut bytes into chunks.                               *)

\* The framings of the bytes behind the first k, given those of the bytes behind more.
Cut(bytes, behind, k) ==
    IF k = Len(bytes) THEN {<<>>}
    ELSE UNION {{Frame(SubSeq(bytes, k + 1, m)) \o f : f \in behind[m]} :
                m \in k + 1 .. Least(Len(bytes), k + ChunkSize)}

Cuts(bytes, behind) == [k \in 0 .. Len(bytes) |-> Cut(bytes, behind, k)]

Behind(bytes) == CHOOSE behind : behind = Cuts(bytes, behind)

LEMMA FramingsBehind ==
    ASSUME NEW bytes
    PROVE  Framings(bytes) = Behind(bytes)[0]
  BY DEF Framings, Behind, Cuts, Cut

LEMMA CutAgrees ==
    ASSUME NEW bytes, Len(bytes) \in Nat, NEW g, NEW h, NEW k \in 0 .. Len(bytes),
           \A m \in k + 1 .. Len(bytes) : g[m] = h[m]
    PROVE  Cut(bytes, g, k) = Cut(bytes, h, k)
<1>1. ChunkSize \in Nat
  BY LargeObjectAssumption
<1>2. \A m \in k + 1 .. Least(Len(bytes), k + ChunkSize) : m \in k + 1 .. Len(bytes)
  BY <1>1 DEF Least
<1> DEFINE those(f, m) == {Frame(SubSeq(bytes, k + 1, m)) \o r : r \in f[m]}
<1>3. \A m \in k + 1 .. Least(Len(bytes), k + ChunkSize) : those(g, m) = those(h, m)
  BY <1>2
<1>4. Cut(bytes, g, k) = IF k = Len(bytes) THEN {<<>>}
                         ELSE UNION {those(g, m) : m \in k + 1 .. Least(Len(bytes), k + ChunkSize)}
  BY DEF Cut
<1>5. Cut(bytes, h, k) = IF k = Len(bytes) THEN {<<>>}
                         ELSE UNION {those(h, m) : m \in k + 1 .. Least(Len(bytes), k + ChunkSize)}
  BY DEF Cut
<1> HIDE DEF those
<1>6. {those(g, m) : m \in k + 1 .. Least(Len(bytes), k + ChunkSize)}
        = {those(h, m) : m \in k + 1 .. Least(Len(bytes), k + ChunkSize)}
  BY <1>3
<1> QED
  BY <1>4, <1>5, <1>6

\* A function cuts the last k bytes as the server does.
CutsLast(bytes, k, g) ==
    \A j \in 0 .. Len(bytes) : j + k > Len(bytes) => g[j] = Cut(bytes, g, j)

LEMMA CutsNext ==
    ASSUME NEW bytes, Len(bytes) \in Nat, NEW k \in Nat, NEW g, CutsLast(bytes, k, g)
    PROVE  CutsLast(bytes, k + 1, Cuts(bytes, g))
<1> DEFINE h == Cuts(bytes, g)
<1>1. \A j \in 0 .. Len(bytes) : h[j] = Cut(bytes, g, j)
  BY DEF Cuts
<1> HIDE DEF h
<1>2. ASSUME NEW j \in 0 .. Len(bytes), j + (k + 1) > Len(bytes)
      PROVE  h[j] = Cut(bytes, h, j)
  <2>1. ASSUME NEW m \in j + 1 .. Len(bytes) PROVE g[m] = h[m]
    <3>1. m \in 0 .. Len(bytes) /\ m + k > Len(bytes)
      BY <1>2
    <3> QED
      BY <1>1, <3>1 DEF CutsLast
  <2>2. Cut(bytes, g, j) = Cut(bytes, h, j)
    BY <2>1, CutAgrees
  <2> QED
    BY <1>1, <2>2
<1>3. CutsLast(bytes, k + 1, h)
  BY <1>2 DEF CutsLast
<1> QED
  BY <1>3 DEF h

LEMMA BehindCuts ==
    ASSUME NEW bytes, Len(bytes) \in Nat
    PROVE  \A k \in 0 .. Len(bytes) : Behind(bytes)[k] = Cut(bytes, Behind(bytes), k)
<1> DEFINE n == Len(bytes) + 1
           P == {k \in 0 .. n : \E g : CutsLast(bytes, k, g)}
<1>0. n \in Nat
  OBVIOUS
<1>1. 0 \in P
  <2>1. CutsLast(bytes, 0, <<>>)
    <3>1. \A j \in 0 .. Len(bytes) : ~ (j + 0 > Len(bytes))
      OBVIOUS
    <3> QED
      BY <3>1 DEF CutsLast
  <2> QED
    BY <1>0, <2>1
<1>2. ASSUME NEW k \in 0 .. n - 1, k \in P PROVE k + 1 \in P
  <2>1. PICK g : CutsLast(bytes, k, g)
    BY <1>2
  <2>2. CutsLast(bytes, k + 1, Cuts(bytes, g))
    BY <1>0, <2>1, CutsNext
  <2> QED
    BY <1>0, <2>2
<1>3. n \in P
  <2> HIDE DEF P, n
  <2> QED
    BY <1>0, <1>1, <1>2, UpwardInduction
<1>4. PICK g : CutsLast(bytes, n, g)
  BY <1>3
<1> DEFINE h == Cuts(bytes, g)
<1>5. ASSUME NEW k \in 0 .. Len(bytes) PROVE g[k] = h[k]
  <2>1. k + n > Len(bytes)
    OBVIOUS
  <2> QED
    BY <1>4, <2>1 DEF CutsLast, Cuts
<1>6. h = Cuts(bytes, h)
  <2>1. ASSUME NEW k \in 0 .. Len(bytes) PROVE Cut(bytes, g, k) = Cut(bytes, h, k)
    <3>1. \A m \in k + 1 .. Len(bytes) : m \in 0 .. Len(bytes)
      OBVIOUS
    <3> HIDE DEF h
    <3>2. \A m \in k + 1 .. Len(bytes) : g[m] = h[m]
      BY <1>5, <3>1
    <3> QED
      BY <3>2, CutAgrees
  <2> QED
    BY <2>1 DEF Cuts
<1> HIDE DEF h
<1>7. Behind(bytes) = Cuts(bytes, Behind(bytes))
  BY <1>6 DEF Behind
<1> DEFINE behind == Behind(bytes)
<1> HIDE DEF behind
<1>8. behind = Cuts(bytes, behind)
  BY <1>7 DEF behind
<1>9. \A k \in 0 .. Len(bytes) : Cuts(bytes, behind)[k] = Cut(bytes, behind, k)
  BY DEF Cuts
<1> QED
  BY <1>8, <1>9 DEF behind

---------------------------------------------------------------------------
(* What lies where in a reply, and its end.                                *)

LEMMA PieceOf ==
    ASSUME NEW t \in {"EOT", "DONE", "LEN", "BYTE", "PAD"}, NEW n \in Nat
    PROVE  Tok(t, n) \in Piece /\ Tok(t, n).t = t /\ Tok(t, n).n = n
  BY DEF Tok, Piece

\* Of two sequences joined each element is one of the first, or of the second.
LEMMA Joined ==
    ASSUME NEW S, NEW s \in Seq(S), NEW t \in Seq(S)
    PROVE  /\ s \o t \in Seq(S) /\ Len(s \o t) = Len(s) + Len(t)
           /\ \A i \in 1 .. Len(s) : (s \o t)[i] = s[i]
           /\ \A i \in 1 .. Len(t) : (s \o t)[Len(s) + i] = t[i]
<1>1. Len(s) \in Nat /\ Len(t) \in Nat
  BY LenProperties
<1>2. /\ s \o t \in Seq(S) /\ Len(s \o t) = Len(s) + Len(t)
      /\ \A i \in 1 .. Len(s) + Len(t) : (s \o t)[i] = IF i <= Len(s) THEN s[i] ELSE t[i - Len(s)]
  BY ConcatProperties
<1>3. ASSUME NEW i \in 1 .. Len(s) PROVE (s \o t)[i] = s[i]
  BY <1>1, <1>2
<1>4. ASSUME NEW i \in 1 .. Len(t) PROVE (s \o t)[Len(s) + i] = t[i]
  <2>1. Len(s) + i \in 1 .. Len(s) + Len(t) /\ ~ (Len(s) + i <= Len(s)) /\ Len(s) + i - Len(s) = i
    BY <1>1
  <2> QED
    BY <1>2, <2>1
<1> QED
  BY <1>2, <1>3, <1>4

\* A frame announces its bytes, which follow in order; an odd number is padded.
LEMMA FrameShape ==
    ASSUME NEW c \in Seq(Nat)
    PROVE  /\ Frame(c) \in Seq(Piece)
           /\ Len(Frame(c)) = 1 + Len(c) + (Len(c) % 2)
           /\ Frame(c)[1].n = Len(c)
           /\ \A i \in 1 .. Len(c) : Frame(c)[1 + i].n = c[i]
<1> DEFINE l == Len(c)
           head == <<Tok("LEN", l)>>
           body == [i \in DOMAIN c |-> Tok("BYTE", c[i])]
           pad == IF l % 2 = 1 THEN <<Tok("PAD", 0)>> ELSE <<>>
<1>1. l \in Nat /\ DOMAIN c = 1 .. l /\ l % 2 \in {0, 1}
  BY LenProperties
<1>2. head \in Seq(Piece) /\ Len(head) = 1 /\ head[1].n = l
  <2>1. Tok("LEN", l) \in Piece /\ Tok("LEN", l).n = l
    BY <1>1, PieceOf
  <2> QED
    BY <2>1
<1>3. body \in Seq(Piece) /\ Len(body) = l /\ \A i \in 1 .. l : body[i].n = c[i]
  <2>1. \A i \in 1 .. l : c[i] \in Nat
    BY <1>1, ElementOfSeq
  <2>2. \A i \in 1 .. l : Tok("BYTE", c[i]) \in Piece /\ Tok("BYTE", c[i]).n = c[i]
    BY <2>1, PieceOf
  <2>3. body = [i \in 1 .. l |-> Tok("BYTE", c[i])]
    BY <1>1
  <2> HIDE DEF l
  <2> QED
    BY <1>1, <2>2, <2>3
<1>4. pad \in Seq(Piece) /\ Len(pad) = l % 2
  <2>1. Tok("PAD", 0) \in Piece
    BY PieceOf
  <2>2. CASE l % 2 = 1
    BY <2>1, <2>2
  <2>3. CASE l % 2 # 1
    BY <1>1, <2>3
  <2> QED
    BY <2>2, <2>3
<1>5. Frame(c) = (head \o body) \o pad
  BY DEF Frame
<1> HIDE DEF l, head, body, pad
<1> DEFINE front == head \o body
<1>6. /\ front \in Seq(Piece) /\ Len(front) = 1 + l
      /\ front[1] = head[1] /\ \A i \in 1 .. l : front[1 + i] = body[i]
  <2>1. 1 \in 1 .. Len(head)
    BY <1>2
  <2>2. /\ front \in Seq(Piece) /\ Len(front) = Len(head) + Len(body)
        /\ \A i \in 1 .. Len(head) : front[i] = head[i]
        /\ \A i \in 1 .. Len(body) : front[Len(head) + i] = body[i]
    <3>1. head \in Seq(Piece) /\ body \in Seq(Piece)
      BY <1>2, <1>3
    <3> QED
      BY ONLY <3>1, Joined
  <2> HIDE DEF front
  <2> QED
    BY <1>2, <1>3, <2>1, <2>2
<1> HIDE DEF front
<1>7. /\ front \o pad \in Seq(Piece) /\ Len(front \o pad) = 1 + l + (l % 2)
      /\ \A i \in 1 .. 1 + l : (front \o pad)[i] = front[i]
  BY <1>1, <1>4, <1>6, Joined
<1>8. \A i \in 1 .. l : 1 + i \in 1 .. 1 + l
  BY <1>1
<1>9. 1 \in 1 .. 1 + l
  BY <1>1
<1> DEFINE whole == front \o pad
<1>10. whole = Frame(c)
  BY <1>5 DEF front
<1> HIDE DEF whole
<1>11. whole[1].n = l
  BY <1>2, <1>6, <1>7, <1>9 DEF whole
<1>12. \A i \in 1 .. l : whole[1 + i].n = c[i]
  BY <1>3, <1>6, <1>7, <1>8 DEF whole
<1>13. whole \in Seq(Piece) /\ Len(whole) = 1 + l + (l % 2)
  BY <1>7 DEF whole
<1> QED
  BY <1>10, <1>11, <1>12, <1>13 DEF l

\* A part of a sequence.
LEMMA PartOf ==
    ASSUME NEW S, NEW s \in Seq(S), NEW m \in 1 .. Len(s) + 1, NEW n \in m - 1 .. Len(s)
    PROVE  /\ SubSeq(s, m, n) \in Seq(S) /\ Len(SubSeq(s, m, n)) = n - m + 1
           /\ \A i \in 1 .. n - m + 1 : SubSeq(s, m, n)[i] = s[m - 1 + i]
<1>1. Len(s) \in Nat /\ m \in Int /\ n \in Int /\ n - m + 1 \in Nat
  BY LenProperties
<1>2. \A i \in m .. n : s[i] \in S
  <2>1. \A i \in m .. n : i \in 1 .. Len(s)
    BY <1>1
  <2> QED
    BY <2>1, ElementOfSeq
<1>3. /\ SubSeq(s, m, n) \in Seq(S)
      /\ Len(SubSeq(s, m, n)) = IF m <= n THEN n - m + 1 ELSE 0
      /\ \A i \in 1 .. n - m + 1 : SubSeq(s, m, n)[i] = s[m + i - 1]
  BY <1>1, <1>2, SubSeqProperties
<1>4. \A i \in 1 .. n - m + 1 : m + i - 1 = m - 1 + i
  BY <1>1
<1>5. Len(SubSeq(s, m, n)) = n - m + 1
  BY <1>1, <1>3
<1> QED
  BY <1>3, <1>4, <1>5

\* A trailer ends with the first SQ_EOT in it.
LEMMA TrailerShape ==
    ASSUME NEW t \in Trailers
    PROVE  /\ t \in Seq(Piece) /\ Len(t) \in Nat \ {0}
           /\ \A i \in 1 .. Len(t) : (t[i].t = "EOT") <=> (i = Len(t))
<1> DEFINE eot == Tok("EOT", 0)  done == Tok("DONE", 0)  zero == Tok("LEN", 0)
<1>1. /\ eot \in Piece /\ done \in Piece /\ zero \in Piece
      /\ eot.t = "EOT" /\ done.t = "DONE" /\ zero.t = "LEN"
  BY PieceOf
<1>2. t = <<eot>> \/ t = <<done, eot>> \/ t = <<zero, done, eot>>
  BY DEF Trailers
<1> HIDE DEF eot, done, zero
<1>3. CASE t = <<eot>>
  BY <1>1, <1>3
<1>4. CASE t = <<done, eot>>
  <2>1. t \in Seq(Piece) /\ Len(t) = 2 /\ t[1] = done /\ t[2] = eot
    BY <1>1, <1>4
  <2> QED
    BY <1>1, <2>1
<1>5. CASE t = <<zero, done, eot>>
  <2>1. t \in Seq(Piece) /\ Len(t) = 3 /\ t[1] = zero /\ t[2] = done /\ t[3] = eot
    BY <1>1, <1>5
  <2> QED
    BY <1>1, <2>1
<1> QED
  BY <1>2, <1>3, <1>4, <1>5

\* Draining takes a reply up to its only SQ_EOT, the last token of it.
LEMMA DrainsAll ==
    ASSUME NEW s, NEW data, Len(s) \in Nat \ {0},
           \A i \in 1 .. Len(s) : (s[i].t = "EOT") <=> (i = Len(s))
    PROVE  DrainTail(s, data) = Read("OK", data, <<>>)
<1> DEFINE I == {i \in 1 .. Len(s) : s[i].t = "EOT"}
<1>1. I = {Len(s)}
  OBVIOUS
<1>2. SelectInSeq(s, LAMBDA k : k.t = "EOT") = IF I # {} THEN Min(I) ELSE 0
  BY DEF SelectInSeq
<1> HIDE DEF I
<1>3. Min(I) = Len(s)
  <2>1. Min(I) = CHOOSE x \in I : \A y \in I : x <= y
    BY DEF Min
  <2> QED
    BY <1>1, <2>1
<1>4. SelectInSeq(s, LAMBDA k : k.t = "EOT") = Len(s)
  BY <1>1, <1>2, <1>3
<1>5. SubSeq(s, Len(s) + 1, Len(s)) = <<>>
  BY SubSeqEmpty
<1> QED
  BY <1>4, <1>5 DEF DrainTail

\* Without one it waits for more.
LEMMA DrainsNone ==
    ASSUME NEW s, NEW data, \A i \in 1 .. Len(s) : s[i].t # "EOT"
    PROVE  DrainTail(s, data) = Read("IO_ERROR", data, <<>>)
<1> DEFINE I == {i \in 1 .. Len(s) : s[i].t = "EOT"}
<1>1. I = {}
  OBVIOUS
<1>2. SelectInSeq(s, LAMBDA k : k.t = "EOT") = IF I # {} THEN Min(I) ELSE 0
  BY DEF SelectInSeq
<1> QED
  BY <1>1, <1>2 DEF DrainTail

\* A framing and the trailer behind it lie in a reply from a place on.
Lies(w, at, f, t) ==
    /\ Len(w) = at - 1 + Len(f) + Len(t)
    /\ \A i \in 1 .. Len(f) : w[at - 1 + i] = f[i]
    /\ \A i \in 1 .. Len(t) : w[at - 1 + Len(f) + i] = t[i]

\* What is read of the bytes behind the first k when as much of the reply arrives.
Answered(w, arrived, bytes, k, read) ==
    IF arrived = Len(w) THEN read = Read("OK", SubSeq(bytes, k + 1, Len(bytes)), <<>>)
    ELSE read = Read("IO_ERROR", read.data, read.left)

LEMMA TailDrained ==
    ASSUME NEW w \in Seq(Piece), NEW arrived \in 0 .. Len(w), NEW t \in Trailers,
           NEW at \in 1 .. arrived + 1, Lies(w, at, <<>>, t)
    PROVE  DrainTail(SubSeq(SubSeq(w, 1, arrived), at, arrived), <<>>)
             = Read(IF arrived = Len(w) THEN "OK" ELSE "IO_ERROR", <<>>, <<>>)
<1> DEFINE in == SubSeq(w, 1, arrived)
           s  == SubSeq(in, at, arrived)
<1>1. /\ t \in Seq(Piece) /\ Len(t) \in Nat \ {0}
      /\ \A i \in 1 .. Len(t) : (t[i].t = "EOT") <=> (i = Len(t))
  BY TrailerShape
<1>2. Len(w) = at - 1 + Len(t) /\ \A i \in 1 .. Len(t) : w[at - 1 + i] = t[i]
  <2>1. Len(<<>>) = 0
    OBVIOUS
  <2>2. at - 1 + 0 = at - 1 /\ at - 1 + 0 + Len(t) = at - 1 + Len(t)
    BY <1>1
  <2> QED
    BY <2>1, <2>2 DEF Lies
<1>3. in \in Seq(Piece) /\ Len(in) = arrived /\ \A i \in 1 .. arrived : in[i] = w[i]
  <2>1. Len(w) \in Nat /\ 1 \in 1 .. Len(w) + 1 /\ arrived \in 1 - 1 .. Len(w)
    BY LenProperties
  <2>2. /\ in \in Seq(Piece) /\ Len(in) = arrived - 1 + 1
        /\ \A i \in 1 .. arrived - 1 + 1 : in[i] = w[1 - 1 + i]
    BY <2>1, PartOf
  <2>3. arrived - 1 + 1 = arrived /\ \A i \in 1 .. arrived : 1 - 1 + i = i
    BY <2>1
  <2> HIDE DEF in
  <2> QED
    BY <2>2, <2>3
<1> HIDE DEF in
<1>4. Len(s) = arrived - at + 1 /\ \A i \in 1 .. arrived - at + 1 : s[i] = in[at - 1 + i]
  <2>1. at \in 1 .. Len(in) + 1 /\ arrived \in at - 1 .. Len(in)
    BY <1>3
  <2> QED
    BY <1>3, <2>1, PartOf
<1> HIDE DEF s
<1>5. \A i \in 1 .. Len(s) : i \in 1 .. Len(t) /\ s[i] = t[i]
  <2> TAKE i \in 1 .. Len(s)
  <2>1. at - 1 + i \in 1 .. arrived /\ i \in 1 .. Len(t) /\ i \in 1 .. arrived - at + 1
    BY <1>1, <1>2, <1>4
  <2> QED
    BY <1>2, <1>3, <1>4, <2>1
<1>6. CASE arrived = Len(w)
  <2>1. Len(s) = Len(t)
    BY <1>1, <1>2, <1>4, <1>6
  <2>2. DrainTail(s, <<>>) = Read("OK", <<>>, <<>>)
    BY <1>1, <1>5, <2>1, DrainsAll
  <2> QED
    BY <1>6, <2>2 DEF in, s
<1>7. CASE arrived # Len(w)
  <2>1. \A i \in 1 .. Len(s) : i # Len(t)
    <3>1. Len(t) \in Int /\ Len(w) \in Int /\ Len(w) = at - 1 + Len(t) /\ Len(s) = arrived - at + 1
      BY <1>1, <1>2, <1>4
    <3>2. arrived < Len(w)
      BY <1>7, <3>1
    <3> QED
      BY ONLY <3>1, <3>2, at \in 1 .. arrived + 1, arrived \in 0 .. Len(w)
  <2>2. DrainTail(s, <<>>) = Read("IO_ERROR", <<>>, <<>>)
    BY <1>1, <1>5, <2>1, DrainsNone
  <2> QED
    BY <1>7, <2>2 DEF in, s
<1> QED
  BY <1>6, <1>7

\* The first tokens of a sequence.
LEMMA FirstOf ==
    ASSUME NEW S, NEW w \in Seq(S), NEW n \in 0 .. Len(w)
    PROVE  /\ SubSeq(w, 1, n) \in Seq(S) /\ Len(SubSeq(w, 1, n)) = n
           /\ \A i \in 1 .. n : SubSeq(w, 1, n)[i] = w[i]
<1>1. Len(w) \in Nat /\ 1 \in 1 .. Len(w) + 1 /\ n \in 1 - 1 .. Len(w)
  BY LenProperties
<1> DEFINE in == SubSeq(w, 1, n)
<1>2. /\ in \in Seq(S) /\ Len(in) = n - 1 + 1
      /\ \A i \in 1 .. n - 1 + 1 : in[i] = w[1 - 1 + i]
  BY <1>1, PartOf
<1>3. n - 1 + 1 = n /\ \A i \in 1 .. n : 1 - 1 + i = i
  BY <1>1
<1> HIDE DEF in
<1>4. in \in Seq(S) /\ Len(in) = n /\ \A i \in 1 .. n : in[i] = w[i]
  BY <1>2, <1>3
<1> QED
  BY <1>4 DEF in

\* A framing is a frame of some bytes and a framing of those behind them.
LEMMA BehindSplits ==
    ASSUME NEW bytes \in Seq(Nat), NEW k \in 0 .. Len(bytes), NEW f \in Behind(bytes)[k]
    PROVE  \/ k = Len(bytes) /\ f = <<>>
           \/ \E m \in k + 1 .. Len(bytes) : \E g \in Behind(bytes)[m] :
                 f = Frame(SubSeq(bytes, k + 1, m)) \o g
<1>1. Len(bytes) \in Nat
  BY LenProperties
<1>2. f \in Cut(bytes, Behind(bytes), k)
  BY <1>1, BehindCuts
<1> DEFINE behind == Behind(bytes)
<1> HIDE DEF behind
<1>3. CASE k = Len(bytes)
  BY <1>2, <1>3 DEF Cut
<1>4. CASE k # Len(bytes)
  <2>1. PICK m \in k + 1 .. Least(Len(bytes), k + ChunkSize) :
            f \in {Frame(SubSeq(bytes, k + 1, m)) \o g : g \in behind[m]}
    BY <1>2, <1>4 DEF Cut, behind
  <2>2. m \in k + 1 .. Len(bytes)
    BY <1>1, <2>1, LargeObjectAssumption DEF Least
  <2> QED
    BY <2>1, <2>2 DEF behind
<1> QED
  BY <1>3, <1>4

\* What holds of the end of the bytes and, where it holds behind more of them, behind
\* the first k of them, holds of the start.
LEMMA DownwardInduction ==
    ASSUME NEW n \in Nat, NEW P,
           \A k \in 0 .. n : (\A m \in k + 1 .. n : m \in P) => k \in P
    PROVE  \A k \in 0 .. n : k \in P
<1> DEFINE R == {j \in 0 .. n + 1 : \A m \in 0 .. n : m + j > n => m \in P}
<1>1. 0 \in R
  OBVIOUS
<1>2. ASSUME NEW j \in 0 .. (n + 1) - 1, j \in R PROVE j + 1 \in R
  <2>1. ASSUME NEW m \in 0 .. n, m + (j + 1) > n PROVE m \in P
    <3>1. \A q \in m + 1 .. n : q \in 0 .. n /\ q + j > n
      BY <2>1
    <3>2. \A q \in m + 1 .. n : q \in P
      BY <1>2, <3>1
    <3> QED
      BY <3>2
  <2>2. j + 1 \in 0 .. n + 1
    OBVIOUS
  <2> QED
    BY <2>1, <2>2
<1>3. n + 1 \in R
  <2>1. n + 1 \in Nat
    OBVIOUS
  <2> HIDE DEF R
  <2>2. \A j \in 0 .. (n + 1) - 1 : j \in R => j + 1 \in R
    BY <1>2
  <2> QED
    BY <1>1, <2>1, <2>2, UpwardInduction
<1>4. \A k \in 0 .. n : k + (n + 1) > n
  OBVIOUS
<1> QED
  BY <1>3, <1>4

\* A framing consists of tokens.
LEMMA BehindTyped ==
    ASSUME NEW bytes \in Seq(Nat)
    PROVE  \A k \in 0 .. Len(bytes) : \A f \in Behind(bytes)[k] : f \in Seq(Piece)
<1> DEFINE P == {k \in 0 .. Len(bytes) : \A f \in Behind(bytes)[k] : f \in Seq(Piece)}
<1>1. Len(bytes) \in Nat
  BY LenProperties
<1>2. ASSUME NEW k \in 0 .. Len(bytes), \A m \in k + 1 .. Len(bytes) : m \in P
      PROVE  k \in P
  <2>1. ASSUME NEW f \in Behind(bytes)[k] PROVE f \in Seq(Piece)
    <3>1. CASE f = <<>>
      BY <3>1
    <3>2. ASSUME NEW m \in k + 1 .. Len(bytes), NEW g \in Behind(bytes)[m],
                 f = Frame(SubSeq(bytes, k + 1, m)) \o g
          PROVE  f \in Seq(Piece)
      <4>1. g \in Seq(Piece)
        BY <1>2
      <4>2. SubSeq(bytes, k + 1, m) \in Seq(Nat)
        <5>1. k + 1 \in 1 .. Len(bytes) + 1 /\ m \in k + 1 - 1 .. Len(bytes)
          BY <1>1
        <5> QED
          BY <5>1, PartOf
      <4>3. Frame(SubSeq(bytes, k + 1, m)) \in Seq(Piece)
        BY <4>2, FrameShape
      <4> QED
        BY <3>2, <4>1, <4>3, Joined
    <3> QED
      BY <3>1, <3>2, BehindSplits
  <2> QED
    BY <2>1
<1>3. \A k \in 0 .. Len(bytes) : k \in P
  <2> HIDE DEF P
  <2> QED
    BY <1>1, <1>2, DownwardInduction
<1> QED
  BY <1>3

\* The bytes of a chunk are taken as they were sent.
LEMMA ChunkTaken ==
    ASSUME NEW in, NEW at \in Nat, NEW c \in Seq(Nat), NEW room \in Int,
           in \in Seq(Piece), at + Len(c) <= Len(in), Len(c) <= room,
           \A i \in 1 .. Len(c) : in[at + i].n = c[i]
    PROVE  Taken(in, at, Len(c), room) = c
<1> DEFINE s == SubSeq(in, at + 1, at + Len(c))
<1>1. Len(c) \in Nat /\ Len(in) \in Nat
  BY LenProperties
<1>2. Least(Len(c), room) = Len(c)
  BY <1>1 DEF Least
<1>3. s \in Seq(Piece) /\ Len(s) = Len(c) /\ \A i \in 1 .. Len(c) : s[i] = in[at + i]
  <2>1. /\ at + 1 \in 1 .. Len(in) + 1 /\ at + Len(c) \in at + 1 - 1 .. Len(in)
        /\ at + Len(c) - (at + 1) + 1 = Len(c) /\ \A i \in 1 .. Len(c) : at + 1 - 1 + i = at + i
    BY <1>1
  <2> DEFINE from == at + 1  to == at + Len(c)
  <2>2. /\ s \in Seq(Piece) /\ Len(s) = to - from + 1
        /\ \A i \in 1 .. to - from + 1 : s[i] = in[from - 1 + i]
    <3>1. from \in 1 .. Len(in) + 1 /\ to \in from - 1 .. Len(in) /\ s = SubSeq(in, from, to)
      BY <2>1
    <3> HIDE DEF from, to, s
    <3> QED
      BY <3>1, PartOf
  <2>3. to - from + 1 = Len(c)
    BY <2>1
  <2>4. \A i \in 1 .. Len(c) : from - 1 + i = at + i
    BY <2>1
  <2> HIDE DEF from, to, s
  <2> QED
    BY <2>2, <2>3, <2>4
<1>4. Taken(in, at, Len(c), room) = [i \in DOMAIN s |-> s[i].n]
  BY <1>2 DEF Taken, Bytes
<1> HIDE DEF s
<1>5. DOMAIN s = 1 .. Len(c) /\ DOMAIN c = 1 .. Len(c)
  BY <1>3, LenProperties
<1>6. [i \in DOMAIN s |-> s[i].n] = [i \in 1 .. Len(c) |-> c[i]]
  BY <1>3, <1>5
<1>7. c = [i \in 1 .. Len(c) |-> c[i]]
  BY <1>5
<1> QED
  BY <1>4, <1>6, <1>7

---------------------------------------------------------------------------
(* Reading what lies behind the first bytes.                               *)

\* What the loop reads from the first k bytes on, wherever these lie in the reply.
ReadsRest(w, arrived, t, bytes, capacity, k) ==
    \A f \in Behind(bytes)[k], at \in 1 .. arrived + 1 :
        Lies(w, at, f, t) =>
            Answered(w, arrived, bytes, k,
                     From(SubSeq(w, 1, arrived), Len(bytes), capacity)[at][k])

LEMMA EndRead ==
    ASSUME NEW w \in Seq(Piece), NEW arrived \in 0 .. Len(w), NEW t \in Trailers,
           NEW bytes \in Seq(Nat), NEW capacity \in Nat
    PROVE  ReadsRest(w, arrived, t, bytes, capacity, Len(bytes))
<1> DEFINE n  == Len(bytes)
           in == SubSeq(w, 1, arrived)
<1>1. n \in Nat /\ in \in Seq(Piece) /\ Len(in) = arrived
  BY LenProperties, FirstOf
<1>2. SUFFICES ASSUME NEW f \in Behind(bytes)[n], NEW at \in 1 .. arrived + 1, Lies(w, at, f, t)
               PROVE  Answered(w, arrived, bytes, n, From(in, n, capacity)[at][n])
  BY DEF ReadsRest
<1>3. f = <<>>
  <2>1. n \in 0 .. Len(bytes) /\ n + 1 .. Len(bytes) = {}
    BY <1>1
  <2> QED
    BY <1>2, <2>1, BehindSplits
<1>4. From(in, n, capacity)[at][n] = DrainTail(SubSeq(in, at, Len(in)), <<>>)
  <2> HIDE DEF in, n
  <2>1. From(in, n, capacity)[at][n] = Chunk(in, n, capacity, From(in, n, capacity), at, n)
    BY <1>1, FromChunks
  <2>2. n >= n
    BY <1>1
  <2> QED
    BY <2>1, <2>2 DEF Chunk
<1>5. DrainTail(SubSeq(in, at, arrived), <<>>)
        = Read(IF arrived = Len(w) THEN "OK" ELSE "IO_ERROR", <<>>, <<>>)
  BY <1>2, <1>3, TailDrained
<1>6. SubSeq(bytes, n + 1, Len(bytes)) = <<>>
  BY <1>1, SubSeqEmpty
<1> DEFINE read == From(in, n, capacity)[at][n]
<1>7. read = Read(IF arrived = Len(w) THEN "OK" ELSE "IO_ERROR", <<>>, <<>>)
  BY <1>1, <1>4, <1>5
<1>8. SubSeq(bytes, n + 1, n) = <<>>
  BY <1>6
<1> HIDE DEF read, n
<1>9. read = IF arrived = Len(w) THEN Read("OK", SubSeq(bytes, n + 1, n), <<>>)
             ELSE Read("IO_ERROR", read.data, read.left)
  BY <1>7, <1>8 DEF Read
<1> QED
  BY <1>9 DEF Answered, read, n

\* The bytes of a chunk come before those that are read behind it.
Longer(read, front) == [read EXCEPT !.data = front \o @]

LEMMA ReadLonger ==
    ASSUME NEW status, NEW data, NEW left, NEW front
    PROVE  Longer(Read(status, data, left), front) = Read(status, front \o data, left)
<1> DEFINE longer == front \o data
<1>1. Longer(Read(status, data, left), front) = [Read(status, data, left) EXCEPT !.data = longer]
  BY DEF Longer, Read
<1> HIDE DEF longer
<1>2. [Read(status, data, left) EXCEPT !.data = longer] = Read(status, longer, left)
  BY DEF Read
<1> QED
  BY <1>1, <1>2 DEF longer

\* What is read of a chunk and of what lies behind it.
LEMMA ChunkAnswered ==
    ASSUME NEW w, NEW arrived, NEW bytes \in Seq(Nat), NEW k \in 0 .. Len(bytes) - 1,
           NEW m \in k + 1 .. Len(bytes), NEW read,
           Answered(w, arrived, bytes, m, read)
    PROVE  Answered(w, arrived, bytes, k, Longer(read, SubSeq(bytes, k + 1, m)))
<1>1. SubSeq(bytes, k + 1, m) \o SubSeq(bytes, m + 1, Len(bytes)) = SubSeq(bytes, k + 1, Len(bytes))
  <2>1. Len(bytes) \in Nat
    BY LenProperties
  <2>2. /\ k + 1 \in 1 .. Len(bytes) + 1 /\ m \in k + 1 - 1 .. Len(bytes)
        /\ Len(bytes) \in m .. Len(bytes)
    BY <2>1
  <2> QED
    BY ONLY bytes \in Seq(Nat), <2>2, ConcatAdjacentSubSeq
<1> DEFINE front == SubSeq(bytes, k + 1, m)
           behind == SubSeq(bytes, m + 1, Len(bytes))
           all == SubSeq(bytes, k + 1, Len(bytes))
           more == Longer(read, front)
<1>2. \/ arrived = Len(w) /\ read = Read("OK", behind, <<>>)
      \/ arrived # Len(w) /\ read = Read("IO_ERROR", read.data, read.left)
  BY DEF Answered
<1>3. front \o behind = all
  BY <1>1
<1> SUFFICES Answered(w, arrived, bytes, k, more)
  OBVIOUS
<1> HIDE DEF front, behind, all
<1>4. CASE arrived = Len(w)
  <2>1. more = Longer(Read("OK", behind, <<>>), front)
    BY <1>2, <1>4
  <2>2. Longer(Read("OK", behind, <<>>), front) = Read("OK", front \o behind, <<>>)
    BY ReadLonger
  <2>3. more = Read("OK", all, <<>>)
    BY <1>3, <2>1, <2>2, Zenon
  <2> HIDE DEF more
  <2> QED
    BY <1>4, <2>3 DEF Answered, all
<1>5. CASE arrived # Len(w)
  <2>1. more = Longer(Read("IO_ERROR", read.data, read.left), front)
    BY <1>2, <1>5, Zenon
  <2>2. more = Read("IO_ERROR", front \o read.data, read.left)
    BY <2>1, ReadLonger
  <2> HIDE DEF more
  <2>3. more = Read("IO_ERROR", more.data, more.left)
    BY <2>2 DEF Read
  <2> QED
    BY <1>5, <2>3 DEF Answered
<1> QED
  BY <1>4, <1>5

\* The frame a framing begins with, as it lies in the reply, and what lies behind it.
LEMMA FrameLies ==
    ASSUME NEW w, NEW at \in Nat \ {0}, NEW c \in Seq(Nat), NEW g \in Seq(Piece), NEW t,
           Len(t) \in Nat, Lies(w, at, Frame(c) \o g, t)
    PROVE  LET next == at + 1 + Len(c) + (Len(c) % 2)
           IN /\ w[at].n = Len(c)
              /\ \A i \in 1 .. Len(c) : w[at + i].n = c[i]
              /\ Lies(w, next, g, t)
              /\ Len(w) >= next - 1 + Len(t)
<1> DEFINE h == Frame(c)
           f == h \o g
           l == Len(c)
           next == at + 1 + l + (l % 2)
<1>1. /\ h \in Seq(Piece) /\ Len(h) = 1 + l + (l % 2) /\ h[1].n = l
      /\ \A i \in 1 .. l : h[1 + i].n = c[i]
  BY FrameShape
<1>2. l \in Nat /\ l % 2 \in {0, 1} /\ Len(g) \in Nat
  BY LenProperties
<1> HIDE DEF h, l
<1>3. /\ Len(f) = Len(h) + Len(g)
      /\ \A i \in 1 .. Len(h) : f[i] = h[i]
      /\ \A i \in 1 .. Len(g) : f[Len(h) + i] = g[i]
  <2>1. h \in Seq(Piece)
    BY <1>1
  <2> QED
    BY ONLY <2>1, g \in Seq(Piece), Joined
<1>4. /\ Len(w) = at - 1 + Len(f) + Len(t)
      /\ \A i \in 1 .. Len(f) : w[at - 1 + i] = f[i]
      /\ \A i \in 1 .. Len(t) : w[at - 1 + Len(f) + i] = t[i]
  BY DEF Lies, h
<1> HIDE DEF f
<1>5. w[at].n = l
  <2>1. 1 \in 1 .. Len(f) /\ 1 \in 1 .. Len(h) /\ at - 1 + 1 = at
    BY <1>1, <1>2, <1>3
  <2> QED
    BY <1>1, <1>3, <1>4, <2>1
<1>6. ASSUME NEW i \in 1 .. l PROVE w[at + i].n = c[i]
  <2>1. 1 + i \in 1 .. Len(f) /\ 1 + i \in 1 .. Len(h) /\ at - 1 + (1 + i) = at + i
    BY <1>1, <1>2, <1>3
  <2>2. w[at - 1 + (1 + i)] = h[1 + i]
    BY <1>3, <1>4, <2>1
  <2> QED
    BY <1>1, <2>1, <2>2
<1>7. Len(w) = next - 1 + Len(g) + Len(t)
  BY <1>1, <1>2, <1>3, <1>4
<1>8. ASSUME NEW i \in 1 .. Len(g) PROVE w[next - 1 + i] = g[i]
  <2>1. Len(h) + i \in 1 .. Len(f) /\ at - 1 + (Len(h) + i) = next - 1 + i
    BY <1>1, <1>2, <1>3
  <2> HIDE DEF next
  <2>2. w[at - 1 + (Len(h) + i)] = f[Len(h) + i]
    BY <1>4, <2>1
  <2> QED
    BY <1>3, <2>1, <2>2
<1>9. ASSUME NEW i \in 1 .. Len(t) PROVE w[next - 1 + Len(g) + i] = t[i]
  <2>1. at - 1 + Len(f) + i = next - 1 + Len(g) + i
    BY <1>1, <1>2, <1>3
  <2> HIDE DEF next
  <2> QED
    BY <1>4, <2>1
<1>10. Len(w) >= next - 1 + Len(t)
  BY <1>2, <1>7
<1> HIDE DEF next
<1>11. Lies(w, next, g, t)
  BY <1>7, <1>8, <1>9 DEF Lies
<1> QED
  BY <1>5, <1>6, <1>10, <1>11 DEF l, next

LEMMA FrameRead ==
    ASSUME NEW w \in Seq(Piece), NEW arrived \in 0 .. Len(w), NEW t \in Trailers,
           NEW bytes \in Seq(Nat), NEW capacity \in Nat, Len(bytes) <= capacity,
           NEW k \in 0 .. Len(bytes) - 1,
           \A m \in k + 1 .. Len(bytes) : ReadsRest(w, arrived, t, bytes, capacity, m)
    PROVE  ReadsRest(w, arrived, t, bytes, capacity, k)
<1> DEFINE n    == Len(bytes)
           in   == SubSeq(w, 1, arrived)
           from == From(in, n, capacity)
<1>1. /\ n \in Nat /\ Len(w) \in Nat /\ in \in Seq(Piece) /\ Len(in) = arrived
      /\ \A i \in 1 .. arrived : in[i] = w[i]
  BY LenProperties, FirstOf
<1>2. /\ t \in Seq(Piece) /\ Len(t) \in Nat \ {0}
  BY TrailerShape
<1>3. SUFFICES ASSUME NEW f \in Behind(bytes)[k], NEW at \in 1 .. arrived + 1, Lies(w, at, f, t)
               PROVE  Answered(w, arrived, bytes, k, from[at][k])
  BY DEF ReadsRest
<1> HIDE DEF in, from
<1>4. PICK m \in k + 1 .. n : \E g \in Behind(bytes)[m] : f = Frame(SubSeq(bytes, k + 1, m)) \o g
  <2>1. k \in 0 .. n /\ k # n
    BY <1>1
  <2> QED
    BY <1>3, <2>1, BehindSplits
<1>5. PICK g \in Behind(bytes)[m] : f = Frame(SubSeq(bytes, k + 1, m)) \o g
  BY <1>4
<1> DEFINE c == SubSeq(bytes, k + 1, m)
           len == m - k
           next == at + 1 + len + (len % 2)
<1>6. c \in Seq(Nat) /\ Len(c) = len /\ len \in Nat \ {0} /\ len % 2 \in {0, 1}
  <2>1. k + 1 \in 1 .. n + 1 /\ m \in k + 1 - 1 .. n /\ m - (k + 1) + 1 = len
    <3>1. n \in Nat /\ k \in 0 .. n - 1 /\ m \in k + 1 .. n
      BY <1>1
    <3> HIDE DEF n, c
    <3> QED
      BY ONLY <3>1
  <2>2. c \in Seq(Nat) /\ Len(c) = m - (k + 1) + 1
    BY <2>1, PartOf
  <2>3. len \in Nat \ {0}
    BY <1>1
  <2> HIDE DEF c, len
  <2> QED
    BY <2>1, <2>2, <2>3
<1>7. g \in Seq(Piece)
  <2>1. m \in 0 .. n
    BY <1>1
  <2> QED
    BY <1>5, <2>1, BehindTyped
<1>8. f = Frame(c) \o g
  BY <1>5
<1> HIDE DEF c, len
<1>9. /\ w[at].n = len
      /\ \A i \in 1 .. len : w[at + i].n = c[i]
      /\ Lies(w, next, g, t)
      /\ Len(w) >= next - 1 + Len(t)
  <2>1. at \in Nat \ {0} /\ Len(t) \in Nat
    BY <1>1, <1>2
  <2>2. Lies(w, at, Frame(c) \o g, t)
    BY <1>3, <1>8
  <2>3. c \in Seq(Nat) /\ Len(c) = len
    BY <1>6
  <2> DEFINE behind == at + 1 + Len(c) + (Len(c) % 2)
  <2>4. /\ w[at].n = Len(c)
        /\ \A i \in 1 .. Len(c) : w[at + i].n = c[i]
        /\ Lies(w, behind, g, t)
        /\ Len(w) >= behind - 1 + Len(t)
    BY ONLY <1>7, <2>1, <2>2, <2>3, FrameLies
  <2>5. behind = next
    BY <2>3
  <2> HIDE DEF behind, next
  <2> QED
    BY <2>3, <2>4, <2>5
<1>10. from[at][k] = Chunk(in, n, capacity, from, at, k)
  <2>1. at \in 1 .. Len(in) + 1 /\ k \in Nat
    BY <1>1
  <2> HIDE DEF n
  <2> QED
    BY <1>1, <2>1, FromChunks DEF from
<1>11. ~ (k >= n) /\ m \in Nat /\ k + len = m /\ next \in Nat
  BY <1>1, <1>6 DEF len
<1>12. CASE at > Len(in) \/ next > Len(in) + 1
  <2>1. ASSUME at <= Len(in) PROVE in[at].n = len
    <3>1. at \in 1 .. arrived
      BY <1>1, <2>1
    <3>2. in[at] = w[at]
      BY <1>1, <3>1
    <3> QED
      BY <1>9, <3>2
  <2>2. Chunk(in, n, capacity, from, at, k) = Read("IO_ERROR", <<>>, <<>>)
    <3>1. CASE at > Len(in)
      BY <1>11, <3>1 DEF Chunk
    <3>2. CASE ~ (at > Len(in))
      <4>1. in[at].n = len /\ next > Len(in) + 1 /\ len # 0
        BY <1>1, <1>6, <1>12, <2>1, <3>2
      <4> HIDE DEF n
      <4> QED
        BY <1>11, <3>2, <4>1 DEF Chunk
    <3> QED
      BY <3>1, <3>2
  <2>3. arrived # Len(w)
    BY <1>1, <1>2, <1>6, <1>9, <1>12
  <2> QED
    BY <1>10, <2>2, <2>3 DEF Answered, Read
<1>13. CASE ~ (at > Len(in) \/ next > Len(in) + 1)
  <2>1. in[at].n = len
    BY <1>1, <1>9, <1>13
  <2>2. next \in 1 .. arrived + 1 /\ at + len <= Len(in) /\ len <= capacity - k
    BY <1>1, <1>6, <1>11, <1>13
  <2>3. \A i \in 1 .. len : in[at + i].n = c[i]
    <3>1. \A i \in 1 .. len : at + i \in 1 .. arrived
      <4>1. at \in Nat \ {0} /\ arrived \in Nat
        BY <1>1
      <4>2. len \in Nat
        BY <1>6
      <4>3. at + len <= arrived
        BY <1>1, <2>2
      <4> QED
        BY ONLY <4>1, <4>2, <4>3
    <3>2. \A i \in 1 .. arrived : in[i] = w[i]
      BY <1>1
    <3>3. \A i \in 1 .. len : w[at + i].n = c[i]
      BY <1>9
    <3> QED
      BY ONLY <3>1, <3>2, <3>3
  <2>4. Taken(in, at, len, capacity - k) = c
    <3>1. at \in Nat /\ capacity - k \in Int
      BY <1>1
    <3> HIDE DEF n
    <3> QED
      BY <1>1, <1>6, <2>2, <2>3, <3>1, ChunkTaken
  <2>5. Answered(w, arrived, bytes, m, from[next][m])
    BY <1>5, <1>9, <2>2 DEF ReadsRest, from, in
  <2>6. Chunk(in, n, capacity, from, at, k)
          = [from[next][k + len] EXCEPT !.data = Taken(in, at, len, capacity - k) \o @]
    <3> DEFINE taken == Taken(in, at, in[at].n, capacity - k)
    <3> HIDE DEF next, n
    <3> QED
      BY <1>6, <1>11, <1>13, <2>1 DEF Chunk, next
  <2>7. Chunk(in, n, capacity, from, at, k) = Longer(from[next][m], c)
    BY <1>11, <2>4, <2>6 DEF Longer
  <2>8. Answered(w, arrived, bytes, k, Longer(from[next][m], c))
    BY <2>5, ChunkAnswered DEF c
  <2> QED
    BY <1>10, <2>7, <2>8
<1> QED
  BY <1>12, <1>13

\* The loop reads the bytes of a reply, wherever they begin in it.
LEMMA ReadsAll ==
    ASSUME NEW w \in Seq(Piece), NEW arrived \in 0 .. Len(w), NEW t \in Trailers,
           NEW bytes \in Seq(Nat), NEW capacity \in Nat, Len(bytes) <= capacity
    PROVE  ReadsRest(w, arrived, t, bytes, capacity, 0)
<1> DEFINE P == {k \in 0 .. Len(bytes) : ReadsRest(w, arrived, t, bytes, capacity, k)}
<1>1. Len(bytes) \in Nat
  BY LenProperties
<1>2. ASSUME NEW k \in 0 .. Len(bytes), \A m \in k + 1 .. Len(bytes) : m \in P
      PROVE  k \in P
  <2>1. CASE k = Len(bytes)
    BY <2>1, EndRead
  <2>2. CASE k # Len(bytes)
    <3>1. k \in 0 .. Len(bytes) - 1
      BY <1>1, <2>2
    <3>2. \A m \in k + 1 .. Len(bytes) : ReadsRest(w, arrived, t, bytes, capacity, m)
      BY <1>2
    <3> QED
      BY <3>1, <3>2, FrameRead
  <2> QED
    BY <2>1, <2>2
<1>3. \A k \in 0 .. Len(bytes) : k \in P
  <2> HIDE DEF P
  <2> QED
    BY <1>1, <1>2, DownwardInduction
<1> QED
  BY <1>1, <1>3

\* A framing and its trailer.
LEMMA WholeLies ==
    ASSUME NEW f \in Seq(Piece), NEW t \in Seq(Piece)
    PROVE  f \o t \in Seq(Piece) /\ Lies(f \o t, 1, f, t)
<1> DEFINE w == f \o t
<1>1. Len(f) \in Nat
  BY LenProperties
<1>2. /\ w \in Seq(Piece) /\ Len(w) = Len(f) + Len(t)
      /\ \A i \in 1 .. Len(f) : w[i] = f[i]
      /\ \A i \in 1 .. Len(t) : w[Len(f) + i] = t[i]
  BY Joined
<1>3. 1 - 1 + Len(f) = Len(f) /\ \A i \in Nat : 1 - 1 + i = i
  BY <1>1
<1> HIDE DEF w
<1>4. \A i \in 1 .. Len(f) : w[1 - 1 + i] = f[i]
  BY <1>2, <1>3
<1>5. w \in Seq(Piece) /\ Lies(w, 1, f, t)
  BY <1>2, <1>3, <1>4 DEF Lies
<1> QED
  BY <1>5 DEF w

\* The reader inverts the server's framing, however the bytes are cut into chunks;
\* of a reply that breaks off it makes nothing.
LEMMA BodyRead ==
    ASSUME NEW bytes \in Seq(Nat), NEW f \in Framings(bytes), NEW t \in Trailers,
           NEW capacity \in Nat, Len(bytes) <= capacity, NEW arrived \in 0 .. Len(f \o t)
    PROVE  LET read == ChunksOf(SubSeq(f \o t, 1, arrived), Len(bytes), capacity)
           IN IF arrived = Len(f \o t) THEN read = Read("OK", bytes, <<>>)
              ELSE read.status = "IO_ERROR"
<1> DEFINE w    == f \o t
           in   == SubSeq(w, 1, arrived)
           read == ChunksOf(in, Len(bytes), capacity)
<1>1. Len(bytes) \in Nat /\ f \in Behind(bytes)[0]
  BY LenProperties, FramingsBehind
<1>2. f \in Seq(Piece) /\ t \in Seq(Piece)
  BY <1>1, BehindTyped, TrailerShape
<1>3. w \in Seq(Piece)
  BY <1>2, WholeLies
<1>4. Lies(w, 1, f, t)
  BY <1>2, WholeLies
<1> HIDE DEF w
<1>5. arrived \in 0 .. Len(w) /\ 1 \in 1 .. arrived + 1
  BY DEF w
<1>6. ReadsRest(w, arrived, t, bytes, capacity, 0)
  BY <1>3, <1>5, ReadsAll
<1>7. read = From(in, Len(bytes), capacity)[1][0]
  BY ChunksOfFrom
<1>8. Answered(w, arrived, bytes, 0, From(in, Len(bytes), capacity)[1][0])
  BY <1>1, <1>4, <1>5, <1>6 DEF ReadsRest
<1> HIDE DEF read
<1>9. Answered(w, arrived, bytes, 0, read)
  BY <1>7, <1>8
<1>10. SubSeq(bytes, 0 + 1, Len(bytes)) = bytes
  BY SubSeqFull
<1>11. IF arrived = Len(w) THEN read = Read("OK", bytes, <<>>) ELSE read.status = "IO_ERROR"
  <2>1. CASE arrived = Len(w)
    BY <1>9, <1>10, <2>1 DEF Answered
  <2>2. CASE arrived # Len(w)
    BY <1>9, <2>2 DEF Answered, Read
  <2> QED
    BY <2>1, <2>2
<1> QED
  BY <1>11 DEF read, w

---------------------------------------------------------------------------
(* A reply to a read, or what arrives of it.                               *)

\* What arrives of a reply is the first tokens of it.
LEMMA ArrivedPart ==
    ASSUME NEW S, NEW R, R \subseteq Seq(S), NEW r \in Arriving(R)
    PROVE  \E q \in R : \E k \in 0 .. Len(q) : r = SubSeq(q, 1, k)
<1>1. CASE r \in R
  <2>1. Len(r) \in 0 .. Len(r) /\ SubSeq(r, 1, Len(r)) = r
    BY <1>1, LenProperties, SubSeqFull
  <2> QED
    BY <1>1, <2>1
<1>2. CASE r \notin R
  <2>1. PICK q \in R : r \in {SubSeq(q, 1, k) : k \in 0 .. Len(q) - 1}
    BY <1>2 DEF Arriving
  <2>2. PICK k \in 0 .. Len(q) - 1 : r = SubSeq(q, 1, k)
    BY <2>1
  <2>3. Len(q) \in Nat
    BY LenProperties
  <2>4. k \in 0 .. Len(q)
    BY <2>3
  <2> QED
    BY <2>2, <2>4
<1> QED
  BY <1>1, <1>2

\* A header and what follows it.
LEMMA Headed ==
    ASSUME NEW S, NEW h \in S, NEW w \in Seq(S)
    PROVE  /\ <<h>> \o w \in Seq(S) /\ Len(<<h>> \o w) = 1 + Len(w)
           /\ (<<h>> \o w)[1] = h /\ \A i \in 1 .. Len(w) : (<<h>> \o w)[1 + i] = w[i]
<1> DEFINE head == <<h>>
           q    == head \o w
<1>1. head \in Seq(S) /\ Len(head) = 1 /\ head[1] = h
  OBVIOUS
<1>2. 1 \in 1 .. Len(head)
  BY <1>1
<1> HIDE DEF head
<1>3. /\ q \in Seq(S) /\ Len(q) = Len(head) + Len(w)
      /\ \A i \in 1 .. Len(head) : q[i] = head[i]
      /\ \A i \in 1 .. Len(w) : q[Len(head) + i] = w[i]
  <2>1. head \in Seq(S)
    BY <1>1
  <2> QED
    BY ONLY <2>1, w \in Seq(S), Joined
<1> HIDE DEF q
<1>4. /\ q \in Seq(S) /\ Len(q) = 1 + Len(w)
      /\ q[1] = h /\ \A i \in 1 .. Len(w) : q[1 + i] = w[i]
  BY <1>1, <1>2, <1>3
<1> QED
  BY <1>4 DEF q, head

\* What has arrived begins with a header and goes on with the first tokens behind it.
Begins(r, h, w, arrived) ==
    r # <<>> /\ r[1] = h /\ arrived \in 0 .. Len(w) /\ Tail(r) = SubSeq(w, 1, arrived)

LEMMA HeadedPart ==
    ASSUME NEW S, NEW h \in S, NEW w \in Seq(S), NEW q, q = <<h>> \o w,
           NEW k \in 0 .. Len(q), NEW r, r = SubSeq(q, 1, k)
    PROVE  r \in Seq(S) /\ (r = <<>> \/ Begins(r, h, w, k - 1))
<1>1. Len(w) \in Nat
  BY LenProperties
<1>2. /\ q \in Seq(S) /\ Len(q) = 1 + Len(w)
      /\ q[1] = h /\ \A i \in 1 .. Len(w) : q[1 + i] = w[i]
  BY Headed
<1>3. r \in Seq(S) /\ Len(r) = k /\ \A i \in 1 .. k : r[i] = q[i]
  BY <1>2, FirstOf
<1>4. CASE k = 0
  BY <1>3, <1>4, EmptySeq
<1>5. CASE k # 0
  <2>1. k - 1 \in 0 .. Len(w) /\ 1 \in 1 .. k
    BY <1>1, <1>2, <1>5
  <2>2. r # <<>> /\ r[1] = h
    BY <1>2, <1>3, <1>5, <2>1, EmptySeq
  <2>3. /\ Tail(r) \in Seq(S) /\ Len(Tail(r)) = k - 1
        /\ \A i \in 1 .. k - 1 : Tail(r)[i] = r[i + 1]
    <3>1. r \in Seq(S) /\ r # <<>>
      BY <1>3, <2>2
    <3>2. /\ Tail(r) \in Seq(S) /\ Len(Tail(r)) = Len(r) - 1
          /\ \A i \in 1 .. Len(Tail(r)) : Tail(r)[i] = r[i + 1]
      BY ONLY <3>1, HeadTailProperties
    <3> QED
      BY <1>3, <3>2
  <2>4. /\ SubSeq(w, 1, k - 1) \in Seq(S) /\ Len(SubSeq(w, 1, k - 1)) = k - 1
        /\ \A i \in 1 .. k - 1 : SubSeq(w, 1, k - 1)[i] = w[i]
    BY <2>1, FirstOf
  <2>5. ASSUME NEW i \in 1 .. k - 1 PROVE Tail(r)[i] = SubSeq(w, 1, k - 1)[i]
    <3>1. i + 1 \in 1 .. k /\ i + 1 = 1 + i /\ i \in 1 .. Len(w)
      BY <1>1, <2>1
    <3> QED
      BY <1>2, <1>3, <2>3, <2>4, <3>1
  <2>6. Tail(r) = SubSeq(w, 1, k - 1)
    BY <2>3, <2>4, <2>5, SeqEqual
  <2> QED
    BY <1>3, <2>1, <2>2, <2>6 DEF Begins
<1> QED
  BY <1>3, <1>4, <1>5

\* The tokens of a reply that delivers data.
Sent == Piece \cup {Tok("LODATA", n) : n \in Nat}

LEMMA DataRepliesShape ==
    ASSUME NEW rest \in Seq(Nat), NEW n \in 0 .. Len(rest), NEW q \in DataReplies(rest, n)
    PROVE  \E f \in Framings(SubSeq(rest, 1, n)), t \in Trailers :
              /\ f \o t \in Seq(Piece) /\ f \o t \in Seq(Sent)
              /\ q = <<Tok("LODATA", Len(rest))>> \o (f \o t) /\ q \in Seq(Sent)
<1> DEFINE bytes == SubSeq(rest, 1, n)
           h     == Tok("LODATA", Len(rest))
           head  == <<h>>
<1>1. PICK f \in Framings(bytes), t \in Trailers : q = head \o f \o t
  <2>1. DataReplies(rest, n) = {head \o f \o t : f \in Framings(bytes), t \in Trailers}
    BY DEF DataReplies
  <2>2. q \in DataReplies(rest, n)
    OBVIOUS
  <2> HIDE DEF head, bytes
  <2> QED
    BY ONLY <2>1, <2>2
<1>2. bytes \in Seq(Nat)
  BY FirstOf
<1>3. Len(bytes) \in Nat /\ Len(rest) \in Nat
  BY <1>2, LenProperties
<1>4. f \in Behind(bytes)[0]
  BY FramingsBehind
<1> HIDE DEF bytes
<1>5. f \in Seq(Piece) /\ t \in Seq(Piece)
  BY <1>2, <1>3, <1>4, BehindTyped, TrailerShape
<1>6. f \in Seq(Sent) /\ t \in Seq(Sent)
  <2>1. Piece \subseteq Sent
    BY DEF Sent
  <2> QED
    BY <1>5, <2>1, SeqMonotonic
<1>7. head \in Seq(Sent)
  <2>1. h \in Sent
    BY <1>3 DEF Sent
  <2> HIDE DEF h
  <2> QED
    BY <2>1
<1> HIDE DEF head
<1>8. f \o t \in Seq(Piece) /\ f \o t \in Seq(Sent)
  BY <1>5, <1>6, ConcatProperties
<1>9. q = head \o (f \o t)
  <2>1. (head \o f) \o t = head \o (f \o t)
    BY ONLY <1>6, <1>7, ConcatAssociative
  <2> QED
    BY <1>1, <2>1
<1>10. q \in Seq(Sent)
  BY <1>7, <1>8, <1>9, ConcatProperties
<1> QED
  BY <1>8, <1>9, <1>10 DEF head, bytes

\* What a call makes of a reply to its read: it delivers what it is owed and leaves
\* nothing unread, or it reports no data.
Exactly(read, owed) ==
    \/ read = Read("OK", owed, <<>>)
    \/ read.status = "ERR" /\ read.left = <<>>
    \/ Failed(read.status)

\* A reply that delivers data, or what arrives of it.
LEMMA ReplyRead ==
    ASSUME NEW rest \in Seq(Nat), NEW capacity \in Nat \ {0},
           NEW n, n = Least(Len(rest), Least(capacity, MaxInt32)),
           NEW r \in Arriving(DataReplies(rest, n))
    PROVE  Exactly(ReadReply(r, capacity), SubSeq(rest, 1, n))
<1> DEFINE bytes == SubSeq(rest, 1, n)
           h     == Tok("LODATA", Len(rest))
<1>1. /\ Len(rest) \in Nat /\ n \in 0 .. Len(rest) /\ n <= capacity
      /\ (Len(rest) = 0 <=> n = 0)
  <2>1. Len(rest) \in Nat
    BY LenProperties
  <2> QED
    BY <2>1, LargeObjectAssumption DEF Least
<1>2. bytes \in Seq(Nat) /\ Len(bytes) = n
  BY <1>1, FirstOf
<1>3. DataReplies(rest, n) \subseteq Seq(Sent)
  BY <1>1, DataRepliesShape
<1>4. PICK q \in DataReplies(rest, n) : \E k \in 0 .. Len(q) : r = SubSeq(q, 1, k)
  BY <1>3, ArrivedPart
<1>5. PICK f \in Framings(bytes), t \in Trailers :
          /\ f \o t \in Seq(Piece) /\ f \o t \in Seq(Sent) /\ q = <<h>> \o (f \o t)
  <2>1. n \in 0 .. Len(rest) /\ q \in DataReplies(rest, n)
    BY <1>1
  <2>2. \E f \in Framings(SubSeq(rest, 1, n)), t \in Trailers :
          /\ f \o t \in Seq(Piece) /\ f \o t \in Seq(Sent)
          /\ q = <<Tok("LODATA", Len(rest))>> \o (f \o t) /\ q \in Seq(Sent)
    BY ONLY rest \in Seq(Nat), <2>1, DataRepliesShape
  <2> QED
    BY ONLY <2>2, Zenon
<1> DEFINE w == f \o t
<1>6. PICK k \in 0 .. Len(q) : r = SubSeq(q, 1, k)
  BY <1>4
<1>7. h \in Sent /\ h.t = "LODATA" /\ h.n = Len(rest)
  BY <1>1 DEF Sent, Tok
<1> HIDE DEF h, bytes
<1>8. r \in Seq(Sent) /\ (r = <<>> \/ Begins(r, h, w, k - 1))
  <2>1. /\ q = <<h>> \o w /\ w \in Seq(Sent) /\ h \in Sent
        /\ k \in 0 .. Len(q) /\ r = SubSeq(q, 1, k)
    BY <1>5, <1>6, <1>7
  <2> HIDE DEF w
  <2> QED
    BY ONLY <2>1, HeadedPart
<1> DEFINE read == ReadReply(r, capacity)
<1>9. CASE r = <<>>
  <2>1. AfterEots(r) = <<>>
    BY <1>9 DEF AfterEots
  <2>2. read.status = "IO_ERROR"
    BY <2>1 DEF ReadReply, Read
  <2> QED
    BY <2>2 DEF Exactly, Failed
<1>10. CASE r # <<>>
  <2> DEFINE arrived == k - 1
             in == SubSeq(w, 1, arrived)
  <2>1. /\ arrived \in 0 .. Len(w) /\ r \in Seq(Sent) /\ r # <<>> /\ r[1] = h /\ Tail(r) = in
    BY <1>8, <1>10 DEF Begins
  <2> HIDE DEF arrived, in
  <2>2. AfterEots(r) = r
    BY <1>7, <2>1, NoLeadingEot
  <2>3. CASE n = 0
    <3>1. read = DrainTail(in, <<>>)
      <4>1. r[1].t = "LODATA" /\ r[1].n <= 0
        BY <1>1, <1>7, <2>1, <2>3
      <4> QED
        BY <2>1, <2>2, <4>1 DEF ReadReply
    <3>2. f = <<>>
      <4>1. f \in Behind(bytes)[0] /\ 0 \in 0 .. Len(bytes) /\ 0 + 1 .. Len(bytes) = {}
        BY <1>2, <2>3, FramingsBehind
      <4> QED
        BY <1>2, <4>1, BehindSplits
    <3>3. t \in Seq(Piece) /\ <<>> \in Seq(Piece)
      BY TrailerShape, EmptySeq
    <3>4. w \in Seq(Piece) /\ Lies(w, 1, <<>>, t)
      BY <3>2, <3>3, WholeLies
    <3> HIDE DEF w
    <3>5. 1 \in 1 .. arrived + 1
      BY <2>1
    <3>6. DrainTail(SubSeq(SubSeq(w, 1, arrived), 1, arrived), <<>>)
            = Read(IF arrived = Len(w) THEN "OK" ELSE "IO_ERROR", <<>>, <<>>)
      BY <2>1, <3>4, <3>5, TailDrained
    <3>7. SubSeq(in, 1, arrived) = in
      <4>1. in \in Seq(Piece) /\ Len(in) = arrived
        BY <2>1, <3>4, FirstOf DEF in
      <4> QED
        BY <4>1, SubSeqFull
    <3>8. read = Read(IF arrived = Len(w) THEN "OK" ELSE "IO_ERROR", <<>>, <<>>)
      BY <3>1, <3>6, <3>7 DEF in
    <3>9. bytes = <<>>
      BY <1>2, <2>3, EmptySeq
    <3> HIDE DEF read
    <3>10. read = Read("OK", bytes, <<>>) \/ read.status = "IO_ERROR"
      BY <3>8, <3>9 DEF Read
    <3>11. Exactly(read, bytes)
      BY <3>10 DEF Exactly, Failed
    <3> QED
      BY <3>11 DEF read, bytes
  <2>4. CASE n # 0
    <3>1. read = ChunksOf(in, n, capacity)
      <4>1. ~ (Len(rest) <= 0)
        BY <1>1, <2>4
      <4> QED
        BY <1>7, <2>1, <2>2, <4>1 DEF ReadReply
    <3>2. IF arrived = Len(w) THEN ChunksOf(in, n, capacity) = Read("OK", bytes, <<>>)
          ELSE ChunksOf(in, n, capacity).status = "IO_ERROR"
      <4>1. arrived \in 0 .. Len(f \o t) /\ Len(bytes) <= capacity /\ capacity \in Nat
        BY <1>1, <1>2, <2>1
      <4>2. LET got == ChunksOf(SubSeq(f \o t, 1, arrived), Len(bytes), capacity)
            IN IF arrived = Len(f \o t) THEN got = Read("OK", bytes, <<>>)
               ELSE got.status = "IO_ERROR"
        BY ONLY <1>2, <4>1, f \in Framings(bytes), t \in Trailers, BodyRead
      <4> QED
        BY <1>2, <4>2 DEF in
    <3> HIDE DEF read, w
    <3>3. read = Read("OK", bytes, <<>>) \/ read.status = "IO_ERROR"
      BY <3>1, <3>2
    <3>4. Exactly(read, bytes)
      BY <3>3 DEF Exactly, Failed
    <3> QED
      BY <3>4 DEF read, bytes
  <2> QED
    BY <2>3, <2>4
<1> QED
  BY <1>9, <1>10

\* An error, or an answer to something else.
LEMMA RefusalRead ==
    ASSUME NEW R, R \subseteq {<<Tok("ERR", 0), Tok("EOT", 0)>>, <<Tok("OTHER", 0), Tok("EOT", 0)>>},
           NEW r \in Arriving(R), NEW capacity, NEW owed
    PROVE  Exactly(ReadReply(r, capacity), owed)
<1> DEFINE eot == Tok("EOT", 0)
<1>1. eot \in Tokens /\ Tok("ERR", 0) \in Tokens /\ Tok("OTHER", 0) \in Tokens /\ eot.t = "EOT"
  BY DEF Tok, Tokens, Marks
<1> HIDE DEF eot
<1>2. R \subseteq Seq(Tokens)
  <2>1. R \subseteq {<<Tok("ERR", 0), eot>>, <<Tok("OTHER", 0), eot>>}
    BY DEF eot
  <2> SUFFICES ASSUME NEW q \in R PROVE q \in Seq(Tokens)
    OBVIOUS
  <2>2. CASE q = <<Tok("ERR", 0), eot>>
    BY <1>1, <2>2
  <2>3. CASE q = <<Tok("OTHER", 0), eot>>
    BY <1>1, <2>3
  <2> QED
    BY <2>1, <2>2, <2>3
<1>3. PICK q \in R : \E k \in 0 .. Len(q) : r = SubSeq(q, 1, k)
  BY <1>2, ArrivedPart
<1>4. PICK k \in 0 .. Len(q) : r = SubSeq(q, 1, k)
  BY <1>3
<1>5. PICK h \in {Tok("ERR", 0), Tok("OTHER", 0)} : q = <<h, eot>>
  BY DEF eot
<1>6. h \in Tokens /\ h.t \in {"ERR", "OTHER"} /\ h.t # "EOT" /\ h.t # "LODATA"
  BY <1>1, <1>5 DEF Tok
<1>7. q \in Seq(Tokens) /\ Len(q) = 2 /\ q[1] = h /\ q[2] = eot
  BY <1>1, <1>5, <1>6
<1>8. r \in Seq(Tokens) /\ Len(r) = k /\ \A i \in 1 .. k : r[i] = q[i]
  BY <1>4, <1>7, FirstOf
<1> DEFINE read == ReadReply(r, capacity)
<1>9. CASE k = 0
  <2>1. r = <<>>
    BY <1>8, <1>9, EmptySeq
  <2>2. AfterEots(r) = <<>>
    BY <2>1 DEF AfterEots
  <2>3. read.status = "IO_ERROR"
    BY <2>2 DEF ReadReply, Read
  <2> QED
    BY <2>3 DEF Exactly, Failed
<1>10. CASE k # 0
  <2>1. r # <<>> /\ r[1] = h /\ k \in {1, 2} /\ (k = 2 => r[2] = eot)
    BY <1>7, <1>8, <1>10, EmptySeq
  <2>2. AfterEots(r) = r
    BY <1>6, <1>8, <2>1, NoLeadingEot
  <2>4. TakeError(r) = Read("ERR", <<>>, IF Len(r) > 1 /\ r[2].t = "EOT"
                                         THEN SubSeq(r, 3, Len(r)) ELSE Tail(r))
    BY ONLY DEF TakeError
  <2>3. CASE h.t = "ERR"
    <3>1. read = TakeError(r)
      BY <2>1, <2>2, <2>3 DEF ReadReply
    <3>2. CASE k = 2
      <4>1. SubSeq(r, 3, Len(r)) = <<>>
        BY <1>8, <3>2, SubSeqEmpty
      <4>2. Len(r) > 1 /\ r[2].t = "EOT"
        BY <1>1, <1>8, <2>1, <3>2
      <4> QED
        BY <2>4, <3>1, <4>1, <4>2 DEF Exactly, Read
    <3>3. CASE k = 1
      <4>1. Tail(r) \in Seq(Tokens) /\ Len(Tail(r)) = 0
        BY <1>8, <2>1, <3>3, HeadTailProperties
      <4>2. Tail(r) = <<>>
        BY <4>1, EmptySeq
      <4>3. ~ (Len(r) > 1)
        BY <1>8, <3>3
      <4> QED
        BY <2>4, <3>1, <4>2, <4>3 DEF Exactly, Read
    <3> QED
      BY <2>1, <3>2, <3>3
  <2>5. CASE h.t = "OTHER"
    <3>1. read = Read("PROTO_ERROR", <<>>, Tail(r))
      BY <2>1, <2>2, <2>5 DEF ReadReply
    <3> QED
      BY <3>1 DEF Exactly, Failed, Read
  <2> QED
    BY <1>6, <2>3, <2>5
<1> QED
  BY <1>9, <1>10

---------------------------------------------------------------------------
(* What reads deliver.                                                     *)

LEMMA ExactlyDelivered ==
    ASSUME NEW read, NEW owed, Exactly(read, owed)
    PROVE  /\ Delivered(read, owed).exact
           /\ ~Failed(read.status) => Delivered(read, owed).left = <<>>
<1>1. CASE read = Read("OK", owed, <<>>)
  <2>1. read.status = "OK" /\ read.data = owed /\ read.left = <<>>
    BY <1>1 DEF Read
  <2> QED
    BY <2>1 DEF Delivered
<1>2. CASE read.status = "ERR" /\ read.left = <<>>
  BY <1>2 DEF Delivered
<1>3. CASE Failed(read.status)
  BY <1>3 DEF Delivered, Failed
<1> QED
  BY <1>1, <1>2, <1>3 DEF Exactly

LEMMA RefusalsRefuse ==
    Refusals \subseteq {<<Tok("ERR", 0), Tok("EOT", 0)>>, <<Tok("OTHER", 0), Tok("EOT", 0)>>}
  BY DEF Refusals

\* The bytes of an object.
LEMMA ObjectBytes ==
    ASSUME ServerOK(server), NEW o \in DOMAIN server.data
    PROVE  server.data[o] \in Seq(Nat)
<1>1. server.data[o] \in Seq(1 .. MaxBytes)
  BY DEF ServerOK
<1>2. 1 .. MaxBytes \subseteq Nat
  BY LargeObjectAssumption
<1> QED
  BY <1>1, <1>2, SeqMonotonic

\* A read of a descriptor, wherever it seeks.
LEMMA ReadsFacts ==
    ASSUME ServerOK(server), NEW d \in DOMAIN server.open, NEW capacity \in Capacities \ {0},
           NEW offset \in Offsets \cup {0}, NEW r \in Reads(d, offset, capacity)
    PROVE  Exactly(r.read, r.owed)
<1> DEFINE at   == server.open[d].pos + offset
           all  == server.data[server.open[d].object]
           rest == SubSeq(all, at + 1, Len(all))
           n    == Least(Len(rest), Least(capacity, MaxInt32))
           refusal == {<<Tok("ERR", 0), Tok("EOT", 0)>>}
<1>1. capacity \in Nat \ {0} /\ at \in Int
  BY LargeObjectAssumption DEF ServerOK, Open
<1>2. all \in Seq(Nat)
  BY ObjectBytes DEF ServerOK
<1>3. \/ at \in 0 .. Len(all) /\ \E reply \in Arriving(DataReplies(rest, n)) :
            r.read = ReadReply(reply, capacity) /\ r.owed = SubSeq(rest, 1, n)
      \/ \E reply \in Arriving(Refusals) : r.read = ReadReply(reply, capacity)
      \/ \E reply \in Arriving(refusal) : r.read = ReadReply(reply, capacity)
  <2> DEFINE good == {[read |-> ReadReply(reply, capacity), owed |-> SubSeq(rest, 1, n),
                       pos |-> at + n] : reply \in Arriving(DataReplies(rest, n))}
             bad(replies) == {[read |-> ReadReply(reply, capacity), owed |-> <<>>,
                               pos |-> server.open[d].pos] : reply \in Arriving(replies)}
  <2>1. r \in IF at \notin 0 .. Len(all) THEN bad(refusal) ELSE good \cup bad(Refusals)
    BY DEF Reads
  <2> HIDE DEF at, all, rest, n, refusal
  <2>2. \A x \in good : \E reply \in Arriving(DataReplies(rest, n)) :
          x.read = ReadReply(reply, capacity) /\ x.owed = SubSeq(rest, 1, n)
    OBVIOUS
  <2>3. \A replies : \A x \in bad(replies) : \E reply \in Arriving(replies) :
          x.read = ReadReply(reply, capacity)
    OBVIOUS
  <2> HIDE DEF good, bad
  <2> QED
    BY ONLY <2>1, <2>2, <2>3
<1> HIDE DEF at, all
<1>4. CASE at \in 0 .. Len(all) /\ \E reply \in Arriving(DataReplies(rest, n)) :
              r.read = ReadReply(reply, capacity) /\ r.owed = SubSeq(rest, 1, n)
  <2>1. rest \in Seq(Nat)
    <3>1. Len(all) \in Nat
      BY <1>2, LenProperties
    <3>2. at + 1 \in 1 .. Len(all) + 1 /\ Len(all) \in at + 1 - 1 .. Len(all)
      BY <1>1, <1>4, <3>1
    <3> QED
      BY <1>2, <3>2, PartOf
  <2> HIDE DEF rest
  <2>2. \A reply \in Arriving(DataReplies(rest, n)) :
          Exactly(ReadReply(reply, capacity), SubSeq(rest, 1, n))
    BY <1>1, <2>1, ReplyRead
  <2> QED
    BY <1>4, <2>2
<1>5. CASE \E reply \in Arriving(Refusals) : r.read = ReadReply(reply, capacity)
  BY <1>5, RefusalsRefuse, RefusalRead
<1>6. CASE \E reply \in Arriving(refusal) : r.read = ReadReply(reply, capacity)
  <2>1. refusal \subseteq {<<Tok("ERR", 0), Tok("EOT", 0)>>, <<Tok("OTHER", 0), Tok("EOT", 0)>>}
    OBVIOUS
  <2> HIDE DEF refusal
  <2> QED
    BY <1>6, <2>1, RefusalRead
<1> QED
  BY <1>3, <1>4, <1>5, <1>6

\* A read of a result column: of the whole object.
LEMMA ColumnRead ==
    ASSUME ServerOK(server), NEW o \in DOMAIN server.data, NEW capacity \in Capacities \ {0},
           NEW n, n = Least(Len(server.data[o]), Least(capacity, MaxInt32)),
           NEW r \in Arriving(DataReplies(server.data[o], n) \cup Refusals)
    PROVE  Exactly(ReadReply(r, capacity), SubSeq(server.data[o], 1, n))
<1>1. capacity \in Nat \ {0}
  BY LargeObjectAssumption
<1>2. server.data[o] \in Seq(Nat)
  BY ObjectBytes
<1>3. r \in Arriving(DataReplies(server.data[o], n)) \/ r \in Arriving(Refusals)
  BY DEF Arriving
<1>4. CASE r \in Arriving(DataReplies(server.data[o], n))
  BY <1>1, <1>2, <1>4, ReplyRead
<1>5. CASE r \in Arriving(Refusals)
  BY <1>5, RefusalsRefuse, RefusalRead
<1> QED
  BY <1>3, <1>4, <1>5

\* A call other than a read leaves nothing of an earlier reply behind.
LEMMA QuietTruthful ==
    ASSUME last' = Quiet
    PROVE  ReadsTruthful'
  BY DEF ReadsTruthful, Quiet

LEMMA DeliveredTruthful ==
    ASSUME NEW read, NEW owed, Exactly(read, owed), last' = Delivered(read, owed),
           Failed(read.status) => suspect'
    PROVE  ReadsTruthful'
  BY ExactlyDelivered DEF ReadsTruthful

LEMMA ReaderReadTruthful ==
    ASSUME Inv, ReaderRead
    PROVE  ReadsTruthful'
<1> DEFINE d == reader.descriptor
<1>1. \/ last' = Quiet
      \/ /\ d \in DOMAIN server.open
         /\ \E capacity \in Capacities \cap 1 .. MaxInt32, offset \in Offsets \cup {0} :
            \E r \in Reads(d, offset, capacity) : TakeRead(d, r)
  BY DEF ReaderRead, Outcome
<1>2. CASE last' = Quiet
  BY <1>2, QuietTruthful
<1>3. ASSUME d \in DOMAIN server.open,
             NEW capacity \in Capacities \cap 1 .. MaxInt32, NEW offset \in Offsets \cup {0},
             NEW r \in Reads(d, offset, capacity), TakeRead(d, r)
      PROVE  ReadsTruthful'
  <2>1. ServerOK(server) /\ capacity \in Capacities \ {0}
    BY DEF Inv
  <2>2. Exactly(r.read, r.owed)
    BY <1>3, <2>1, ReadsFacts
  <2>3. last' = Delivered(r.read, r.owed) /\ suspect' = Failed(r.read.status)
    BY <1>3 DEF TakeRead
  <2> QED
    BY ONLY <2>2, <2>3, DeliveredTruthful
<1> QED
  BY <1>1, <1>2, <1>3

LEMMA ReadColumnTruthful ==
    ASSUME Inv, ReadColumn
    PROVE  ReadsTruthful'
<1>1. PICK o \in DOMAIN server.data, capacity \in Capacities \ {0}, q \in QueryResults :
        \/ /\ q.status # "OK" /\ Outcome(q.status)
           /\ server' = IF q.done THEN Opened(server, NextUnused, o) ELSE server
           /\ lost' = IF q.done THEN lost \cup {NextUnused} ELSE lost
        \/ /\ q.status = "OK"
           /\ \E n \in {Least(Len(server.data[o]), Least(capacity, MaxInt32))}, c \in QueryResults :
              \E r \in Arriving(DataReplies(server.data[o], n) \cup Refusals) :
                 LET read   == ReadReply(r, capacity)
                     closed == ~Failed(read.status) /\ c.done
                 IN /\ server' = IF closed THEN server ELSE Opened(server, NextUnused, o)
                    /\ lost' = IF closed THEN lost ELSE lost \cup {NextUnused}
                    /\ last' = Delivered(read, SubSeq(server.data[o], 1, n))
                    /\ suspect' = (Failed(read.status) \/ Failed(c.status))
  BY DEF ReadColumn
<1>2. CASE q.status # "OK"
  <2>1. last' = Quiet
    BY <1>1, <1>2 DEF Outcome
  <2> QED
    BY <2>1, QuietTruthful
<1>3. CASE q.status = "OK"
  <2> DEFINE n == Least(Len(server.data[o]), Least(capacity, MaxInt32))
             owed == SubSeq(server.data[o], 1, n)
  <2>1. PICK c \in QueryResults, r \in Arriving(DataReplies(server.data[o], n) \cup Refusals) :
          LET read == ReadReply(r, capacity)
          IN /\ last' = Delivered(read, owed)
             /\ suspect' = (Failed(read.status) \/ Failed(c.status))
    BY <1>1, <1>3
  <2> DEFINE read == ReadReply(r, capacity)
  <2>2. Exactly(read, owed)
    BY ColumnRead DEF Inv
  <2>3. last' = Delivered(read, owed) /\ suspect' = (Failed(read.status) \/ Failed(c.status))
    BY <2>1
  <2> HIDE DEF read, owed
  <2> QED
    BY ONLY <2>2, <2>3, DeliveredTruthful
<1> QED
  BY <1>2, <1>3

LEMMA NextTruthful ==
    ASSUME Inv, ReadsTruthful, [Next]_vars
    PROVE  ReadsTruthful'
<1>1. CASE ReaderRead
  BY <1>1, ReaderReadTruthful
<1>2. CASE ReadColumn
  BY <1>2, ReadColumnTruthful
<1>3. CASE Create
  BY <1>3, QuietTruthful DEF Create, Outcome
<1>4. CASE WriteBuffer
  <2>1. last' = Quiet
    <3>1. CASE ~lob.open
      BY <1>4, <3>1 DEF WriteBuffer, Outcome
    <3>2. CASE lob.open
      <4>1. PICK n \in Capacities \ {0} : \E w \in Writes(n) : Outcome(w.status)
        BY <1>4, <3>2 DEF WriteBuffer
      <4> QED
        BY <4>1 DEF Outcome
    <3> QED
      BY <3>1, <3>2
  <2> QED
    BY <2>1, QuietTruthful
<1>5. CASE StreamMore
  <2>1. PICK n : \E w \in Writes(n) : Outcome(w.status)
    BY <1>5 DEF StreamMore
  <2> QED
    BY <2>1, QuietTruthful DEF Outcome
<1>6. CASE StartStream \/ StreamEnd \/ CloseCreated
  BY <1>6, QuietTruthful DEF StartStream, StreamEnd, CloseCreated, CloseQuery, Outcome
<1>7. CASE Release \/ DestroyLob \/ ReaderOpen \/ ReaderClose \/ ReaderDestroy
  BY <1>7, QuietTruthful DEF Release, DestroyLob, ReaderOpen, ReaderClose, ReaderDestroy,
     CloseQuery, Outcome
<1>8. CASE Discard \/ Close \/ Reconnect \/ Unready
  BY <1>8, QuietTruthful DEF Discard, Close, Reconnect, Unready, Outcome
<1>9. CASE UNCHANGED vars
  BY <1>9 DEF vars, ReadsTruthful
<1> QED
  BY <1>1, <1>2, <1>3, <1>4, <1>5, <1>6, <1>7, <1>8, <1>9 DEF Next

\* However the server cuts the bytes of an object into chunks, and wherever the reply
\* breaks off, a read that succeeds delivers exactly the bytes behind the descriptor's
\* position (sqli_sblob_read, sqli_result_read_sblob), and a session without a
\* transport or protocol failure has no unread tokens in front of the next reply.
THEOREM DeliveredTruthfully == Spec => []ReadsTruthful
<1>1. Init => ReadsTruthful
  BY DEF Init, ReadsTruthful, Quiet
<1>2. Inv /\ ReadsTruthful /\ [Next]_vars => ReadsTruthful'
  BY NextTruthful
<1> QED
  BY <1>1, <1>2, SpecInv, PTL DEF Spec
=============================================================================
