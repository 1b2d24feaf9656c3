--------------------------- MODULE Prepared_proofs ---------------------------
(***************************************************************************)
(* Proofs about what a prepared statement and a client exchange.           *)
(*                                                                         *)
(* Descriptor snapshots: for every number of threads, descriptors and      *)
(* references and every order of retains, releases and new descriptions.   *)
(* The invariant counts, beside the references, what a thread that is in   *)
(* the middle of a retain relies on: a reference that nobody else can give *)
(* back.                                                                   *)
(*                                                                         *)
(* Rows: for every layout of columns and whatever bytes a row consists of. *)
(*                                                                         *)
(* Parameters: for every statement and whatever is bound to it, freed and  *)
(* bound again, set aside for a batch and sent.                            *)
(***************************************************************************)
EXTENDS Prepared, FiniteSetTheorems, WellFoundedInduction, TLAPS

-----------------------------------------------------------------------------
(* Numbers and counting.                                                   *)

\* A nonempty set of numbers has a least element.
LEMMA LeastOf ==
    ASSUME NEW S, S \subseteq Nat, S # {}
    PROVE  \E d \in S : \A e \in S : d <= e
<1> DEFINE R == {ss \in Nat \X Nat : ss[1] < ss[2]}
<1>1. IsWellFoundedOn(R, Nat)
  BY NatLessThanWellFounded DEF OpToRel
<1>2. PICK d \in S : \A e \in S : ~ (<<e, d>> \in R)
  <2> HIDE DEF R
  <2> QED BY <1>1, WFMin
<1>3. ASSUME NEW e \in S PROVE d <= e
  <2>1. d \in Nat /\ e \in Nat /\ <<e, d>> \notin R
    BY <1>2
  <2>2. <<e, d>> \in Nat \X Nat /\ <<e, d>>[1] = e /\ <<e, d>>[2] = d
    BY <2>1
  <2> QED BY <2>1, <2>2, SMT
<1> QED BY <1>3

\* What holds of 0 and, with a number below n, of the next one holds up to n.
LEMMA UpwardInduction ==
    ASSUME NEW n \in Nat, NEW P, 0 \in P, \A k \in 0 .. n - 1 : k \in P => k + 1 \in P
    PROVE  0 .. n \subseteq P
<1> SUFFICES ASSUME ~ (0 .. n \subseteq P) PROVE FALSE
  OBVIOUS
<1>1. PICK d \in (0 .. n) \ P : \A e \in (0 .. n) \ P : d <= e
  <2>1. (0 .. n) \ P \subseteq Nat /\ (0 .. n) \ P # {}
    OBVIOUS
  <2> QED BY <2>1, LeastOf
<1>2. d # 0 /\ d - 1 \in 0 .. n - 1 /\ d - 1 + 1 = d /\ ~ (d <= d - 1)
  BY <1>1
<1>3. d - 1 \in P
  BY <1>1, <1>2
<1> QED BY <1>1, <1>2, <1>3

\* A step that is taken n times, each time on what the one before it left, leaves a trace.
Trace(n, S, s, f, g) ==
    /\ g \in [0 .. n -> S]
    /\ g[0] = s
    /\ \A i \in 1 .. n : g[i] = f[i][g[i - 1]]

LEMMA Iteration ==
    ASSUME NEW n \in Nat, NEW S, NEW s \in S, NEW f \in [1 .. n -> [S -> S]]
    PROVE  \E g : Trace(n, S, s, f, g)
<1> DEFINE P == {k \in 0 .. n : \E g : Trace(k, S, s, f, g)}
<1>1. 0 \in P
  <2> DEFINE h == [i \in 0 .. 0 |-> s]
  <2>1. h \in [0 .. 0 -> S] /\ h[0] = s /\ 0 \in 0 .. n /\ 1 .. 0 = {}
    OBVIOUS
  <2> HIDE DEF h
  <2>2. Trace(0, S, s, f, h)
    BY <2>1 DEF Trace
  <2> QED BY <2>1, <2>2
<1>2. ASSUME NEW k \in 0 .. n - 1, k \in P PROVE k + 1 \in P
  <2>1. PICK g : Trace(k, S, s, f, g)
    BY <1>2
  <2> DEFINE h == [i \in 0 .. k + 1 |-> IF i = k + 1 THEN f[k + 1][g[k]] ELSE g[i]]
  <2>2. k + 1 \in 1 .. n /\ g[k] \in S /\ f[k + 1][g[k]] \in S
    BY <2>1 DEF Trace
  <2>3. h \in [0 .. k + 1 -> S]
    BY <2>1, <2>2 DEF Trace
  <2>4. h[0] = s
    BY <2>1, <2>2 DEF Trace
  <2>5. ASSUME NEW i \in 1 .. k + 1 PROVE h[i] = f[i][h[i - 1]]
    <3>1. CASE i = k + 1
      <4>1. i - 1 = k /\ h[k] = g[k] /\ h[k + 1] = f[k + 1][g[k]]
        BY <3>1
      <4> QED BY <3>1, <4>1
    <3>2. CASE i # k + 1
      <4>1. i \in 1 .. k /\ h[i] = g[i] /\ h[i - 1] = g[i - 1]
        BY <3>2
      <4> QED BY <2>1, <4>1 DEF Trace
    <3> QED BY <3>1, <3>2
  <2> HIDE DEF h
  <2>6. Trace(k + 1, S, s, f, h)
    BY <2>3, <2>4, <2>5 DEF Trace
  <2>7. k + 1 \in 0 .. n
    OBVIOUS
  <2> QED BY <2>6, <2>7
<1>3. n \in P
  <2> HIDE DEF P
  <2>1. \A k \in 0 .. n - 1 : k \in P => k + 1 \in P
    BY <1>2
  <2>2. 0 .. n \subseteq P
    BY <1>1, <2>1, UpwardInduction
  <2> QED BY <2>2
<1> QED BY <1>3, Zenon

LEMMA UpTo ==
    ASSUME NEW n \in Nat
    PROVE  IsFiniteSet(1 .. n) /\ Cardinality(1 .. n) = n
BY FS_Interval

\* The references the threads of a set hold to a descriptor, one by one.
Units(h, a, s) == UNION {{t} \X (1 .. h[t][a]) : t \in s}

\* The function the sum of FoldSet is: it takes the threads in some order.
Some(s) == CHOOSE t \in s : TRUE
Adding(h, base, a, sum) ==
    [s \in SUBSET Threads |-> IF s = {} THEN base ELSE sum[s \ {Some(s)}] + h[Some(s)][a]]
Sum(h, base, a) == CHOOSE sum : sum = Adding(h, base, a, sum)

\* One thread's references are as many as it is said to hold.
LEMMA UnitsFinite ==
    ASSUME NEW s, IsFiniteSet(s), NEW h, NEW a, \A t \in s : h[t][a] \in Nat
    PROVE  IsFiniteSet(Units(h, a, s))
<1> DEFINE Own(t) == {t} \X (1 .. h[t][a])
<1>1. ASSUME NEW t \in s PROVE IsFiniteSet(Own(t))
  <2>1. h[t][a] \in Nat
    OBVIOUS
  <2>2. IsFiniteSet({t}) /\ IsFiniteSet(1 .. h[t][a])
    BY <2>1, FS_Singleton, UpTo
  <2> QED BY <2>2, FS_Product
<1>2. IsFiniteSet({Own(t) : t \in s})
  <2> DEFINE f == [t \in s |-> Own(t)]
  <2> HIDE DEF Own
  <2>1. f \in Surjection(s, {Own(t) : t \in s})
    BY DEF Surjection
  <2> QED BY <2>1, FS_Surjection
<1>3. \A own \in {Own(t) : t \in s} : IsFiniteSet(own)
  BY <1>1
<1> QED BY <1>2, <1>3, FS_UNION DEF Units

LEMMA UnitsOfOneMore ==
    ASSUME NEW s, IsFiniteSet(s), NEW h, NEW a, \A t \in s : h[t][a] \in Nat,
           NEW x \in s
    PROVE  Cardinality(Units(h, a, s)) = Cardinality(Units(h, a, s \ {x})) + h[x][a]
<1> DEFINE Own == {x} \X (1 .. h[x][a])
           Others == Units(h, a, s \ {x})
<1>1. IsFiniteSet(Own) /\ Cardinality(Own) = h[x][a]
  <2>1. IsFiniteSet({x}) /\ Cardinality({x}) = 1
    BY FS_Singleton
  <2>2. IsFiniteSet(1 .. h[x][a]) /\ Cardinality(1 .. h[x][a]) = h[x][a]
    <3>1. h[x][a] \in Nat
      OBVIOUS
    <3> QED BY <3>1, UpTo
  <2>3. IsFiniteSet(Own) /\ Cardinality(Own) = Cardinality({x}) * Cardinality(1 .. h[x][a])
    BY <2>1, <2>2, FS_Product
  <2> QED BY <2>1, <2>2, <2>3
<1>2. IsFiniteSet(Others)
  <2>1. IsFiniteSet(s \ {x})
    BY FS_RemoveElement
  <2> QED BY <2>1, UnitsFinite
<1>3. Own \cap Others = {}
  BY DEF Units
<1>4. Units(h, a, s) = Others \cup Own
  BY DEF Units
<1>5. Cardinality(Others) \in Nat /\ Cardinality(Others \cap Own) = 0
  BY <1>2, <1>3, FS_CardinalityType, FS_EmptySet
<1> HIDE DEF Own, Others
<1>6. Cardinality(Others \cup Own) = Cardinality(Others) + Cardinality(Own) - Cardinality(Others \cap Own)
  BY <1>1, <1>2, FS_Union
<1> QED BY <1>1, <1>4, <1>5, <1>6 DEF Others

\* The sum over the threads counts their references.
LEMMA SumCounts ==
    ASSUME NEW h \in [Threads -> [Addresses -> Nat]], NEW a \in Addresses, NEW base \in Nat
    PROVE  Sum(h, base, a)[Threads] = base + Cardinality(Units(h, a, Threads))
<1> DEFINE total == [s \in SUBSET Threads |-> base + Cardinality(Units(h, a, s))]
           sum == Sum(h, base, a)
<1>1. ASSUME NEW s \in SUBSET Threads
      PROVE  IsFiniteSet(s) /\ Cardinality(s) \in Nat /\ Cardinality(Units(h, a, s)) \in Nat
  <2>1. IsFiniteSet(s)
    BY SnapshotAssumption, FS_Subset
  <2>2. IsFiniteSet(Units(h, a, s))
    BY <2>1, UnitsFinite
  <2> QED BY <2>1, <2>2, FS_CardinalityType
<1>2. ASSUME NEW s \in SUBSET Threads, s # {}
      PROVE  /\ Some(s) \in s /\ s \ {Some(s)} \in SUBSET Threads
             /\ total[s] = total[s \ {Some(s)}] + h[Some(s)][a]
             /\ Cardinality(s \ {Some(s)}) < Cardinality(s)
  <2>1. Some(s) \in s
    BY <1>2 DEF Some
  <2>2. Cardinality(Units(h, a, s)) = Cardinality(Units(h, a, s \ {Some(s)})) + h[Some(s)][a]
    BY <1>1, <2>1, UnitsOfOneMore
  <2>3. Cardinality(s \ {Some(s)}) = Cardinality(s) - 1
    BY <1>1, <2>1, FS_RemoveElement
  <2>4. Cardinality(Units(h, a, s \ {Some(s)})) \in Nat /\ h[Some(s)][a] \in Nat
    BY <1>1, <2>1
  <2> QED BY <1>1, <2>1, <2>2, <2>3, <2>4
<1>3. total[{}] = base
  <2>1. Units(h, a, {}) = {}
    BY DEF Units
  <2> QED BY <2>1, FS_EmptySet
<1> HIDE DEF total
<1>4. total = Adding(h, base, a, total)
  <2>1. DOMAIN total = SUBSET Threads /\ total = [s \in SUBSET Threads |-> total[s]]
    BY DEF total
  <2>2. \A s \in SUBSET Threads :
           total[s] = IF s = {} THEN base ELSE total[s \ {Some(s)}] + h[Some(s)][a]
    BY <1>2, <1>3
  <2> QED BY <2>1, <2>2 DEF Adding
<1>5. sum = Adding(h, base, a, sum)
  BY <1>4 DEF Sum
<1> HIDE DEF sum
<1>6. ASSUME NEW s \in SUBSET Threads
      PROVE  sum[s] = IF s = {} THEN base ELSE sum[s \ {Some(s)}] + h[Some(s)][a]
  BY <1>5 DEF Adding
<1> DEFINE Apart == {n \in Nat : \E s \in SUBSET Threads : Cardinality(s) = n /\ sum[s] # total[s]}
<1>7. Apart = {}
  <2> SUFFICES ASSUME Apart # {} PROVE FALSE
    OBVIOUS
  <2>1. PICK n \in Apart : \A m \in Apart : n <= m
    BY LeastOf
  <2>2. PICK s \in SUBSET Threads : Cardinality(s) = n /\ sum[s] # total[s]
    BY <2>1
  <2>3. s # {}
    BY <1>3, <1>6, <2>2
  <2>4. /\ s \ {Some(s)} \in SUBSET Threads
        /\ total[s] = total[s \ {Some(s)}] + h[Some(s)][a]
        /\ Cardinality(s \ {Some(s)}) < n
    BY <1>2, <2>2, <2>3
  <2>5. sum[s \ {Some(s)}] # total[s \ {Some(s)}]
    BY <1>6, <2>2, <2>3, <2>4
  <2>6. Cardinality(s \ {Some(s)}) \in Apart
    BY <1>1, <2>4, <2>5
  <2>7. n \in Nat /\ Cardinality(s \ {Some(s)}) \in Nat
    BY <1>1, <2>4
  <2>8. n <= Cardinality(s \ {Some(s)})
    BY <2>1, <2>6
  <2> HIDE DEF Apart
  <2> QED BY <2>4, <2>7, <2>8
<1>8. sum[Threads] = total[Threads]
  <2>1. Threads \in SUBSET Threads /\ Cardinality(Threads) \in Nat
    BY <1>1
  <2>2. sum[Threads] # total[Threads] => Cardinality(Threads) \in Apart
    BY <2>1
  <2> QED BY <1>7, <2>2
<1> QED BY <1>8 DEF sum, total

-----------------------------------------------------------------------------
(* References are taken, given back and handed over one at a time.         *)

Table == [Threads -> [Addresses -> Nat]]
Taken(h, t, a) == [h EXCEPT ![t][a] = @ + 1]
Given(h, t, a) == [h EXCEPT ![t][a] = @ - 1]

LEMMA UnitsType ==
    ASSUME NEW h \in Table, NEW a \in Addresses
    PROVE  IsFiniteSet(Units(h, a, Threads)) /\ Cardinality(Units(h, a, Threads)) \in Nat
<1>1. \A t \in Threads : h[t][a] \in Nat
  BY DEF Table
<1>2. IsFiniteSet(Units(h, a, Threads))
  BY <1>1, SnapshotAssumption, UnitsFinite
<1> QED BY <1>2, FS_CardinalityType

\* A thread that holds a reference is one of the holders.
LEMMA UnitsHeld ==
    ASSUME NEW h \in Table, NEW a \in Addresses, NEW t \in Threads, h[t][a] > 0
    PROVE  Cardinality(Units(h, a, Threads)) > 0
<1>1. <<t, 1>> \in Units(h, a, Threads)
  BY DEF Table, Units
<1>2. IsFiniteSet(Units(h, a, Threads)) /\ Cardinality(Units(h, a, Threads)) \in Nat
  BY UnitsType
<1>3. Cardinality(Units(h, a, Threads)) # 0
  BY <1>1, <1>2, FS_EmptySet
<1> QED BY <1>2, <1>3

LEMMA TakenCounts ==
    ASSUME NEW h \in Table, NEW a \in Addresses, NEW t \in Threads
    PROVE  /\ Taken(h, t, a) \in Table
           /\ Taken(h, t, a)[t][a] = h[t][a] + 1
           /\ \A u \in Threads, b \in Addresses :
                 <<u, b>> # <<t, a>> => Taken(h, t, a)[u][b] = h[u][b]
           /\ Cardinality(Units(Taken(h, t, a), a, Threads)) = Cardinality(Units(h, a, Threads)) + 1
           /\ \A b \in Addresses \ {a} : Units(Taken(h, t, a), b, Threads) = Units(h, b, Threads)
<1> DEFINE k == Taken(h, t, a)
<1>1. k \in Table /\ k[t][a] = h[t][a] + 1
  BY DEF Table, Taken
<1>2. \A u \in Threads, b \in Addresses : <<u, b>> # <<t, a>> => k[u][b] = h[u][b]
  BY DEF Table, Taken
<1>3. \A b \in Addresses \ {a} : Units(k, b, Threads) = Units(h, b, Threads)
  BY <1>2 DEF Units
<1>4. Units(k, a, Threads) = Units(h, a, Threads) \cup {<<t, h[t][a] + 1>>}
  <2>1. h[t][a] \in Nat /\ \A u \in Threads \ {t} : k[u][a] = h[u][a]
    BY <1>2 DEF Table
  <2>2. 1 .. k[t][a] = (1 .. h[t][a]) \cup {h[t][a] + 1}
    BY <1>1, <2>1
  <2> HIDE DEF k
  <2> QED BY <2>1, <2>2 DEF Units
<1>5. <<t, h[t][a] + 1>> \notin Units(h, a, Threads)
  <2>1. h[t][a] \in Nat
    BY DEF Table
  <2> QED BY <2>1 DEF Units
<1>6. IsFiniteSet(Units(h, a, Threads))
  BY UnitsType
<1>7. Cardinality(Units(k, a, Threads)) = Cardinality(Units(h, a, Threads)) + 1
  <2> HIDE DEF k
  <2> QED BY <1>4, <1>5, <1>6, FS_AddElement
<1> QED BY <1>1, <1>2, <1>3, <1>7

LEMMA GivenCounts ==
    ASSUME NEW h \in Table, NEW a \in Addresses, NEW t \in Threads, h[t][a] > 0
    PROVE  /\ Given(h, t, a) \in Table
           /\ Given(h, t, a)[t][a] = h[t][a] - 1
           /\ \A u \in Threads, b \in Addresses :
                 <<u, b>> # <<t, a>> => Given(h, t, a)[u][b] = h[u][b]
           /\ Cardinality(Units(Given(h, t, a), a, Threads)) = Cardinality(Units(h, a, Threads)) - 1
           /\ \A b \in Addresses \ {a} : Units(Given(h, t, a), b, Threads) = Units(h, b, Threads)
<1> DEFINE g == Given(h, t, a)
<1>1. g \in Table /\ g[t][a] = h[t][a] - 1
  BY DEF Table, Given
<1>2. \A u \in Threads, b \in Addresses : <<u, b>> # <<t, a>> => g[u][b] = h[u][b]
  BY DEF Table, Given
<1>3. Taken(g, t, a) = h
  <2>1. \A u \in Threads, b \in Addresses : Taken(g, t, a)[u][b] = h[u][b]
    BY <1>1, <1>2 DEF Table, Taken
  <2>2. Taken(g, t, a) \in Table
    BY <1>1, TakenCounts
  <2> QED BY <2>1, <2>2 DEF Table
<1>4. /\ Cardinality(Units(h, a, Threads)) = Cardinality(Units(g, a, Threads)) + 1
      /\ \A b \in Addresses \ {a} : Units(h, b, Threads) = Units(g, b, Threads)
  BY <1>1, <1>3, TakenCounts
<1>5. Cardinality(Units(g, a, Threads)) \in Nat
  BY <1>1, UnitsType
<1> QED BY <1>1, <1>2, <1>4, <1>5

-----------------------------------------------------------------------------
(* The inductive invariant of the snapshots.                               *)

Contents == {Nil} \cup {frame.read.descriptor : frame \in Frames}

SnapshotTypes ==
    /\ heap \in [Addresses -> [references : 0 .. RefMax, contents : Contents]]
    /\ published \in Addresses \cup {Nil}
    /\ held \in Table
    /\ retaining \in [Threads -> [address : Addresses \cup {Nil}, seen : 0 .. RefMax]]
    /\ declared \in [Addresses -> {Nil} \cup {frame.declaration.descriptor : frame \in Frames}]

\* The result that published a descriptor and the threads that have references to it.
Holders(h, p, a) == (IF p = a THEN 1 ELSE 0) + Cardinality(Units(h, a, Threads))

Counted == \A a \in Addresses : heap[a].references = Holders(held, published, a)

\* A thread in the middle of a retain holds a reference already, or it is the one that
\* uses the result and the result keeps one meanwhile.
Relied ==
    \A t \in Threads : ~ DS!AtRest(t) =>
        /\ retaining[t].address \in Addresses
        /\ held[t][retaining[t].address] > 0 \/ (t = Owner /\ published = retaining[t].address)

\* What is in memory was read from an accepted frame.
Kept(frame, a) ==
    /\ frame.read.status = "OK"
    /\ heap[a].contents = frame.read.descriptor
    /\ declared[a] = frame.declaration.descriptor

AsRead == \A a \in Addresses : DS!Live(a) => \E frame \in Frames : Kept(frame, a)

\* The columns of the result are those of the descriptor it published.
ColumnsKept == published # Nil => legacy = DS!F!LegacyColumns(heap[published].contents)

Judged == reading.status # "ALLOC_FAIL" => (reading.status = "OK") = reading.due

SnapshotInvariant ==
    SnapshotTypes /\ Counted /\ Relied /\ AsRead /\ ColumnsKept /\ Judged

\* The count the code keeps is compared with FoldSet's sum over the threads.
LEMMA HoldersOfIsHolders ==
    ASSUME NEW a \in Addresses, held \in Table
    PROVE  DS!HoldersOf(a) = Holders(held, published, a)
<1>1. DS!HoldersOf(a) = Sum(held, IF published = a THEN 1 ELSE 0, a)[Threads]
  BY DEF DS!HoldersOf, DS!FoldSet, DS!MapThenFoldSet, Sum, Adding, Some
<1>2. (IF published = a THEN 1 ELSE 0) \in Nat
  OBVIOUS
<1> QED BY <1>1, <1>2, SumCounts DEF Holders, Table

-----------------------------------------------------------------------------
(* What the parts of the invariant mean for one descriptor.                *)

\* A descriptor with a holder is alive.
LEMMA HeldIsLive ==
    ASSUME SnapshotTypes, Counted, NEW a \in Addresses,
           published = a \/ \E t \in Threads : held[t][a] > 0
    PROVE  DS!Live(a) /\ heap[a].references \in 1 .. RefMax
<1>1. Cardinality(Units(held, a, Threads)) \in Nat
  BY UnitsType DEF SnapshotTypes
<1>2. CASE published = a
  BY <1>1, <1>2 DEF Counted, Holders, SnapshotTypes, DS!Live
<1>3. CASE \E t \in Threads : held[t][a] > 0
  <2>1. Cardinality(Units(held, a, Threads)) > 0
    BY <1>3, UnitsHeld DEF SnapshotTypes
  <2> QED BY <1>1, <2>1 DEF Counted, Holders, SnapshotTypes, DS!Live
<1> QED BY <1>2, <1>3

\* A retain in progress counts on a descriptor that cannot be freed.
LEMMA ReliedIsLive ==
    ASSUME SnapshotTypes, Counted, Relied, NEW t \in Threads, ~ DS!AtRest(t)
    PROVE  retaining[t].address \in Addresses /\ DS!Live(retaining[t].address)
BY HeldIsLive, Zenon DEF Relied

\* A release takes one reference and frees the descriptor with the last one.
LEMMA ReleasedMemory ==
    ASSUME SnapshotTypes, NEW a \in Addresses, DS!Live(a)
    PROVE  /\ DS!ReleasedIn(heap, a) \in [Addresses -> [references : 0 .. RefMax, contents : Contents]]
           /\ DS!ReleasedIn(heap, a)[a].references = heap[a].references - 1
           /\ heap[a].references > 1 => DS!ReleasedIn(heap, a)[a].contents = heap[a].contents
           /\ \A b \in Addresses \ {a} : DS!ReleasedIn(heap, a)[b] = heap[b]
<1>1. heap[a].references \in 1 .. RefMax /\ a # Nil
  BY SnapshotAssumption DEF SnapshotTypes, DS!Live
<1>2. CASE heap[a].references = 1
  BY <1>1, <1>2, SnapshotAssumption DEF DS!ReleasedIn, DS!Freed, SnapshotTypes, Contents
<1>3. CASE heap[a].references # 1
  BY <1>1, <1>3, SnapshotAssumption DEF DS!ReleasedIn, SnapshotTypes
<1> QED BY <1>2, <1>3

-----------------------------------------------------------------------------
(* Every step keeps the invariant.                                         *)

LEMMA SnapshotStarts == DS!Init => SnapshotInvariant
<1> SUFFICES ASSUME DS!Init PROVE SnapshotInvariant
  OBVIOUS
<1>1. SnapshotTypes
  BY SnapshotAssumption DEF DS!Init, DS!Freed, DS!Resting, SnapshotTypes, Contents, Table
<1>2. Counted
  <2> SUFFICES ASSUME NEW a \in Addresses PROVE heap[a].references = Holders(held, published, a)
    BY DEF Counted
  <2>1. Units(held, a, Threads) = {}
    BY DEF DS!Init, Units
  <2>2. heap[a].references = 0 /\ published # a
    BY SnapshotAssumption DEF DS!Init, DS!Freed
  <2> QED BY <2>1, <2>2, FS_EmptySet DEF Holders
<1>3. Relied /\ AsRead /\ ColumnsKept
  BY DEF DS!Init, DS!Freed, DS!AtRest, DS!Live, Relied, AsRead, ColumnsKept
<1>4. Judged
  <2>1. reading.status = "OK" /\ reading.due = TRUE
    BY DEF DS!Init
  <2> QED BY <2>1, Zenon DEF Judged
<1> QED BY <1>1, <1>2, <1>3, <1>4 DEF SnapshotInvariant

\* What a step that leaves the memory and its holders alone has to show.
LEMMA MemoryUntouched ==
    ASSUME SnapshotInvariant, UNCHANGED <<heap, published, legacy, held, declared>>
    PROVE  Counted' /\ AsRead' /\ ColumnsKept'
BY DEF SnapshotInvariant, Counted, AsRead, ColumnsKept, Kept, DS!Live

LEMMA StartRetainKeeps ==
    ASSUME SnapshotInvariant, NEW t \in Threads, NEW a \in Addresses, DS!StartRetain(t, a),
           held[t][a] > 0 \/ (t = Owner /\ published = a)
    PROVE  SnapshotInvariant'
<1> USE DEF SnapshotInvariant
<1>1. SnapshotTypes'
  BY DEF SnapshotTypes, DS!StartRetain
<1>2. Counted' /\ AsRead' /\ ColumnsKept'
  BY MemoryUntouched DEF DS!StartRetain
<1>3. Relied'
  BY DEF Relied, SnapshotTypes, DS!StartRetain, DS!AtRest, DS!Resting
<1>4. Judged'
  BY DEF Judged, DS!StartRetain
<1> QED BY <1>1, <1>2, <1>3, <1>4

LEMMA RetainLimitKeeps ==
    ASSUME SnapshotInvariant, NEW t \in Threads, DS!RetainLimit(t)
    PROVE  SnapshotInvariant'
<1> USE DEF SnapshotInvariant
<1>1. SnapshotTypes'
  BY SnapshotAssumption DEF SnapshotTypes, DS!RetainLimit, DS!Resting
<1>2. Counted' /\ AsRead' /\ ColumnsKept'
  BY MemoryUntouched DEF DS!RetainLimit
<1>3. Relied'
  BY DEF Relied, SnapshotTypes, DS!RetainLimit, DS!AtRest, DS!Resting
<1>4. Judged'
  BY DEF Judged, DS!RetainLimit
<1> QED BY <1>1, <1>2, <1>3, <1>4

LEMMA ExchangeKeeps ==
    ASSUME SnapshotInvariant, NEW t \in Threads, DS!Exchange(t)
    PROVE  SnapshotInvariant'
<1> USE DEF SnapshotInvariant
<1> DEFINE a == retaining[t].address
<1>1. a \in Addresses /\ DS!Live(a) /\ heap[a].references \in 1 .. RefMax
  <2>1. a \in Addresses /\ DS!Live(a)
    BY ReliedIsLive DEF DS!Exchange
  <2> QED BY <2>1, SnapshotAssumption DEF SnapshotTypes, DS!Live
<1>2. CASE heap[a].references = retaining[t].seen
  <2>1. /\ heap' = [heap EXCEPT ![a].references = @ + 1]
        /\ held' = Taken(held, t, a)
        /\ retaining' = [retaining EXCEPT ![t] = DS!Resting]
        /\ UNCHANGED <<published, legacy, declared, reading>>
        /\ heap[a].references < RefMax
    BY <1>2 DEF DS!Exchange, Taken
  <2>2. held \in Table
    BY DEF SnapshotTypes
  <2>3. SnapshotTypes'
    <3>1. heap' \in [Addresses -> [references : 0 .. RefMax, contents : Contents]]
      BY <1>1, <2>1, SnapshotAssumption DEF SnapshotTypes
    <3>2. held' \in Table
      BY <1>1, <2>1, <2>2, TakenCounts
    <3>3. retaining' \in [Threads -> [address : Addresses \cup {Nil}, seen : 0 .. RefMax]]
      BY <2>1, SnapshotAssumption DEF SnapshotTypes, DS!Resting
    <3> QED BY <2>1, <3>1, <3>2, <3>3 DEF SnapshotTypes
  <2>4. \A b \in Addresses :
           /\ heap'[b].references = heap[b].references + (IF b = a THEN 1 ELSE 0)
           /\ heap'[b].contents = heap[b].contents
    BY <1>1, <2>1 DEF SnapshotTypes
  <2>5. Counted'
    <3> SUFFICES ASSUME NEW b \in Addresses
                 PROVE  heap'[b].references = Holders(held', published', b)
      BY DEF Counted
    <3>1. Cardinality(Units(held, b, Threads)) \in Nat
      BY <2>2, UnitsType
    <3>2. Cardinality(Units(held', b, Threads)) =
            Cardinality(Units(held, b, Threads)) + (IF b = a THEN 1 ELSE 0)
      <4>1. CASE b = a
        BY <1>1, <2>1, <2>2, <4>1, TakenCounts
      <4>2. CASE b # a
        BY <1>1, <2>1, <2>2, <3>1, <4>2, TakenCounts
      <4> QED BY <4>1, <4>2
    <3> QED BY <2>1, <2>4, <3>1, <3>2 DEF Counted, Holders
  <2>6. Relied'
    <3>1. \A u \in Threads, b \in Addresses : held'[u][b] >= held[u][b]
      <4> SUFFICES ASSUME NEW u \in Threads, NEW b \in Addresses PROVE held'[u][b] >= held[u][b]
        OBVIOUS
      <4>1. held[u][b] \in Nat
        BY <2>2 DEF Table
      <4>2. CASE u = t /\ b = a
        BY <1>1, <2>1, <2>2, <4>1, <4>2, TakenCounts
      <4>3. CASE ~ (u = t /\ b = a)
        BY <1>1, <2>1, <2>2, <4>1, <4>3, TakenCounts
      <4> QED BY <4>2, <4>3
    <3> SUFFICES ASSUME NEW u \in Threads, ~ DS!AtRest(u)'
                 PROVE  /\ retaining'[u].address \in Addresses
                        /\ \/ held'[u][retaining'[u].address] > 0
                           \/ u = Owner /\ published' = retaining'[u].address
      BY DEF Relied
    <3>2. u # t /\ retaining'[u] = retaining[u] /\ ~ DS!AtRest(u)
      BY <2>1 DEF SnapshotTypes, DS!AtRest
    <3>3. /\ retaining[u].address \in Addresses
          /\ held[u][retaining[u].address] > 0 \/ (u = Owner /\ published = retaining[u].address)
      BY <3>2 DEF Relied
    <3>4. held[u][retaining[u].address] \in Nat /\ held'[u][retaining[u].address] \in Nat
      BY <2>2, <2>3, <3>3 DEF SnapshotTypes, Table
    <3> QED BY <2>1, <3>1, <3>2, <3>3, <3>4
  <2>7. AsRead'
    <3>1. \A b \in Addresses : DS!Live(b)' => DS!Live(b)
      BY <1>1, <2>4 DEF DS!Live, SnapshotTypes
    <3> QED BY <2>1, <2>4, <3>1 DEF AsRead, Kept
  <2>8. ColumnsKept'
    BY <2>1, <2>4 DEF ColumnsKept, SnapshotTypes
  <2> QED BY <2>1, <2>3, <2>5, <2>6, <2>7, <2>8 DEF Judged
<1>3. CASE heap[a].references # retaining[t].seen
  <2>1. /\ retaining' = [retaining EXCEPT ![t].seen = heap[a].references]
        /\ UNCHANGED <<heap, held, published, legacy, declared, reading>>
    BY <1>3 DEF DS!Exchange
  <2>2. SnapshotTypes'
    BY <1>1, <2>1, SnapshotAssumption DEF SnapshotTypes
  <2>3. Counted' /\ AsRead' /\ ColumnsKept'
    BY <2>1, MemoryUntouched
  <2>4. \A u \in Threads : /\ retaining'[u].address = retaining[u].address
                           /\ ~ DS!AtRest(u)' => u = t \/ ~ DS!AtRest(u)
    BY <2>1 DEF SnapshotTypes, DS!AtRest
  <2>5. Relied'
    <3>1. ~ DS!AtRest(t)
      BY DEF DS!Exchange
    <3> QED BY <2>1, <2>4, <3>1 DEF Relied
  <2> QED BY <2>1, <2>2, <2>3, <2>5 DEF Judged
<1> QED BY <1>2, <1>3

\* The steps that give a reference back take it from the count of one descriptor.
LEMMA ReleasedStillRead ==
    ASSUME SnapshotInvariant, NEW a \in Addresses, DS!Live(a),
           heap' = DS!ReleasedIn(heap, a), declared' = declared
    PROVE  AsRead'
<1> SUFFICES ASSUME NEW b \in Addresses, DS!Live(b)' PROVE \E frame \in Frames : Kept(frame, b)'
  BY DEF AsRead
<1>1. /\ heap'[a].references = heap[a].references - 1
      /\ heap[a].references > 1 => heap'[a].contents = heap[a].contents
      /\ b # a => heap'[b] = heap[b]
  BY ReleasedMemory DEF SnapshotInvariant
<1>2. DS!Live(b) /\ heap'[b].contents = heap[b].contents
  BY <1>1 DEF DS!Live, SnapshotInvariant, SnapshotTypes
<1> QED BY <1>2 DEF SnapshotInvariant, AsRead, Kept

LEMMA ReleaseKeeps ==
    ASSUME SnapshotInvariant, NEW t \in Threads, DS!Release(t)
    PROVE  SnapshotInvariant'
<1> USE DEF SnapshotInvariant
<1>1. PICK a \in Addresses : /\ held[t][a] > 0
                             /\ heap' = DS!ReleasedIn(heap, a)
                             /\ held' = Given(held, t, a)
  BY DEF DS!Release, Given
<1>2. DS!AtRest(t) /\ UNCHANGED <<published, legacy, retaining, declared, reading>>
  BY DEF DS!Release
<1>3. held \in Table
  BY DEF SnapshotTypes
<1>4. DS!Live(a)
  BY <1>1, HeldIsLive
<1>5. /\ held' \in Table
      /\ \A u \in Threads, b \in Addresses : <<u, b>> # <<t, a>> => held'[u][b] = held[u][b]
      /\ Cardinality(Units(held', a, Threads)) = Cardinality(Units(held, a, Threads)) - 1
      /\ \A b \in Addresses \ {a} : Units(held', b, Threads) = Units(held, b, Threads)
  BY <1>1, <1>3, GivenCounts
<1>6. /\ heap' \in [Addresses -> [references : 0 .. RefMax, contents : Contents]]
      /\ heap'[a].references = heap[a].references - 1
      /\ heap[a].references > 1 => heap'[a].contents = heap[a].contents
      /\ \A b \in Addresses \ {a} : heap'[b] = heap[b]
  BY <1>1, <1>4, ReleasedMemory
<1>7. SnapshotTypes'
  BY <1>2, <1>5, <1>6 DEF SnapshotTypes
<1>8. Counted'
  <2> SUFFICES ASSUME NEW b \in Addresses
               PROVE  heap'[b].references = Holders(held', published', b)
    BY DEF Counted
  <2>1. heap[b].references = Holders(held, published, b)
    BY DEF Counted
  <2>2. Cardinality(Units(held, b, Threads)) \in Nat
    BY <1>3, UnitsType
  <2>3. CASE b = a
    BY <1>2, <1>5, <1>6, <2>1, <2>2, <2>3 DEF Holders
  <2>4. CASE b # a
    BY <1>2, <1>5, <1>6, <2>1, <2>4 DEF Holders
  <2> QED BY <2>3, <2>4
<1>9. Relied'
  <2> SUFFICES ASSUME NEW u \in Threads, ~ DS!AtRest(u)'
               PROVE  /\ retaining'[u].address \in Addresses
                      /\ \/ held'[u][retaining'[u].address] > 0
                         \/ u = Owner /\ published' = retaining'[u].address
    BY DEF Relied
  <2>1. ~ DS!AtRest(u) /\ u # t
    BY <1>2 DEF DS!AtRest
  <2>2. /\ retaining[u].address \in Addresses
        /\ held[u][retaining[u].address] > 0 \/ (u = Owner /\ published = retaining[u].address)
    BY <2>1 DEF Relied
  <2>3. held'[u][retaining[u].address] = held[u][retaining[u].address]
    BY <1>5, <2>1, <2>2
  <2> QED BY <1>2, <2>2, <2>3
<1>10. AsRead'
  BY <1>1, <1>2, <1>4, ReleasedStillRead
<1>11. ColumnsKept'
  <2> SUFFICES ASSUME published # Nil PROVE heap'[published].contents = heap[published].contents
    BY <1>2 DEF ColumnsKept
  <2>1. published \in Addresses
    BY DEF SnapshotTypes
  <2>2. CASE published = a
    <3>1. Cardinality(Units(held, a, Threads)) \in Nat /\ Cardinality(Units(held, a, Threads)) > 0
      BY <1>1, <1>3, UnitsType, UnitsHeld
    <3>2. heap[a].references > 1
      BY <2>2, <3>1 DEF Counted, Holders
    <3> QED BY <1>6, <2>2, <3>2
  <2>3. CASE published # a
    BY <1>6, <2>1, <2>3
  <2> QED BY <2>2, <2>3
<1>12. Judged'
  BY <1>2 DEF Judged
<1> QED BY <1>7, <1>8, <1>9, <1>10, <1>11, <1>12

LEMMA HandOverKeeps ==
    ASSUME SnapshotInvariant, NEW t \in Threads, NEW u \in Threads, DS!HandOver(t, u)
    PROVE  SnapshotInvariant'
<1> USE DEF SnapshotInvariant
<1>1. t # u /\ DS!AtRest(t) /\ UNCHANGED <<heap, published, legacy, retaining, declared, reading>>
  BY DEF DS!HandOver
<1>2. held \in Table
  BY DEF SnapshotTypes
<1>3. PICK a \in Addresses : held[t][a] > 0 /\ held' = Taken(Given(held, t, a), u, a)
  <2>1. PICK a \in Addresses : /\ held[t][a] > 0
                               /\ held' = [held EXCEPT ![t][a] = @ - 1, ![u][a] = @ + 1]
    BY DEF DS!HandOver
  <2>2. Given(held, t, a) \in Table /\ Taken(Given(held, t, a), u, a) \in Table
    BY <1>2, <2>1, GivenCounts, TakenCounts
  <2>3. \A v \in Threads, b \in Addresses : held'[v][b] = Taken(Given(held, t, a), u, a)[v][b]
    <3> SUFFICES ASSUME NEW v \in Threads, NEW b \in Addresses
                 PROVE  held'[v][b] = Taken(Given(held, t, a), u, a)[v][b]
      OBVIOUS
    <3>1. /\ held'[t] = [held[t] EXCEPT ![a] = @ - 1]
          /\ held'[u] = [held[u] EXCEPT ![a] = @ + 1]
          /\ v # t /\ v # u => held'[v] = held[v]
      BY <1>1, <1>2, <2>1 DEF Table
    <3>2. /\ Given(held, t, a)[t] = [held[t] EXCEPT ![a] = @ - 1]
          /\ v # t => Given(held, t, a)[v] = held[v]
          /\ Given(held, t, a)[u] = held[u]
      BY <1>1, <1>2 DEF Given, Table
    <3>3. /\ Taken(Given(held, t, a), u, a)[u] = [Given(held, t, a)[u] EXCEPT ![a] = @ + 1]
          /\ v # u => Taken(Given(held, t, a), u, a)[v] = Given(held, t, a)[v]
      BY <2>2 DEF Taken, Table
    <3>4. CASE v = t
      BY <1>1, <3>1, <3>2, <3>3, <3>4
    <3>5. CASE v = u
      BY <3>1, <3>2, <3>3, <3>5
    <3>6. CASE v # t /\ v # u
      BY <3>1, <3>2, <3>3, <3>6
    <3> QED BY <3>4, <3>5, <3>6
  <2>4. held' \in Table
    <3>1. \A v \in Threads : held'[v] \in [Addresses -> Nat]
      <4> SUFFICES ASSUME NEW v \in Threads PROVE held'[v] \in [Addresses -> Nat]
        OBVIOUS
      <4>1. CASE v = t
        BY <1>1, <1>2, <2>1, <4>1 DEF Table
      <4>2. CASE v = u
        BY <1>1, <1>2, <2>1, <4>2 DEF Table
      <4>3. CASE v # t /\ v # u
        BY <1>1, <1>2, <2>1, <4>3 DEF Table
      <4> QED BY <4>1, <4>2, <4>3
    <3>2. held' = [v \in Threads |-> held'[v]]
      BY <1>2, <2>1 DEF Table
    <3> QED BY <3>1, <3>2 DEF Table
  <2>5. held' = Taken(Given(held, t, a), u, a)
    BY <2>2, <2>3, <2>4 DEF Table
  <2> QED BY <2>1, <2>5
<1> DEFINE h == Given(held, t, a)
<1>4. /\ h \in Table
      /\ \A v \in Threads, b \in Addresses : <<v, b>> # <<t, a>> => h[v][b] = held[v][b]
      /\ Cardinality(Units(h, a, Threads)) = Cardinality(Units(held, a, Threads)) - 1
      /\ \A b \in Addresses \ {a} : Units(h, b, Threads) = Units(held, b, Threads)
  BY <1>2, <1>3, GivenCounts
<1> HIDE DEF h
<1>5. /\ held' \in Table
      /\ held'[u][a] = h[u][a] + 1
      /\ \A v \in Threads, b \in Addresses : <<v, b>> # <<u, a>> => held'[v][b] = h[v][b]
      /\ Cardinality(Units(held', a, Threads)) = Cardinality(Units(h, a, Threads)) + 1
      /\ \A b \in Addresses \ {a} : Units(held', b, Threads) = Units(h, b, Threads)
  <2>1. held' = Taken(h, u, a) /\ h \in Table
    BY <1>3, <1>4 DEF h
  <2>2. /\ Taken(h, u, a) \in Table
        /\ Taken(h, u, a)[u][a] = h[u][a] + 1
        /\ \A v \in Threads, b \in Addresses :
              <<v, b>> # <<u, a>> => Taken(h, u, a)[v][b] = h[v][b]
        /\ Cardinality(Units(Taken(h, u, a), a, Threads)) = Cardinality(Units(h, a, Threads)) + 1
        /\ \A b \in Addresses \ {a} : Units(Taken(h, u, a), b, Threads) = Units(h, b, Threads)
    BY <2>1, TakenCounts
  <2> QED BY <2>1, <2>2, Zenon
<1>6. SnapshotTypes'
  BY <1>1, <1>5 DEF SnapshotTypes
<1>7. Counted'
  <2> SUFFICES ASSUME NEW b \in Addresses
               PROVE  Cardinality(Units(held', b, Threads)) = Cardinality(Units(held, b, Threads))
    BY <1>1 DEF Counted, Holders
  <2>1. Cardinality(Units(held, a, Threads)) \in Nat
    BY <1>2, UnitsType
  <2>2. CASE b = a
    BY <1>4, <1>5, <2>1, <2>2
  <2>3. CASE b # a
    BY <1>4, <1>5, <2>3
  <2> QED BY <2>2, <2>3
<1>8. Relied'
  <2> SUFFICES ASSUME NEW v \in Threads, ~ DS!AtRest(v)'
               PROVE  /\ retaining'[v].address \in Addresses
                      /\ \/ held'[v][retaining'[v].address] > 0
                         \/ v = Owner /\ published' = retaining'[v].address
    BY DEF Relied
  <2>1. ~ DS!AtRest(v) /\ v # t
    BY <1>1 DEF DS!AtRest
  <2>2. /\ retaining[v].address \in Addresses
        /\ held[v][retaining[v].address] > 0 \/ (v = Owner /\ published = retaining[v].address)
    BY <2>1 DEF Relied
  <2>3. held[v][retaining[v].address] \in Nat
    BY <1>2, <2>2 DEF Table
  <2>4. h[v][retaining[v].address] = held[v][retaining[v].address]
    BY <1>4, <2>1, <2>2
  <2>5. held'[v][retaining[v].address] >= held[v][retaining[v].address]
    <3>1. CASE v = u /\ retaining[v].address = a
      BY <1>5, <2>3, <2>4, <3>1
    <3>2. CASE ~ (v = u /\ retaining[v].address = a)
      BY <1>5, <2>2, <2>3, <2>4, <3>2
    <3> QED BY <3>1, <3>2
  <2>6. held'[v][retaining[v].address] \in Nat
    BY <1>5, <2>2 DEF Table
  <2> QED BY <1>1, <2>2, <2>3, <2>5, <2>6
<1>9. AsRead' /\ ColumnsKept' /\ Judged'
  BY <1>1 DEF AsRead, ColumnsKept, Judged, Kept, DS!Live
<1> QED BY <1>6, <1>7, <1>8, <1>9

LEMMA CleanupKeeps ==
    ASSUME SnapshotInvariant, DS!Cleanup
    PROVE  SnapshotInvariant'
<1> USE DEF SnapshotInvariant
<1> DEFINE a == published
<1>1. /\ DS!AtRest(Owner) /\ a # Nil /\ heap' = DS!ReleasedIn(heap, a) /\ published' = Nil
      /\ UNCHANGED <<held, retaining, declared, reading>>
  BY DEF DS!Cleanup
<1>2. a \in Addresses /\ held \in Table
  BY <1>1 DEF SnapshotTypes
<1>3. DS!Live(a)
  BY <1>2, HeldIsLive
<1>4. /\ heap' \in [Addresses -> [references : 0 .. RefMax, contents : Contents]]
      /\ heap'[a].references = heap[a].references - 1
      /\ \A b \in Addresses \ {a} : heap'[b] = heap[b]
  BY <1>1, <1>2, <1>3, ReleasedMemory
<1>5. SnapshotTypes'
  BY <1>1, <1>4 DEF SnapshotTypes
<1>6. Counted'
  <2> SUFFICES ASSUME NEW b \in Addresses
               PROVE  heap'[b].references = Holders(held', published', b)
    BY DEF Counted
  <2>1. heap[b].references = Holders(held, published, b)
    BY DEF Counted
  <2>2. Cardinality(Units(held, b, Threads)) \in Nat /\ b # Nil
    BY <1>2, UnitsType, SnapshotAssumption
  <2>3. CASE b = a
    BY <1>1, <1>4, <2>1, <2>2, <2>3 DEF Holders
  <2>4. CASE b # a
    BY <1>1, <1>4, <2>1, <2>2, <2>4 DEF Holders
  <2> QED BY <2>3, <2>4
<1>7. Relied'
  BY <1>1 DEF Relied, DS!AtRest
<1>8. AsRead'
  BY <1>1, <1>2, <1>3, ReleasedStillRead
<1>9. ColumnsKept' /\ Judged'
  BY <1>1 DEF ColumnsKept, Judged
<1> QED BY <1>5, <1>6, <1>7, <1>8, <1>9

\* A descriptor takes memory nobody has a reference to.
LEMMA ReplaceKeeps ==
    ASSUME SnapshotInvariant, NEW frame \in Frames, NEW a \in Addresses, ~ DS!Live(a),
           frame.read.status = "OK", DS!AtRest(Owner),
           DS!ReplaceDescriptor(a, frame.declaration, frame.read.descriptor),
           UNCHANGED <<held, retaining>>
    PROVE  SnapshotTypes' /\ Counted' /\ Relied' /\ AsRead' /\ ColumnsKept'
<1> USE DEF SnapshotInvariant
<1> DEFINE old == published
           released == DS!ReleasedIn(heap, old)
           new == [references |-> 1, contents |-> frame.read.descriptor]
<1>1. /\ heap' = [released EXCEPT ![a] = new] /\ published' = a
      /\ legacy' = DS!F!LegacyColumns(frame.read.descriptor)
      /\ declared' = [declared EXCEPT ![a] = frame.declaration.descriptor]
  BY DEF DS!ReplaceDescriptor
<1>2. held \in Table /\ a # Nil /\ old \in Addresses \cup {Nil}
  BY SnapshotAssumption DEF SnapshotTypes
<1>3. a # old /\ Cardinality(Units(held, a, Threads)) = 0
  <2>1. Cardinality(Units(held, a, Threads)) \in Nat
    BY <1>2, UnitsType
  <2> QED BY <2>1 DEF Counted, Holders, DS!Live, SnapshotTypes
<1>4. /\ released \in [Addresses -> [references : 0 .. RefMax, contents : Contents]]
      /\ \A b \in Addresses \ {old} : released[b] = heap[b]
      /\ old # Nil => /\ DS!Live(old)
                      /\ released[old].references = heap[old].references - 1
                      /\ heap[old].references > 1 => released[old].contents = heap[old].contents
  <2>1. CASE old = Nil
    BY <2>1 DEF DS!ReleasedIn, SnapshotTypes
  <2>2. CASE old # Nil
    <3>1. DS!Live(old)
      BY <1>2, <2>2, HeldIsLive
    <3> QED BY <1>2, <2>2, <3>1, ReleasedMemory
  <2> QED BY <2>1, <2>2
<1> HIDE DEF released
<1>5. new \in [references : 0 .. RefMax, contents : Contents]
  BY SnapshotAssumption DEF Contents
<1> HIDE DEF new
<1>6. /\ heap' \in [Addresses -> [references : 0 .. RefMax, contents : Contents]]
      /\ heap'[a] = new /\ \A b \in Addresses \ {a} : heap'[b] = released[b]
  BY <1>1, <1>4, <1>5
<1>7. SnapshotTypes'
  <2>1. declared' \in [Addresses -> {Nil} \cup {f.declaration.descriptor : f \in Frames}]
    BY <1>1 DEF SnapshotTypes
  <2> QED BY <1>1, <1>6, <2>1 DEF SnapshotTypes
<1>8. Counted'
  <2> SUFFICES ASSUME NEW b \in Addresses
               PROVE  heap'[b].references = Holders(held, a, b)
    BY <1>1 DEF Counted
  <2>1. heap[b].references = Holders(held, old, b) /\ heap[b].references \in Nat
    BY DEF Counted, SnapshotTypes
  <2>2. Cardinality(Units(held, b, Threads)) \in Nat /\ b # Nil
    BY <1>2, UnitsType, SnapshotAssumption
  <2>3. CASE b = a
    BY <1>3, <1>6, <2>3 DEF Holders, new
  <2>4. CASE b = old
    BY <1>3, <1>4, <1>6, <2>1, <2>2, <2>4 DEF Holders
  <2>5. CASE b # a /\ b # old
    BY <1>4, <1>6, <2>1, <2>2, <2>5 DEF Holders
  <2> QED BY <2>3, <2>4, <2>5
<1>9. Relied'
  BY <1>1 DEF Relied, DS!AtRest
<1>10. AsRead'
  <2> SUFFICES ASSUME NEW b \in Addresses, DS!Live(b)' PROVE \E f \in Frames : Kept(f, b)'
    BY DEF AsRead
  <2>1. CASE b = a
    <3>1. Kept(frame, a)'
      BY <1>1, <1>6 DEF Kept, SnapshotTypes, new
    <3> QED BY <2>1, <3>1
  <2>2. CASE b # a
    <3>1. DS!Live(b) /\ heap'[b].contents = heap[b].contents
      <4>1. CASE b = old
        BY <1>2, <1>4, <1>6, <2>2, <4>1, SnapshotAssumption DEF DS!Live, SnapshotTypes
      <4>2. CASE b # old
        BY <1>4, <1>6, <2>2, <4>2 DEF DS!Live
      <4> QED BY <4>1, <4>2
    <3>2. declared'[b] = declared[b]
      BY <1>1, <2>2 DEF SnapshotTypes
    <3> QED BY <3>1, <3>2 DEF AsRead, Kept
  <2> QED BY <2>1, <2>2
<1>11. ColumnsKept'
  BY <1>1, <1>6 DEF ColumnsKept, new
<1> QED BY <1>7, <1>8, <1>9, <1>10, <1>11

LEMMA ReceiveDescribeKeeps ==
    ASSUME SnapshotInvariant, DS!ReceiveDescribe
    PROVE  SnapshotInvariant'
<1> USE DEF SnapshotInvariant
<1>1. DS!AtRest(Owner) /\ UNCHANGED <<held, retaining>>
  BY DEF DS!ReceiveDescribe
<1>2. PICK frame \in Frames : \E status \in {frame.read.status} \cup {"ALLOC_FAIL"} :
        /\ reading' = [status |-> status, due |-> DS!Acceptable(frame.declaration)]
        /\ \/ status # "OK" /\ UNCHANGED <<heap, published, legacy, declared>>
           \/ /\ status = "OK"
              /\ \E a \in {b \in Addresses : ~ DS!Live(b)} :
                    DS!ReplaceDescriptor(a, frame.declaration, frame.read.descriptor)
  BY DEF DS!ReceiveDescribe
<1>3. PICK status \in {frame.read.status} \cup {"ALLOC_FAIL"} :
        /\ reading' = [status |-> status, due |-> DS!Acceptable(frame.declaration)]
        /\ \/ status # "OK" /\ UNCHANGED <<heap, published, legacy, declared>>
           \/ /\ status = "OK"
              /\ \E a \in {b \in Addresses : ~ DS!Live(b)} :
                    DS!ReplaceDescriptor(a, frame.declaration, frame.read.descriptor)
  BY <1>2
<1>4. Judged'
  <2>1. reading'.status = status /\ reading'.due = DS!Acceptable(frame.declaration)
    BY <1>3
  <2>2. (frame.read.status = "OK") = DS!Acceptable(frame.declaration)
    BY FramesRead, Zenon DEF FrameRead
  <2>3. status # "ALLOC_FAIL" => status = frame.read.status
    BY <1>3
  <2> QED BY <2>1, <2>2, <2>3, Zenon DEF Judged
<1>5. CASE status # "OK" /\ UNCHANGED <<heap, published, legacy, declared>>
  <2>1. SnapshotTypes'
    BY <1>1, <1>5 DEF SnapshotTypes
  <2>2. Counted' /\ AsRead' /\ ColumnsKept'
    BY <1>1, <1>5, MemoryUntouched
  <2>3. Relied'
    BY <1>1, <1>5 DEF Relied, DS!AtRest
  <2> QED BY <1>4, <2>1, <2>2, <2>3
<1>6. CASE status = "OK" /\ \E a \in {b \in Addresses : ~ DS!Live(b)} :
                DS!ReplaceDescriptor(a, frame.declaration, frame.read.descriptor)
  <2>1. PICK a \in Addresses : ~ DS!Live(a) /\ DS!ReplaceDescriptor(a, frame.declaration, frame.read.descriptor)
    BY <1>6
  <2>2. frame.read.status = "OK"
    BY <1>3, <1>6
  <2> QED BY <1>1, <1>4, <2>1, <2>2, ReplaceKeeps
<1> QED BY <1>3, <1>5, <1>6

\* Whatever a behaviour is about, its snapshots take a step of Snapshot or none.
LEMMA SnapshotSteps == Init /\ [][Next]_vars => DS!Spec
<1>1. Init => DS!Init
  BY DEF Init
<1>2. [Next]_vars => [DS!Next]_(DS!vars)
  BY DEF Next, vars, rows, binding, snapshot, DS!vars
<1> QED BY <1>1, <1>2, PTL DEF DS!Spec

LEMMA SnapshotKept == SnapshotInvariant /\ [DS!Next]_(DS!vars) => SnapshotInvariant'
<1> SUFFICES ASSUME SnapshotInvariant, [DS!Next]_(DS!vars) PROVE SnapshotInvariant'
  OBVIOUS
<1>1. CASE DS!ReceiveDescribe
  BY <1>1, ReceiveDescribeKeeps
<1>2. CASE DS!GetDescriptor
  <2>1. published \in Addresses /\ Owner \in Threads
    BY <1>2, SnapshotAssumption DEF DS!GetDescriptor, SnapshotInvariant, SnapshotTypes
  <2> QED BY <1>2, <2>1, StartRetainKeeps DEF DS!GetDescriptor
<1>3. CASE DS!Cleanup
  BY <1>3, CleanupKeeps
<1>4. ASSUME NEW t \in Threads, DS!Retain(t) PROVE SnapshotInvariant'
  <2>1. PICK a \in Addresses : held[t][a] > 0 /\ DS!StartRetain(t, a)
    BY <1>4 DEF DS!Retain
  <2> QED BY <2>1, StartRetainKeeps
<1>5. ASSUME NEW t \in Threads, DS!RetainLimit(t) PROVE SnapshotInvariant'
  BY <1>5, RetainLimitKeeps
<1>6. ASSUME NEW t \in Threads, DS!Exchange(t) PROVE SnapshotInvariant'
  BY <1>6, ExchangeKeeps
<1>7. ASSUME NEW t \in Threads, DS!Release(t) PROVE SnapshotInvariant'
  BY <1>7, ReleaseKeeps
<1>8. ASSUME NEW t \in Threads, NEW u \in Threads, DS!HandOver(t, u) PROVE SnapshotInvariant'
  BY <1>8, HandOverKeeps
<1>9. CASE UNCHANGED DS!vars
  BY <1>9 DEF DS!vars, SnapshotInvariant, SnapshotTypes, Counted, Relied, AsRead, ColumnsKept,
              Judged, Kept, DS!Live, DS!AtRest
<1> QED BY <1>1, <1>2, <1>3, <1>4, <1>5, <1>6, <1>7, <1>8, <1>9 DEF DS!Next

THEOREM SnapshotsCounted == Spec => []SnapshotInvariant
<1>1. Spec => DS!Spec
  BY SnapshotSteps DEF Spec
<1> QED BY <1>1, SnapshotStarts, SnapshotKept, PTL DEF DS!Spec

\* Whoever is about to count a reference counts it on a descriptor that has not been freed.
RetainedAlive ==
    \A t \in Threads : ~ DS!AtRest(t) => /\ retaining[t].address \in Addresses
                                         /\ DS!Live(retaining[t].address)

\* Between reading the count and the compare-and-exchange of sqli_descriptor_retain and
\* sqli_result_get_descriptor nobody frees the descriptor, whatever other threads release and
\* however often it is described again.
THEOREM RetainsLive == Spec => []RetainedAlive
<1>1. SnapshotInvariant => RetainedAlive
  BY ReliedIsLive DEF SnapshotInvariant, RetainedAlive
<1> QED BY <1>1, SnapshotsCounted, PTL

\* The columns and the getters say of a field what the server declared of it.
LEMMA ColumnsSay ==
    ASSUME NEW f, NEW extended, f.encoded_length \in Nat
    PROVE  DS!FieldTruthful(f, extended, DS!F!LegacyColumn(f, extended))
<1> DEFINE column == DS!F!LegacyColumn(f, extended)
<1>1. 0 \notin DOMAIN DS!F!Extension
  BY DEF DS!F!Extension
<1>2. DS!F!GetType(f, extended) # Missing => column.type = DS!F!GetType(f, extended)
  BY <1>1 DEF DS!F!GetType, DS!F!LegacyColumn
<1>3. f.name # Missing => DS!F!Cut(f.name) = column.name
  BY DEF DS!F!LegacyColumn
<1>4. DS!F!GetScale(f, extended) # Missing =>
        DS!F!GetScale(f, extended) <= DS!F!GetPrecision(f, extended)
  <2>1. DS!F!Scale(f) \in Int /\ DS!F!Precision(f) \in Int
    BY DeclarationAssumption DEF DS!F!Scale, DS!F!Precision
  <2> QED BY <2>1 DEF DS!F!GetScale, DS!F!GetPrecision, DS!F!DecimalQualifier
<1> QED BY <1>2, <1>3, <1>4 DEF DS!FieldTruthful

\* A descriptor that is alive, and the columns of the result that published it, are those of
\* an accepted frame (FramesRead).
LEMMA LiveIsTruthful ==
    ASSUME SnapshotInvariant, NEW a \in Addresses, DS!Live(a)
    PROVE  /\ heap[a].contents.fields = declared[a].fields
           /\ heap[a].contents.extended = declared[a].extended
           /\ heap[a].contents.header =
                [declared[a].header EXCEPT !.field_count = Len(declared[a].fields),
                                           !.names_length = heap[a].contents.header.names_length]
           /\ Len(declared[a].fields) \in Nat
           /\ DOMAIN declared[a].fields = 1 .. Len(declared[a].fields)
           /\ \A i \in DOMAIN declared[a].fields : declared[a].fields[i].encoded_length \in Nat
<1>1. PICK frame \in Frames : Kept(frame, a)
  BY DEF SnapshotInvariant, AsRead
<1>2. FrameRead(frame) /\ frame.declaration \in Declarations
  BY FramesRead DEF Frames
<1>3. /\ declared[a].fields \in Seq({declared[a].fields[i] : i \in DOMAIN declared[a].fields})
      /\ \A i \in DOMAIN declared[a].fields : declared[a].fields[i].encoded_length \in Nat
  BY <1>1, <1>2, DeclarationAssumption DEF Kept
<1>4. /\ Len(declared[a].fields) \in Nat
      /\ DOMAIN declared[a].fields = 1 .. Len(declared[a].fields)
  BY <1>3
<1> QED BY <1>1, <1>2, <1>3, <1>4 DEF Kept, FrameRead

\* A descriptor has as many references as holders, lives as long as one of them and says what
\* the server declared, and so do the columns of the result (sqli_descriptor_release,
\* receive_describe).
THEOREM SnapshotsTruthful == Spec => []SnapshotTruthful
<1>1. ASSUME SnapshotInvariant PROVE SnapshotTruthful
  <2>1. ASSUME NEW a \in Addresses
        PROVE  /\ heap[a].references = DS!HoldersOf(a)
               /\ DS!Live(a) =>
                    /\ heap[a].contents.fields = declared[a].fields
                    /\ heap[a].contents.header =
                         [declared[a].header EXCEPT !.field_count = Len(declared[a].fields),
                            !.names_length = heap[a].contents.header.names_length]
    <3>1. heap[a].references = DS!HoldersOf(a)
      BY <1>1, HoldersOfIsHolders DEF SnapshotInvariant, SnapshotTypes, Counted
    <3> QED BY <1>1, <3>1, LiveIsTruthful
  <2>2. ASSUME published # Nil
        PROVE  /\ Len(legacy) = Len(declared[published].fields)
               /\ \A i \in DOMAIN legacy :
                     DS!FieldTruthful(declared[published].fields[i], declared[published].extended, legacy[i])
    <3> DEFINE d == declared[published]
    <3>1. published \in Addresses /\ DS!Live(published)
      BY <1>1, <2>2, HeldIsLive DEF SnapshotInvariant, SnapshotTypes
    <3>2. /\ heap[published].contents.fields = d.fields
          /\ heap[published].contents.extended = d.extended
          /\ Len(d.fields) \in Nat /\ DOMAIN d.fields = 1 .. Len(d.fields)
          /\ \A i \in DOMAIN d.fields : d.fields[i].encoded_length \in Nat
      BY <1>1, <3>1, LiveIsTruthful
    <3>3. legacy = [i \in DOMAIN d.fields |-> DS!F!LegacyColumn(d.fields[i], d.extended)]
      BY <1>1, <2>2, <3>2 DEF SnapshotInvariant, ColumnsKept, DS!F!LegacyColumns
    <3>4. Len(legacy) = Len(d.fields)
      BY <3>2, <3>3
    <3>5. ASSUME NEW i \in DOMAIN legacy PROVE DS!FieldTruthful(d.fields[i], d.extended, legacy[i])
      BY <3>2, <3>3, ColumnsSay
    <3> QED BY <3>4, <3>5
  <2>3. reading.status # "ALLOC_FAIL" => (reading.status = "OK") = reading.due
    BY <1>1, Zenon DEF SnapshotInvariant, Judged
  <2> QED BY <2>1, <2>2, <2>3, Zenon DEF SnapshotTruthful, DS!SnapshotTruthful
<1> QED BY <1>1, SnapshotsCounted, PTL

-----------------------------------------------------------------------------
(* Rows: the columns of a row, whatever its bytes.                          *)

\* Bytes make a number.
LEMMA NumberType ==
    ASSUME NEW bytes \in Seq(Nat), Base \in Nat
    PROVE  W!Number(bytes) \in Nat
<1> DEFINE k == Len(bytes)
           F1(n) == [i \in 0 .. k |-> IF i = 0 THEN 0 ELSE n[i - 1] * Base + bytes[i]]
           n == CHOOSE x : x = F1(x)
           f == [i \in 1 .. k |-> [m \in Nat |-> m * Base + bytes[i]]]
<1>0. k \in Nat
  OBVIOUS
<1>1. f \in [1 .. k -> [Nat -> Nat]]
  <2> SUFFICES ASSUME NEW i \in 1 .. k, NEW m \in Nat PROVE m * Base + bytes[i] \in Nat
    OBVIOUS
  <2>1. bytes[i] \in Nat /\ m * Base \in Nat
    OBVIOUS
  <2> QED BY <2>1
<1>2. PICK g : Trace(k, Nat, 0, f, g)
  <2> HIDE DEF f, k
  <2>1. 0 \in Nat
    OBVIOUS
  <2> QED BY <1>0, <1>1, <2>1, Iteration, Zenon
<1>3. g = F1(g)
  <2>1. ASSUME NEW i \in 1 .. k PROVE g[i] = g[i - 1] * Base + bytes[i]
    <3>1. g[i] = f[i][g[i - 1]] /\ g[i - 1] \in Nat
      <4> HIDE DEF f, k
      <4> QED BY <1>0, <1>2 DEF Trace
    <3> QED BY <3>1
  <2> HIDE DEF f, k
  <2>2. g = [i \in 0 .. k |-> g[i]] /\ g[0] = 0
    BY <1>2 DEF Trace
  <2>3. \A i \in 0 .. k : i # 0 => i \in 1 .. k
    BY <1>0
  <2>4. \A i \in 0 .. k : g[i] = IF i = 0 THEN 0 ELSE g[i - 1] * Base + bytes[i]
    BY <2>1, <2>2, <2>3, Zenon
  <2> QED BY <2>2, <2>4, Zenon
<1>4. n = F1(n)
  BY <1>3
<1> HIDE DEF n
<1>5. n[0] = 0 /\ \A i \in 1 .. k : n[i] = n[i - 1] * Base + bytes[i]
  BY <1>4
<1> DEFINE P == {i \in 0 .. k : n[i] \in Nat}
<1>6. 0 \in P
  BY <1>5
<1>7. ASSUME NEW i \in 0 .. k - 1, i \in P PROVE i + 1 \in P
  <2>1. n[i + 1] = n[i] * Base + bytes[i + 1] /\ n[i] \in Nat /\ bytes[i + 1] \in Nat
    BY <1>5, <1>7
  <2>2. n[i] * Base \in Nat
    BY <2>1
  <2> QED BY <2>1, <2>2
<1>8. k \in P
  <2> HIDE DEF P, k
  <2>1. \A i \in 0 .. k - 1 : i \in P => i + 1 \in P
    BY <1>7
  <2>2. 0 .. k \subseteq P
    BY <1>0, <1>6, <2>1, UpwardInduction
  <2> QED BY <1>0, <2>2
<1>9. W!Number(bytes) = n[k]
  BY DEF W!Number, n
<1> QED BY <1>8, <1>9

-----------------------------------------------------------------------------
(* Where a column is.                                                      *)
Placement == [start : Nat, len : Nat, span : Nat]

\* A place is nowhere, or a stretch of the row behind at with a value within it.
FitsIn(p, t, at) ==
    /\ p \in Placement
    /\ p.span = 0 => p.start = 0 /\ p.len = 0
    /\ p.span # 0 => /\ at <= p.start
                     /\ p.start + p.len <= at + p.span
                     /\ at + p.span <= Len(t)

LEMMA NowhereFits ==
    ASSUME NEW t, NEW at
    PROVE  FitsIn(W!Nowhere, t, at)
BY DEF W!Nowhere, FitsIn, Placement

LEMMA PlaceFits ==
    ASSUME NEW t, NEW at \in Nat, NEW start \in Nat, NEW len \in Nat, NEW span \in Nat \ {0},
           at <= start, start + len <= at + span, at + span <= Len(t)
    PROVE  FitsIn(W!Place(start, len, span), t, at)
BY DEF W!Place, FitsIn, Placement

LEMMA PlainFits ==
    ASSUME NEW t \in Seq(Nat), NEW at \in Nat, NEW width
    PROVE  FitsIn(W!Plain(t, at, width), t, at)
<1>0. Len(t) \in Nat
  OBVIOUS
<1>1. CASE width \in 1 .. Len(t) - at
  <2>1. width \in Nat \ {0} /\ at + width <= Len(t)
    BY <1>0, <1>1
  <2>2. W!Plain(t, at, width) = W!Place(at, width, width)
    BY <1>1 DEF W!Plain
  <2>3. at <= at /\ at + width <= at + width
    BY <2>1
  <2> QED BY <2>1, <2>2, <2>3, PlaceFits
<1>2. CASE width \notin 1 .. Len(t) - at
  BY <1>2, NowhereFits DEF W!Plain
<1> QED BY <1>1, <1>2

LEMMA PrefixedFits ==
    ASSUME NEW t \in Seq(Nat), NEW at \in Nat
    PROVE  FitsIn(W!Prefixed(t, at), t, at)
<1> DEFINE length == W!ByteAt(t, at)
<1>0. Len(t) \in Nat
  OBVIOUS
<1>1. CASE at < Len(t) /\ length <= Len(t) - at - 1
  <2>1. length \in Nat
    BY <1>0, <1>1 DEF W!ByteAt
  <2> HIDE DEF length
  <2>2. /\ at + 1 \in Nat /\ 1 + length \in Nat \ {0} /\ at <= at + 1
        /\ at + 1 + length <= at + (1 + length) /\ at + (1 + length) <= Len(t)
    BY <1>0, <1>1, <2>1
  <2>3. W!Prefixed(t, at) = W!Place(at + 1, length, 1 + length)
    BY <1>1 DEF W!Prefixed, length
  <2> QED BY <2>1, <2>2, <2>3, PlaceFits
<1>2. CASE ~ (at < Len(t) /\ length <= Len(t) - at - 1)
  BY <1>2, NowhereFits DEF W!Prefixed
<1> QED BY <1>1, <1>2

LEMMA WithHeaderFits ==
    ASSUME NEW t \in Seq(Nat), NEW at \in Nat, Base \in Nat
    PROVE  FitsIn(W!WithHeader(t, at), t, at)
<1> DEFINE room == Len(t) - at
           length == W!Number(SubSeq(t, at + 2, at + 5))
           short == W!Number(SubSeq(t, at + 1, at + 2))
           place == W!WithHeader(t, at)
<1>0. Len(t) \in Nat /\ room \in Int /\ at + room = Len(t)
  OBVIOUS
<1>1. room >= 5 => length \in Nat
  <2> SUFFICES ASSUME room >= 5 PROVE length \in Nat
    OBVIOUS
  <2>1. SubSeq(t, at + 2, at + 5) \in Seq(Nat)
    OBVIOUS
  <2> QED BY <2>1, NumberType
<1>2. room >= 2 => short \in Nat
  <2> SUFFICES ASSUME room >= 2 PROVE short \in Nat
    OBVIOUS
  <2>1. SubSeq(t, at + 1, at + 2) \in Seq(Nat)
    OBVIOUS
  <2> QED BY <2>1, NumberType
<1>3. \/ room >= 5 /\ place = W!Place(at + 5, 0, 5)
      \/ room >= 5 /\ length <= room - 5 /\ place = W!Place(at + 5, length, 5 + length)
      \/ room >= 2 /\ short <= room - 2 /\ place = W!Place(at + 2, short, 2 + short)
      \/ place = W!Nowhere
  BY DEF W!WithHeader
<1> HIDE DEF room, length, short, place
<1>4. CASE room >= 5 /\ place = W!Place(at + 5, 0, 5)
  <2>1. /\ at + 5 \in Nat /\ 0 \in Nat /\ 5 \in Nat \ {0} /\ at <= at + 5
        /\ at + 5 + 0 <= at + 5 /\ at + 5 <= Len(t)
    BY <1>0, <1>4
  <2> QED BY <1>4, <2>1, PlaceFits DEF place
<1>5. CASE room >= 5 /\ length <= room - 5 /\ place = W!Place(at + 5, length, 5 + length)
  <2>1. /\ at + 5 \in Nat /\ length \in Nat /\ 5 + length \in Nat \ {0} /\ at <= at + 5
        /\ at + 5 + length <= at + (5 + length) /\ at + (5 + length) <= Len(t)
    BY <1>0, <1>1, <1>5, SMTT(30)
  <2> QED BY <1>5, <2>1, PlaceFits DEF place
<1>6. CASE room >= 2 /\ short <= room - 2 /\ place = W!Place(at + 2, short, 2 + short)
  <2>1. /\ at + 2 \in Nat /\ short \in Nat /\ 2 + short \in Nat \ {0} /\ at <= at + 2
        /\ at + 2 + short <= at + (2 + short) /\ at + (2 + short) <= Len(t)
    BY <1>0, <1>2, <1>6, SMTT(30)
  <2> QED BY <1>6, <2>1, PlaceFits DEF place
<1>7. CASE place = W!Nowhere
  BY <1>7, NowhereFits DEF place
<1> QED BY <1>3, <1>4, <1>5, <1>6, <1>7

\* Both searches for a column stay within the row (sqli_tuple_locate_column,
\* sqli_result_prepare_row_cache).
LEMMA LocatedFits ==
    ASSUME NEW t \in Seq(Nat), NEW at \in Nat, NEW column, Base \in Nat
    PROVE  FitsIn(W!LocateColumn(column, t, at), t, at)
<1> DEFINE prefix == W!ByteAt(t, at)
           place == W!LocateColumn(column, t, at)
<1>0. Len(t) \in Nat
  OBVIOUS
<1>1. \/ \E width : place = W!Plain(t, at, width)
      \/ /\ at < Len(t) /\ 1 + prefix = column.length /\ prefix <= Len(t) - at - 1
         /\ place = W!Place(at + 1, prefix, column.length)
      \/ place = W!WithHeader(t, at) \/ place = W!Prefixed(t, at) \/ place = W!Nowhere
  <2> HIDE DEF prefix
  <2>1. at >= Len(t) \/ at < Len(t)
    BY <1>0
  <2> QED BY <2>1, Zenon DEF W!LocateColumn, prefix
<1>2. CASE \E width : place = W!Plain(t, at, width)
  <2>1. PICK width : place = W!Plain(t, at, width)
    BY <1>2
  <2> HIDE DEF place
  <2> QED BY <2>1, PlainFits DEF place
<1>3. CASE /\ at < Len(t) /\ 1 + prefix = column.length /\ prefix <= Len(t) - at - 1
           /\ place = W!Place(at + 1, prefix, column.length)
  <2>1. prefix \in Nat
    BY <1>0, <1>3 DEF W!ByteAt
  <2> HIDE DEF prefix, place
  <2>2. /\ at + 1 \in Nat /\ column.length \in Nat \ {0} /\ at <= at + 1
        /\ at + 1 + prefix <= at + column.length /\ at + column.length <= Len(t)
    BY <1>0, <1>3, <2>1
  <2>3. FitsIn(W!Place(at + 1, prefix, column.length), t, at)
    BY <2>1, <2>2, PlaceFits
  <2> QED BY <1>3, <2>3 DEF place
<1>4. CASE place = W!WithHeader(t, at) \/ place = W!Prefixed(t, at) \/ place = W!Nowhere
  <2> HIDE DEF place
  <2> QED BY <1>4, WithHeaderFits, PrefixedFits, NowhereFits DEF place
<1> QED BY <1>1, <1>2, <1>3, <1>4

LEMMA PlacedFits ==
    ASSUME NEW t \in Seq(Nat), NEW at \in Nat, NEW column, Base \in Nat
    PROVE  FitsIn(W!PlaceColumn(column, t, at), t, at)
<1> DEFINE place == W!PlaceColumn(column, t, at)
<1>1. \/ \E width : place = W!Plain(t, at, width)
      \/ place = W!LocateColumn(column, t, at) \/ place = W!Prefixed(t, at) \/ place = W!Nowhere
  BY Zenon DEF W!PlaceColumn
<1> HIDE DEF place
<1> QED BY <1>1, PlainFits, LocatedFits, PrefixedFits, NowhereFits DEF place

-----------------------------------------------------------------------------
\* One column after the other, as sqli_result_prepare_row_cache places them: where each is
\* looked for, and what is found there.
Step == [at : Nat, place : Placement]

OneAfterAnother(t, placed) ==
    /\ placed \in [1 .. Len(columns) -> Step]
    /\ \A i \in 1 .. Len(columns) :
          /\ placed[i].at = IF i = 1 THEN 0 ELSE placed[i - 1].at + placed[i - 1].place.span
          /\ placed[i].place = W!PlaceColumn(columns[i], t, placed[i].at)

\* The function the places of a row are.
Placing(t, placed) ==
    [i \in 1 .. Len(columns) |->
       LET at == IF i = 1 THEN 0 ELSE placed[i - 1].at + placed[i - 1].place.span
       IN [at |-> at, place |-> W!PlaceColumn(columns[i], t, at)]]
Places(t) == CHOOSE placed : placed = Placing(t, placed)

LEMMA PlacesFollow ==
    ASSUME NEW t \in Seq(Nat), Base \in Nat, Len(columns) \in Nat
    PROVE  OneAfterAnother(t, Places(t))
<1> DEFINE n == Len(columns)
           found(i, at) == [at |-> at, place |-> W!PlaceColumn(columns[i], t, at)]
           f == [i \in 1 .. n |-> [p \in Step |-> found(i, p.at + p.place.span)]]
           first == [at |-> 0, place |-> W!Nowhere]
           placed == Places(t)
<1>1. ASSUME NEW i, NEW at \in Nat PROVE found(i, at) \in Step
  BY PlacedFits DEF FitsIn, Step
<1>2. first \in Step
  BY DEF Step, Placement, W!Nowhere
<1>3. ASSUME NEW p \in Step PROVE p.at + p.place.span \in Nat
  BY DEF Step, Placement
<1>4. f \in [1 .. n -> [Step -> Step]]
  <2> HIDE DEF found
  <2> QED BY <1>1, <1>3
<1>5. PICK g : Trace(n, Step, first, f, g)
  <2> HIDE DEF f, first, n
  <2>1. n \in Nat
    BY DEF n
  <2> QED BY <1>2, <1>4, <2>1, Iteration, Zenon
<1>6. ASSUME NEW i \in 1 .. n
      PROVE  g[i] = found(i, IF i = 1 THEN 0 ELSE g[i - 1].at + g[i - 1].place.span)
  <2>1. g[i] = f[i][g[i - 1]] /\ g[i - 1] \in Step /\ g[0] = first
    <3> HIDE DEF f, first
    <3> QED BY <1>5 DEF Trace
  <2>2. g[i] = found(i, g[i - 1].at + g[i - 1].place.span)
    <3> HIDE DEF found
    <3> QED BY <2>1
  <2>3. first.at + first.place.span = 0
    BY DEF W!Nowhere
  <2>4. CASE i = 1
    <3>1. i - 1 = 0
      BY <2>4
    <3> HIDE DEF found, first
    <3> QED BY <2>1, <2>2, <2>3, <2>4, <3>1
  <2>5. CASE i # 1
    <3> HIDE DEF found
    <3> QED BY <2>2, <2>5
  <2> QED BY <2>4, <2>5
<1> DEFINE h == [i \in 1 .. n |-> g[i]]
<1>7. h = Placing(t, h)
  <2>1. ASSUME NEW i \in 1 .. n
        PROVE  h[i] = found(i, IF i = 1 THEN 0 ELSE h[i - 1].at + h[i - 1].place.span)
    <3>1. CASE i = 1
      <4> HIDE DEF found
      <4> QED BY <1>6, <3>1
    <3>2. CASE i # 1
      <4>1. i - 1 \in 1 .. n
        BY <3>2
      <4> HIDE DEF found
      <4> QED BY <1>6, <3>2, <4>1
    <3> QED BY <3>1, <3>2
  <2> HIDE DEF h
  <2>2. h = [i \in 1 .. n |-> h[i]]
    BY DEF h
  <2> QED BY <2>1, <2>2 DEF Placing
<1>8. placed = Placing(t, placed)
  <2> HIDE DEF h
  <2> QED BY <1>7 DEF Places
<1> HIDE DEF placed
<1>9. ASSUME NEW i \in 1 .. n
      PROVE  placed[i] = found(i, IF i = 1 THEN 0 ELSE placed[i - 1].at + placed[i - 1].place.span)
  BY <1>8 DEF Placing
<1> DEFINE P == {i \in 0 .. n : i = 0 \/ placed[i] \in Step}
<1>10. ASSUME NEW i \in 0 .. n - 1, i \in P PROVE i + 1 \in P
  <2>1. i + 1 \in 1 .. n /\ i + 1 \in 0 .. n
    OBVIOUS
  <2>2. CASE i = 0
    <3>1. placed[1] = found(1, 0)
      <4> HIDE DEF found
      <4> QED BY <1>9, <2>1, <2>2
    <3> QED BY <1>1, <2>1, <2>2, <3>1
  <2>3. CASE i # 0
    <3>1. placed[i + 1] = found(i + 1, placed[i].at + placed[i].place.span)
      <4>1. i + 1 # 1 /\ i + 1 - 1 = i
        BY <2>3
      <4> HIDE DEF found
      <4> QED BY <1>9, <2>1, <4>1
    <3>2. placed[i].at + placed[i].place.span \in Nat
      BY <1>3, <1>10, <2>3
    <3> HIDE DEF found
    <3> QED BY <1>1, <2>1, <3>1, <3>2
  <2> QED BY <2>2, <2>3
<1>11. \A i \in 1 .. n : placed[i] \in Step
  <2>1. 0 \in P
    OBVIOUS
  <2>2. 0 .. n \subseteq P
    <3> HIDE DEF P, n
    <3>1. n \in Nat
      BY DEF n
    <3>2. \A i \in 0 .. n - 1 : i \in P => i + 1 \in P
      BY <1>10
    <3> QED BY <2>1, <3>1, <3>2, UpwardInduction
  <2> QED BY <2>2
<1>12. placed \in [1 .. n -> Step]
  <2>1. placed = [i \in 1 .. n |-> placed[i]]
    BY <1>8 DEF Placing
  <2> QED BY <1>11, <2>1
<1>13. ASSUME NEW i \in 1 .. n
       PROVE  /\ placed[i].at = IF i = 1 THEN 0 ELSE placed[i - 1].at + placed[i - 1].place.span
              /\ placed[i].place = W!PlaceColumn(columns[i], t, placed[i].at)
  <2> DEFINE at == IF i = 1 THEN 0 ELSE placed[i - 1].at + placed[i - 1].place.span
  <2>1. placed[i] = found(i, at)
    BY <1>9
  <2> HIDE DEF at
  <2>2. placed[i].at = at /\ placed[i].place = W!PlaceColumn(columns[i], t, at)
    BY <2>1
  <2> QED BY <2>2 DEF at
<1> QED BY <1>12, <1>13 DEF OneAfterAnother, placed

\* sqli_result_prepare_row_cache: the columns lie one behind the other within the row, and
\* sqli_tuple_locate_column stays in it from there.
PlacedIn(placed, t) ==
    \A c \in DOMAIN placed :
       /\ placed[c].at \in 0 .. placed[c].start
       /\ placed[c].start + placed[c].len <= placed[c].at + placed[c].span
       /\ IF c < Len(placed) THEN placed[c].at + placed[c].span = placed[c + 1].at
          ELSE placed[c].at + placed[c].span <= Len(t)
       /\ LET place == W!LocateColumn(columns[c], t, placed[c].at)
          IN place.start \in 0 .. Len(t) /\ place.start + place.len \in place.start .. Len(t)

LEMMA CachePlaced ==
    ASSUME NEW t \in Seq(Nat), Base \in Nat, Len(columns) \in Nat
    PROVE  PlacedIn(W!PrepareRowCache(t), t)
<1> DEFINE n == Len(columns)
           placed == Places(t)
           cache == W!PrepareRowCache(t)
<1>0. Len(t) \in Nat /\ n \in Nat
  OBVIOUS
<1>1. OneAfterAnother(t, placed)
  BY PlacesFollow
<1>2. cache = IF \E i \in 1 .. n : placed[i].place.span = 0 THEN <<>>
              ELSE [i \in 1 .. n |->
                      LET p == placed[i].place
                      IN [start |-> p.start, len |-> p.len, span |-> p.span, at |-> placed[i].at,
                          null |-> W!ColumnNull(columns[i], t, placed[i].at, p)]]
  BY Zenon DEF W!PrepareRowCache, Places, Placing
<1>3. CASE cache = <<>>
  BY <1>3 DEF PlacedIn
<1>4. CASE ~ \E i \in 1 .. n : placed[i].place.span = 0
  <2>1. DOMAIN cache = 1 .. n /\ Len(cache) = n
    BY <1>0, <1>2, <1>4
  <2>2. ASSUME NEW c \in 1 .. n
        PROVE  /\ cache[c].start = placed[c].place.start /\ cache[c].len = placed[c].place.len
               /\ cache[c].span = placed[c].place.span /\ cache[c].at = placed[c].at
    BY <1>2, <1>4
  <2>3. ASSUME NEW c \in 1 .. n
        PROVE  /\ cache[c].at \in Nat /\ cache[c].at <= cache[c].start
               /\ cache[c].start \in Nat /\ cache[c].len \in Nat /\ cache[c].span \in Nat
               /\ cache[c].start + cache[c].len <= cache[c].at + cache[c].span
               /\ cache[c].at + cache[c].span <= Len(t)
    <3>1. placed[c].at \in Nat /\ placed[c].place.span # 0
      BY <1>1, <1>4 DEF OneAfterAnother, Step
    <3>2. FitsIn(placed[c].place, t, placed[c].at)
      BY <1>1, <3>1, PlacedFits DEF OneAfterAnother
    <3> HIDE DEF cache, placed
    <3> QED BY <2>2, <3>1, <3>2 DEF FitsIn, Placement
  <2>4. ASSUME NEW c \in 1 .. n, c < n PROVE cache[c].at + cache[c].span = cache[c + 1].at
    <3>1. c + 1 \in 1 .. n /\ c + 1 # 1 /\ c + 1 - 1 = c
      BY <2>4
    <3>2. placed[c + 1].at = placed[c].at + placed[c].place.span
      BY <1>1, <3>1 DEF OneAfterAnother
    <3> HIDE DEF cache, placed, n
    <3> QED BY <2>2, <3>1, <3>2
  <2>5. ASSUME NEW c \in 1 .. n
        PROVE  LET place == W!LocateColumn(columns[c], t, cache[c].at)
               IN place.start \in 0 .. Len(t) /\ place.start + place.len \in place.start .. Len(t)
    <3> DEFINE place == W!LocateColumn(columns[c], t, cache[c].at)
    <3>1. FitsIn(place, t, cache[c].at)
      BY <2>3, LocatedFits
    <3> HIDE DEF place, cache
    <3> QED BY <1>0, <2>3, <3>1 DEF FitsIn, Placement, place
  <2> HIDE DEF cache, n
  <2>6. ASSUME NEW c \in 1 .. n PROVE cache[c].at \in 0 .. cache[c].start
    BY <2>3
  <2>7. ASSUME NEW c \in 1 .. n
        PROVE  IF c < Len(cache) THEN cache[c].at + cache[c].span = cache[c + 1].at
               ELSE cache[c].at + cache[c].span <= Len(t)
    BY <2>1, <2>3, <2>4
  <2>8. DOMAIN cache = 1 .. n
    BY <2>1
  <2>9. PlacedIn(cache, t)
    BY <2>3, <2>5, <2>6, <2>7, <2>8, Zenon DEF PlacedIn
  <2> QED BY <2>9 DEF cache
<1>5. cache = <<>> \/ ~ \E i \in 1 .. n : placed[i].place.span = 0
  <2> HIDE DEF cache, placed, n
  <2> QED BY <1>2, Zenon
<1> QED BY <1>3, <1>4, <1>5, Zenon

-----------------------------------------------------------------------------
RowsInvariant == columns \in Layouts /\ ColumnsPlaced

\* Whatever a behaviour is about, its rows take a step of Rows or none.
LEMMA RowsSteps == Init /\ [][Next]_vars => W!Spec
<1>1. Init => W!Init
  BY DEF Init
<1>2. [Next]_vars => [W!Next]_(W!vars)
  BY DEF Next, vars, rows, binding, snapshot, W!vars
<1> QED BY <1>1, <1>2, PTL DEF W!Spec

LEMMA RowsStart == W!Init => RowsInvariant
BY DEF W!Init, RowsInvariant, ColumnsPlaced, W!ColumnsPlaced

\* Only sqli_result_move_to_index places columns.
LEMMA RowsStay ==
    ASSUME RowsInvariant, UNCHANGED <<columns, tuple, spans>>
    PROVE  RowsInvariant'
BY DEF RowsInvariant, ColumnsPlaced, W!ColumnsPlaced

LEMMA MoveKeeps ==
    ASSUME RowsInvariant, NEW received \in ServerRows[columns], W!MoveTo(received)
    PROVE  RowsInvariant'
<1>1. /\ columns' = columns /\ columns \in Layouts
      /\ spans' = W!PrepareRowCache(received.bytes)
      /\ tuple' = IF spans' = <<>> THEN <<>> ELSE received.bytes
  BY DEF W!MoveTo, RowsInvariant
<1>2. Base \in Nat /\ Len(columns) \in Nat /\ received.bytes \in Seq(Nat)
  <2>1. Base \in Nat /\ received.bytes \in Seq(Nat)
    BY <1>1, RowsAssumption
  <2>2. columns \in Seq({columns[c] : c \in DOMAIN columns})
    BY <1>1, RowsAssumption, Zenon
  <2> QED BY <2>1, <2>2
<1>3. PlacedIn(spans', received.bytes)
  BY <1>1, <1>2, CachePlaced
<1>4. CASE spans' = <<>>
  BY <1>1, <1>4 DEF RowsInvariant, ColumnsPlaced, W!ColumnsPlaced
<1>5. CASE spans' # <<>>
  <2>1. tuple' = received.bytes
    BY <1>1, <1>5
  <2>2. ColumnsPlaced'
    BY <1>1, <1>3, <2>1 DEF PlacedIn, ColumnsPlaced, W!ColumnsPlaced
  <2> QED BY <1>1, <2>2 DEF RowsInvariant
<1> QED BY <1>4, <1>5

\* A getter only asks (each of them, whatever it returns).
LEMMA GettersAsk ==
    ASSUME W!Next
    PROVE  W!Return \/ W!Ask \/ \E received \in ServerRows[columns] : W!MoveTo(received)
<1>1. \A call, c, types, decoded : W!TypedGet(call, c, types, decoded) => W!Ask
  BY DEF W!TypedGet
<1>2. \A c : (W!GetInt64(c) \/ W!GetInt(c)) => W!Ask
  BY <1>1 DEF W!GetInt64, W!GetInt
<1>3. \A c : (W!GetBool(c) \/ W!GetDouble(c)) => W!Ask
  BY <1>1 DEF W!GetBool, W!GetDouble
<1>4. \A c : W!GetString(c) => W!Ask
  BY DEF W!GetString
<1>5. \A c, capacity : (W!GetBytes(c, capacity) \/ W!GetStringLen(c, capacity)) => W!Ask
  BY DEF W!GetBytes, W!GetStringLen
<1>6. \A c, chunk, stopped : W!Stream(c, chunk, stopped) => W!Ask
  BY DEF W!Stream
<1> QED BY <1>2, <1>3, <1>4, <1>5, <1>6, Zenon DEF W!Next

\* Whatever bytes a server sends for a row, the getters of the result stay within the row and
\* within their columns, and sqli_result_stream_bytes within the row.
THEOREM RowsPlaced == Spec => []ColumnsPlaced
<1>1. RowsInvariant /\ [W!Next]_(W!vars) => RowsInvariant'
  <2> SUFFICES ASSUME RowsInvariant, [W!Next]_(W!vars) PROVE RowsInvariant'
    OBVIOUS
  <2>1. \/ \E received \in ServerRows[columns] : W!MoveTo(received)
        \/ UNCHANGED <<columns, tuple, spans>>
    <3>1. CASE W!Next
      BY <3>1, GettersAsk DEF W!Return, W!Ask
    <3>2. CASE UNCHANGED W!vars
      BY <3>2 DEF W!vars
    <3> QED BY <3>1, <3>2
  <2> QED BY <2>1, MoveKeeps, RowsStay
<1>2. RowsInvariant => ColumnsPlaced
  BY DEF RowsInvariant
<1>3. Spec => W!Spec
  BY RowsSteps DEF Spec
<1> QED BY <1>1, <1>2, <1>3, RowsStart, PTL DEF W!Spec

-----------------------------------------------------------------------------
(* Sequences of n elements, whatever they are.                              *)
Listed(s, n) == n \in Nat /\ \E U : s \in Seq(U) /\ Len(s) = n

LEMMA ListedLength ==
    ASSUME NEW s, NEW n, Listed(s, n)
    PROVE  /\ n \in Nat /\ Len(s) = n /\ DOMAIN s = 1 .. n
           /\ s = [i \in 1 .. n |-> s[i]]
<1>1. PICK U : s \in Seq(U) /\ Len(s) = n
  BY DEF Listed
<1> QED BY <1>1 DEF Listed

LEMMA FunctionListed ==
    ASSUME NEW n \in Nat, NEW s, s = [i \in 1 .. n |-> s[i]]
    PROVE  Listed(s, n)
<1> DEFINE U == {s[i] : i \in 1 .. n}
<1>1. s \in [1 .. n -> U]
  OBVIOUS
<1> HIDE DEF U
<1>2. s \in Seq(U) /\ Len(s) = n
  BY <1>1
<1> QED BY <1>2 DEF Listed

LEMMA PairListed ==
    ASSUME NEW a, NEW b
    PROVE  Listed(<<a, b>>, 2)
<1>1. <<a, b>> \in Seq({a, b}) /\ Len(<<a, b>>) = 2
  OBVIOUS
<1> QED BY <1>1 DEF Listed

LEMMA FourListed ==
    ASSUME NEW a, NEW b, NEW c, NEW d
    PROVE  Listed(<<a, b, c, d>>, 4)
<1>1. <<a, b, c, d>> \in Seq({a, b, c, d}) /\ Len(<<a, b, c, d>>) = 4
  OBVIOUS
<1> QED BY <1>1 DEF Listed

LEMMA NoneListed == Listed(<<>>, 0)
<1>1. <<>> \in Seq({}) /\ Len(<<>>) = 0
  OBVIOUS
<1> QED BY <1>1 DEF Listed

LEMMA ListedIn ==
    ASSUME NEW s, NEW n, Listed(s, n), NEW U, \A i \in 1 .. n : s[i] \in U
    PROVE  s \in Seq(U)
<1>1. n \in Nat /\ s = [i \in 1 .. n |-> s[i]]
  BY ListedLength
<1>2. s \in [1 .. n -> U]
  BY <1>1
<1> QED BY <1>1, <1>2

LEMMA ConcatListed ==
    ASSUME NEW s, NEW m, Listed(s, m), NEW t, NEW n, Listed(t, n)
    PROVE  Listed(s \o t, m + n)
<1> DEFINE U == {s[i] : i \in 1 .. m} \cup {t[i] : i \in 1 .. n}
<1>1. m \in Nat /\ n \in Nat /\ Len(s) = m /\ Len(t) = n
  BY ListedLength
<1>2. s \in Seq(U) /\ t \in Seq(U)
  <2>1. (\A i \in 1 .. m : s[i] \in U) /\ (\A i \in 1 .. n : t[i] \in U)
    OBVIOUS
  <2> HIDE DEF U
  <2> QED BY <2>1, ListedIn
<1> HIDE DEF U
<1>3. s \o t \in Seq(U) /\ Len(s \o t) = m + n
  BY <1>1, <1>2
<1> QED BY <1>1, <1>3 DEF Listed

LEMMA FrontListed ==
    ASSUME NEW s, NEW n, Listed(s, n), NEW m \in 0 .. n
    PROVE  Listed(SubSeq(s, 1, m), m)
<1>1. PICK U : n \in Nat /\ s \in Seq(U) /\ Len(s) = n
  BY DEF Listed
<1>2. m \in Nat /\ 1 .. m \subseteq 1 .. n
  BY <1>1
<1>3. SubSeq(s, 1, m) = [i \in 1 .. m |-> SubSeq(s, 1, m)[i]]
  BY <1>1, <1>2
<1> QED BY <1>2, <1>3, FunctionListed

LEMMA RoundedUpNumber ==
    ASSUME NEW n \in Nat
    PROVE  B!RoundedUp(n) \in Nat /\ B!RoundedUp(n) >= n /\ B!RoundedUp(n) <= n + 1
BY DEF B!RoundedUp

LEMMA RoundedUpMonotone ==
    ASSUME NEW n \in Nat, NEW m \in 0 .. n
    PROVE  B!RoundedUp(m) <= B!RoundedUp(n)
BY DEF B!RoundedUp

LEMMA EvenListed ==
    ASSUME NEW s, NEW n, Listed(s, n)
    PROVE  Listed(B!Even(s), B!RoundedUp(n))
<1>1. n \in Nat /\ Len(s) = n
  BY ListedLength
<1>2. CASE n % 2 = 1
  <2>1. PICK U : s \in Seq(U)
    BY DEF Listed
  <2>2. Append(s, 0) \in Seq(U \cup {0}) /\ Len(Append(s, 0)) = n + 1
    BY <1>1, <2>1
  <2>3. B!Even(s) = Append(s, 0) /\ B!RoundedUp(n) = n + 1
    BY <1>1, <1>2 DEF B!Even, B!RoundedUp
  <2>4. n + 1 \in Nat
    BY <1>1
  <2> QED BY <2>2, <2>3, <2>4 DEF Listed
<1>3. CASE n % 2 # 1
  <2>1. B!Even(s) = s /\ B!RoundedUp(n) = n
    BY <1>1, <1>3 DEF B!Even, B!RoundedUp
  <2> QED BY <2>1
<1> QED BY <1>2, <1>3

LEMMA GreatestOf ==
    ASSUME NEW n \in Nat, NEW S, S \subseteq 1 .. n, S # {}
    PROVE  \E d \in S : \A e \in S : e <= d
<1> DEFINE R == {n - k : k \in S}
<1>1. R \subseteq Nat /\ R # {}
  <2>1. \A k \in S : n - k \in Nat
    OBVIOUS
  <2> QED BY <2>1
<1>2. PICK r \in R : \A e \in R : r <= e
  <2> HIDE DEF R
  <2> QED BY <1>1, LeastOf
<1>3. PICK d \in S : r = n - d
  OBVIOUS
<1>4. ASSUME NEW e \in S PROVE e <= d
  <2>1. n - d <= n - e
    BY <1>2, <1>3
  <2> QED BY <2>1
<1> QED BY <1>4

\* A native value keeps at least one byte and no more than it has.
LEMMA TrimmedListed ==
    ASSUME NEW s, NEW n, Listed(s, n), n # 0
    PROVE  \E m \in 1 .. n : Listed(B!Trimmed(s), m)
<1> DEFINE kept == {k \in 1 .. Len(s) : k = 1 \/ s[k] # 0}
           m == CHOOSE k \in kept : \A other \in kept : other <= k
<1>1. n \in Nat /\ Len(s) = n
  BY ListedLength
<1>2. kept \subseteq 1 .. n /\ 1 \in kept
  BY <1>1
<1>3. \E k \in kept : \A other \in kept : other <= k
  <2> HIDE DEF kept
  <2> QED BY <1>1, <1>2, GreatestOf
<1>4. m \in kept
  <2> HIDE DEF kept
  <2> QED BY <1>3
<1>5. m \in 1 .. n /\ m \in 0 .. n
  BY <1>1, <1>2, <1>4
<1>6. B!Trimmed(s) = SubSeq(s, 1, m)
  BY DEF B!Trimmed
<1> HIDE DEF m
<1>7. Listed(SubSeq(s, 1, m), m)
  BY <1>5, FrontListed
<1> QED BY <1>5, <1>6, <1>7

\* Sequences in a row are as long as all of them together.
LEMMA FlattenBound ==
    ASSUME NEW n \in Nat, NEW U, NEW seqs \in [1 .. n -> Seq(U)],
           NEW bound \in [0 .. n -> Nat],
           \A i \in 1 .. n : bound[i - 1] + Len(seqs[i]) <= bound[i]
    PROVE  \E m : Listed(B!FlattenSeq(seqs), m) /\ bound[0] + m <= bound[n]
<1> DEFINE whole(x) == [i \in 1 .. n |-> IF i = 1 THEN seqs[i] ELSE x[i - 1] \o seqs[i]]
           flatten == CHOOSE x : x = whole(x)
           f == [i \in 1 .. n |-> [s \in Seq(U) |-> s \o seqs[i]]]
<1>0. Len(seqs) = n
  OBVIOUS
<1>1. CASE n = 0
  <2>1. B!FlattenSeq(seqs) = seqs
    BY <1>0, <1>1 DEF B!FlattenSeq
  <2>2. Listed(seqs, 0) /\ bound[0] \in Nat
    <3>1. seqs = [i \in 1 .. 0 |-> seqs[i]]
      BY <1>1
    <3> QED BY <1>1, <3>1, FunctionListed
  <2> QED BY <1>1, <2>1, <2>2
<1>2. CASE n # 0
  <2>1. f \in [1 .. n -> [Seq(U) -> Seq(U)]]
    OBVIOUS
  <2>2. PICK g : Trace(n, Seq(U), <<>>, f, g)
    <3> HIDE DEF f
    <3>1. <<>> \in Seq(U)
      OBVIOUS
    <3> QED BY <2>1, <3>1, Iteration, Zenon
  <2>3. ASSUME NEW i \in 1 .. n PROVE g[i] = g[i - 1] \o seqs[i] /\ g[i - 1] \in Seq(U)
    <3>1. g[i] = f[i][g[i - 1]] /\ g[i - 1] \in Seq(U)
      <4>1. i - 1 \in 0 .. n
        OBVIOUS
      <4> HIDE DEF f
      <4> QED BY <2>2, <4>1 DEF Trace
    <3> QED BY <3>1
  <2> HIDE DEF f
  <2> DEFINE h == [i \in 1 .. n |-> g[i]]
  <2>4. h = whole(h)
    <3>1. ASSUME NEW i \in 1 .. n PROVE h[i] = IF i = 1 THEN seqs[i] ELSE h[i - 1] \o seqs[i]
      <4>1. CASE i = 1
        <5>1. i - 1 = 0 /\ g[0] = <<>> /\ seqs[i] \in Seq(U)
          BY <2>2, <4>1 DEF Trace
        <5>2. g[i] = <<>> \o seqs[i]
          BY <2>3, <5>1
        <5>3. <<>> \o seqs[i] = seqs[i]
          BY <5>1
        <5>4. h[i] = seqs[i]
          BY <5>2, <5>3
        <5> HIDE DEF h
        <5> QED BY <4>1, <5>4
      <4>2. CASE i # 1
        <5>1. i - 1 \in 1 .. n
          BY <4>2
        <5>2. h[i] = g[i] /\ h[i - 1] = g[i - 1]
          BY <5>1
        <5> HIDE DEF h
        <5> QED BY <2>3, <4>2, <5>2
      <4> QED BY <4>1, <4>2
    <3>2. h = [i \in 1 .. n |-> h[i]]
      OBVIOUS
    <3> HIDE DEF h
    <3> QED BY <3>1, <3>2
  <2>5. flatten = whole(flatten)
    <3> HIDE DEF h, whole
    <3> QED BY <2>4
  <2>6. B!FlattenSeq(seqs) = flatten[n]
    BY <1>0, <1>2, Zenon DEF B!FlattenSeq
  <2> HIDE DEF flatten
  <2>10. ASSUME NEW i \in 1 .. n
         PROVE  flatten[i] = IF i = 1 THEN seqs[i] ELSE flatten[i - 1] \o seqs[i]
    <3>1. flatten = [j \in 1 .. n |-> IF j = 1 THEN seqs[j] ELSE flatten[j - 1] \o seqs[j]]
      BY <2>5
    <3> QED BY <3>1, Zenon
  <2> HIDE DEF whole
  <2> DEFINE P == {i \in 0 .. n : i = 0 \/ /\ flatten[i] \in Seq(U)
                                            /\ bound[0] + Len(flatten[i]) <= bound[i]}
  <2>7. ASSUME NEW i \in 0 .. n - 1, i \in P PROVE i + 1 \in P
    <3>1. i + 1 \in 1 .. n /\ i + 1 \in 0 .. n /\ seqs[i + 1] \in Seq(U) /\ i + 1 - 1 = i
      OBVIOUS
    <3>2. /\ bound[i] + Len(seqs[i + 1]) <= bound[i + 1]
          /\ bound[0] \in Nat /\ bound[i] \in Nat /\ bound[i + 1] \in Nat /\ Len(seqs[i + 1]) \in Nat
      BY <3>1
    <3>3. CASE i = 0
      <4>1. flatten[i + 1] = seqs[i + 1]
        BY <2>10, <3>1, <3>3
      <4> QED BY <3>1, <3>2, <3>3, <4>1
    <3>4. CASE i # 0
      <4>1. flatten[i + 1] = flatten[i] \o seqs[i + 1]
        <5>1. i + 1 # 1
          BY <3>4
        <5> DEFINE j == i + 1
        <5>2. j \in 1 .. n /\ j # 1 /\ j - 1 = i
          BY <3>1, <5>1
        <5> HIDE DEF j
        <5>3. flatten[j] = flatten[j - 1] \o seqs[j]
          BY <2>10, <5>2, Zenon
        <5>4. flatten[j] = flatten[i] \o seqs[j]
          BY <5>2, <5>3
        <5> QED BY <5>4 DEF j
      <4>2. flatten[i] \in Seq(U) /\ bound[0] + Len(flatten[i]) <= bound[i]
        BY <2>7, <3>4
      <4>3. Len(flatten[i]) \in Nat
        BY <4>2
      <4>4. /\ flatten[i + 1] \in Seq(U)
            /\ Len(flatten[i + 1]) = Len(flatten[i]) + Len(seqs[i + 1])
        BY <3>1, <4>1, <4>2
      <4>5. bound[0] + Len(flatten[i + 1]) <= bound[i + 1]
        <5>1. \A a, b, c, d, e \in Nat : a + b <= c /\ c + d <= e => a + (b + d) <= e
          OBVIOUS
        <5>2. bound[0] + (Len(flatten[i]) + Len(seqs[i + 1])) <= bound[i + 1]
          BY <3>2, <4>2, <4>3, <5>1, Zenon
        <5> QED BY <4>4, <5>2, Zenon
      <4> QED BY <3>1, <4>4, <4>5
    <3> QED BY <3>3, <3>4
  <2>8. n \in P
    <3> HIDE DEF P
    <3>1. 0 \in P
      BY DEF P
    <3>2. \A i \in 0 .. n - 1 : i \in P => i + 1 \in P
      BY <2>7
    <3>3. 0 .. n \subseteq P
      BY <3>1, <3>2, UpwardInduction
    <3> QED BY <3>3
  <2>9. flatten[n] \in Seq(U) /\ bound[0] + Len(flatten[n]) <= bound[n]
    BY <1>2, <2>8
  <2>11. Listed(flatten[n], Len(flatten[n]))
    BY <2>9 DEF Listed
  <2> QED BY <2>6, <2>9, <2>11
<1> QED BY <1>1, <1>2

-----------------------------------------------------------------------------
(* The parts of a parameter.                                                *)
LEMMA DigitsListed ==
    ASSUME NEW n, NEW width \in Nat
    PROVE  Listed(B!Digits(n, width), width)
<1>1. B!Digits(n, width) = [i \in 1 .. width |-> B!Digits(n, width)[i]]
  BY DEF B!Digits
<1> QED BY <1>1, FunctionListed

LEMMA DescriptorListed ==
    ASSUME NEW length, DescriptorSize \in Nat
    PROVE  Listed(B!Descriptor(length), DescriptorSize)
<1>1. B!Descriptor(length) = [k \in 1 .. DescriptorSize |-> B!Descriptor(length)[k]]
  BY DEF B!Descriptor
<1> QED BY <1>1, FunctionListed

\* A character becomes two at most.
LEMMA ConvertedListed ==
    ASSUME NEW s, NEW n, Listed(s, n)
    PROVE  \E m : Listed(B!Converted(s), m) /\ m <= 2 * n
<1> DEFINE U == {s[i] : i \in 1 .. n}
           piece(i) == IF s[i] \in Widened THEN <<s[i], s[i]>> ELSE <<s[i]>>
           seqs == [i \in 1 .. n |-> piece(i)]
           bound == [i \in 0 .. n |-> 2 * i]
<1>0. n \in Nat /\ DOMAIN s = 1 .. n
  BY ListedLength
<1>1. ASSUME NEW i \in 1 .. n PROVE piece(i) \in Seq(U) /\ Len(piece(i)) <= 2
  <2>1. s[i] \in U
    OBVIOUS
  <2> HIDE DEF U
  <2>2. /\ <<s[i], s[i]>> \in Seq(U) /\ Len(<<s[i], s[i]>>) = 2
        /\ <<s[i]>> \in Seq(U) /\ Len(<<s[i]>>) = 1
    BY <2>1
  <2> QED BY <2>2
<1> HIDE DEF U
<1>2. seqs \in [1 .. n -> Seq(U)] /\ \A i \in 1 .. n : Len(seqs[i]) \in Nat /\ Len(seqs[i]) <= 2
  <2> HIDE DEF piece
  <2> QED BY <1>1
<1>3. /\ bound \in [0 .. n -> Nat] /\ bound[0] = 0 /\ bound[n] = 2 * n
      /\ \A i \in 1 .. n : bound[i - 1] + 2 = bound[i]
  BY <1>0
<1>4. B!Converted(s) = B!FlattenSeq(seqs)
  BY <1>0 DEF B!Converted
<1> HIDE DEF seqs, bound
<1>5. \A i \in 1 .. n : bound[i - 1] + Len(seqs[i]) <= bound[i]
  <2> SUFFICES ASSUME NEW i \in 1 .. n PROVE bound[i - 1] + Len(seqs[i]) <= bound[i]
    OBVIOUS
  <2>1. i - 1 \in 0 .. n /\ i \in 0 .. n
    BY <1>0
  <2>2. bound[i - 1] \in Nat /\ bound[i] \in Nat
    BY <1>3, <2>1
  <2> QED BY <1>2, <1>3, <2>2
<1>6. \E m : Listed(B!FlattenSeq(seqs), m) /\ bound[0] + m <= bound[n]
  BY <1>0, <1>2, <1>3, <1>5, FlattenBound
<1>7. PICK m : Listed(B!FlattenSeq(seqs), m) /\ 0 + m <= 2 * n
  BY <1>3, <1>6
<1>8. m \in Nat /\ m <= 2 * n
  BY <1>0, <1>7 DEF Listed
<1> QED BY <1>4, <1>7, <1>8

\* A string becomes twice as long at most, whether its codeset is converted or not.
LEMMA EncodedListed ==
    ASSUME NEW s, NEW n, Listed(s, n), Base ^ 2 \in Nat \ {0}
    PROVE  \E m : Listed(B!Shortened(B!Encode(s)), m) /\ m <= 2 * n
<1>0. n \in Nat
  BY ListedLength
<1>1. PICK k : Listed(B!Encode(s), k) /\ k <= 2 * n
  <2>1. B!Encode(s) = B!Converted(s) \/ B!Encode(s) = s
    BY DEF B!Encode
  <2>2. n <= 2 * n
    BY <1>0
  <2> QED BY <2>1, <2>2, ConvertedListed
<1> DEFINE m == IF k < Base ^ 2 THEN k ELSE Base ^ 2 - 1
<1>2. k \in Nat /\ Len(B!Encode(s)) = k
  BY <1>1, ListedLength
<1>3. m \in 0 .. k
  BY <1>2
<1>4. B!Shortened(B!Encode(s)) = SubSeq(B!Encode(s), 1, m)
  BY <1>2 DEF B!Shortened, B!Power
<1> HIDE DEF m
<1>5. Listed(SubSeq(B!Encode(s), 1, m), m)
  BY <1>1, <1>3, FrontListed
<1>6. m <= 2 * n
  BY <1>0, <1>1, <1>2, <1>3
<1> QED BY <1>4, <1>5, <1>6

\* A parameter as the bind calls leave it.
Sized(p) ==
    /\ DOMAIN p = DOMAIN B!Unbound
    /\ \E n : Listed(p.data, n)
    /\ p.type = "DATE" => Listed(p.data, 4)
    /\ p.type \in B!Native => p.data # <<>>

\* Behind type and indicator no value takes more than estimate_bind_msg_size counts for it.
LEMMA PayloadFits ==
    ASSUME NEW p, Sized(p), Base ^ 2 \in Nat \ {0}
    PROVE  \E m : /\ Listed(B!Payload(p), m)
                  /\ B!EstimateData(p) \in Nat
                  /\ m <= 2 + B!EstimateData(p)
<1> DEFINE fits == \E m : Listed(B!Payload(p), m) /\ B!EstimateData(p) \in Nat /\ m <= 2 + B!EstimateData(p)
<1>1. PICK n : Listed(p.data, n)
  BY DEF Sized
<1>2. n \in Nat /\ Len(p.data) = n /\ (n = 0 => p.data = <<>>)
  <2>1. n \in Nat /\ Len(p.data) = n /\ p.data = [i \in 1 .. n |-> p.data[i]]
    BY <1>1, ListedLength
  <2>2. n = 0 => p.data = <<>>
    BY <2>1
  <2> QED BY <2>1, <2>2
<1>3. \A x : Listed(B!Digits(x, 2), 2) /\ Listed(B!Digits(x, 4), 4) /\ Listed(B!Digits(x, 8), 8)
  BY DigitsListed
<1>4. Listed(<<0, 0>>, 2)
  BY PairListed
<1>5. \A k \in Nat : B!RoundedUp(k) \in Nat
  BY RoundedUpNumber
<1>6. CASE p.type \in B!Native
  <2>1. PICK k \in 1 .. n : Listed(B!Trimmed(p.data), k)
    BY <1>1, <1>2, <1>6, TrimmedListed DEF Sized
  <2> DEFINE bytes == B!Trimmed(p.data)
  <2>2. B!Payload(p) = B!Digits(p.q, 2) \o B!Digits(Len(bytes), 2) \o B!Even(bytes)
    BY <1>6 DEF B!Payload, B!Native
  <2>3. Listed(B!Even(bytes), B!RoundedUp(k))
    BY <2>1, EvenListed
  <2>4. Listed(B!Digits(p.q, 2) \o B!Digits(Len(bytes), 2), 2 + 2)
    BY <1>3, ConcatListed
  <2> HIDE DEF bytes
  <2>5. Listed(B!Payload(p), (2 + 2) + B!RoundedUp(k))
    BY <2>2, <2>3, <2>4, ConcatListed
  <2>6. B!EstimateData(p) = 2 + B!RoundedUp(n)
    BY <1>2, <1>6 DEF B!EstimateData, B!Native
  <2>7. B!RoundedUp(k) <= B!RoundedUp(n) /\ B!RoundedUp(k) \in Nat /\ B!RoundedUp(n) \in Nat
    <3>1. n \in Nat /\ k \in Nat /\ k \in 0 .. n
      BY <1>2
    <3>2. B!RoundedUp(k) <= B!RoundedUp(n)
      BY ONLY <3>1, RoundedUpMonotone
    <3>3. B!RoundedUp(k) \in Nat /\ B!RoundedUp(n) \in Nat
      BY ONLY <3>1, <1>5
    <3> QED BY ONLY <3>2, <3>3
  <2> HIDE DEF fits
  <2>8. (2 + 2) + B!RoundedUp(k) <= 2 + B!EstimateData(p) /\ B!EstimateData(p) \in Nat
    BY <2>6, <2>7
  <2> QED BY <2>5, <2>8
<1>7. CASE p.type \in {"INT", "BIGINT", "FLOAT"}
  <2> DEFINE width == IF p.type = "INT" THEN 4 ELSE 8
  <2>1. B!Payload(p) = <<0, 0>> \o B!Digits(p.n, width) /\ B!EstimateData(p) = width
    BY <1>7 DEF B!Payload, B!EstimateData, B!Native
  <2>2. Listed(B!Digits(p.n, width), width) /\ width \in Nat
    BY <1>3
  <2> HIDE DEF width
  <2>3. Listed(<<0, 0>> \o B!Digits(p.n, width), 2 + width)
    BY <1>4, <2>2, ConcatListed
  <2> QED BY <2>1, <2>2, <2>3
<1>8. CASE p.type = "DATE"
  <2>1. B!Payload(p) = <<0, 0>> \o p.data /\ B!EstimateData(p) = 4
    BY <1>8 DEF B!Payload, B!EstimateData, B!Native
  <2>2. Listed(<<0, 0>> \o p.data, 2 + 4)
    BY <1>4, <1>8, ConcatListed DEF Sized
  <2> QED BY <2>1, <2>2
<1>9. CASE p.type = "VARCHAR"
  <2> DEFINE bytes == B!Shortened(B!Encode(p.data))
  <2>1. PICK k : Listed(bytes, k) /\ k <= 2 * n
    BY <1>1, EncodedListed
  <2>2. B!Payload(p) = B!Digits(Len(bytes), 2) \o B!Digits(Len(bytes), 2) \o B!Even(bytes)
    BY <1>9 DEF B!Payload, B!Native
  <2> HIDE DEF bytes
  <2>3. Listed(B!Even(bytes), B!RoundedUp(k)) /\ k \in Nat
    BY <2>1, EvenListed, ListedLength
  <2>4. Listed(B!Digits(Len(bytes), 2) \o B!Digits(Len(bytes), 2), 2 + 2)
    BY <1>3, ConcatListed
  <2>5. Listed(B!Payload(p), (2 + 2) + B!RoundedUp(k))
    BY <2>2, <2>3, <2>4, ConcatListed
  <2>6. B!EstimateData(p) = B!RoundedUp(2 + 8 * n + 32)
    BY <1>2, <1>9 DEF B!EstimateData, B!Native
  <2>7. 2 + 8 * n + 32 \in Nat /\ k + 1 + 2 <= 2 + 8 * n + 32
    BY <1>2, <2>1, <2>3
  <2>8. /\ B!RoundedUp(k) \in Nat /\ B!RoundedUp(k) <= k + 1
        /\ B!RoundedUp(2 + 8 * n + 32) \in Nat /\ B!RoundedUp(2 + 8 * n + 32) >= 2 + 8 * n + 32
    BY <2>3, <2>7, RoundedUpNumber
  <2>9. (2 + 2) + B!RoundedUp(k) <= 2 + B!EstimateData(p) /\ B!EstimateData(p) \in Nat
    BY <2>3, <2>6, <2>7, <2>8
  <2> QED BY <2>5, <2>9
<1>10. CASE p.type = "BYTE"
  <2>1. B!Payload(p) = B!Digits(Len(p.data), 2) \o B!Even(p.data) /\ B!EstimateData(p) = B!RoundedUp(n)
    BY <1>2, <1>10 DEF B!Payload, B!EstimateData, B!Native
  <2>2. Listed(B!Digits(Len(p.data), 2) \o B!Even(p.data), 2 + B!RoundedUp(n))
    BY <1>1, <1>3, EvenListed, ConcatListed
  <2>3. B!RoundedUp(n) \in Nat
    BY <1>2, <1>5
  <2> QED BY <2>1, <2>2, <2>3
<1>11. CASE p.type = "UDTFIXED"
  <2>1. /\ B!Payload(p) = <<0, 0>> \o B!Digits(Len(p.data), 4) \o B!Even(p.data)
        /\ B!EstimateData(p) = B!RoundedUp(4 + n)
    BY <1>2, <1>11 DEF B!Payload, B!EstimateData, B!Native
  <2>2. Listed(<<0, 0>> \o B!Digits(Len(p.data), 4), 2 + 4)
    BY <1>3, <1>4, ConcatListed
  <2>3. Listed(B!Even(p.data), B!RoundedUp(n))
    BY <1>1, EvenListed
  <2>4. Listed(B!Payload(p), (2 + 4) + B!RoundedUp(n))
    BY <2>1, <2>2, <2>3, ConcatListed
  <2>5. B!RoundedUp(4 + n) = 4 + B!RoundedUp(n) /\ B!RoundedUp(n) \in Nat
    BY <1>2 DEF B!RoundedUp
  <2>6. (2 + 4) + B!RoundedUp(n) <= 2 + B!EstimateData(p) /\ B!EstimateData(p) \in Nat
    BY <2>1, <2>5
  <2> QED BY <2>4, <2>6
<1>12. CASE p.type \notin B!Native \cup {"INT", "BIGINT", "FLOAT", "DATE", "VARCHAR", "BYTE", "UDTFIXED"}
  <2>1. B!Payload(p) = <<0, 0>> /\ B!EstimateData(p) = 0
    BY <1>12 DEF B!Payload, B!EstimateData
  <2> QED BY <1>4, <2>1
<1> HIDE DEF fits
<1> QED BY <1>6, <1>7, <1>8, <1>9, <1>10, <1>11, <1>12 DEF fits

LEMMA ParamFits ==
    ASSUME NEW p, Sized(p), NEW i, Base ^ 2 \in Nat \ {0}, DescriptorSize \in Nat
    PROVE  \E m : /\ Listed(B!BindParam(p, i), m)
                  /\ B!EstimateParam(p, i) \in Nat
                  /\ m <= B!EstimateParam(p, i)
<1> DEFINE typed == <<0, IF B!IsLegacyLob(p, i) THEN B!Code[B!Described(i)] ELSE B!Code[p.type]>>
           named == IF p.type = "UDTFIXED" THEN <<0, 0, 0, 4>> \o B!TypeName(p.q) ELSE <<>>
           name == IF p.type = "UDTFIXED" THEN 8 ELSE 0
           lob == B!IsLegacyLob(p, i)
           null == p.null
           data == CASE null -> <<Base - 1, Base - 1, 0, 0>>
                     [] ~ null /\ lob ->
                          <<0, 0>> \o B!Digits(DescriptorSize, 2) \o B!Descriptor(B!AnnouncedLength(p, i))
                     [] OTHER -> <<0, 0>> \o B!Payload(p)
           counted == IF null THEN 0 ELSE IF lob THEN DescriptorSize ELSE B!EstimateData(p)
<1>1. Listed(typed, 2)
  BY PairListed
<1>2. Listed(named, name) /\ name \in Nat
  <2>1. CASE p.type = "UDTFIXED"
    <3>1. Listed(<<0, 0, 0, 4>>, 4) /\ Listed(B!TypeName(p.q), 4)
      BY FourListed DEF B!TypeName
    <3>2. Listed(<<0, 0, 0, 4>> \o B!TypeName(p.q), 4 + 4)
      BY <3>1, ConcatListed
    <3> QED BY <2>1, <3>2
  <2>2. CASE p.type # "UDTFIXED"
    BY <2>2, NoneListed
  <2> QED BY <2>1, <2>2
<1>3. Listed(<<0, 0>>, 2)
  BY PairListed
<1>4. \E m : Listed(data, m) /\ counted \in Nat /\ m <= 4 + counted
  <2>1. CASE null
    <3>1. data = <<Base - 1, Base - 1, 0, 0>> /\ counted = 0
      BY <2>1
    <3>2. Listed(<<Base - 1, Base - 1, 0, 0>>, 4)
      BY FourListed
    <3>3. 0 \in Nat /\ 4 <= 4 + 0
      OBVIOUS
    <3> HIDE DEF data, counted
    <3> QED BY <3>1, <3>2, <3>3
  <2>2. CASE ~ null /\ lob
    <3> DEFINE descriptor == B!Descriptor(B!AnnouncedLength(p, i))
    <3>1. data = <<0, 0>> \o B!Digits(DescriptorSize, 2) \o descriptor /\ counted = DescriptorSize
      BY <2>2
    <3>2. Listed(<<0, 0>> \o B!Digits(DescriptorSize, 2), 2 + 2)
      <4>1. Listed(B!Digits(DescriptorSize, 2), 2)
        BY DigitsListed
      <4> QED BY <1>3, <4>1, ConcatListed
    <3>3. Listed(descriptor, DescriptorSize)
      BY DescriptorListed
    <3> HIDE DEF descriptor, data, counted
    <3>4. Listed(data, (2 + 2) + DescriptorSize)
      BY <3>1, <3>2, <3>3, ConcatListed
    <3> QED BY <3>1, <3>4
  <2>3. CASE ~ null /\ ~ lob
    <3>1. data = <<0, 0>> \o B!Payload(p) /\ counted = B!EstimateData(p)
      BY <2>3
    <3>2. PICK k : /\ Listed(B!Payload(p), k) /\ B!EstimateData(p) \in Nat
                   /\ k <= 2 + B!EstimateData(p)
      BY PayloadFits
    <3> HIDE DEF data, counted
    <3>3. Listed(data, 2 + k) /\ k \in Nat
      BY <1>3, <3>1, <3>2, ConcatListed, ListedLength
    <3>4. 2 + k <= 4 + counted
      BY <3>1, <3>2, <3>3
    <3>5. counted \in Nat
      BY <3>1, <3>2
    <3> QED BY <3>3, <3>4, <3>5, Zenon
  <2> QED BY <2>1, <2>2, <2>3
<1>5. B!BindParam(p, i) = typed \o named \o data
  BY Zenon DEF B!BindParam
<1>6. B!EstimateParam(p, i) = 6 + name + counted
  BY Zenon DEF B!EstimateParam
<1> HIDE DEF typed, named, name, data, counted
<1>7. PICK k : Listed(data, k) /\ counted \in Nat /\ k <= 4 + counted
  BY <1>4
<1>8. Listed(typed \o named, 2 + name)
  BY <1>1, <1>2, ConcatListed
<1>9. Listed(B!BindParam(p, i), (2 + name) + k) /\ k \in Nat
  BY <1>5, <1>7, <1>8, ConcatListed, ListedLength
<1>10. (2 + name) + k <= B!EstimateParam(p, i) /\ B!EstimateParam(p, i) \in Nat
  BY <1>2, <1>6, <1>7, <1>9
<1> QED BY <1>9, <1>10

\* What estimate_bind_msg_size has counted before and after each parameter.
Counting(ps, size) ==
    [i \in 0 .. B!Count |-> IF i = 0 THEN 8 ELSE size[i - 1] + B!EstimateParam(ps[i], i)]
Estimated(ps) == CHOOSE size : size = Counting(ps, size)

LEMMA EstimateAdds ==
    ASSUME B!Count \in Nat, NEW ps, \A i \in 1 .. B!Count : B!EstimateParam(ps[i], i) \in Nat
    PROVE  /\ Estimated(ps) \in [0 .. B!Count -> Nat]
           /\ Estimated(ps)[0] = 8
           /\ \A i \in 1 .. B!Count :
                 Estimated(ps)[i] = Estimated(ps)[i - 1] + B!EstimateParam(ps[i], i)
<1> DEFINE n == B!Count
           e(i) == B!EstimateParam(ps[i], i)
           f == [i \in 1 .. n |-> [m \in Nat |-> m + e(i)]]
           size == Estimated(ps)
<1>0. n \in Nat
  OBVIOUS
<1> HIDE DEF n
<1>1. f \in [1 .. n -> [Nat -> Nat]]
  <2>1. \A i \in 1 .. n : e(i) \in Nat
    BY DEF n
  <2> HIDE DEF e
  <2> QED BY <2>1
<1>2. PICK g : Trace(n, Nat, 8, f, g)
  <2> HIDE DEF f
  <2>1. 8 \in Nat
    OBVIOUS
  <2> QED BY <1>0, <1>1, <2>1, Iteration, Zenon
<1>3. ASSUME NEW i \in 1 .. n PROVE g[i] = g[i - 1] + e(i)
  <2>1. g[i] = f[i][g[i - 1]] /\ g[i - 1] \in Nat
    <3>1. i - 1 \in 0 .. n
      BY <1>0
    <3> HIDE DEF f
    <3> QED BY <1>2, <3>1 DEF Trace
  <2> HIDE DEF e
  <2> QED BY <2>1
<1>4. g = Counting(ps, g)
  <2>1. g = [i \in 0 .. n |-> g[i]] /\ g[0] = 8
    BY <1>2 DEF Trace
  <2>2. \A i \in 0 .. n : g[i] = IF i = 0 THEN 8 ELSE g[i - 1] + e(i)
    <3> HIDE DEF e
    <3>1. \A i \in 0 .. n : i # 0 => i \in 1 .. n
      BY <1>0
    <3> QED BY <1>3, <2>1, <3>1, Zenon
  <2> QED BY <2>1, <2>2 DEF Counting, n
<1>5. size = Counting(ps, size)
  BY <1>4 DEF Estimated
<1> HIDE DEF size
<1>6. \A i \in 0 .. n : size[i] = IF i = 0 THEN 8 ELSE size[i - 1] + e(i)
  BY <1>5 DEF Counting, n
<1>7. size[0] = 8 /\ \A i \in 1 .. n : size[i] = size[i - 1] + e(i)
  <2> HIDE DEF e
  <2> QED BY <1>0, <1>6
<1> DEFINE P == {i \in 0 .. n : size[i] \in Nat}
<1>8. 0 .. n \subseteq P
  <2>1. 0 \in P
    BY <1>0, <1>7
  <2>2. ASSUME NEW i \in 0 .. n - 1, i \in P PROVE i + 1 \in P
    <3>1. i + 1 \in 1 .. n /\ i + 1 \in 0 .. n /\ i + 1 - 1 = i
      BY <1>0
    <3>2. e(i + 1) \in Nat /\ size[i] \in Nat
      BY <2>2, <3>1 DEF n
    <3> HIDE DEF e
    <3>3. size[i + 1] = size[i] + e(i + 1)
      BY <1>7, <3>1
    <3> QED BY <3>1, <3>2, <3>3
  <2> HIDE DEF P
  <2>3. \A i \in 0 .. n - 1 : i \in P => i + 1 \in P
    BY <2>2
  <2> QED BY <1>0, <2>1, <2>3, UpwardInduction
<1>9. size \in [0 .. n -> Nat]
  <2>1. size = [i \in 0 .. n |-> size[i]]
    BY <1>5 DEF Counting, n
  <2> QED BY <1>8, <2>1
<1> QED BY <1>7, <1>9 DEF n, size

\* build_bind_msg writes no more than estimate_bind_msg_size allocates.
LEMMA MessageBuilt ==
    ASSUME B!Count \in Nat, NEW ps, \A i \in 1 .. B!Count : Sized(ps[i]), NEW eot,
           Base ^ 2 \in Nat \ {0}, DescriptorSize \in Nat
    PROVE  Len(B!BuildBindMsg(ps, eot)) <= B!EstimateBindMsgSize(ps, eot)
<1> DEFINE n == B!Count
           seqs == [i \in 1 .. n |-> B!BindParam(ps[i], i)]
           U == UNION {{seqs[i][j] : j \in 1 .. Len(seqs[i])} : i \in 1 .. n}
           size == Estimated(ps)
           params_ == B!FlattenSeq(seqs)
           head == B!SqId \o B!SqBind \o B!Digits(B!Count, 2)
           tail == IF eot THEN B!Eot ELSE <<>>
           ending == IF eot THEN 2 ELSE 0
<1>1. ASSUME NEW i \in 1 .. n
      PROVE  \E m : /\ Listed(seqs[i], m) /\ B!EstimateParam(ps[i], i) \in Nat
                    /\ m <= B!EstimateParam(ps[i], i)
  BY ParamFits
<1>2. /\ size \in [0 .. n -> Nat] /\ size[0] = 8
      /\ \A i \in 1 .. n : size[i] = size[i - 1] + B!EstimateParam(ps[i], i)
  BY <1>1, EstimateAdds
<1> HIDE DEF size
<1>3. ASSUME NEW i \in 1 .. n PROVE seqs[i] \in Seq(U) /\ size[i - 1] + Len(seqs[i]) <= size[i]
  <2>1. PICK m : /\ Listed(seqs[i], m) /\ B!EstimateParam(ps[i], i) \in Nat
                 /\ m <= B!EstimateParam(ps[i], i)
    BY <1>1
  <2> HIDE DEF seqs
  <2>2. Len(seqs[i]) = m /\ m \in Nat
    BY <2>1, ListedLength
  <2>3. \A j \in 1 .. m : seqs[i][j] \in U
    BY <2>2
  <2>4. seqs[i] \in Seq(U)
    <3> HIDE DEF U
    <3> QED BY <2>1, <2>3, ListedIn
  <2>5. size[i - 1] \in Nat /\ size[i] = size[i - 1] + B!EstimateParam(ps[i], i)
    BY <1>2
  <2> QED BY <2>1, <2>2, <2>4, <2>5
<1>4. seqs = [i \in 1 .. n |-> seqs[i]] /\ B!BuildBindMsg(ps, eot) = head \o params_ \o tail
  BY DEF B!BuildBindMsg
<1> HIDE DEF seqs, U, params_
<1>5. PICK m : Listed(params_, m) /\ size[0] + m <= size[n]
  <2>1. seqs \in [1 .. n -> Seq(U)] /\ n \in Nat
    BY <1>3, <1>4
  <2>2. \A i \in 1 .. n : size[i - 1] + Len(seqs[i]) <= size[i]
    BY <1>3
  <2> HIDE DEF n
  <2> QED BY <1>2, <2>1, <2>2, FlattenBound DEF params_
<1>6. Listed(head, 4 + 2 + 2)
  <2>1. Listed(B!SqId, 4) /\ Listed(B!SqBind, 2)
    BY FourListed, PairListed DEF B!SqId, B!SqBind
  <2>2. Listed(B!SqId \o B!SqBind, 4 + 2)
    BY <2>1, ConcatListed
  <2>3. Listed(B!Digits(B!Count, 2), 2)
    BY DigitsListed
  <2> QED BY <2>2, <2>3, ConcatListed
<1>7. Listed(tail, ending)
  BY PairListed, NoneListed DEF B!Eot
<1>8. ending \in Nat /\ m \in Nat /\ size[n] \in Nat
  BY <1>2, <1>5, ListedLength
<1>9. B!EstimateBindMsgSize(ps, eot) = size[n] + ending
  BY Zenon DEF B!EstimateBindMsgSize, Counting, Estimated, size
<1> HIDE DEF head, tail, ending, n
<1>10. Listed(head \o params_, (4 + 2 + 2) + m)
  BY <1>5, <1>6, ConcatListed
<1>11. Listed(head \o params_ \o tail, ((4 + 2 + 2) + m) + ending)
  BY <1>7, <1>10, ConcatListed
<1>12. Len(B!BuildBindMsg(ps, eot)) = ((4 + 2 + 2) + m) + ending
  BY <1>4, <1>11, ListedLength
<1> QED BY <1>2, <1>5, <1>8, <1>9, <1>12

-----------------------------------------------------------------------------
(* What the bind calls and batches keep.                                    *)
SizedRow(ps) == DOMAIN ps = 1 .. B!Count /\ \A i \in 1 .. B!Count : Sized(ps[i])

BindInvariant ==
    /\ statement \in Statements
    /\ SizedRow(params)
    /\ batch \in Seq({batch[k] : k \in DOMAIN batch}) /\ \A k \in DOMAIN batch : SizedRow(batch[k])
    /\ MessageFits

LEMMA CountType ==
    ASSUME statement \in Statements
    PROVE  B!Count \in Nat
<1>1. statement.actual \in Seq({statement.actual[i] : i \in DOMAIN statement.actual})
  BY BindingAssumption
<1> QED BY <1>1 DEF B!Count

LEMMA GivenListed ==
    ASSUME NEW s, s \in Seq({s[k] : k \in DOMAIN s})
    PROVE  \E n : Listed(s, n)
<1> DEFINE U == {s[k] : k \in DOMAIN s}
<1>1. s \in Seq(U) /\ Len(s) \in Nat
  <2> HIDE DEF U
  <2>1. s \in Seq(U)
    BY DEF U
  <2> QED BY <2>1
<1> QED BY <1>1 DEF Listed

LEMMA UnboundSized == Sized(B!Unbound)
<1>1. B!Unbound.type = "None" /\ B!Unbound.data = <<>>
  BY DEF B!Unbound, B!Param
<1> QED BY <1>1, NoneListed DEF Sized, B!Native

\* A freed slot keeps its type, and native bytes with it (sqli_free_bound_param).
LEMMA FreedSized ==
    ASSUME NEW p, Sized(p)
    PROVE  Sized(B!Freed(p)) /\ DOMAIN B!Freed(p) = DOMAIN p
<1>1. DOMAIN p = {"type", "n", "data", "q", "null"}
  BY DEF Sized, B!Unbound, B!Param
<1>2. /\ DOMAIN B!Freed(p) = DOMAIN p /\ B!Freed(p).type = p.type
      /\ B!Freed(p).data = IF p.type \in B!Native \cup {"DATE"} THEN p.data ELSE <<>>
  BY <1>1 DEF B!Freed
<1>3. CASE p.type \in B!Native \cup {"DATE"}
  BY <1>2, <1>3 DEF Sized
<1>4. CASE p.type \notin B!Native \cup {"DATE"}
  BY <1>2, <1>4, NoneListed DEF Sized
<1> QED BY <1>2, <1>3, <1>4

\* Whatever was bound before, a call leaves a value that can be counted.
LEMMA SetScalarSized ==
    ASSUME NEW p, Sized(p), NEW v \in BoundScalars
    PROVE  Sized(B!SetScalar(p, v))
<1> DEFINE r == B!Freed(p)
<1>1. DOMAIN r = {"type", "n", "data", "q", "null"} /\ DOMAIN r = DOMAIN B!Unbound
  BY FreedSized DEF Sized, B!Unbound, B!Param
<1> HIDE DEF r
<1>2. /\ DOMAIN B!SetScalar(p, v) = DOMAIN r
      /\ B!SetScalar(p, v).type = v.type /\ B!SetScalar(p, v).data = <<>>
  BY <1>1 DEF B!SetScalar, r
<1>3. v.type \notin B!Native /\ v.type # "DATE"
  BY BindingAssumption DEF B!Native
<1> QED BY <1>1, <1>2, <1>3, NoneListed DEF Sized

LEMMA SetBytesSized ==
    ASSUME NEW p, Sized(p), NEW v, \E n : Listed(v.data, n), v.type \notin B!Native \cup {"DATE"}
    PROVE  Sized(B!SetBytes(p, v))
<1> DEFINE r == B!Freed(p)
<1>1. DOMAIN r = {"type", "n", "data", "q", "null"} /\ DOMAIN r = DOMAIN B!Unbound
  BY FreedSized DEF Sized, B!Unbound, B!Param
<1> HIDE DEF r
<1>2. /\ DOMAIN B!SetBytes(p, v) = DOMAIN r
      /\ B!SetBytes(p, v).type = v.type /\ B!SetBytes(p, v).data = v.data
  BY <1>1 DEF B!SetBytes, r
<1> QED BY <1>1, <1>2 DEF Sized

LEMMA SetSblobSized ==
    ASSUME NEW p, Sized(p), NEW i, NEW v \in BoundLocators
    PROVE  Sized(B!SetSblob(p, i, v))
<1> DEFINE r == B!Freed(p)
           s == B!SetSblob(p, i, v)
<1>1. DOMAIN r = {"type", "n", "data", "q", "null"} /\ DOMAIN r = DOMAIN B!Unbound
  BY FreedSized DEF Sized, B!Unbound, B!Param
<1> HIDE DEF r
<1>2. DOMAIN s = DOMAIN r /\ s.type = "UDTFIXED" /\ s.data \in {<<>>, v.data}
  BY <1>1 DEF B!SetSblob, r
<1>3. \E n : Listed(s.data, n)
  <2> v \in BoundStrings \cup BoundBytes \cup BoundLocators \cup BoundNatives
    OBVIOUS
  <2>1. v.data \in Seq({v.data[k] : k \in DOMAIN v.data})
    BY BindingAssumption
  <2>2. \E n : Listed(v.data, n)
    BY <2>1, GivenListed
  <2> QED BY <1>2, <2>2, NoneListed
<1> HIDE DEF s
<1>4. Sized(s)
  BY <1>1, <1>2, <1>3 DEF Sized, B!Native
<1> QED BY <1>4 DEF s

LEMMA NativeSized ==
    ASSUME NEW v \in BoundNatives
    PROVE  Sized(v)
<1>1. /\ v.data \in Seq({v.data[k] : k \in DOMAIN v.data})
      /\ DOMAIN v = DOMAIN B!Unbound
      /\ \/ v.type = "DATE" /\ Len(v.data) = 4
         \/ v.type \in {"DECIMAL", "DATETIME", "INTERVAL"} /\ v.data # <<>>
  <2>1. v \in BoundStrings \cup BoundBytes \cup BoundLocators \cup BoundNatives
    OBVIOUS
  <2> QED BY <2>1, BindingAssumption, Zenon
<1>2. PICK n : Listed(v.data, n)
  BY <1>1, GivenListed
<1>3. Len(v.data) = n
  BY <1>2, ListedLength
<1> QED BY <1>1, <1>2, <1>3 DEF Sized, B!Native

LEMMA BoundKeeps ==
    ASSUME BindInvariant, NEW i \in 1 .. B!Count, NEW p, Sized(p), NEW m, B!Bound(i, p, m)
    PROVE  BindInvariant'
<1>1. /\ params' = [params EXCEPT ![i] = p]
      /\ UNCHANGED <<statement, batch, sent>>
  BY DEF B!Bound
<1>2. B!Count' = B!Count
  BY <1>1 DEF B!Count
<1>3. SizedRow(params')
  BY <1>1 DEF BindInvariant, SizedRow
<1>4. SizedRow(params)'
  BY <1>2, <1>3 DEF SizedRow, Sized
<1>5. MessageFits'
  BY <1>1, <1>2 DEF BindInvariant, MessageFits, B!MessageFits
<1>6. \A k \in DOMAIN batch' : SizedRow(batch[k])'
  BY <1>1, <1>2 DEF BindInvariant, SizedRow, Sized
<1> QED BY <1>1, <1>4, <1>5, <1>6 DEF BindInvariant

LEMMA BindKeeps ==
    ASSUME BindInvariant, NEW i \in 1 .. B!Count, B!Bind(i)
    PROVE  BindInvariant'
<1>0. Sized(params[i])
  BY DEF BindInvariant, SizedRow
<1>1. CASE B!BindScalar(i)
  <2>1. PICK v \in BoundScalars : B!Bound(i, B!SetScalar(params[i], v), v)
    BY <1>1 DEF B!BindScalar
  <2> QED BY <1>0, <2>1, SetScalarSized, BoundKeeps
<1>2. CASE B!BindString(i)
  <2>1. PICK v \in BoundStrings : B!Bound(i, B!SetBytes(params[i], v), v)
    BY <1>2 DEF B!BindString
  <2>2. v.data \in Seq({v.data[k] : k \in DOMAIN v.data}) /\ v.type = "VARCHAR"
    BY BindingAssumption
  <2>3. Sized(B!SetBytes(params[i], v))
    BY <1>0, <2>2, GivenListed, SetBytesSized DEF B!Native
  <2> QED BY <2>1, <2>3, BoundKeeps
<1>3. CASE B!BindBytes(i)
  <2>1. PICK v \in BoundBytes : B!Bound(i, B!SetBytes(params[i], v), v)
    BY <1>3 DEF B!BindBytes
  <2>2. v.data \in Seq({v.data[k] : k \in DOMAIN v.data}) /\ v.type = "BYTE"
    BY BindingAssumption
  <2>3. Sized(B!SetBytes(params[i], v))
    BY <1>0, <2>2, GivenListed, SetBytesSized DEF B!Native
  <2> QED BY <2>1, <2>3, BoundKeeps
<1>4. CASE B!BindNative(i)
  <2>1. PICK v \in BoundNatives : B!Bound(i, B!SetNative(v), v)
    BY <1>4 DEF B!BindNative
  <2> QED BY <2>1, NativeSized, BoundKeeps DEF B!SetNative
<1>5. CASE B!BindTimestamp(i)
  <2>1. PICK t \in BoundTimestamps :
          LET v == B!Param("VARCHAR", 0, B!Clamped(t), 0, FALSE)
          IN B!Bound(i, B!SetBytes(params[i], v), v)
    BY <1>5 DEF B!BindTimestamp
  <2> DEFINE v == B!Param("VARCHAR", 0, B!Clamped(t), 0, FALSE)
  <2>2. t \in Seq({t[k] : k \in DOMAIN t})
    BY BindingAssumption
  <2>3. PICK n : Listed(t, n)
    BY <2>2, GivenListed
  <2>4. n \in Nat /\ DOMAIN t = 1 .. n
    BY <2>3, ListedLength
  <2>5. B!Clamped(t) = [k \in 1 .. n |-> B!Clamped(t)[k]]
    BY <2>4 DEF B!Clamped
  <2>6. Listed(B!Clamped(t), n)
    BY <2>4, <2>5, FunctionListed
  <2>7. v.data = B!Clamped(t) /\ v.type = "VARCHAR"
    BY DEF B!Param
  <2>8. B!Bound(i, B!SetBytes(params[i], v), v)
    BY <2>1
  <2> HIDE DEF v
  <2>9. Sized(B!SetBytes(params[i], v))
    BY <1>0, <2>6, <2>7, SetBytesSized DEF B!Native
  <2> QED BY <2>8, <2>9, BoundKeeps
<1>6. CASE B!BindSblob(i)
  <2>1. PICK v \in BoundLocators :
          \/ \E m : B!Bound(i, B!SetSblob(params[i], i, v), m)
          \/ B!Bound(i, B!Freed(params[i]), B!Spoilt)
    BY <1>6, Zenon DEF B!BindSblob
  <2> QED BY <1>0, <2>1, SetSblobSized, FreedSized, BoundKeeps
<1> QED BY <1>1, <1>2, <1>3, <1>4, <1>5, <1>6 DEF B!Bind

\* Every request of a row fits.
LEMMA SendingFits ==
    ASSUME statement \in Statements, NEW ps, SizedRow(ps), NEW ms
    PROVE  B!Sending(ps, ms).built <= B!Sending(ps, ms).allocated
<1>1. Len(B!BuildBindMsg(ps, statement.select)) <= B!EstimateBindMsgSize(ps, statement.select)
  BY CountType, MessageBuilt, BindingAssumption DEF SizedRow
<1>2. /\ B!Sending(ps, ms).built = Len(B!BuildBindMsg(ps, statement.select))
      /\ B!Sending(ps, ms).allocated = B!EstimateBindMsgSize(ps, statement.select)
  BY DEF B!Sending
<1> QED BY <1>1, <1>2

LEMMA ExecuteKeeps ==
    ASSUME BindInvariant, B!ExecuteStmt \/ B!BatchExecute
    PROVE  MessageFits'
<1>1. \E n \in Nat : \E row_ : \E m_ :
         /\ sent' = [k \in 1 .. n |-> B!Sending(row_[k], m_[k])]
         /\ \A k \in 1 .. n : SizedRow(row_[k])
  <2>1. CASE B!ExecuteStmt
    <3>1. sent' = <<B!Sending(params, meant)>>
      BY <2>1 DEF B!ExecuteStmt
    <3> DEFINE row_ == [k \in 1 .. 1 |-> params]
               m_ == [k \in 1 .. 1 |-> meant]
    <3>2. sent' = [k \in 1 .. 1 |-> B!Sending(row_[k], m_[k])]
      BY <3>1
    <3>3. \A k \in 1 .. 1 : SizedRow(row_[k])
      BY DEF BindInvariant
    <3> HIDE DEF row_, m_
    <3> QED BY <3>2, <3>3
  <2>2. CASE B!BatchExecute
    <3>1. PICK done \in 1 .. Len(batch) : sent' = [k \in 1 .. done |-> B!Sending(batch[k], meantBatch[k])]
      BY <2>2 DEF B!BatchExecute
    <3>2. Len(batch) \in Nat /\ DOMAIN batch = 1 .. Len(batch)
      <4> DEFINE U == {batch[k] : k \in DOMAIN batch}
      <4>1. batch \in Seq(U)
        BY DEF BindInvariant
      <4> HIDE DEF U
      <4> QED BY <4>1
    <3>3. \A k \in 1 .. done : SizedRow(batch[k])
      BY <3>2 DEF BindInvariant
    <3> QED BY <3>1, <3>2, <3>3
  <2> QED BY <2>1, <2>2
<1>2. PICK n \in Nat : \E row_ : \E m_ :
         /\ sent' = [k \in 1 .. n |-> B!Sending(row_[k], m_[k])]
         /\ \A k \in 1 .. n : SizedRow(row_[k])
  BY <1>1
<1>3. PICK row_ : \E m_ : /\ sent' = [k \in 1 .. n |-> B!Sending(row_[k], m_[k])]
                          /\ \A k \in 1 .. n : SizedRow(row_[k])
  BY <1>2
<1>4. PICK m_ : /\ sent' = [k \in 1 .. n |-> B!Sending(row_[k], m_[k])]
                /\ \A k \in 1 .. n : SizedRow(row_[k])
  BY <1>3
<1>5. ASSUME NEW k \in DOMAIN sent' PROVE sent'[k].built <= sent'[k].allocated
  <2>1. k \in 1 .. n /\ sent'[k] = B!Sending(row_[k], m_[k]) /\ SizedRow(row_[k])
    BY <1>4
  <2> QED BY <2>1, SendingFits DEF BindInvariant
<1> QED BY <1>5 DEF MessageFits, B!MessageFits

LEMMA BindingStart == B!Init => BindInvariant
<1> SUFFICES ASSUME B!Init PROVE BindInvariant
  OBVIOUS
<1>1. statement \in Statements /\ params = B!Unprepared /\ batch = <<>> /\ sent = <<>>
  BY DEF B!Init
<1>2. SizedRow(params)
  BY <1>1, UnboundSized DEF SizedRow, B!Unprepared
<1>3. batch \in Seq({batch[k] : k \in DOMAIN batch}) /\ \A k \in DOMAIN batch : SizedRow(batch[k])
  BY <1>1
<1>4. MessageFits
  BY <1>1 DEF MessageFits, B!MessageFits
<1> QED BY <1>1, <1>2, <1>3, <1>4 DEF BindInvariant

LEMMA BindingKept == BindInvariant /\ [B!Next]_(B!vars) => BindInvariant'
<1> SUFFICES ASSUME BindInvariant, [B!Next]_(B!vars) PROVE BindInvariant'
  OBVIOUS
<1> DEFINE Rows(b) == b \in Seq({b[k] : k \in DOMAIN b}) /\ \A k \in DOMAIN b : SizedRow(b[k])
<1>0. statement' = statement /\ B!Count' = B!Count
  BY DEF B!Next, B!vars, B!Count, B!Bind, B!BindScalar, B!BindString, B!BindBytes, B!BindNative,
         B!BindTimestamp, B!BindSblob, B!Bound, B!BatchAdd, B!BatchClear, B!ExecuteStmt,
         B!BatchExecute, B!PrepareAgain
<1>1. ASSUME SizedRow(params'), Rows(batch'), MessageFits' PROVE BindInvariant'
  <2>1. SizedRow(params)' /\ \A k \in DOMAIN batch' : SizedRow(batch[k])'
    BY <1>0, <1>1 DEF SizedRow, Sized
  <2> QED BY <1>0, <1>1, <2>1 DEF BindInvariant
<1>2. Rows(<<>>)
  OBVIOUS
<1>3. Rows(batch) /\ SizedRow(params)
  BY DEF BindInvariant
<1>4. UNCHANGED sent => MessageFits'
  BY <1>0 DEF BindInvariant, MessageFits, B!MessageFits
<1>5. ASSUME NEW i \in 1 .. B!Count, B!Bind(i) PROVE BindInvariant'
  BY <1>5, BindKeeps
<1>6. CASE B!BatchAdd
  <2>1. batch' = Append(batch, params) /\ UNCHANGED <<params, sent>>
    BY <1>6 DEF B!BatchAdd
  <2>2. Rows(batch')
    <3>1. PICK n : Listed(batch, n)
      BY <1>3, GivenListed
    <3>2. PICK U : batch \in Seq(U) /\ Len(batch) = n /\ n \in Nat
      BY <3>1 DEF Listed
    <3>3. /\ batch' = [k \in 1 .. n + 1 |-> IF k = n + 1 THEN params ELSE batch[k]]
          /\ DOMAIN batch' = 1 .. n + 1 /\ DOMAIN batch = 1 .. n
      <4>1. DOMAIN batch = 1 .. n
        BY <3>2
      <4>2. Append(batch, params) = [k \in 1 .. n + 1 |-> IF k = n + 1 THEN params ELSE batch[k]]
        <5> DEFINE V == U \cup {params}
        <5>1. batch \in Seq(V) /\ params \in V
          BY <3>2
        <5> HIDE DEF V
        <5>2. /\ Append(batch, params) \in Seq(V) /\ Len(Append(batch, params)) = n + 1
              /\ Append(batch, params)[n + 1] = params
              /\ \A k \in 1 .. n : Append(batch, params)[k] = batch[k]
          BY <3>2, <5>1
        <5>3. \A k \in 1 .. n + 1 : k # n + 1 => k \in 1 .. n
          BY <3>2
        <5>4. Append(batch, params) = [k \in 1 .. n + 1 |-> Append(batch, params)[k]]
          <6>1. n + 1 \in Nat
            BY <3>2
          <6>2. Listed(Append(batch, params), n + 1)
            BY <5>2, <6>1 DEF Listed
          <6> QED BY <6>2, ListedLength
        <5>5. \A k \in 1 .. n + 1 :
                 Append(batch, params)[k] = IF k = n + 1 THEN params ELSE batch[k]
          BY <5>2, <5>3, Zenon
        <5> QED BY <5>4, <5>5, Zenon
      <4> QED BY <2>1, <4>1, <4>2
    <3>4. batch' = [k \in 1 .. n + 1 |-> batch'[k]] /\ n + 1 \in Nat
      BY <3>2, <3>3
    <3>5. batch' \in Seq({batch'[k] : k \in DOMAIN batch'})
      <4> DEFINE V == {batch'[k] : k \in DOMAIN batch'}
      <4>1. Listed(batch', n + 1)
        BY <3>4, FunctionListed
      <4>2. \A k \in 1 .. n + 1 : batch'[k] \in V
        BY <3>3
      <4> HIDE DEF V
      <4>3. batch' \in Seq(V)
        BY <4>1, <4>2, ListedIn
      <4> QED BY <4>3 DEF V
    <3>6. \A k \in DOMAIN batch' : SizedRow(batch'[k])
      <4> SUFFICES ASSUME NEW k \in 1 .. n + 1 PROVE SizedRow(batch'[k])
        BY <3>3
      <4>1. CASE k = n + 1
        BY <1>3, <3>3, <4>1
      <4>2. CASE k # n + 1
        <5>1. k \in DOMAIN batch /\ batch'[k] = batch[k]
          BY <3>2, <3>3, <4>2
        <5> QED BY <1>3, <5>1
      <4> QED BY <4>1, <4>2
    <3> QED BY <3>5, <3>6
  <2> HIDE DEF Rows
  <2> QED BY <1>1, <1>3, <1>4, <2>1, <2>2
<1>7. CASE B!BatchClear
  <2> HIDE DEF Rows
  <2> QED BY <1>1, <1>2, <1>3, <1>4, <1>7 DEF B!BatchClear
<1>8. CASE B!ExecuteStmt
  <2> HIDE DEF Rows
  <2>1. MessageFits'
    BY <1>8, ExecuteKeeps
  <2> QED BY <1>1, <1>3, <1>8, <2>1 DEF B!ExecuteStmt
<1>9. CASE B!BatchExecute
  <2> HIDE DEF Rows
  <2>1. MessageFits'
    BY <1>9, ExecuteKeeps
  <2>2. UNCHANGED params /\ (batch' = <<>> \/ batch' = batch)
    BY <1>9 DEF B!BatchExecute
  <2> QED BY <1>1, <1>2, <1>3, <2>1, <2>2
<1>10. CASE B!PrepareAgain
  <2>1. params' = B!Unprepared /\ batch' = <<>> /\ sent' = <<>>
    BY <1>10 DEF B!PrepareAgain
  <2>2. SizedRow(params')
    BY <2>1, UnboundSized DEF SizedRow, B!Unprepared
  <2>3. MessageFits'
    BY <2>1 DEF MessageFits, B!MessageFits
  <2> HIDE DEF Rows
  <2> QED BY <1>1, <1>2, <2>1, <2>2, <2>3
<1>11. CASE UNCHANGED B!vars
  <2> HIDE DEF Rows
  <2> QED BY <1>1, <1>3, <1>4, <1>11 DEF B!vars
<1> HIDE DEF Rows
<1> QED BY <1>5, <1>6, <1>7, <1>8, <1>9, <1>10, <1>11 DEF B!Next

\* Whatever a behaviour is about, its parameters take a step of Binding or none.
LEMMA BindingSteps == Init /\ [][Next]_vars => B!Spec
<1>1. Init => B!Init
  BY DEF Init
<1>2. [Next]_vars => [B!Next]_(B!vars)
  BY DEF Next, vars, rows, binding, snapshot, B!vars
<1> QED BY <1>1, <1>2, PTL DEF B!Spec

\* Whatever is bound to a statement, in whatever order and over whatever was bound before, and
\* whatever rows of it a batch sends, build_bind_msg stays within the buffer that
\* sqli_stmt_send_bind_if_needed allocates with estimate_bind_msg_size.
THEOREM MessagesFit == Spec => []MessageFits
<1>1. BindInvariant => MessageFits
  BY DEF BindInvariant
<1>2. Spec => B!Spec
  BY BindingSteps DEF Spec
<1> QED BY <1>1, <1>2, BindingStart, BindingKept, PTL DEF B!Spec
=============================================================================
