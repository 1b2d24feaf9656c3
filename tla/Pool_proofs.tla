---------------------------- MODULE Pool_proofs ----------------------------
(***************************************************************************)
(* Proofs about the connection pool, for every number of threads, slots    *)
(* and addresses.                                                          *)
(***************************************************************************)
EXTENDS Pool, TLAPS, FiniteSetTheorems

\* Different slots hold different connections.
SlotsDistinct ==
    \A r, s \in Slot : slot[r].conn # Nil /\ slot[r].conn = slot[s].conn => r = s

\* A lease is the connection in the slot it was taken from.
LeaseInSlot == \A t \in Thread : lease[t] # Nil => lease[t] = slot[at[t]].conn

\* What a slot under reconnection holds at each point of it.
ReconnectStage ==
    \A t \in Thread :
        /\ pc[t] = "dangling" => /\ slot[at[t]].conn # Nil
                                 /\ ~conn[slot[at[t]].conn].live
        /\ pc[t] = "connect" => slot[at[t]].conn = Nil
        /\ pc[t] = "connected" => slot[at[t]].conn # Nil

\* The connection in a slot is allocated, but for the dangling stage.
SlotsLive ==
    \A s \in Slot : slot[s].conn # Nil =>
        \/ conn[slot[s].conn].live
        \/ \E t \in Thread : at[t] = s /\ pc[t] = "dangling"

\* Before destruction begins the slots hold no discarded connection with an open
\* socket, unless it is on lease.
SlotsDisposed ==
    phase \in {"creating", "open"} =>
        \A s \in Slot : /\ slot[s].conn # Nil
                        /\ DISCARDED \in conn[slot[s].conn].life
                        /\ conn[slot[s].conn].open
                        => \E t \in Thread : lease[t] = slot[s].conn

\* Nobody is in the pool before it is created or after it is freed, nor has
\* anything of it once destruction has begun.
Lifetime ==
    /\ phase \in {"creating", "freed"} => \A t \in Thread : pc[t] = "idle"
    /\ ShutdownIsQuiet

\* The inductive invariant.
IInv ==
    /\ TypeOK /\ SlotsDistinct /\ SlotOwned /\ LeaseInSlot /\ ReconnectStage
    /\ SlotsLive /\ SlotsDisposed /\ Lifetime
    /\ NoObjectLeak /\ NoSocketLeak /\ PinnedIsLeased
---------------------------------------------------------------------------
(* Connection records                                                      *)

\* What the functions on a connection leave behind.
LEMMA DiscardedFacts ==
    ASSUME NEW c \in ConnRecord, NEW status \in DiscardStatus(c)
    PROVE  /\ Discarded(c, status) \in ConnRecord
           /\ Discarded(c, status).live = c.live
           /\ Discarded(c, status).life = c.life \cup {DISCARDED}
           /\ Discarded(c, status).open => c.open
           /\ status = "OK" => ~Discarded(c, status).open
  BY DEF ConnRecord, Discarded, Bits, PINNED, DISCARDED, RELEASED

\* sqli_close keeps the object and never opens a socket.
LEMMA ClosedFacts ==
    ASSUME NEW c \in ConnRecord, NEW d \in Closed(c)
    PROVE  /\ d \in ConnRecord
           /\ d.live = c.live
           /\ d.open => c.open
           /\ d.life = c.life \/ d.life = c.life \cup {DISCARDED}
           /\ PINNED \notin c.life /\ (DISCARDED \in c.life => ~c.open) => ~d.open
  <1>1. CASE PINNED \in c.life
    BY <1>1 DEF Closed
  <1>2. CASE PINNED \notin c.life /\ DISCARDED \in c.life
    <2>1. PICK status \in DiscardStatus(c) : d = Discarded(c, status)
      BY <1>2 DEF Closed
    <2> QED BY <2>1, <1>2, DiscardedFacts
  <1>3. CASE PINNED \notin c.life /\ DISCARDED \notin c.life
    <2>1. d = [c EXCEPT !.state = "CLOSED", !.open = FALSE]
      BY <1>3 DEF Closed
    <2> QED BY <2>1 DEF ConnRecord
  <1> QED BY <1>1, <1>2, <1>3

\* sqli_close and sqli_destroy free an unpinned object, and its socket with it
\* unless a discarded transport is still open.
LEMMA DisposedFacts ==
    ASSUME NEW c \in ConnRecord, PINNED \notin c.life, NEW d \in Disposed(c)
    PROVE  /\ d \in ConnRecord
           /\ ~d.live
           /\ d.life = {}
           /\ (DISCARDED \in c.life => ~c.open) => ~d.open
  <1>1. PICK e \in Closed(c) : d \in Destroyed(e)
    BY DEF Disposed
  <1>2. /\ e \in ConnRecord /\ PINNED \notin e.life
        /\ (DISCARDED \in c.life => ~c.open) => ~e.open
    BY ClosedFacts DEF PINNED, DISCARDED
  <1>3. PICK f \in Closed(e) : d = [FreeMemory EXCEPT !.open = f.open]
    BY <1>1, <1>2 DEF Destroyed
  <1>4. f \in ConnRecord /\ (f.open => e.open)
    BY <1>2, ClosedFacts
  <1> QED BY <1>2, <1>3, <1>4 DEF FreeMemory, ConnRecord

---------------------------------------------------------------------------
(* Steps that leave the slots and the connections alone                    *)

\* pthread_cond_signal changes at most one waiting thread, to woken.
LEMMA SignalFacts ==
    ASSUME NEW p \in [Thread -> PC], Signal(p)
    PROVE  /\ pc' \in [Thread -> PC]
           /\ \A t \in Thread :
                \/ pc'[t] = p[t]
                \/ p[t] = "waiting" /\ pc'[t] = "woken"
  BY DEF Signal, PC

\* A thread moves between the points at which it has neither slot nor lease.
Resting == {"idle", "entered", "waiting", "woken"}

\* A step that only moves threads between resting points keeps the invariant.
LEMMA RestingStep ==
    ASSUME IInv,
           UNCHANGED <<conn, slot, phase, at, lease>>,
           mode' \in [Thread -> {"infinite", "timed", "try"}],
           calls' \in [Thread -> 0 .. MaxCalls],
           pc' \in [Thread -> PC],
           phase \notin {"creating", "freed"},
           \A t \in Thread : \/ pc'[t] = pc[t]
                             \/ pc[t] \in Resting /\ pc'[t] \in Resting
    PROVE  IInv'
  <1> USE DEF IInv
  <1>1. TypeOK'
    BY DEF TypeOK, Resting, Reconnecting, PC
  <1>2. SlotsDistinct' /\ SlotOwned' /\ LeaseInSlot' /\ SlotsDisposed' /\ Lifetime'
    BY DEF SlotsDistinct, SlotOwned, LeaseInSlot, SlotsDisposed, Lifetime,
           ShutdownIsQuiet
  <1>3. ReconnectStage' /\ SlotsLive'
    BY DEF ReconnectStage, SlotsLive, Resting, TypeOK
  <1>4. NoObjectLeak' /\ NoSocketLeak' /\ PinnedIsLeased'
    BY DEF NoObjectLeak, NoSocketLeak, PinnedIsLeased
  <1> QED BY <1>1, <1>2, <1>3, <1>4

---------------------------------------------------------------------------
(* Steps of a borrower on its own connection                               *)

\* A borrower that changes the connection it has on lease, without freeing it
\* or opening a socket, keeps the invariant.
LEMMA BorrowerStep ==
    ASSUME IInv,
           NEW t \in Thread, pc[t] = "leased",
           NEW d \in ConnRecord,
           conn' = [conn EXCEPT ![lease[t]] = d],
           UNCHANGED poolVars,
           d.live = conn[lease[t]].live,
           d.open => conn[lease[t]].open,
           PINNED \in d.life => RELEASED \notin d.life
    PROVE  IInv'
  <1> USE DEF IInv, poolVars
  <1>0. lease[t] \in Addr /\ at[t] \in Slot
    BY PoolAssumption DEF TypeOK
  <1>1. TypeOK'
    BY <1>0 DEF TypeOK
  <1>2. SlotsDistinct' /\ SlotOwned' /\ LeaseInSlot' /\ Lifetime'
    BY DEF SlotsDistinct, SlotOwned, LeaseInSlot, Lifetime, ShutdownIsQuiet
  <1>3. \A a \in Addr : conn'[a].live = conn[a].live /\ (conn'[a].open => conn[a].open)
    BY <1>0 DEF TypeOK
  <1>4. ReconnectStage' /\ SlotsLive'
    BY <1>3, PoolAssumption DEF ReconnectStage, SlotsLive, TypeOK, Reconnecting
  <1>5. SlotsDisposed'
    BY <1>0 DEF SlotsDisposed, TypeOK
  <1>6. NoObjectLeak' /\ NoSocketLeak'
    BY <1>3 DEF NoObjectLeak, NoSocketLeak
  <1>7. PinnedIsLeased'
    BY <1>0 DEF PinnedIsLeased, TypeOK
  <1> QED BY <1>1, <1>2, <1>4, <1>5, <1>6, <1>7

---------------------------------------------------------------------------
(* Steps that take a slot                                                  *)

\* Slots are numbers, and NULL is none of them.
LEMMA SlotFacts == Nil \notin Slot /\ Slot \subseteq Nat
  BY PoolAssumption DEF Slot

\* Leasing a usable connection keeps the invariant.
LEMMA TakeReadyStep ==
    ASSUME IInv, NEW t \in Thread, TakeReady(t)
    PROVE  IInv'
  <1> USE DEF IInv
  <1>1. PICK s \in Slot :
          /\ s \in Free /\ slot[s].conn # Nil /\ Usable(conn[slot[s].conn])
          /\ slot' = [slot EXCEPT ![s].in_use = TRUE]
          /\ conn' = [conn EXCEPT ![slot[s].conn].life = @ \ {RELEASED}]
          /\ at' = [at EXCEPT ![t] = s]
          /\ lease' = [lease EXCEPT ![t] = slot[s].conn]
    BY DEF TakeReady, IsFirstFree
  <1>2. /\ pc[t] \in {"entered", "woken"} /\ phase # "shutting_down"
        /\ pc' = [pc EXCEPT ![t] = "leased"]
        /\ UNCHANGED <<phase, mode, calls>>
    BY DEF TakeReady, InLoop
  <1> DEFINE c == slot[s].conn
  <1>3. /\ c \in Addr /\ at[t] = Nil /\ lease[t] = Nil
        /\ \A u \in Thread : at[u] # s
        /\ \A u \in Thread : lease[u] # c
    <2>1. c \in Addr /\ at[t] = Nil /\ lease[t] = Nil
      BY <1>1, <1>2, SlotFacts DEF TypeOK, Reconnecting
    <2>2. \A u \in Thread : at[u] # s
      BY <1>1 DEF SlotOwned, Free
    <2>3. \A u \in Thread : lease[u] # c
      BY <1>1, <2>2, SlotFacts DEF TypeOK, LeaseInSlot, SlotsDistinct, Reconnecting
    <2> QED BY <2>1, <2>2, <2>3
  <1>4. /\ conn'[c] = [conn[c] EXCEPT !.life = @ \ {RELEASED}]
        /\ \A a \in Addr : a # c => conn'[a] = conn[a]
        /\ conn' \in [Addr -> ConnRecord]
        /\ \A a \in Addr : conn'[a].live = conn[a].live /\ conn'[a].open = conn[a].open
    <2> DEFINE d == [conn[c] EXCEPT !.life = @ \ {RELEASED}]
    <2>1. d \in ConnRecord /\ d.live = conn[c].live /\ d.open = conn[c].open
      BY <1>3 DEF TypeOK, ConnRecord
    <2>2. conn' = [conn EXCEPT ![c] = d]
      BY <1>1
    <2> HIDE DEF d
    <2>3. conn'[c] = d /\ conn' \in [Addr -> ConnRecord]
          /\ \A a \in Addr : a # c => conn'[a] = conn[a]
      BY <2>1, <2>2, <1>3 DEF TypeOK
    <2> QED BY <2>1, <2>3 DEF d
  <1>5. /\ slot' \in [Slot -> [conn: Addr \cup {Nil}, in_use: BOOLEAN]]
        /\ \A r \in Slot : slot'[r].conn = slot[r].conn
        /\ \A r \in Slot : slot'[r].in_use <=> (r = s \/ slot[r].in_use)
    BY <1>1 DEF TypeOK
  <1>6. TypeOK'
    <2>1. /\ pc' \in [Thread -> PC] /\ at' \in [Thread -> Slot \cup {Nil}]
          /\ lease' \in [Thread -> Addr \cup {Nil}]
      BY <1>1, <1>2, <1>3 DEF TypeOK, PC
    <2>2. \A u \in Thread : /\ pc'[u] = "leased" <=> lease'[u] # Nil
                            /\ pc'[u] \in Reconnecting \cup {"leased"} <=> at'[u] # Nil
      BY <1>1, <1>2, <1>3, SlotFacts, PoolAssumption DEF TypeOK
    <2> QED BY <1>2, <1>4, <1>5, <2>1, <2>2 DEF TypeOK
  <1>7. SlotsDistinct' /\ NoObjectLeak' /\ NoSocketLeak'
    <2>1. SlotsDistinct'
      BY <1>5 DEF SlotsDistinct
    <2>2. NoObjectLeak'
      BY <1>2, <1>4, <1>5 DEF NoObjectLeak
    <2>3. NoSocketLeak'
      BY <1>4 DEF NoSocketLeak
    <2> QED BY <2>1, <2>2, <2>3
  <1>8. SlotOwned'
    <2>1. at'[t] = s /\ \A u \in Thread \ {t} : at'[u] = at[u]
      BY <1>1 DEF TypeOK
    <2> QED BY <2>1, <1>1, <1>3, <1>5, SlotFacts DEF SlotOwned
  <1>9. LeaseInSlot'
    BY <1>1, <1>3, <1>5, SlotFacts DEF LeaseInSlot, TypeOK, Reconnecting
  <1>10. ReconnectStage'
    BY <1>1, <1>2, <1>3, <1>4, <1>5, SlotFacts DEF ReconnectStage, TypeOK, Reconnecting
  <1>11. SlotsLive'
    BY <1>1, <1>2, <1>3, <1>4, <1>5 DEF SlotsLive, TypeOK
  <1>12. SlotsDisposed'
    <2> SUFFICES ASSUME phase \in {"creating", "open"}, NEW r \in Slot,
                        slot[r].conn # Nil,
                        DISCARDED \in conn'[slot[r].conn].life,
                        conn'[slot[r].conn].open
                 PROVE  \E u \in Thread : lease'[u] = slot[r].conn
      BY <1>2, <1>5 DEF SlotsDisposed
    <2>1. slot[r].conn \in Addr
      BY DEF TypeOK
    <2>2. CASE slot[r].conn = c
      BY <2>2, <1>1 DEF TypeOK
    <2>3. CASE slot[r].conn # c
      <3>1. PICK u \in Thread : lease[u] = slot[r].conn
        BY <2>1, <2>3, <1>4 DEF SlotsDisposed
      <3> QED BY <3>1, <1>1, <1>3, <2>1, PoolAssumption DEF TypeOK
    <2> QED BY <2>2, <2>3
  <1>13. Lifetime'
    BY <1>1, <1>2 DEF Lifetime, ShutdownIsQuiet, TypeOK, NoObjectLeak
  <1>14. PinnedIsLeased'
    <2> SUFFICES ASSUME NEW a \in Addr, PINNED \in conn'[a].life
                 PROVE  /\ RELEASED \notin conn'[a].life
                        /\ \E u \in Thread : lease'[u] = a
      BY DEF PinnedIsLeased
    <2>1. PINNED \in conn[a].life /\ (RELEASED \in conn'[a].life => RELEASED \in conn[a].life)
      BY <1>3, <1>4 DEF TypeOK, ConnRecord
    <2>2. PICK u \in Thread : lease[u] = a
      BY <2>1 DEF PinnedIsLeased
    <2> QED BY <2>1, <2>2, <1>1, <1>3, PoolAssumption DEF PinnedIsLeased, TypeOK
  <1> QED BY <1>6, <1>7, <1>8, <1>9, <1>10, <1>11, <1>12, <1>13, <1>14

\* A free slot concerns no thread, and its connection can be disposed of.
LEMMA FreeSlotFacts ==
    ASSUME IInv, NEW t \in Thread, NEW s \in Free, InLoop(t)
    PROVE  /\ s \in Slot /\ at[t] = Nil /\ lease[t] = Nil
           /\ phase = "open"
           /\ \A u \in Thread : at[u] # s
           /\ slot[s].conn # Nil =>
                /\ slot[s].conn \in Addr
                /\ \A u \in Thread : lease[u] # slot[s].conn
                /\ PINNED \notin conn[slot[s].conn].life
                /\ DISCARDED \in conn[slot[s].conn].life => ~conn[slot[s].conn].open
  <1> USE DEF IInv
  <1>1. s \in Slot /\ at[t] = Nil /\ lease[t] = Nil
    BY SlotFacts DEF TypeOK, Reconnecting, Free, InLoop
  <1>2. phase = "open"
    BY DEF InLoop, Lifetime, TypeOK
  <1>3. \A u \in Thread : at[u] # s
    BY DEF SlotOwned, Free
  <1>4. ASSUME slot[s].conn # Nil
        PROVE  /\ slot[s].conn \in Addr
               /\ \A u \in Thread : lease[u] # slot[s].conn
    <2>1. slot[s].conn \in Addr
      BY <1>1, <1>4 DEF TypeOK
    <2>2. \A u \in Thread : lease[u] # Nil => at[u] \in Slot
      BY DEF TypeOK
    <2> QED BY <1>1, <1>3, <1>4, <2>1, <2>2 DEF LeaseInSlot, SlotsDistinct
  <1>6. ASSUME slot[s].conn # Nil
        PROVE  /\ PINNED \notin conn[slot[s].conn].life
               /\ DISCARDED \in conn[slot[s].conn].life => ~conn[slot[s].conn].open
    BY <1>1, <1>2, <1>4, <1>6 DEF PinnedIsLeased, SlotsDisposed
  <1> QED BY <1>1, <1>2, <1>3, <1>4, <1>6

\* Taking a slot to reconnect it keeps the invariant.
LEMMA TakeUnusableStep ==
    ASSUME IInv, NEW t \in Thread, TakeUnusable(t)
    PROVE  IInv'
  <1> USE DEF IInv
  <1>1. PICK s \in Free :
          /\ slot' = [slot EXCEPT ![s].in_use = TRUE]
          /\ at' = [at EXCEPT ![t] = s]
    BY DEF TakeUnusable, IsFirstFree
  <1>2. /\ InLoop(t)
        /\ pc[t] \in {"entered", "woken"}
        /\ pc' = [pc EXCEPT ![t] = "reconnect"]
        /\ UNCHANGED <<conn, phase, mode, lease, calls>>
    BY DEF TakeUnusable, InLoop
  <1>3. /\ s \in Slot /\ at[t] = Nil /\ lease[t] = Nil
        /\ phase = "open"
        /\ \A u \in Thread : at[u] # s
    BY <1>2, FreeSlotFacts
  <1>4. /\ slot' \in [Slot -> [conn: Addr \cup {Nil}, in_use: BOOLEAN]]
        /\ \A r \in Slot : slot'[r].conn = slot[r].conn
        /\ \A r \in Slot : slot'[r].in_use <=> (r = s \/ slot[r].in_use)
    BY <1>1, <1>3 DEF TypeOK
  <1>5. /\ at' \in [Thread -> Slot \cup {Nil}] /\ pc' \in [Thread -> PC]
        /\ at'[t] = s /\ pc'[t] = "reconnect"
        /\ \A u \in Thread \ {t} : at'[u] = at[u] /\ pc'[u] = pc[u]
    BY <1>1, <1>2, <1>3 DEF TypeOK, PC
  <1>7. TypeOK'
    BY <1>2, <1>3, <1>4, <1>5, SlotFacts DEF TypeOK, Reconnecting
  <1>8. SlotsDistinct' /\ NoObjectLeak' /\ SlotsDisposed'
    BY <1>2, <1>4 DEF SlotsDistinct, NoObjectLeak, SlotsDisposed
  <1>9. SlotOwned'
    BY <1>3, <1>4, <1>5, SlotFacts DEF SlotOwned
  <1>10. LeaseInSlot' /\ NoSocketLeak' /\ PinnedIsLeased'
    BY <1>2, <1>3, <1>4, <1>5, SlotFacts
       DEF LeaseInSlot, NoSocketLeak, PinnedIsLeased, TypeOK, Reconnecting
  <1>11. ReconnectStage' /\ SlotsLive'
    <2>1. \A u \in Thread \ {t} : pc[u] \in {"dangling", "connect", "connected"}
                                  => at[u] \in Slot
      BY DEF TypeOK, Reconnecting
    <2>2. ReconnectStage'
      BY <1>2, <1>4, <1>5, <2>1 DEF ReconnectStage
    <2>3. SlotsLive'
      BY <1>2, <1>3, <1>4, <1>5 DEF SlotsLive
    <2> QED BY <2>2, <2>3
  <1>12. Lifetime'
    BY <1>2, <1>3 DEF Lifetime, ShutdownIsQuiet
  <1> QED BY <1>7, <1>8, <1>9, <1>10, <1>11, <1>12

\* Disposing of a dead connection under the mutex keeps the invariant: nobody
\* else holds the freed address.
LEMMA TakeDeadStep ==
    ASSUME IInv, NEW t \in Thread, TakeDead(t)
    PROVE  IInv'
  <1> USE DEF IInv
  <1>1. PICK s \in Free : \E d \in Disposed(conn[slot[s].conn]) :
          /\ slot[s].conn # Nil
          /\ slot' = [slot EXCEPT ![s] = [conn |-> Nil, in_use |-> TRUE]]
          /\ conn' = [conn EXCEPT ![slot[s].conn] = d]
          /\ at' = [at EXCEPT ![t] = s]
    BY DEF TakeDead, IsFirstFree
  <1>2. /\ InLoop(t)
        /\ pc[t] \in {"entered", "woken"}
        /\ pc' = [pc EXCEPT ![t] = "reconnect"]
        /\ UNCHANGED <<phase, mode, lease, calls>>
    BY DEF TakeDead, InLoop
  <1> DEFINE c == slot[s].conn
  <1>3. /\ s \in Slot /\ at[t] = Nil /\ lease[t] = Nil /\ phase = "open"
        /\ \A u \in Thread : at[u] # s
        /\ c \in Addr /\ \A u \in Thread : lease[u] # c
        /\ PINNED \notin conn[c].life
        /\ DISCARDED \in conn[c].life => ~conn[c].open
    BY <1>1, <1>2, FreeSlotFacts
  <1>4. /\ conn' \in [Addr -> ConnRecord]
        /\ ~conn'[c].live /\ ~conn'[c].open /\ conn'[c].life = {}
        /\ \A a \in Addr \ {c} : conn'[a] = conn[a]
    BY <1>1, <1>3, DisposedFacts DEF TypeOK
  <1>5. /\ slot' \in [Slot -> [conn: Addr \cup {Nil}, in_use: BOOLEAN]]
        /\ slot'[s].conn = Nil /\ slot'[s].in_use
        /\ \A r \in Slot \ {s} : slot'[r] = slot[r]
    BY <1>1, <1>3 DEF TypeOK
  <1>6. /\ at' \in [Thread -> Slot \cup {Nil}] /\ pc' \in [Thread -> PC]
        /\ at'[t] = s /\ pc'[t] = "reconnect"
        /\ \A u \in Thread \ {t} : at'[u] = at[u] /\ pc'[u] = pc[u]
    BY <1>1, <1>2, <1>3 DEF TypeOK, PC
  <1>7. TypeOK'
    BY <1>2, <1>3, <1>4, <1>5, <1>6, SlotFacts DEF TypeOK, Reconnecting
  <1>8. \A r \in Slot \ {s} : slot[r].conn # c
    BY <1>1, <1>3 DEF SlotsDistinct
  <1>9. SlotsDistinct' /\ NoObjectLeak' /\ NoSocketLeak' /\ Lifetime'
    <2>1. SlotsDistinct'
      BY <1>5 DEF SlotsDistinct
    <2>2. NoObjectLeak'
      BY <1>2, <1>3, <1>4, <1>5 DEF NoObjectLeak
    <2>3. NoSocketLeak' /\ Lifetime'
      BY <1>2, <1>3, <1>4 DEF NoSocketLeak, Lifetime, ShutdownIsQuiet
    <2> QED BY <2>1, <2>2, <2>3
  <1>10. SlotOwned'
    BY <1>3, <1>5, <1>6, SlotFacts DEF SlotOwned
  <1>11. LeaseInSlot' /\ PinnedIsLeased'
    BY <1>2, <1>3, <1>4, <1>5, <1>6, SlotFacts
       DEF LeaseInSlot, PinnedIsLeased, TypeOK, Reconnecting
  <1>12. ReconnectStage'
    <2> SUFFICES ASSUME NEW u \in Thread \ {t},
                        pc[u] \in {"dangling", "connect", "connected"}
                 PROVE  /\ at[u] \in Slot \ {s}
                        /\ slot[at[u]].conn # Nil => slot[at[u]].conn \in Addr \ {c}
      BY <1>4, <1>5, <1>6 DEF ReconnectStage
    <2>1. at[u] \in Slot \ {s}
      BY <1>3 DEF TypeOK, Reconnecting
    <2> QED BY <2>1, <1>8 DEF TypeOK
  <1>13. SlotsLive'
    <2> SUFFICES ASSUME NEW r \in Slot \ {s}, slot[r].conn # Nil
                 PROVE  \/ conn[slot[r].conn].live
                        \/ \E u \in Thread \ {t} : at[u] = r /\ pc[u] = "dangling"
      <3>1. \A r \in Slot \ {s} : slot[r].conn # Nil => slot[r].conn \in Addr \ {c}
        BY <1>8 DEF TypeOK
      <3> QED BY <3>1, <1>4, <1>5, <1>6 DEF SlotsLive
    <2> QED BY <1>3, SlotFacts DEF SlotsLive
  <1>14. SlotsDisposed'
    BY <1>2, <1>4, <1>5, <1>8 DEF SlotsDisposed, TypeOK
  <1> QED BY <1>7, <1>9, <1>10, <1>11, <1>12, <1>13, <1>14

---------------------------------------------------------------------------
(* Steps of a reconnection                                                 *)

\* A slot under reconnection belongs to one thread, which may dispose of what
\* it holds.
LEMMA HeldSlotFacts ==
    ASSUME IInv, NEW t \in Thread, pc[t] \in Reconnecting
    PROVE  /\ at[t] \in Slot /\ lease[t] = Nil /\ phase = "open"
           /\ \A u \in Thread \ {t} : at[u] # at[t]
           /\ slot[at[t]].in_use
           /\ slot[at[t]].conn # Nil =>
                /\ slot[at[t]].conn \in Addr
                /\ \A u \in Thread : lease[u] # slot[at[t]].conn
                /\ \A r \in Slot \ {at[t]} : slot[r].conn # slot[at[t]].conn
                /\ PINNED \notin conn[slot[at[t]].conn].life
                /\ DISCARDED \in conn[slot[at[t]].conn].life
                     => ~conn[slot[at[t]].conn].open
  <1> USE DEF IInv
  <1>1. at[t] \in Slot /\ lease[t] = Nil
    BY DEF TypeOK, Reconnecting
  <1>2. phase = "open"
    BY <1>1, SlotFacts DEF Lifetime, ShutdownIsQuiet, TypeOK, Reconnecting
  <1>3. slot[at[t]].in_use /\ \A u \in Thread \ {t} : at[u] # at[t]
    BY <1>1 DEF SlotOwned
  <1>4. ASSUME slot[at[t]].conn # Nil
        PROVE  /\ slot[at[t]].conn \in Addr
               /\ \A u \in Thread : lease[u] # slot[at[t]].conn
               /\ \A r \in Slot \ {at[t]} : slot[r].conn # slot[at[t]].conn
    <2>1. slot[at[t]].conn \in Addr
      BY <1>1, <1>4 DEF TypeOK
    <2>2. \A u \in Thread : lease[u] # Nil => at[u] \in Slot
      BY DEF TypeOK
    <2> QED BY <1>1, <1>3, <1>4, <2>1, <2>2 DEF LeaseInSlot, SlotsDistinct
  <1>5. ASSUME slot[at[t]].conn # Nil
        PROVE  /\ PINNED \notin conn[slot[at[t]].conn].life
               /\ DISCARDED \in conn[slot[at[t]].conn].life
                    => ~conn[slot[at[t]].conn].open
    BY <1>1, <1>2, <1>4, <1>5 DEF PinnedIsLeased, SlotsDisposed
  <1> QED BY <1>1, <1>2, <1>3, <1>4, <1>5

\* A step of thread t's reconnection to stage p: its slot then holds a, and
\* only a and what the slot held before may change.
HeldStep(t, a, p) ==
    /\ conn' \in [Addr -> ConnRecord]
    /\ slot' = [slot EXCEPT ![at[t]].conn = a]
    /\ pc' = [pc EXCEPT ![t] = p]
    /\ UNCHANGED <<phase, mode, at, lease, calls>>
    /\ \A b \in Addr :
         \/ conn'[b] = conn[b]
         \/ /\ b \in {a, slot[at[t]].conn} /\ \A u \in Thread : lease[u] # b
            /\ conn'[b].life = {} /\ (conn'[b].open => conn'[b].live)
    /\ \A b \in Addr :
         conn'[b].live => b = a \/ \E r \in Slot \ {at[t]} : slot[r].conn = b
    /\ a # Nil => \A r \in Slot \ {at[t]} : slot[r].conn # a
    /\ a = Nil => p \notin {"dangling", "connected"}
    /\ a # Nil => /\ p # "connect"
                  /\ conn'[a].live <=> p # "dangling"

\* A thread that reconnects its slot moves to another point of the
\* reconnection, whose stage the new slot and connection fit.
LEMMA HeldSlotStep ==
    ASSUME IInv, NEW t \in Thread, pc[t] \in Reconnecting,
           NEW a \in Addr \cup {Nil}, NEW p \in Reconnecting, HeldStep(t, a, p)
    PROVE  IInv'
  <1> USE DEF IInv, HeldStep
  <1> DEFINE s == at[t]
             c == slot[s].conn
  <1>1. /\ s \in Slot /\ lease[t] = Nil /\ phase = "open"
        /\ \A u \in Thread \ {t} : at[u] # s
        /\ slot[s].in_use
        /\ c # Nil => /\ c \in Addr
                      /\ \A u \in Thread : lease[u] # c
                      /\ \A r \in Slot \ {s} : slot[r].conn # c
    BY HeldSlotFacts
  <1>2. /\ slot' \in [Slot -> [conn: Addr \cup {Nil}, in_use: BOOLEAN]]
        /\ slot'[s].conn = a /\ slot'[s].in_use
        /\ \A r \in Slot \ {s} : slot'[r] = slot[r]
    BY <1>1 DEF TypeOK
  <1>3. /\ pc' \in [Thread -> PC] /\ pc'[t] = p
        /\ \A u \in Thread \ {t} : pc'[u] = pc[u]
    BY DEF TypeOK, PC, Reconnecting
  <1>4. TypeOK'
    BY <1>1, <1>2, <1>3, SlotFacts DEF TypeOK, Reconnecting
  <1>5. SlotsDistinct'
    BY <1>1, <1>2 DEF SlotsDistinct
  <1>6. SlotOwned'
    <2> SUFFICES \A r \in Slot : slot'[r].in_use <=> slot[r].in_use
      BY DEF SlotOwned
    <2> QED BY <1>1, <1>2
  <1>7. LeaseInSlot'
    BY <1>1, <1>2 DEF LeaseInSlot, TypeOK
  <1>8. \A r \in Slot \ {s} : slot[r].conn # Nil => slot[r].conn \in Addr /\ conn'[slot[r].conn] = conn[slot[r].conn]
    BY <1>1 DEF TypeOK
  <1>9. ReconnectStage'
    <2>1. \A u \in Thread \ {t} : pc[u] \in {"dangling", "connect", "connected"}
                                  => at[u] \in Slot \ {s}
      BY <1>1 DEF TypeOK, Reconnecting
    <2> QED BY <1>2, <1>3, <1>8, <2>1 DEF ReconnectStage
  <1>10. SlotsLive'
    <2>1. \A r \in Slot \ {s}, u \in Thread : at[u] = r => u # t
      OBVIOUS
    <2>2. ASSUME NEW r \in Slot \ {s}, slot[r].conn # Nil
          PROVE  \/ conn'[slot[r].conn].live
                 \/ \E u \in Thread \ {t} : at[u] = r /\ pc[u] = "dangling"
      BY <1>8, <2>1, <2>2 DEF SlotsLive
    <2>3. a # Nil => conn'[a].live \/ pc'[t] = "dangling"
      BY <1>3
    <2> QED BY <1>1, <1>2, <1>3, <2>2, <2>3 DEF SlotsLive
  <1>11. SlotsDisposed'
    <2> SUFFICES ASSUME NEW r \in Slot, slot'[r].conn # Nil,
                        DISCARDED \in conn'[slot'[r].conn].life, conn'[slot'[r].conn].open
                 PROVE  \E u \in Thread : lease[u] = slot'[r].conn
      BY DEF SlotsDisposed
    <2>1. CASE r # s
      BY <1>1, <1>2, <1>8, <2>1 DEF SlotsDisposed
    <2>2. CASE r = s
      <3>1. \/ conn'[a] = conn[a] /\ a \in Addr /\ conn[a].live
            \/ p = "dangling"
        BY <1>2, <2>2
      <3> QED BY <1>1, <1>2, <2>2, <3>1 DEF SlotsDisposed, NoObjectLeak, NoSocketLeak
    <2> QED BY <2>1, <2>2
  <1>12. NoObjectLeak'
    BY <1>1, <1>2 DEF NoObjectLeak
  <1>13. NoSocketLeak' /\ PinnedIsLeased'
    BY DEF NoSocketLeak, PinnedIsLeased
  <1>14. Lifetime'
    BY <1>1 DEF Lifetime, ShutdownIsQuiet
  <1> QED BY <1>4, <1>5, <1>6, <1>7, <1>9, <1>10, <1>11, <1>12, <1>13, <1>14

\* Freeing the old connection of a slot under reconnection.
LEMMA ReconnectFreeStep ==
    ASSUME IInv, NEW t \in Thread, ReconnectFree(t)
    PROVE  IInv'
  <1> DEFINE c == slot[at[t]].conn
  <1>1. pc[t] \in Reconnecting /\ c # Nil /\ UNCHANGED <<slot, phase, mode, at, lease, calls>>
    BY DEF ReconnectFree, Reconnecting
  <1>2. /\ at[t] \in Slot /\ c \in Addr
        /\ \A u \in Thread : lease[u] # c
        /\ \A u \in Thread \ {t} : at[u] # at[t]
        /\ \A r \in Slot \ {at[t]} : slot[r].conn # c
        /\ PINNED \notin conn[c].life
        /\ DISCARDED \in conn[c].life => ~conn[c].open
    BY <1>1, HeldSlotFacts
  <1>3. slot' = [slot EXCEPT ![at[t]].conn = c]
    BY <1>1, <1>2 DEF IInv, TypeOK
  <1>4. conn[c].live
    BY <1>1, <1>2 DEF IInv, SlotsLive, ReconnectFree
  <1>5. \A b \in Addr : conn[b].live => b = c \/ \E r \in Slot \ {at[t]} : slot[r].conn = b
    BY <1>2 DEF IInv, NoObjectLeak
  <1>6. CASE Usable(conn[c])
    <2>1. conn' = conn /\ pc' = [pc EXCEPT ![t] = "connected"]
      BY <1>6 DEF ReconnectFree
    <2>2. conn \in [Addr -> ConnRecord]
      BY DEF IInv, TypeOK
    <2>3. "connected" \in Reconnecting
      BY DEF Reconnecting
    <2>4. HeldStep(t, c, "connected")
      BY <1>1, <1>2, <1>3, <1>4, <1>5, <2>1, <2>2, PoolAssumption DEF HeldStep
    <2> QED BY <1>1, <1>2, <2>3, <2>4, HeldSlotStep
  <1>7. CASE ~Usable(conn[c])
    <2>1. PICK d \in Disposed(conn[c]) :
            /\ conn' = [conn EXCEPT ![c] = d]
            /\ pc' = [pc EXCEPT ![t] = "dangling"]
      BY <1>7 DEF ReconnectFree
    <2> DEFINE e == [conn EXCEPT ![c] = d]
    <2>2. /\ d \in ConnRecord /\ ~d.live /\ d.life = {} /\ ~d.open
      BY <1>2, DisposedFacts DEF IInv, TypeOK
    <2>3. /\ e \in [Addr -> ConnRecord] /\ e[c] = d
          /\ \A b \in Addr \ {c} : e[b] = conn[b]
      BY <1>2, <2>2 DEF IInv, TypeOK
    <2>4. "dangling" \in Reconnecting
      BY DEF Reconnecting
    <2>5. HeldStep(t, c, "dangling")
      BY <1>1, <1>2, <1>3, <1>5, <2>1, <2>2, <2>3, PoolAssumption DEF HeldStep
    <2> QED BY <1>1, <1>2, <2>4, <2>5, HeldSlotStep
  <1> QED BY <1>6, <1>7

\* slot->conn = NULL in a slot under reconnection.
LEMMA ReconnectClearStep ==
    ASSUME IInv, NEW t \in Thread, ReconnectClear(t)
    PROVE  IInv'
  <1> DEFINE c == slot[at[t]].conn
  <1>1. /\ pc[t] \in Reconnecting /\ "connect" \in Reconnecting
        /\ pc' = [pc EXCEPT ![t] = "connect"]
        /\ slot' = [slot EXCEPT ![at[t]].conn = Nil]
        /\ UNCHANGED <<conn, phase, mode, at, lease, calls>>
    BY DEF ReconnectClear, Reconnecting
  <1>2. at[t] \in Slot /\ conn \in [Addr -> ConnRecord]
    BY <1>1, HeldSlotFacts DEF IInv, TypeOK
  <1>3. \A b \in Addr : conn[b].live => \E r \in Slot \ {at[t]} : slot[r].conn = b
    BY <1>2, PoolAssumption DEF IInv, NoObjectLeak, ReconnectStage, ReconnectClear
  <1>4. HeldStep(t, Nil, "connect")
    BY <1>1, <1>2, <1>3 DEF HeldStep
  <1> QED BY <1>1, <1>4, HeldSlotStep

\* Publishing a new connection in a slot under reconnection: without dangling
\* addresses no other slot holds it.
LEMMA ConnectOKStep ==
    ASSUME IInv, ~ReuseDangling, NEW t \in Thread, ConnectOK(t)
    PROVE  IInv'
  <1>1. PICK a \in Available :
          /\ conn' = [conn EXCEPT ![a] = Connected]
          /\ slot' = [slot EXCEPT ![at[t]].conn = a]
    BY DEF ConnectOK
  <1>2. /\ pc[t] \in Reconnecting /\ "connected" \in Reconnecting
        /\ pc' = [pc EXCEPT ![t] = "connected"]
        /\ UNCHANGED <<phase, mode, at, lease, calls>>
    BY DEF ConnectOK, Reconnecting
  <1>3. at[t] \in Slot /\ slot[at[t]].conn = Nil
    BY <1>2, HeldSlotFacts DEF IInv, ReconnectStage, ConnectOK
  <1>4. /\ a \in Addr /\ a # Nil /\ \A r \in Slot : slot[r].conn # a
        /\ \A u \in Thread : lease[u] # a
        /\ PINNED \notin conn[a].life
    <2>1. a \in Addr /\ a # Nil /\ \A r \in Slot : slot[r].conn # a
      BY PoolAssumption DEF Available
    <2>2. \A u \in Thread : lease[u] # Nil => at[u] \in Slot
      BY DEF IInv, TypeOK
    <2>3. \A u \in Thread : lease[u] # a
      BY <2>1, <2>2 DEF IInv, LeaseInSlot
    <2> QED BY <2>1, <2>3 DEF IInv, PinnedIsLeased
  <1>5. /\ Connected \in ConnRecord /\ Connected.live /\ Connected.life = {}
    BY DEF Connected, ConnRecord
  <1> DEFINE e == [conn EXCEPT ![a] = Connected]
  <1>6. /\ e \in [Addr -> ConnRecord] /\ e[a] = Connected
        /\ \A b \in Addr \ {a} : e[b] = conn[b]
    BY <1>4, <1>5 DEF IInv, TypeOK
  <1>7. \A b \in Addr : e[b].live => b = a \/ \E r \in Slot \ {at[t]} : slot[r].conn = b
    BY <1>3, <1>6, PoolAssumption DEF IInv, NoObjectLeak
  <1>8. HeldStep(t, a, "connected")
    BY <1>1, <1>2, <1>4, <1>5, <1>6, <1>7 DEF HeldStep
  <1> QED BY <1>2, <1>4, <1>8, HeldSlotStep

\* A failed reconnection leaves slots and connections alone.
LEMMA ConnectFailStep ==
    ASSUME IInv, NEW t \in Thread, ConnectFail(t)
    PROVE  IInv'
  <1>1. /\ pc[t] \in Reconnecting /\ "unconnected" \in Reconnecting
        /\ pc' = [pc EXCEPT ![t] = "unconnected"]
        /\ UNCHANGED <<conn, slot, phase, mode, at, lease, calls>>
    BY DEF ConnectFail, Reconnecting
  <1>2. at[t] \in Slot /\ slot[at[t]].conn = Nil
    BY <1>1, HeldSlotFacts DEF IInv, ReconnectStage, ConnectFail
  <1>3. slot' = [slot EXCEPT ![at[t]].conn = Nil] /\ conn \in [Addr -> ConnRecord]
    BY <1>1, <1>2 DEF IInv, TypeOK
  <1>4. \A b \in Addr : conn[b].live => \E r \in Slot \ {at[t]} : slot[r].conn = b
    BY <1>2, PoolAssumption DEF IInv, NoObjectLeak
  <1>5. HeldStep(t, Nil, "unconnected")
    BY <1>1, <1>3, <1>4 DEF HeldStep
  <1> QED BY <1>1, <1>5, HeldSlotStep

\* Leasing the connection just made: the slot was kept in use all along.
LEMMA AcquireReconnectedStep ==
    ASSUME IInv, NEW t \in Thread, AcquireReconnected(t)
    PROVE  IInv'
  <1> USE DEF IInv
  <1> DEFINE s == at[t]
             c == slot[s].conn
  <1>1. /\ pc[t] \in Reconnecting /\ pc[t] = "connected"
        /\ lease' = [lease EXCEPT ![t] = c]
        /\ pc' = [pc EXCEPT ![t] = "leased"]
        /\ UNCHANGED <<conn, slot, phase, mode, at, calls>>
    BY DEF AcquireReconnected, Reconnecting
  <1>2. /\ s \in Slot /\ lease[t] = Nil /\ phase = "open" /\ c \in Addr /\ c # Nil
        /\ \A u \in Thread \ {t} : at[u] # s
    BY <1>1, HeldSlotFacts, PoolAssumption DEF ReconnectStage
  <1>3. /\ pc' \in [Thread -> PC] /\ lease' \in [Thread -> Addr \cup {Nil}]
        /\ pc'[t] = "leased" /\ lease'[t] = c
        /\ \A u \in Thread \ {t} : lease'[u] = lease[u] /\ pc'[u] = pc[u]
    BY <1>1, <1>2 DEF TypeOK, PC
  <1>4. TypeOK'
    BY <1>1, <1>2, <1>3, SlotFacts DEF TypeOK, Reconnecting
  <1>5. SlotsDistinct' /\ SlotOwned' /\ NoObjectLeak' /\ NoSocketLeak'
    BY <1>1 DEF SlotsDistinct, SlotOwned, NoObjectLeak, NoSocketLeak
  <1>6. LeaseInSlot' /\ ReconnectStage'
    BY <1>1, <1>3 DEF LeaseInSlot, ReconnectStage
  <1>7. SlotsLive'
    BY <1>1, <1>3 DEF SlotsLive
  <1>8. SlotsDisposed' /\ PinnedIsLeased'
    <2>1. \A a \in Addr, u \in Thread : lease[u] = a => lease'[u] = a
      BY <1>2, <1>3, PoolAssumption
    <2>2. \A r \in Slot : slot[r].conn # Nil => slot[r].conn \in Addr
      BY DEF TypeOK
    <2>3. SlotsDisposed'
      BY <1>1, <2>1, <2>2 DEF SlotsDisposed
    <2>4. PinnedIsLeased'
      BY <1>1, <2>1 DEF PinnedIsLeased
    <2> QED BY <2>3, <2>4
  <1>9. Lifetime'
    BY <1>1, <1>2 DEF Lifetime, ShutdownIsQuiet
  <1> QED BY <1>4, <1>5, <1>6, <1>7, <1>8, <1>9

---------------------------------------------------------------------------
(* Steps that free a slot                                                  *)

\* What signalling adds to a step in which t returns to "idle".
LEMMA IdleSignal ==
    ASSUME TypeOK, NEW t \in Thread, Signal([pc EXCEPT ![t] = "idle"])
    PROVE  /\ pc' \in [Thread -> PC]
           /\ pc'[t] = "idle"
           /\ \A u \in Thread \ {t} : \/ pc'[u] = pc[u]
                                      \/ pc[u] = "waiting" /\ pc'[u] = "woken"
  <1>1. [pc EXCEPT ![t] = "idle"] \in [Thread -> PC]
    BY DEF TypeOK, PC
  <1> QED BY <1>1, SignalFacts DEF TypeOK

\* Thread t gives up its slot, whose connection c is no longer in anybody's
\* hands and has nothing left to be disposed of.
FreeStep(t, c) ==
    /\ conn' \in [Addr -> ConnRecord]
    /\ slot' = [slot EXCEPT ![at[t]].in_use = FALSE]
    /\ at' = [at EXCEPT ![t] = Nil]
    /\ lease' = [lease EXCEPT ![t] = Nil]
    /\ Signal([pc EXCEPT ![t] = "idle"])
    /\ UNCHANGED <<phase, mode, calls>>
    /\ c = slot[at[t]].conn
    /\ \A b \in Addr \ {c} : conn'[b] = conn[b]
    /\ c # Nil => /\ conn'[c].live = conn[c].live
                  /\ conn'[c].open => conn[c].open
                  /\ PINNED \notin conn'[c].life
                  /\ DISCARDED \in conn'[c].life => ~conn'[c].open

\* A thread gives its slot back, in a state in which its connection may rest.
LEMMA FreeSlotStep ==
    ASSUME IInv, NEW t \in Thread, pc[t] \in {"leased", "unconnected"},
           NEW c \in Addr \cup {Nil}, FreeStep(t, c)
    PROVE  IInv'
  <1> USE DEF IInv, FreeStep
  <1> DEFINE s == at[t]
  <1>1. /\ s \in Slot /\ phase = "open"
        /\ \A u \in Thread \ {t} : at[u] # s
        /\ lease[t] # Nil => lease[t] = c
    <2>1. s \in Slot
      BY DEF TypeOK, Reconnecting
    <2> QED BY <2>1, SlotFacts
            DEF SlotOwned, Lifetime, ShutdownIsQuiet, TypeOK, LeaseInSlot
  <1>2. /\ slot' \in [Slot -> [conn: Addr \cup {Nil}, in_use: BOOLEAN]]
        /\ ~slot'[s].in_use
        /\ \A r \in Slot : slot'[r].conn = slot[r].conn
        /\ \A r \in Slot \ {s} : slot'[r] = slot[r]
    <2>1. slot' = [slot EXCEPT ![s].in_use = FALSE]
      OBVIOUS
    <2> HIDE DEF FreeStep
    <2> QED BY <1>1, <2>1 DEF TypeOK
  <1>3. /\ at' \in [Thread -> Slot \cup {Nil}] /\ at'[t] = Nil
        /\ lease' \in [Thread -> Addr \cup {Nil}] /\ lease'[t] = Nil
        /\ \A u \in Thread \ {t} : at'[u] = at[u] /\ lease'[u] = lease[u]
    BY DEF TypeOK
  <1>4. /\ pc' \in [Thread -> PC] /\ pc'[t] = "idle"
        /\ \A u \in Thread \ {t} : \/ pc'[u] = pc[u]
                                   \/ pc[u] = "waiting" /\ pc'[u] = "woken"
    BY IdleSignal
  <1>5. TypeOK'
    <2>1. ASSUME NEW u \in Thread
          PROVE  /\ pc'[u] = "leased" <=> lease'[u] # Nil
                 /\ pc'[u] \in Reconnecting \cup {"leased"} <=> at'[u] # Nil
      BY <1>3, <1>4 DEF TypeOK, Reconnecting
    <2> QED BY <1>2, <1>3, <1>4, <2>1 DEF TypeOK
  <1>6. SlotsDistinct'
    BY <1>2 DEF SlotsDistinct
  <1>7. SlotOwned'
    BY <1>1, <1>2, <1>3, SlotFacts DEF SlotOwned
  <1>8. LeaseInSlot'
    <2>1. \A u \in Thread : lease[u] # Nil => at[u] \in Slot
      BY DEF TypeOK
    <2> QED BY <1>2, <1>3, <2>1 DEF LeaseInSlot
  <1>9. \A b \in Addr : /\ conn'[b].live = conn[b].live
                        /\ conn'[b].open => conn[b].open
    BY PoolAssumption
  <1>10. ReconnectStage'
    <2>1. \A u \in Thread \ {t} : pc'[u] \in {"dangling", "connect", "connected"}
                => pc[u] = pc'[u] /\ at[u] \in Slot
      BY <1>4 DEF TypeOK, Reconnecting
    <2>2. \A u \in Thread \ {t} : pc[u] = "dangling" => slot[at[u]].conn \in Addr
      BY DEF TypeOK, Reconnecting, ReconnectStage
    <2> QED BY <1>2, <1>3, <1>4, <1>9, <2>1, <2>2 DEF ReconnectStage
  <1>11. SlotsLive'
    <2>1. \A r \in Slot : slot[r].conn # Nil => slot[r].conn \in Addr
      BY DEF TypeOK
    <2>2. \A u \in Thread : pc[u] = "dangling" => u # t /\ pc'[u] = "dangling"
      BY <1>4
    <2> QED BY <1>2, <1>3, <1>9, <2>1, <2>2 DEF SlotsLive
  <1>12. SlotsDisposed'
    <2> SUFFICES ASSUME NEW r \in Slot, slot[r].conn # Nil,
                        DISCARDED \in conn'[slot[r].conn].life,
                        conn'[slot[r].conn].open
                 PROVE  \E u \in Thread : lease'[u] = slot[r].conn
      BY <1>2 DEF SlotsDisposed
    <2>1. slot[r].conn \in Addr \ {c}
      BY DEF TypeOK
    <2>2. PICK u \in Thread : lease[u] = slot[r].conn
      BY <1>1, <2>1 DEF SlotsDisposed
    <2> QED BY <2>1, <2>2, <1>1, <1>3
  <1>13. NoObjectLeak' /\ NoSocketLeak'
    BY <1>1, <1>2, <1>9 DEF NoObjectLeak, NoSocketLeak
  <1>14. PinnedIsLeased'
    <2> SUFFICES ASSUME NEW a \in Addr, PINNED \in conn'[a].life
                 PROVE  /\ RELEASED \notin conn'[a].life
                        /\ \E u \in Thread : lease'[u] = a
      BY DEF PinnedIsLeased
    <2>1. a # c /\ conn'[a] = conn[a]
      BY PoolAssumption
    <2>2. PICK u \in Thread : lease[u] = a
      BY <2>1 DEF PinnedIsLeased
    <2> QED BY <2>1, <2>2, <1>1, <1>3, PoolAssumption DEF PinnedIsLeased
  <1>15. Lifetime'
    BY <1>1 DEF Lifetime, ShutdownIsQuiet
  <1> QED BY <1>5, <1>6, <1>7, <1>8, <1>10, <1>11, <1>12, <1>13, <1>14, <1>15

\* The slot of a failed reconnection becomes free.
LEMMA AcquireFailedStep ==
    ASSUME IInv, NEW t \in Thread, AcquireFailed(t)
    PROVE  IInv'
  <1> DEFINE c == slot[at[t]].conn
  <1>1. pc[t] \in Reconnecting /\ pc[t] = "unconnected"
    BY DEF AcquireFailed, Reconnecting
  <1>2. /\ at[t] \in Slot /\ lease[t] = Nil /\ c \in Addr \cup {Nil}
        /\ c # Nil => /\ PINNED \notin conn[c].life
                      /\ DISCARDED \in conn[c].life => ~conn[c].open
    BY <1>1, HeldSlotFacts
  <1>3. lease = [lease EXCEPT ![t] = Nil] /\ conn \in [Addr -> ConnRecord]
    BY <1>2 DEF IInv, TypeOK
  <1>4. FreeStep(t, c)
    BY <1>2, <1>3 DEF AcquireFailed, FreeStep
  <1> QED BY <1>1, <1>2, <1>4, FreeSlotStep

\* A successful release frees the borrower's own slot, since no other slot
\* holds the pointer.
LEMMA ReleaseStep ==
    ASSUME IInv, NEW t \in Thread, Release(t)
    PROVE  IInv'
  <1>1. PICK s \in Slot : GiveBack(s, lease[t])
    BY DEF Release
  <1> DEFINE c == lease[t]
  <1>2. /\ pc[t] = "leased" /\ c \in Addr /\ at[t] \in Slot
        /\ slot[at[t]].conn = c /\ c # Nil
    BY PoolAssumption DEF Release, IInv, TypeOK, LeaseInSlot
  <1>3. s = at[t]
    BY <1>1, <1>2 DEF GiveBack, Releasable, IsSlotOf, IInv, SlotsDistinct
  <1>4. PICK d \in ConnRecord :
          /\ conn' = [conn EXCEPT ![c] = d]
          /\ d.live = conn[c].live /\ (d.open => conn[c].open)
          /\ PINNED \notin d.life
          /\ DISCARDED \in d.life => ~d.open
    <2>1. conn[c] \in ConnRecord /\ PINNED \notin conn[c].life
      BY <1>1, <1>2 DEF IInv, TypeOK, GiveBack, Releasable
    <2>2. CASE DISCARDED \in conn[c].life
      <3> DEFINE e == Discarded(conn[c], "OK")
                 d == Marked(e)
      <3>1. /\ e \in ConnRecord /\ e.live = conn[c].live /\ ~e.open
            /\ PINNED \notin e.life
        BY <1>1, <2>1, <2>2, DiscardedFacts DEF GiveBack, PINNED, DISCARDED
      <3>2. conn' = [conn EXCEPT ![c] = d]
        BY <1>1, <2>2 DEF GiveBack
      <3>3. d \in ConnRecord /\ d.live = e.live /\ d.open = e.open /\ PINNED \notin d.life
        <4> HIDE DEF e
        <4> QED BY <3>1 DEF Marked, ConnRecord, Bits, PINNED, RELEASED
      <3> QED BY <3>1, <3>2, <3>3
    <2>3. CASE DISCARDED \notin conn[c].life
      <3> DEFINE d == Marked(conn[c])
      <3>1. conn' = [conn EXCEPT ![c] = d]
        BY <1>1, <2>3 DEF GiveBack
      <3>2. /\ d \in ConnRecord /\ d.live = conn[c].live /\ d.open = conn[c].open
            /\ PINNED \notin d.life /\ DISCARDED \notin d.life
        BY <2>1, <2>3 DEF Marked, ConnRecord, Bits, PINNED, RELEASED, DISCARDED
      <3> QED BY <3>1, <3>2
    <2> QED BY <2>2, <2>3
  <1>5. /\ conn' \in [Addr -> ConnRecord] /\ conn'[c] = d
        /\ \A b \in Addr \ {c} : conn'[b] = conn[b]
    BY <1>2, <1>4 DEF IInv, TypeOK
  <1>6. slot' = [slot EXCEPT ![at[t]].in_use = FALSE]
    BY <1>1, <1>3 DEF GiveBack
  <1>7. FreeStep(t, c)
    BY <1>2, <1>4, <1>5, <1>6 DEF Release, FreeStep
  <1> QED BY <1>2, <1>7, FreeSlotStep

---------------------------------------------------------------------------
(* Creation and destruction                                                *)

\* Creation connects the next slot.
LEMMA CreateSlotStep ==
    ASSUME IInv, ~ReuseDangling, CreateSlot
    PROVE  IInv'
  <1> USE DEF IInv
  <1> DEFINE new == [Connected EXCEPT !.life = {RELEASED}]
  <1>1. PICK s \in Slot, a \in Available :
          /\ slot[s].conn = Nil
          /\ slot' = [slot EXCEPT ![s].conn = a]
          /\ conn' = [conn EXCEPT ![a] = new]
    BY DEF CreateSlot
  <1>2. /\ phase = "creating" /\ phase' \in {"creating", "open"}
        /\ UNCHANGED <<pc, mode, at, lease, calls>>
    BY DEF CreateSlot
  <1>3. \A t \in Thread : pc[t] = "idle" /\ at[t] = Nil /\ lease[t] = Nil
    BY <1>2 DEF Lifetime, TypeOK, Reconnecting
  <1>4. a \in Addr /\ a # Nil /\ \A r \in Slot : slot[r].conn # a
    BY PoolAssumption DEF Available
  <1>5. /\ new \in ConnRecord /\ new.live /\ PINNED \notin new.life
        /\ DISCARDED \notin new.life
    BY DEF Connected, ConnRecord, Bits, PINNED, DISCARDED, RELEASED
  <1> HIDE DEF new
  <1>6. /\ conn' \in [Addr -> ConnRecord] /\ conn'[a] = new
        /\ \A b \in Addr \ {a} : conn'[b] = conn[b]
    BY <1>1, <1>4, <1>5 DEF TypeOK
  <1>7. /\ slot' \in [Slot -> [conn: Addr \cup {Nil}, in_use: BOOLEAN]]
        /\ slot'[s].conn = a
        /\ \A r \in Slot \ {s} : slot'[r] = slot[r]
        /\ \A r \in Slot : slot'[r].in_use <=> slot[r].in_use
    BY <1>1, <1>4 DEF TypeOK
  <1>8. TypeOK'
    BY <1>2, <1>6, <1>7 DEF TypeOK
  <1>9. SlotsDistinct' /\ SlotOwned'
    BY <1>2, <1>4, <1>7 DEF SlotsDistinct, SlotOwned
  <1>10. LeaseInSlot' /\ ReconnectStage' /\ Lifetime'
    BY <1>2, <1>3 DEF LeaseInSlot, ReconnectStage, Lifetime, ShutdownIsQuiet
  <1>11. SlotsLive' /\ SlotsDisposed'
    <2>1. \A r \in Slot \ {s} : slot[r].conn # Nil => /\ slot[r].conn \in Addr \ {a}
                                                      /\ conn[slot[r].conn].live
      BY <1>3, <1>4 DEF SlotsLive, TypeOK
    <2>2. SlotsLive'
      BY <1>5, <1>6, <1>7, <2>1 DEF SlotsLive
    <2>3. SlotsDisposed'
      BY <1>2, <1>5, <1>6, <1>7, <2>1 DEF SlotsDisposed
    <2> QED BY <2>2, <2>3
  <1>12. NoObjectLeak' /\ NoSocketLeak' /\ PinnedIsLeased'
    <2>1. \A r \in Slot : slot[r].conn \in Addr => r # s
      BY <1>1, PoolAssumption
    <2>2. NoObjectLeak'
      BY <1>2, <1>6, <1>7, <2>1 DEF NoObjectLeak
    <2> QED BY <1>2, <1>5, <1>6, <2>2 DEF NoSocketLeak, PinnedIsLeased
  <1> QED BY <1>8, <1>9, <1>10, <1>11, <1>12

\* Teardown while nobody has a slot keeps the invariant, at whichever slot it
\* stops.
LEMMA DisposeStep ==
    ASSUME IInv, \A t \in Thread : at[t] = Nil, Quiescent,
           phase \in {"creating", "open", "shutting_down"},
           NEW n \in 1 .. Size + 1, DisposeUpTo(n)
    PROVE  IInv'
  <1> USE DEF IInv
  <1>1. \A t \in Thread : pc[t] = "idle" /\ lease[t] = Nil
    BY DEF Quiescent, TypeOK, Reconnecting
  <1>2. PICK status \in {"IO_ERROR", "ERR"} :
          conn' = [a \in Addr |->
            IF \E s \in Slot : s < n /\ slot[s].conn = a THEN Torn(conn[a])
            ELSE IF n <= Size /\ slot[n].conn = a
                 THEN Discarded(conn[a], status) ELSE conn[a]]
    BY DEF DisposeUpTo
  <1>3. /\ slot' = [s \in Slot |->
              IF s < n THEN [conn |-> Nil, in_use |-> FALSE] ELSE slot[s]]
        /\ phase' = IF n = Size + 1 THEN "freed" ELSE "shutting_down"
        /\ n <= Size => slot[n].conn # Nil /\ conn[slot[n].conn].open
        /\ UNCHANGED <<pc, mode, at, lease, calls>>
    BY DEF DisposeUpTo
  <1>4. \A a \in Addr : PINNED \notin conn[a].life
    BY <1>1, PoolAssumption DEF PinnedIsLeased
  <1>5. ASSUME NEW a \in Addr
        PROVE  /\ conn'[a] \in ConnRecord /\ PINNED \notin conn'[a].life
               /\ (conn'[a].open => conn'[a].live)
               /\ (conn'[a].live => conn[a].live)
               /\ (\E s \in Slot : s < n /\ slot[s].conn = a) => ~conn'[a].live
               /\ (~\E s \in Slot : s < n /\ slot[s].conn = a) => conn'[a].live = conn[a].live
    <2>0. conn[a] \in ConnRecord /\ (conn[a].open => conn[a].live)
      BY DEF TypeOK, NoSocketLeak
    <2>1. CASE \E s \in Slot : s < n /\ slot[s].conn = a
      BY <1>2, <1>4, <2>1 DEF Torn, FreeMemory, ConnRecord
    <2>2. CASE ~(\E s \in Slot : s < n /\ slot[s].conn = a) /\ n <= Size /\ slot[n].conn = a
      <3>1. conn'[a] = Discarded(conn[a], status) /\ conn[a].open
        BY <1>2, <1>3, <2>2
      <3>2. status \in DiscardStatus(conn[a])
        BY <3>1 DEF DiscardStatus
      <3> QED BY <1>4, <2>0, <2>2, <3>1, <3>2, DiscardedFacts DEF PINNED, DISCARDED
    <2>3. CASE ~(\E s \in Slot : s < n /\ slot[s].conn = a) /\ ~(n <= Size /\ slot[n].conn = a)
      BY <1>2, <1>4, <2>0, <2>3
    <2> QED BY <2>1, <2>2, <2>3
  <1>6. \A r \in Slot : slot'[r] = IF r < n THEN [conn |-> Nil, in_use |-> FALSE]
                                   ELSE slot[r]
    BY <1>3
  <1>7. TypeOK'
    <2>1. conn' \in [Addr -> ConnRecord]
      BY <1>2, <1>5
    <2>2. slot' \in [Slot -> [conn: Addr \cup {Nil}, in_use: BOOLEAN]]
      BY <1>3 DEF TypeOK
    <2> QED BY <1>3, <2>1, <2>2 DEF TypeOK
  <1>8. SlotsDistinct'
    <2>1. \A r \in Slot : slot'[r].conn # Nil => slot'[r] = slot[r]
      BY <1>6
    <2> QED BY <2>1 DEF SlotsDistinct
  <1>9. SlotOwned'
    <2>1. \A r \in Slot : ~slot[r].in_use
      BY SlotFacts DEF SlotOwned
    <2>2. ASSUME NEW r \in Slot PROVE ~slot'[r].in_use
      <3>1. slot'[r] = [conn |-> Nil, in_use |-> FALSE] \/ slot'[r] = slot[r]
        BY <1>6
      <3> QED BY <2>1, <3>1
    <2>3. \A t \in Thread : at'[t] = Nil
      BY <1>3
    <2>4. \A r \in Slot : r # Nil
      BY SlotFacts
    <2> HIDE DEF IInv
    <2> QED BY <2>2, <2>3, <2>4 DEF SlotOwned
  <1>10. LeaseInSlot' /\ ReconnectStage' /\ SlotsDisposed' /\ Lifetime'
    BY <1>1, <1>3 DEF LeaseInSlot, ReconnectStage, SlotsDisposed, Lifetime, ShutdownIsQuiet
  <1>11. SlotsLive'
    <2> SUFFICES ASSUME NEW r \in Slot, slot'[r].conn # Nil
                 PROVE  conn'[slot'[r].conn].live
      BY DEF SlotsLive
    <2>1. slot'[r] = slot[r] /\ ~(r < n) /\ slot[r].conn \in Addr
      BY <1>6 DEF TypeOK
    <2>2. conn[slot[r].conn].live
      BY <1>1, <2>1 DEF SlotsLive
    <2>3. ~\E s \in Slot : s < n /\ slot[s].conn = slot[r].conn
      BY <2>1 DEF SlotsDistinct
    <2> QED BY <1>5, <2>1, <2>2, <2>3
  <1>12. NoObjectLeak'
    <2>1. ASSUME NEW a \in Addr, conn'[a].live
          PROVE  \E r \in Slot : slot'[r].conn = a
      <3>1. PICK r \in Slot : slot[r].conn = a
        BY <1>5, <2>1 DEF NoObjectLeak
      <3>2. ~(r < n)
        BY <1>5, <2>1, <3>1
      <3> QED BY <1>6, <3>1, <3>2
    <2>2. phase' = "freed" => \A r \in Slot : slot'[r].conn = Nil
      BY <1>3, <1>6, PoolAssumption DEF Slot
    <2> QED BY <2>1, <2>2 DEF NoObjectLeak
  <1>13. NoSocketLeak' /\ PinnedIsLeased'
    BY <1>5 DEF NoSocketLeak, PinnedIsLeased
  <1> QED BY <1>7, <1>8, <1>9, <1>10, <1>11, <1>12, <1>13

---------------------------------------------------------------------------
(* The borrower's own steps                                                *)

\* Every action of a borrower is such a change of its connection.
LEMMA BorrowerSteps ==
    ASSUME IInv, NEW t \in Thread, Borrower(t) \/ ReleaseFails(t)
    PROVE  IInv'
  <1> DEFINE c == lease[t]
  <1>1. pc[t] = "leased" /\ UNCHANGED poolVars
    BY DEF Borrower, BorrowerClose, Pin, Interrupt, Finish, ReleaseFails
  <1>2. c \in Addr /\ conn[c] \in ConnRecord
    BY <1>1 DEF IInv, TypeOK
  <1>3. PINNED \in conn[c].life => RELEASED \notin conn[c].life
    BY <1>2 DEF IInv, PinnedIsLeased
  <1> SUFFICES \E d \in ConnRecord :
                 /\ conn' = [conn EXCEPT ![c] = d]
                 /\ d.live = conn[c].live
                 /\ d.open => conn[c].open
                 /\ PINNED \in d.life => RELEASED \notin d.life
    BY <1>1, BorrowerStep
  <1>4. CASE BorrowerClose(t)
    <2>1. PICK d \in Closed(conn[c]) : conn' = [conn EXCEPT ![c] = d]
      BY <1>4 DEF BorrowerClose
    <2>2. PINNED \notin conn[c].life
      BY <1>4 DEF BorrowerClose
    <2> QED BY <1>2, <2>1, <2>2, ClosedFacts DEF PINNED, DISCARDED
  <1>5. CASE Pin(t)
    <2> DEFINE d == [conn[c] EXCEPT !.life = {PINNED}]
    <2>1. conn' = [conn EXCEPT ![c] = d]
      BY <1>5 DEF Pin
    <2>2. /\ d \in ConnRecord /\ d.live = conn[c].live /\ d.open = conn[c].open
          /\ RELEASED \notin d.life
      BY <1>2 DEF ConnRecord, Bits, PINNED, RELEASED
    <2> QED BY <2>1, <2>2
  <1>6. CASE Interrupt(t)
    <2> DEFINE d == [conn[c] EXCEPT !.life = @ \cup {DISCARDED}]
    <2>1. conn' = [conn EXCEPT ![c] = d]
      BY <1>6 DEF Interrupt
    <2>2. /\ d \in ConnRecord /\ d.live = conn[c].live /\ d.open = conn[c].open
          /\ PINNED \in d.life => RELEASED \notin d.life
      BY <1>2, <1>3 DEF ConnRecord, Bits, PINNED, DISCARDED, RELEASED
    <2> QED BY <2>1, <2>2
  <1>7. CASE Finish(t)
    <2>1. PICK e : /\ e = conn[c] \/ \E status \in DiscardStatus(conn[c]) :
                                        e = Discarded(conn[c], status)
                   /\ conn' = [conn EXCEPT ![c] = [e EXCEPT !.life = @ \ {PINNED}]]
      BY <1>7 DEF Finish
    <2>2. e \in ConnRecord /\ e.live = conn[c].live /\ (e.open => conn[c].open)
      BY <1>2, <2>1, DiscardedFacts
    <2> DEFINE d == [e EXCEPT !.life = @ \ {PINNED}]
    <2>3. /\ d \in ConnRecord /\ d.live = e.live /\ d.open = e.open
          /\ PINNED \notin d.life
      BY <2>2 DEF ConnRecord
    <2> QED BY <2>1, <2>2, <2>3
  <1>8. CASE ReleaseFails(t)
    <2>1. PICK status \in DiscardStatus(conn[c]) :
            conn' = [conn EXCEPT ![c] = Discarded(conn[c], status)]
      BY <1>8 DEF ReleaseFails
    <2>2. PINNED \notin conn[c].life
      BY <1>8 DEF ReleaseFails, Releasable
    <2> QED BY <1>2, <2>1, <2>2, DiscardedFacts DEF PINNED, DISCARDED
  <1> QED BY <1>4, <1>5, <1>6, <1>7, <1>8 DEF Borrower

\* The steps of acquire that touch neither slots nor connections.
LEMMA RestingSteps ==
    ASSUME IInv, NEW t \in Thread,
           \/ \E m \in Timeouts : Call(t, m)
           \/ NoSlot(t) \/ SpuriousWake(t) \/ WaitTimeout(t)
           \/ TimeoutAfterSignal(t) \/ AcquireRefused(t)
    PROVE  IInv'
  <1>1. phase \notin {"creating", "freed"}
    BY DEF IInv, Lifetime, Call, NoSlot, InLoop, SpuriousWake, WaitTimeout,
           TimeoutAfterSignal, AcquireRefused
  <1>2. pc \in [Thread -> PC] /\ pc[t] \in PC /\ calls[t] \in 0 .. MaxCalls
    BY DEF IInv, TypeOK
  <1>3. ASSUME NEW m \in Timeouts, Call(t, m) PROVE IInv'
    <2>1. /\ mode' \in [Thread -> {"infinite", "timed", "try"}]
          /\ calls' \in [Thread -> 0 .. MaxCalls]
      BY <1>2, <1>3, PoolAssumption DEF Call, IInv, TypeOK
    <2> QED BY <1>1, <1>2, <1>3, <2>1, RestingStep DEF Call, Resting, PC
  <1>4. CASE NoSlot(t)
    BY <1>1, <1>2, <1>4, RestingStep DEF NoSlot, InLoop, Resting, PC, IInv, TypeOK
  <1>5. CASE SpuriousWake(t) \/ WaitTimeout(t) \/ AcquireRefused(t)
    BY <1>1, <1>2, <1>5, RestingStep
       DEF SpuriousWake, WaitTimeout, AcquireRefused, Resting, PC, IInv, TypeOK
  <1>6. CASE TimeoutAfterSignal(t)
    <2> DEFINE p == [pc EXCEPT ![t] = "idle"]
    <2>1. p \in [Thread -> PC] /\ pc[t] = "woken" /\ (pc' = p \/ Signal(p))
      BY <1>2, <1>6 DEF TimeoutAfterSignal, PC
    <2>2. /\ pc' \in [Thread -> PC]
          /\ \A u \in Thread : \/ pc'[u] = pc[u]
                               \/ pc[u] \in Resting /\ pc'[u] \in Resting
      BY <1>2, <2>1, SignalFacts DEF Resting
    <2> QED BY <1>1, <1>6, <2>2, RestingStep DEF TimeoutAfterSignal, IInv, TypeOK
  <1> QED BY <1>3, <1>4, <1>5, <1>6

---------------------------------------------------------------------------
(* The theorems                                                            *)

\* The invariant holds before the pool is created.
LEMMA InitIInv == Init => IInv
  <1> SUFFICES ASSUME Init PROVE IInv
    OBVIOUS
  <1>1. FreeMemory \in ConnRecord /\ ~FreeMemory.live /\ ~FreeMemory.open
        /\ FreeMemory.life = {}
    BY DEF FreeMemory, ConnRecord
  <1>2. TypeOK
    BY <1>1, PoolAssumption DEF Init, TypeOK, PC, Reconnecting
  <1>3. SlotsDistinct /\ SlotOwned /\ LeaseInSlot /\ ReconnectStage
    BY SlotFacts
       DEF Init, SlotsDistinct, SlotOwned, LeaseInSlot, ReconnectStage
  <1>4. SlotsLive /\ SlotsDisposed /\ Lifetime /\ NoObjectLeak
    BY <1>1 DEF Init, SlotsLive, SlotsDisposed, Lifetime, ShutdownIsQuiet, NoObjectLeak
  <1>5. NoSocketLeak /\ PinnedIsLeased
    BY <1>1 DEF Init, NoSocketLeak, PinnedIsLeased
  <1> QED BY <1>2, <1>3, <1>4, <1>5 DEF IInv

\* Every step keeps the invariant.
LEMMA NextIInv ==
    ASSUME IInv, ~ReuseDangling, [Next]_vars
    PROVE  IInv'
  <1>1. ASSUME NEW t \in Thread, Acquire(t) PROVE IInv'
    BY <1>1, TakeReadyStep, TakeDeadStep, TakeUnusableStep, ReconnectFreeStep,
       ReconnectClearStep, ConnectOKStep, ConnectFailStep, AcquireReconnectedStep,
       AcquireFailedStep, RestingSteps DEF Acquire
  <1>2. ASSUME NEW t \in Thread, PoolNext(t) PROVE IInv'
    BY <1>1, <1>2, RestingSteps, ReleaseStep, BorrowerSteps DEF PoolNext
  <1>3. CASE CreateFails
    <2>1. /\ \A t \in Thread : at[t] = Nil
          /\ Quiescent
      BY <1>3 DEF CreateFails, IInv, Lifetime, Quiescent, TypeOK, Reconnecting
    <2> QED BY <1>3, <2>1, DisposeStep DEF CreateFails
  <1>4. CASE PoolDestroy
    <2>1. \A t \in Thread : at[t] = Nil
      BY <1>4 DEF PoolDestroy, IInv, SlotOwned, TypeOK, Free
    <2> QED BY <1>4, <2>1, DisposeStep DEF PoolDestroy
  <1>5. CASE UNCHANGED vars
    BY <1>5 DEF vars, poolVars, IInv, TypeOK, SlotsDistinct, SlotOwned, LeaseInSlot,
                ReconnectStage, SlotsLive, SlotsDisposed, Lifetime, ShutdownIsQuiet,
                NoObjectLeak, NoSocketLeak, PinnedIsLeased
  <1> QED BY <1>2, <1>3, <1>4, <1>5, CreateSlotStep, BorrowerSteps DEF Next

\* Leases are exclusive, and of allocated connections, wherever the invariant holds.
LEMMA LeasesExclusive == ASSUME IInv PROVE LeaseExclusive
  <1> SUFFICES ASSUME NEW t \in Thread, lease[t] # Nil
               PROVE  /\ conn[lease[t]].live
                      /\ at[t] # Nil
                      /\ slot[at[t]] = [conn |-> lease[t], in_use |-> TRUE]
                      /\ \A u \in Thread \ {t} : lease[u] # lease[t]
    BY DEF LeaseExclusive
  <1>1. /\ at[t] \in Slot /\ lease[t] \in Addr /\ slot[at[t]].conn = lease[t]
        /\ pc[t] = "leased"
    BY DEF IInv, TypeOK, LeaseInSlot
  <1>2. slot[at[t]].in_use /\ \A u \in Thread \ {t} : at[u] # at[t]
    BY <1>1 DEF IInv, SlotOwned
  <1>3. slot[at[t]] = [conn |-> lease[t], in_use |-> TRUE]
    BY <1>1, <1>2 DEF IInv, TypeOK
  <1>4. conn[lease[t]].live
    BY <1>1, <1>2 DEF IInv, SlotsLive
  <1>5. ASSUME NEW u \in Thread \ {t}, lease[u] = lease[t] PROVE FALSE
    <2>1. at[u] \in Slot /\ slot[at[u]].conn = lease[t]
      BY <1>5 DEF IInv, TypeOK, LeaseInSlot
    <2>2. at[u] = at[t]
      BY <1>1, <2>1 DEF IInv, SlotsDistinct
    <2> QED BY <1>2, <2>2
  <1> QED BY <1>1, <1>2, <1>3, <1>4, <1>5, SlotFacts

\* The inductive invariant holds in every reachable state, unless calloc hands
\* out an address that a slot still holds.
THEOREM Invariant == ASSUME ~ReuseDangling PROVE Spec => []IInv
  BY InitIInv, NextIInv, PTL DEF Spec

\* Type correctness of the pool's state.
THEOREM TypeCorrect == ASSUME ~ReuseDangling PROVE Spec => []TypeOK
  <1>1. IInv => TypeOK
    BY DEF IInv
  <1> QED BY <1>1, Invariant, PTL

\* No two borrowers share a connection, and a borrowed one stays allocated, in
\* the slot it was borrowed from.
THEOREM Exclusion == ASSUME ~ReuseDangling PROVE Spec => []LeaseExclusive
  BY LeasesExclusive, Invariant, PTL

\* Every slot in use has one thread that will give it back, whatever failed; once
\* destruction has begun none is in use, so acquire never finds shutting_down set
\* after a reconnection.
THEOREM SlotsAccounted == ASSUME ~ReuseDangling PROVE Spec => []SlotKept
  <1>1. IInv => SlotKept
    BY DEF IInv, Lifetime, SlotKept
  <1> QED BY <1>1, Invariant, PTL

\* No connection object, and no open socket, is ever lost.
THEOREM NothingLeaks ==
    ASSUME ~ReuseDangling PROVE Spec => []NoLeak
  <1>1. IInv => NoLeak
    BY DEF IInv, NoLeak
  <1> QED BY <1>1, Invariant, PTL

\* A connection is never taken from under a registered operation.
THEOREM PinRespected == ASSUME ~ReuseDangling PROVE Spec => []PinnedIsLeased
  <1>1. IInv => PinnedIsLeased
    BY DEF IInv
  <1> QED BY <1>1, Invariant, PTL

---------------------------------------------------------------------------
(* What the pool does to connections, for a component that pins them         *)

\* A connection that changes is not pinned, before or after, and loses the
\* discard mark only when it is freed.
Handled(a) ==
    /\ PINNED \notin conn[a].life
    /\ PINNED \notin conn'[a].life
    /\ conn[a].live /\ DISCARDED \in conn[a].life /\ conn'[a].live
         => DISCARDED \in conn'[a].life

\* A connection object is created at the address a.
Born(a) == ~conn[a].live /\ conn'[a].live

\* A new object is neither pinned nor discarded, and one at most is new.
ConnectionsKept ==
    /\ \A a \in Addr : conn'[a] = conn[a] \/ Handled(a)
    /\ \A a, b \in Addr : Born(a) /\ Born(b) => a = b

\* A step that changes one unpinned connection.
LEMMA OneConnection ==
    ASSUME TypeOK, NEW c \in Addr, NEW d, conn' = [conn EXCEPT ![c] = d],
           PINNED \notin conn[c].life, PINNED \notin d.life,
           conn[c].live /\ DISCARDED \in conn[c].life /\ d.live => DISCARDED \in d.life
    PROVE  ConnectionsKept
  BY DEF ConnectionsKept, Handled, Born, TypeOK

\* A pinned connection is on lease, hence allocated.
LEMMA PinnedLive ==
    ASSUME IInv, NEW a \in Addr, PINNED \in conn[a].life
    PROVE  conn[a].live
  <1>1. PICK t \in Thread : lease[t] = a
    BY DEF IInv, PinnedIsLeased
  <1> QED BY <1>1, LeasesExclusive, PoolAssumption DEF LeaseExclusive

\* Taking a slot.
LEMMA TakeKeeps ==
    ASSUME IInv, NEW t \in Thread, TakeReady(t) \/ TakeDead(t) \/ TakeUnusable(t)
    PROVE  ConnectionsKept
  <1> USE DEF IInv
  <1>1. CASE TakeReady(t)
    <2>1. PICK s \in Free :
            /\ InLoop(t) /\ slot[s].conn # Nil
            /\ conn' = [conn EXCEPT ![slot[s].conn].life = @ \ {RELEASED}]
      BY <1>1 DEF TakeReady, IsFirstFree
    <2> DEFINE c == slot[s].conn
               d == [conn[c] EXCEPT !.life = @ \ {RELEASED}]
    <2>2. c \in Addr /\ PINNED \notin conn[c].life /\ conn[c] \in ConnRecord
      BY <2>1, FreeSlotFacts DEF TypeOK
    <2>3. d.life = conn[c].life \ {RELEASED}
      BY <2>2 DEF ConnRecord
    <2>4. conn' = [conn EXCEPT ![c] = d]
      BY <2>1
    <2> HIDE DEF c, d
    <2> QED BY <2>2, <2>3, <2>4, OneConnection DEF DISCARDED, RELEASED
  <1>2. CASE TakeDead(t)
    <2>0. PICK s \in Free :
            /\ InLoop(t) /\ slot[s].conn # Nil
            /\ \E d \in Disposed(conn[slot[s].conn]) : conn' = [conn EXCEPT ![slot[s].conn] = d]
      BY <1>2 DEF TakeDead, IsFirstFree
    <2>1. PICK d \in Disposed(conn[slot[s].conn]) :
            conn' = [conn EXCEPT ![slot[s].conn] = d]
      BY <2>0
    <2>2. /\ slot[s].conn \in Addr /\ PINNED \notin conn[slot[s].conn].life
          /\ conn[slot[s].conn] \in ConnRecord
      BY <2>0, FreeSlotFacts DEF TypeOK
    <2>3. d.life = {} /\ ~d.live
      BY <2>2, DisposedFacts
    <2> QED BY <2>1, <2>2, <2>3, OneConnection
  <1>3. CASE TakeUnusable(t)
    BY <1>3 DEF TakeUnusable, ConnectionsKept, Born
  <1> QED BY <1>1, <1>2, <1>3

\* Reconnecting a slot, or creating one.
LEMMA ConnectKeeps ==
    ASSUME IInv, CreateSlot \/ \E t \in Thread : ReconnectFree(t) \/ ConnectOK(t)
    PROVE  ConnectionsKept
  <1> USE DEF IInv
  <1>1. ASSUME NEW t \in Thread, ReconnectFree(t) PROVE ConnectionsKept
    <2> DEFINE c == slot[at[t]].conn
    <2>1. c \in Addr /\ PINNED \notin conn[c].life /\ conn[c] \in ConnRecord
      BY <1>1, HeldSlotFacts DEF ReconnectFree, Reconnecting, TypeOK
    <2>2. CASE conn' = conn
      BY <2>2 DEF ConnectionsKept, Born
    <2>3. ASSUME NEW d \in Disposed(conn[c]), conn' = [conn EXCEPT ![c] = d]
          PROVE  ConnectionsKept
      <3>1. d.life = {} /\ ~d.live
        BY <2>1, <2>3, DisposedFacts
      <3> QED BY <2>1, <2>3, <3>1, OneConnection
    <2> QED BY <1>1, <2>2, <2>3 DEF ReconnectFree
  <1>2. CASE CreateSlot \/ \E t \in Thread : ConnectOK(t)
    <2>1. PICK a \in Addr, life \in {{}, {RELEASED}} :
            /\ ~conn[a].live
            /\ conn' = [conn EXCEPT ![a] = [Connected EXCEPT !.life = life]]
      <3>1. [Connected EXCEPT !.life = {}] = Connected
        BY DEF Connected
      <3> QED BY <1>2, <3>1 DEF ConnectOK, CreateSlot, Available
    <2>2. PINNED \notin conn[a].life
      BY <2>1, PinnedLive
    <2>3. [Connected EXCEPT !.life = life].life = life /\ PINNED \notin life
      BY DEF Connected, PINNED, RELEASED
    <2> QED BY <2>1, <2>2, <2>3, OneConnection
  <1> QED BY <1>1, <1>2

\* Returning a lease, and closing its connection.
LEMMA ReturnKeeps ==
    ASSUME IInv, NEW t \in Thread, Release(t) \/ ReleaseFails(t) \/ BorrowerClose(t)
    PROVE  ConnectionsKept
  <1> USE DEF IInv
  <1> DEFINE c == lease[t]
  <1>1. c \in Addr /\ conn[c] \in ConnRecord
    BY DEF TypeOK, Release, ReleaseFails, BorrowerClose
  <1>2. PINNED \notin conn[c].life
    BY DEF Release, GiveBack, ReleaseFails, BorrowerClose, Releasable
  <1>3. PICK d : conn' = [conn EXCEPT ![c] = d] /\ conn[c].life \subseteq d.life
                 /\ PINNED \notin d.life
    <2>1. CASE Release(t)
      <3>1. \/ conn' = [conn EXCEPT ![c] = Marked(Discarded(conn[c], "OK"))]
            \/ conn' = [conn EXCEPT ![c] = Marked(conn[c])]
        BY <2>1, <1>1 DEF Release, GiveBack, TypeOK
      <3>2. "OK" \in DiscardStatus(conn[c])
        BY DEF DiscardStatus
      <3>3. \A e \in ConnRecord : Marked(e).life = e.life \cup {RELEASED}
        BY DEF Marked, ConnRecord
      <3> QED BY <1>1, <1>2, <3>1, <3>2, <3>3, DiscardedFacts
              DEF PINNED, RELEASED, DISCARDED
    <2>2. CASE ReleaseFails(t)
      <3>1. PICK status \in DiscardStatus(conn[c]) :
              conn' = [conn EXCEPT ![c] = Discarded(conn[c], status)]
        BY <2>2, <1>1 DEF ReleaseFails, TypeOK
      <3> QED BY <1>1, <1>2, <3>1, DiscardedFacts DEF PINNED, DISCARDED
    <2>3. CASE BorrowerClose(t)
      <3>1. PICK d \in Closed(conn[c]) : conn' = [conn EXCEPT ![c] = d]
        BY <2>3 DEF BorrowerClose
      <3> QED BY <1>1, <1>2, <3>1, ClosedFacts DEF PINNED, DISCARDED
    <2> QED BY <2>1, <2>2, <2>3
  <1> HIDE DEF c
  <1> QED BY <1>1, <1>2, <1>3, OneConnection

\* Tearing down the slots.
LEMMA DisposeKeeps ==
    ASSUME IInv, \A t \in Thread : lease[t] = Nil, NEW n, DisposeUpTo(n)
    PROVE  ConnectionsKept
  <1> USE DEF IInv
  <1>1. PICK status :
          conn' = [a \in Addr |->
            IF \E s \in Slot : s < n /\ slot[s].conn = a THEN Torn(conn[a])
            ELSE IF n <= Size /\ slot[n].conn = a
                 THEN Discarded(conn[a], status) ELSE conn[a]]
    BY DEF DisposeUpTo
  <1>2. ASSUME NEW a \in Addr
        PROVE  /\ conn'[a] = conn[a] \/ Handled(a)
               /\ conn'[a].live => conn[a].live
    <2>1. PINNED \notin conn[a].life /\ conn[a] \in ConnRecord
      BY PoolAssumption DEF PinnedIsLeased, TypeOK
    <2>2. \/ conn'[a] = FreeMemory
          \/ conn'[a] = Discarded(conn[a], status)
          \/ conn'[a] = conn[a]
      BY <1>1, <2>1 DEF Torn
    <2>3. CASE conn'[a] = FreeMemory
      BY <2>1, <2>3 DEF FreeMemory, Handled
    <2>4. CASE conn'[a] = Discarded(conn[a], status)
      <3>1. conn'[a].life = conn[a].life \cup {DISCARDED} /\ conn'[a].live = conn[a].live
        BY <2>1, <2>4 DEF Discarded, ConnRecord
      <3> QED BY <2>1, <3>1 DEF Handled, PINNED, DISCARDED
    <2>5. CASE conn'[a] = conn[a]
      BY <2>5
    <2> QED BY <2>2, <2>3, <2>4, <2>5
  <1> QED BY <1>2 DEF ConnectionsKept, Born

\* No step but a registered operation's own touches a pinned connection or brings
\* a discarded one back.
LEMMA PoolKeepsConnections ==
    ASSUME IInv,
           \/ \E t \in Thread : PoolNext(t) \/ BorrowerClose(t)
           \/ CreateSlot \/ CreateFails \/ PoolDestroy
    PROVE  ConnectionsKept
  <1>1. ASSUME NEW t \in Thread, PoolNext(t) \/ BorrowerClose(t) PROVE ConnectionsKept
    <2>1. CASE conn' = conn
      BY <2>1 DEF ConnectionsKept, Born
    <2>2. CASE Acquire(t)
      BY <2>1, <2>2, TakeKeeps, ConnectKeeps
         DEF Acquire, ReconnectClear, ConnectFail, AcquireReconnected, AcquireFailed,
             NoSlot, AcquireRefused
    <2>3. CASE \E m \in Timeouts : Call(t, m)
      BY <2>1, <2>3 DEF Call
    <2>4. CASE SpuriousWake(t) \/ WaitTimeout(t) \/ TimeoutAfterSignal(t)
      BY <2>1, <2>4 DEF SpuriousWake, WaitTimeout, TimeoutAfterSignal
    <2> QED BY <1>1, <2>2, <2>3, <2>4, ReturnKeeps DEF PoolNext
  <1>2. CASE CreateSlot
    BY <1>2, ConnectKeeps
  <1>3. CASE CreateFails \/ PoolDestroy
    <2>1. \A t \in Thread : lease[t] = Nil
      BY <1>3, SlotFacts DEF CreateFails, PoolDestroy, IInv, Lifetime, TypeOK, SlotOwned, Free
    <2> QED BY <1>3, <2>1, DisposeKeeps DEF CreateFails, PoolDestroy
  <1> QED BY <1>1, <1>2, <1>3

---------------------------------------------------------------------------
(* Refinement of the lease service                                         *)

\* The refinement mapping of Pool, named.
Loan == [t \in Thread |-> [slot |-> IF pc[t] = "leased" THEN at[t] ELSE Nil,
                           conn |-> lease[t]]]
Closing == phase \in {"shutting_down", "freed"}

\* A step that begins or ends no lease is a stutter of the service.
LEMMA LoanUnchanged ==
    ASSUME TypeOK, TypeOK', UNCHANGED lease,
           \A t \in Thread : pc[t] = "leased" => at'[t] = at[t]
    PROVE  Loan' = Loan
  <1>1. \A t \in Thread : pc'[t] = "leased" <=> pc[t] = "leased"
    BY DEF TypeOK
  <1> QED BY <1>1 DEF Loan

\* Acquire hands a free slot's connection to thread t.
LEMMA LoanBorrowed ==
    ASSUME IInv, TypeOK', LeaseExclusive', NEW t \in Thread, pc[t] # "leased",
           pc'[t] = "leased", phase = "open", phase' = phase,
           \A u \in Thread \ {t} : pc'[u] = pc[u] /\ at'[u] = at[u] /\ lease'[u] = lease[u]
    PROVE  L!Next
  <1>1. /\ lease[t] = Nil /\ at'[t] \in Slot /\ lease'[t] \in Addr
    BY DEF IInv, TypeOK, Reconnecting
  <1>2. \A u \in Thread : Loan[u] = [slot |-> IF pc[u] = "leased" THEN at[u] ELSE Nil,
                                     conn |-> lease[u]]
    BY DEF Loan
  <1>3. Loan[t] = L!None
    BY <1>1, <1>2 DEF L!None
  <1>0. PICK s \in Slot, c \in Addr : s = at'[t] /\ c = lease'[t]
    BY <1>1
  <1>4. Loan' = [Loan EXCEPT ![t] = [slot |-> s, conn |-> c]]
    BY <1>0 DEF Loan
  <1>5. ASSUME NEW u \in Thread, Loan[u] # L!None
        PROVE  Loan[u].slot # s /\ Loan[u].conn # c
    <2>1. u # t /\ pc[u] = "leased" /\ lease[u] # Nil
      BY <1>2, <1>3, <1>5 DEF L!None, IInv, TypeOK
    <2>2. lease'[u] # lease'[t]
      BY <1>1, <2>1, PoolAssumption DEF LeaseExclusive
    <2>3. at'[u] # at'[t]
      <3>1. /\ slot'[at'[u]] = [conn |-> lease'[u], in_use |-> TRUE]
            /\ slot'[at'[t]] = [conn |-> lease'[t], in_use |-> TRUE]
        BY <1>1, <2>1, PoolAssumption DEF LeaseExclusive
      <3> QED BY <2>2, <3>1
    <2>4. Loan[u] = [slot |-> at[u], conn |-> lease[u]]
      BY <1>2, <2>1
    <2>5. at'[u] = at[u] /\ lease'[u] = lease[u]
      BY <2>1
    <2> QED BY <1>0, <2>2, <2>3, <2>4, <2>5
  <1>6. ~Closing /\ UNCHANGED Closing
    BY DEF Closing
  <1>7. L!Borrow(t, s, c)
    <2> SUFFICES /\ ~Closing
                 /\ Loan[t] = L!None
                 /\ \A u \in Thread : Loan[u] # L!None =>
                       Loan[u].slot # s /\ Loan[u].conn # c
                 /\ Loan' = [Loan EXCEPT ![t] = [slot |-> s, conn |-> c]]
                 /\ UNCHANGED Closing
      BY Zenon DEF L!Borrow, Loan, Closing
    <2>1. \A u \in Thread : Loan[u] # L!None =>
              Loan[u].slot # s /\ Loan[u].conn # c
      BY <1>5
    <2> QED BY <1>3, <1>4, <1>6, <2>1, Zenon
  <1> QED BY <1>7 DEF L!Next

\* Every step of the pool is a step or a stutter of the lease service.
LEMMA LoanStep ==
    ASSUME IInv, IInv', LeaseExclusive', [Next]_vars
    PROVE  [L!Next]_<<Loan, Closing>>
  <1>0. TypeOK /\ TypeOK'
    BY DEF IInv
  <1>1. ASSUME NEW t \in Thread, TakeReady(t) PROVE L!Next
    <2>1. /\ pc[t] # "leased" /\ phase' = phase /\ phase = "open"
          /\ pc' = [pc EXCEPT ![t] = "leased"]
      BY <1>1 DEF TakeReady, InLoop, IInv, Lifetime, TypeOK
    <2>2. PICK s \in Slot : /\ at' = [at EXCEPT ![t] = s]
                            /\ lease' = [lease EXCEPT ![t] = slot[s].conn]
      BY <1>1 DEF TakeReady
    <2>3. /\ pc'[t] = "leased"
          /\ \A u \in Thread \ {t} : pc'[u] = pc[u] /\ at'[u] = at[u] /\ lease'[u] = lease[u]
      BY <1>0, <2>1, <2>2 DEF TypeOK
    <2> QED BY <1>0, <2>1, <2>3, LoanBorrowed
  <1>2. ASSUME NEW t \in Thread, AcquireReconnected(t) PROVE L!Next
    <2>1. /\ pc[t] # "leased" /\ phase' = phase /\ phase = "open"
          /\ pc'[t] = "leased"
          /\ \A u \in Thread \ {t} : pc'[u] = pc[u] /\ at'[u] = at[u] /\ lease'[u] = lease[u]
      BY <1>0, <1>2, HeldSlotFacts DEF AcquireReconnected, Reconnecting, TypeOK
    <2> QED BY <1>0, <2>1, LoanBorrowed
  <1>3. ASSUME NEW t \in Thread, Release(t) PROVE L!Next
    <2>1. /\ pc[t] = "leased" /\ phase' = phase
          /\ Signal([pc EXCEPT ![t] = "idle"])
          /\ at' = [at EXCEPT ![t] = Nil] /\ lease' = [lease EXCEPT ![t] = Nil]
      BY <1>3 DEF Release
    <2>2. /\ pc'[t] # "leased" /\ lease'[t] = Nil /\ lease[t] # Nil
          /\ \A u \in Thread \ {t} : /\ pc'[u] = "leased" <=> pc[u] = "leased"
                                     /\ at'[u] = at[u] /\ lease'[u] = lease[u]
      BY <1>0, <2>1, IdleSignal DEF TypeOK
    <2>3. Loan[t] # L!None
      BY <2>2 DEF Loan, L!None
    <2>4. Loan' = [Loan EXCEPT ![t] = L!None]
      BY <2>2 DEF Loan, L!None
    <2>5. UNCHANGED Closing
      BY <2>1 DEF Closing
    <2>6. L!Return(t)
      BY <2>3, <2>4, <2>5, Zenon DEF L!Return, Loan, Closing
    <2> QED BY <2>6 DEF L!Next
  <1>4. ASSUME NEW n \in 1 .. Size + 1, DisposeUpTo(n), \A t \in Thread : at[t] = Nil
        PROVE  L!Next
    <2>1. /\ UNCHANGED <<pc, at, lease>> /\ phase' \in {"shutting_down", "freed"}
      BY <1>4 DEF DisposeUpTo
    <2>2. Loan' = Loan /\ \A t \in Thread : Loan[t] = L!None
      BY <1>0, <1>4, <2>1 DEF Loan, L!None, TypeOK
    <2>3. Closing' = TRUE
      BY <2>1 DEF Closing
    <2>4. L!Close
      BY <2>2, <2>3, Zenon DEF L!Close, Loan, Closing
    <2> QED BY <2>4 DEF L!Next
  <1>5. CASE CreateFails
    <2>1. \A t \in Thread : at[t] = Nil
      BY <1>5 DEF CreateFails, IInv, Lifetime, TypeOK, Reconnecting
    <2> QED BY <1>4, <1>5, <2>1 DEF CreateFails
  <1>6. CASE PoolDestroy
    <2>1. \A t \in Thread : at[t] = Nil
      BY <1>6 DEF PoolDestroy, IInv, SlotOwned, TypeOK, Free
    <2> QED BY <1>4, <1>6, <2>1 DEF PoolDestroy
  <1>7. ASSUME UNCHANGED <<phase, lease>>,
               \A t \in Thread : pc[t] = "leased" => at'[t] = at[t]
        PROVE  UNCHANGED <<Loan, Closing>>
    <2>1. UNCHANGED Loan
      BY <1>0, <1>7, LoanUnchanged
    <2> QED BY <1>7, <2>1 DEF Closing
  <1>8. CASE CreateSlot
    <2>1. UNCHANGED Loan
      BY <1>0, <1>8, LoanUnchanged DEF CreateSlot
    <2>2. UNCHANGED Closing
      BY <1>8 DEF CreateSlot, Closing
    <2> QED BY <2>1, <2>2
  <1>9. ASSUME NEW t \in Thread, TakeDead(t) \/ TakeUnusable(t) \/ AcquireFailed(t)
        PROVE  UNCHANGED <<Loan, Closing>>
    <2>1. pc[t] # "leased" /\ UNCHANGED <<phase, lease>>
      BY <1>9 DEF TakeDead, TakeUnusable, AcquireFailed, InLoop
    <2>2. \E s \in Slot \cup {Nil} : at' = [at EXCEPT ![t] = s]
      BY <1>9 DEF TakeDead, TakeUnusable, AcquireFailed
    <2>3. \A u \in Thread : pc[u] = "leased" => at'[u] = at[u]
      BY <1>0, <2>1, <2>2 DEF TypeOK
    <2> QED BY <1>7, <2>1, <2>3
  <1>10. ASSUME NEW t \in Thread,
                \/ \E m \in Timeouts : Call(t, m)
                \/ ReconnectFree(t) \/ ReconnectClear(t) \/ ConnectOK(t) \/ ConnectFail(t)
                \/ NoSlot(t) \/ AcquireRefused(t)
                \/ SpuriousWake(t) \/ WaitTimeout(t) \/ TimeoutAfterSignal(t)
                \/ ReleaseFails(t) \/ Borrower(t)
         PROVE  UNCHANGED <<Loan, Closing>>
    <2>1. UNCHANGED <<phase, lease, at>>
      BY <1>10 DEF Call, ReconnectFree, ReconnectClear, ConnectOK, ConnectFail, NoSlot,
                   AcquireRefused, SpuriousWake, WaitTimeout, TimeoutAfterSignal,
                   ReleaseFails, Borrower, BorrowerClose, Pin, Interrupt, Finish, poolVars
    <2> QED BY <1>7, <2>1
  <1>11. CASE UNCHANGED vars
    BY <1>7, <1>11 DEF vars, poolVars
  <1> QED BY <1>1, <1>2, <1>3, <1>5, <1>6, <1>8, <1>9, <1>10, <1>11
          DEF Next, PoolNext, Acquire

\* The pool, whatever its size and number of users, implements the service:
\* exclusive loans that only their borrowers end, and none after shutdown.
THEOREM ImplementsLease == ASSUME ~ReuseDangling PROVE Spec => LeaseService
  <1>1. Init => L!Init
    <2> SUFFICES ASSUME Init PROVE Loan = [t \in Thread |-> L!None] /\ Closing = FALSE
      BY DEF L!Init, Loan, Closing
    <2> QED BY DEF Init, Loan, Closing, L!None
  <1>2. IInv /\ IInv' /\ LeaseExclusive' /\ [Next]_vars => [L!Next]_<<Loan, Closing>>
    BY LoanStep
  <1>3. Spec => [][L!Next]_<<Loan, Closing>>
    BY <1>2, Invariant, Exclusion, PTL DEF Spec
  <1>4. [][L!Next]_<<Loan, Closing>> /\ L!Init => LeaseService
    BY DEF LeaseService, L!Spec, Loan, Closing
  <1> QED BY <1>1, <1>3, <1>4, PTL DEF Spec

---------------------------------------------------------------------------
(* Freshness of what acquire returns                                       *)

\* What another thread finds unchanged: its place, its slot, and what is in it.
Spared(u) ==
    /\ pc'[u] = pc[u] /\ at'[u] = at[u] /\ slot'[at[u]] = slot[at[u]]
    /\ slot[at[u]].conn # Nil => conn'[slot[at[u]].conn] = conn[slot[at[u]].conn]

\* A thread under reconnection holds a connection it found unusable, or the one it
\* has just made.
Remaking ==
    \A t \in Thread :
        /\ pc[t] = "reconnect" /\ slot[at[t]].conn # Nil
             => ~Usable(conn[slot[at[t]].conn])
        /\ pc[t] = "connected" => conn[slot[at[t]].conn] = Connected

\* Taking a slot spares the slots under reconnection.
LEMMA TakeSpares ==
    ASSUME IInv, NEW t \in Thread, TakeReady(t) \/ TakeDead(t) \/ TakeUnusable(t),
           NEW u \in Thread, pc[u] \in Reconnecting
    PROVE  Spared(u)
  <1> USE DEF IInv
  <1>1. PICK s \in Free :
          /\ InLoop(t)
          /\ \A r \in Slot \ {s} : slot'[r] = slot[r]
          /\ \A a \in Addr : a # slot[s].conn => conn'[a] = conn[a]
          /\ \A v \in Thread \ {t} : pc'[v] = pc[v] /\ at'[v] = at[v]
    <2>1. CASE TakeReady(t)
      <3>1. PICK s \in Slot :
              /\ IsFirstFree(s) /\ slot' = [slot EXCEPT ![s].in_use = TRUE]
              /\ conn' = [conn EXCEPT ![slot[s].conn].life = @ \ {RELEASED}]
              /\ at' = [at EXCEPT ![t] = s]
        BY <2>1 DEF TakeReady
      <3> QED BY <2>1, <3>1 DEF TakeReady, IsFirstFree, TypeOK
    <2>2. CASE TakeDead(t)
      <3>1. PICK s \in Slot :
              /\ IsFirstFree(s) /\ slot' = [slot EXCEPT ![s] = [conn |-> Nil, in_use |-> TRUE]]
              /\ \E d : conn' = [conn EXCEPT ![slot[s].conn] = d]
              /\ at' = [at EXCEPT ![t] = s]
        BY <2>2 DEF TakeDead
      <3> QED BY <2>2, <3>1 DEF TakeDead, IsFirstFree, TypeOK
    <2>3. CASE TakeUnusable(t)
      <3>1. PICK s \in Slot :
              /\ IsFirstFree(s) /\ slot' = [slot EXCEPT ![s].in_use = TRUE]
              /\ at' = [at EXCEPT ![t] = s]
        BY <2>3 DEF TakeUnusable
      <3> QED BY <2>3, <3>1 DEF TakeUnusable, IsFirstFree, TypeOK
    <2> QED BY <2>1, <2>2, <2>3
  <1>2. /\ u # t /\ at[u] \in Slot /\ at[u] # s
        /\ slot[at[u]].conn # Nil => /\ slot[at[u]].conn \in Addr
                                    /\ slot[at[u]].conn # slot[s].conn
    <2>1. u # t /\ s \in Slot
      BY <1>1 DEF InLoop, Reconnecting, Free
    <2>2. at[u] \in Slot /\ at[u] # s
      BY <1>1, HeldSlotFacts, FreeSlotFacts
    <2> QED BY <2>1, <2>2, HeldSlotFacts
  <1> QED BY <1>1, <1>2 DEF Spared

\* So does reconnecting another slot.
LEMMA ReconnectSpares ==
    ASSUME IInv, ~ReuseDangling, NEW t \in Thread,
           \/ ReconnectFree(t) \/ ReconnectClear(t) \/ ConnectOK(t) \/ ConnectFail(t)
           \/ AcquireReconnected(t) \/ AcquireFailed(t),
           NEW u \in Thread \ {t}, pc[u] \in Reconnecting
    PROVE  Spared(u)
  <1> USE DEF IInv
  <1>1. pc[t] \in Reconnecting
    BY DEF ReconnectFree, ReconnectClear, ConnectOK, ConnectFail, AcquireReconnected,
       AcquireFailed, Reconnecting
  <1>2. /\ at[t] \in Slot /\ at[u] \in Slot /\ at[u] # at[t]
        /\ slot[at[u]].conn # Nil => /\ slot[at[u]].conn \in Addr
                                    /\ slot[at[u]].conn # slot[at[t]].conn
    BY <1>1, HeldSlotFacts
  <1>3. /\ pc[u] # "waiting" /\ pc \in [Thread -> PC] /\ at \in [Thread -> Slot \cup {Nil}]
        /\ "idle" \in PC
    BY DEF Reconnecting, TypeOK, PC
  <1>4. pc'[u] = pc[u] /\ at'[u] = at[u]
    <2>1. CASE AcquireFailed(t)
      <3>1. [pc EXCEPT ![t] = "idle"] \in [Thread -> PC]
        BY <1>3
      <3>2. at' = [at EXCEPT ![t] = Nil] /\ Signal([pc EXCEPT ![t] = "idle"])
        BY <2>1 DEF AcquireFailed
      <3> QED BY <1>3, <3>1, <3>2, SignalFacts
    <2> QED BY <1>3, <2>1 DEF ReconnectFree, ReconnectClear, ConnectOK, ConnectFail,
       AcquireReconnected
  <1>5. slot'[at[u]] = slot[at[u]]
    BY <1>2 DEF ReconnectFree, ReconnectClear, ConnectOK, ConnectFail, AcquireReconnected,
       AcquireFailed, TypeOK
  <1>6. slot[at[u]].conn # Nil => conn'[slot[at[u]].conn] = conn[slot[at[u]].conn]
    <2>1. CASE ReconnectFree(t)
      <3>1. conn' = conn \/ \E d : conn' = [conn EXCEPT ![slot[at[t]].conn] = d]
        BY <2>1 DEF ReconnectFree
      <3> QED BY <1>2, <3>1 DEF TypeOK
    <2>2. CASE ConnectOK(t)
      <3>1. PICK a \in Available : conn' = [conn EXCEPT ![a] = Connected]
        BY <2>2 DEF ConnectOK
      <3> QED BY <1>2, <3>1 DEF Available, TypeOK
    <2> QED BY <2>1, <2>2 DEF ReconnectClear, ConnectFail, AcquireReconnected, AcquireFailed
  <1> QED BY <1>4, <1>5, <1>6 DEF Spared

\* A borrower's own connection is in no slot under reconnection.
LEMMA BorrowerSpares ==
    ASSUME IInv, NEW t \in Thread, Release(t) \/ ReleaseFails(t) \/ Borrower(t),
           NEW u \in Thread, pc[u] \in Reconnecting
    PROVE  Spared(u)
  <1> USE DEF IInv
  <1>1. /\ pc[t] = "leased" /\ lease[t] \in Addr /\ at[t] \in Slot
        /\ pc[u] # "leased" /\ pc[u] # "waiting"
    BY DEF Release, ReleaseFails, Borrower, BorrowerClose, Pin, Interrupt, Finish,
       TypeOK, Reconnecting
  <1>2. /\ at[u] \in Slot /\ at[u] # at[t] /\ slot[at[t]].conn = lease[t]
        /\ slot[at[u]].conn # Nil => slot[at[u]].conn \in Addr \ {lease[t]}
    BY <1>1, HeldSlotFacts, PoolAssumption DEF LeaseInSlot
  <1>3. \A a \in Addr \ {lease[t]} : conn'[a] = conn[a]
    BY DEF Release, GiveBack, ReleaseFails, Borrower, BorrowerClose, Pin, Interrupt, Finish,
       TypeOK
  <1>4. CASE Release(t)
    <2>1. PICK s \in Slot : /\ slot[s].conn = lease[t]
                           /\ slot' = [slot EXCEPT ![s].in_use = FALSE]
      BY <1>4 DEF Release, GiveBack, Releasable, IsSlotOf
    <2>2. s = at[t]
      BY <1>1, <1>2, <2>1, PoolAssumption DEF SlotsDistinct
    <2>3. slot'[at[u]] = slot[at[u]]
      BY <1>2, <2>1, <2>2 DEF TypeOK
    <2>4. pc'[u] = pc[u] /\ at'[u] = at[u]
      <3>1. [pc EXCEPT ![t] = "idle"] \in [Thread -> PC]
        BY DEF TypeOK, PC
      <3>2. /\ at' = [at EXCEPT ![t] = Nil] /\ Signal([pc EXCEPT ![t] = "idle"])
            /\ [pc EXCEPT ![t] = "idle"][u] = pc[u] /\ u # t
        BY <1>1, <1>4 DEF Release, TypeOK
      <3> QED BY <1>1, <3>1, <3>2, SignalFacts DEF TypeOK
    <2> QED BY <1>2, <1>3, <2>3, <2>4 DEF Spared
  <1>5. CASE UNCHANGED poolVars
    BY <1>2, <1>3, <1>5 DEF Spared, poolVars
  <1> QED BY <1>4, <1>5 DEF ReleaseFails, Borrower, BorrowerClose, Pin, Interrupt, Finish

\* So do the steps that move threads between resting points.
LEMMA RestingSpares ==
    ASSUME IInv, NEW t \in Thread,
           \/ \E m \in Timeouts : Call(t, m)
           \/ NoSlot(t) \/ SpuriousWake(t) \/ WaitTimeout(t)
           \/ TimeoutAfterSignal(t) \/ AcquireRefused(t),
           NEW u \in Thread, pc[u] \in Reconnecting
    PROVE  Spared(u)
  <1>1. pc[u] # "waiting" /\ pc[t] \notin Reconnecting /\ pc \in [Thread -> PC]
    BY DEF Call, NoSlot, InLoop, SpuriousWake, WaitTimeout, TimeoutAfterSignal,
       AcquireRefused, Reconnecting, IInv, TypeOK
  <1>2. UNCHANGED <<conn, slot, at>>
    BY DEF Call, NoSlot, SpuriousWake, WaitTimeout, TimeoutAfterSignal, AcquireRefused
  <1>3. pc'[u] = pc[u]
    <2>1. CASE TimeoutAfterSignal(t)
      <3>1. [pc EXCEPT ![t] = "idle"] \in [Thread -> PC]
        BY <1>1 DEF PC
      <3> QED BY <1>1, <2>1, <3>1, SignalFacts DEF TimeoutAfterSignal
    <2> QED BY <1>1, <2>1 DEF Call, NoSlot, SpuriousWake, WaitTimeout, AcquireRefused
  <1> QED BY <1>2, <1>3 DEF Spared

\* No thread but one that reconnects it disturbs a slot under reconnection.
LEMMA NextSpares ==
    ASSUME IInv, ~ReuseDangling, [Next]_vars, NEW u \in Thread, pc[u] \in Reconnecting
    PROVE  \/ Spared(u)
           \/ ReconnectFree(u) \/ ReconnectClear(u) \/ ConnectOK(u) \/ ConnectFail(u)
           \/ AcquireReconnected(u) \/ AcquireFailed(u)
  <1>1. ASSUME NEW t \in Thread, Acquire(t)
        PROVE  \/ Spared(u)
               \/ ReconnectFree(u) \/ ReconnectClear(u) \/ ConnectOK(u) \/ ConnectFail(u)
               \/ AcquireReconnected(u) \/ AcquireFailed(u)
    <2>1. CASE TakeReady(t) \/ TakeDead(t) \/ TakeUnusable(t)
      BY <2>1, TakeSpares
    <2>2. CASE NoSlot(t) \/ AcquireRefused(t)
      BY <2>2, RestingSpares
    <2>3. CASE t # u
      BY <1>1, <2>1, <2>2, <2>3, ReconnectSpares DEF Acquire
    <2> QED BY <1>1, <2>1, <2>2, <2>3 DEF Acquire
  <1>2. ASSUME NEW t \in Thread, PoolNext(t), ~Acquire(t) PROVE Spared(u)
    BY <1>2, RestingSpares, BorrowerSpares DEF PoolNext
  <1>3. ASSUME CreateSlot \/ CreateFails \/ PoolDestroy PROVE FALSE
    <2>1. phase = "open"
      BY HeldSlotFacts
    <2>2. at[u] \in Slot /\ slot[at[u]].in_use
      BY HeldSlotFacts
    <2> QED BY <1>3, <2>1, <2>2 DEF CreateSlot, CreateFails, PoolDestroy, Free
  <1>4. CASE UNCHANGED vars
    BY <1>4 DEF vars, poolVars, Spared
  <1> QED BY <1>1, <1>2, <1>3, <1>4, BorrowerSpares DEF Next

\* A freshly connected connection is usable, and an allocated one that is usable and
\* not pinned differs from it in the mark of a returned lease only.
LEMMA UsableFacts ==
    /\ Usable(Connected)
    /\ \A c \in ConnRecord :
         c.live /\ Usable(c) /\ PINNED \notin c.life
           => [c EXCEPT !.life = @ \ {RELEASED}] = Connected
  <1>1. Usable(Connected)
    BY DEF Usable, Connected
  <1>2. ASSUME NEW c \in ConnRecord, c.live, Usable(c), PINNED \notin c.life
        PROVE  [c EXCEPT !.life = @ \ {RELEASED}] = Connected
    <2>1. c.life \subseteq {RELEASED} /\ c.live = TRUE /\ c.open = TRUE
      BY <1>2 DEF Usable, ConnRecord, Bits
    <2> DEFINE d == [c EXCEPT !.life = @ \ {RELEASED}]
    <2>2. /\ d \in ConnRecord /\ d.life = {}
          /\ d.live = TRUE /\ d.state = "READY" /\ d.open = TRUE
      BY <1>2, <2>1 DEF Usable, ConnRecord
    <2> HIDE DEF d
    <2>3. d = Connected
      BY <2>2 DEF ConnRecord, Connected
    <2> QED BY <2>3 DEF d
  <1> QED BY <1>1, <1>2

\* A thread's own steps towards a new connection.
LEMMA ReconnectRemakes ==
    ASSUME IInv, Remaking, NEW t \in Thread,
           \/ ReconnectFree(t) \/ ReconnectClear(t) \/ ConnectOK(t) \/ ConnectFail(t)
           \/ AcquireReconnected(t) \/ AcquireFailed(t)
    PROVE  /\ pc'[t] # "reconnect"
           /\ pc'[t] = "connected" => conn'[slot'[at'[t]].conn] = Connected
  <1> USE DEF IInv
  <1>1. /\ pc \in [Thread -> PC] /\ at[t] \in Slot /\ slot[at[t]].conn \in Addr \cup {Nil}
        /\ slot \in [Slot -> [conn: Addr \cup {Nil}, in_use: BOOLEAN]]
        /\ conn \in [Addr -> ConnRecord]
    BY HeldSlotFacts DEF ReconnectFree, ReconnectClear, ConnectOK, ConnectFail,
       AcquireReconnected, AcquireFailed, Reconnecting, TypeOK
  <1>2. CASE ReconnectFree(t)
    <2>1. ~Usable(conn[slot[at[t]].conn])
      BY <1>2 DEF Remaking, ReconnectFree
    <2> QED BY <1>1, <1>2, <2>1 DEF ReconnectFree
  <1>3. CASE ConnectOK(t)
    <2>1. PICK a \in Available : /\ conn' = [conn EXCEPT ![a] = Connected]
                                /\ slot' = [slot EXCEPT ![at[t]].conn = a]
      BY <1>3 DEF ConnectOK
    <2>2. a \in Addr /\ at' = at /\ pc'[t] = "connected"
      BY <1>1, <1>3 DEF Available, ConnectOK
    <2>3. slot'[at'[t]].conn = a /\ conn'[a] = Connected
      BY <1>1, <2>1, <2>2
    <2> QED BY <2>2, <2>3
  <1>4. CASE AcquireFailed(t)
    <2>1. [pc EXCEPT ![t] = "idle"] \in [Thread -> PC]
      BY <1>1 DEF PC
    <2>2. [pc EXCEPT ![t] = "idle"][t] = "idle" /\ Signal([pc EXCEPT ![t] = "idle"])
      BY <1>1, <1>4 DEF AcquireFailed
    <2> QED BY <2>1, <2>2, SignalFacts
  <1> QED BY <1>1, <1>2, <1>3, <1>4 DEF ReconnectClear, ConnectFail, AcquireReconnected

\* Only a slot found unusable, or emptied of a dead connection, is reconnected.
LEMMA EntersReconnect ==
    ASSUME IInv, [Next]_vars, NEW u \in Thread, pc[u] \notin Reconnecting
    PROVE  /\ pc'[u] # "connected"
           /\ pc'[u] = "reconnect" => TakeDead(u) \/ TakeUnusable(u)
  <1> USE DEF IInv
  <1>1. pc \in [Thread -> PC] /\ {"idle", "entered", "waiting", "woken", "leased"} \subseteq PC
    BY DEF TypeOK, PC
  <1>2. ASSUME NEW p \in [Thread -> PC], p[u] \notin Reconnecting, Signal(p)
        PROVE  pc'[u] \notin Reconnecting
    BY <1>2, SignalFacts DEF Reconnecting
  <1>3. ASSUME NEW t \in Thread,
               \/ Release(t) \/ AcquireFailed(t) \/ TimeoutAfterSignal(t)
        PROVE  pc'[u] \notin Reconnecting
    <2>1. [pc EXCEPT ![t] = "idle"] \in [Thread -> PC]
      BY <1>1
    <2>2. [pc EXCEPT ![t] = "idle"][u] \notin Reconnecting
      BY <1>1 DEF Reconnecting
    <2>3. pc' = [pc EXCEPT ![t] = "idle"] \/ Signal([pc EXCEPT ![t] = "idle"])
      BY <1>3 DEF Release, AcquireFailed, TimeoutAfterSignal
    <2> QED BY <1>2, <2>1, <2>2, <2>3
  <1>4. ASSUME NEW t \in Thread, PoolNext(t) \/ Borrower(t),
               ~Release(t), ~AcquireFailed(t), ~TimeoutAfterSignal(t)
        PROVE  \/ pc'[u] \notin Reconnecting
               \/ t = u /\ (TakeDead(u) \/ TakeUnusable(u)) /\ pc'[u] = "reconnect"
    <2>1. CASE t # u
      BY <1>1, <1>4, <2>1 DEF PoolNext, Borrower, Acquire, Call, TakeReady, TakeDead,
         TakeUnusable, ReconnectFree, ReconnectClear, ConnectOK, ConnectFail,
         AcquireReconnected, NoSlot, AcquireRefused, SpuriousWake, WaitTimeout,
         ReleaseFails, BorrowerClose, Pin, Interrupt, Finish, poolVars
    <2>2. CASE t = u
      BY <1>1, <1>4, <2>2 DEF PoolNext, Borrower, Acquire, Call, TakeReady, TakeDead,
         TakeUnusable, ReconnectFree, ReconnectClear, ConnectOK, ConnectFail,
         AcquireReconnected, NoSlot, AcquireRefused, SpuriousWake, WaitTimeout,
         ReleaseFails, BorrowerClose, Pin, Interrupt, Finish, poolVars, Reconnecting
    <2> QED BY <2>1, <2>2
  <1>5. ASSUME CreateSlot \/ CreateFails \/ PoolDestroy \/ UNCHANGED vars PROVE pc' = pc
    BY <1>5 DEF CreateSlot, CreateFails, PoolDestroy, DisposeUpTo, vars, poolVars
  <1> QED BY <1>3, <1>4, <1>5 DEF Next, Reconnecting

\* What is reconnected was unusable, and what comes of it is fresh.
LEMMA NextRemaking ==
    ASSUME IInv, ~ReuseDangling, Remaking, [Next]_vars PROVE Remaking'
  <1> USE DEF IInv
  <1> SUFFICES ASSUME NEW u \in Thread
               PROVE  /\ pc'[u] = "reconnect" /\ slot'[at'[u]].conn # Nil
                           => ~Usable(conn'[slot'[at'[u]].conn])
                      /\ pc'[u] = "connected" => conn'[slot'[at'[u]].conn] = Connected
    BY DEF Remaking
  <1>1. CASE pc[u] \in Reconnecting
    <2>1. CASE Spared(u)
      <3>1. /\ pc[u] = "reconnect" /\ slot[at[u]].conn # Nil
                 => ~Usable(conn[slot[at[u]].conn])
            /\ pc[u] = "connected" => /\ conn[slot[at[u]].conn] = Connected
                                      /\ slot[at[u]].conn # Nil
        BY DEF Remaking, ReconnectStage
      <3> QED BY <2>1, <3>1 DEF Spared
    <2>2. CASE ~Spared(u)
      BY <1>1, <2>2, NextSpares, ReconnectRemakes
    <2> QED BY <2>1, <2>2
  <1>2. CASE pc[u] \notin Reconnecting
    <2>1. CASE TakeDead(u)
      <3>1. PICK s \in Slot : /\ slot' = [slot EXCEPT ![s] = [conn |-> Nil, in_use |-> TRUE]]
                             /\ at' = [at EXCEPT ![u] = s]
        BY <2>1 DEF TakeDead
      <3>2. slot'[at'[u]].conn = Nil
        BY <3>1 DEF TypeOK
      <3> QED BY <1>2, <3>2, EntersReconnect
    <2>2. CASE TakeUnusable(u)
      <3>1. PICK s \in Slot : /\ slot[s].conn # Nil => ~Usable(conn[slot[s].conn])
                             /\ slot' = [slot EXCEPT ![s].in_use = TRUE]
                             /\ at' = [at EXCEPT ![u] = s]
        BY <2>2 DEF TakeUnusable
      <3>2. at'[u] = s /\ slot'[s].conn = slot[s].conn /\ conn' = conn
        BY <2>2, <3>1 DEF TakeUnusable, TypeOK
      <3> QED BY <1>2, <3>1, <3>2, EntersReconnect
    <2> QED BY <1>2, <2>1, <2>2, EntersReconnect
  <1> QED BY <1>1, <1>2

\* A lease begins with a usable connection taken, or with one reconnected.
LEMMA LeaseStarts ==
    ASSUME IInv, [Next]_vars, NEW t \in Thread, lease[t] = Nil, lease'[t] # Nil
    PROVE  TakeReady(t) \/ AcquireReconnected(t)
  <1> USE DEF IInv
  <1>1. ASSUME NEW u \in Thread, PoolNext(u) \/ Borrower(u)
        PROVE  TakeReady(t) \/ AcquireReconnected(t)
    <2>1. CASE TakeReady(u)
      <3>1. \E c : lease' = [lease EXCEPT ![u] = c]
        BY <2>1 DEF TakeReady
      <3> QED BY <2>1, <3>1 DEF TypeOK
    <2>2. CASE AcquireReconnected(u)
      BY <2>2 DEF AcquireReconnected, TypeOK
    <2>3. CASE Release(u)
      BY <2>3 DEF Release, TypeOK
    <2>4. CASE ~TakeReady(u) /\ ~AcquireReconnected(u) /\ ~Release(u)
      BY <1>1, <2>4 DEF PoolNext, Borrower, Acquire, Call, TakeDead,
         TakeUnusable, ReconnectFree, ReconnectClear, ConnectOK, ConnectFail,
         AcquireFailed, NoSlot, AcquireRefused, SpuriousWake, WaitTimeout,
         TimeoutAfterSignal, ReleaseFails, BorrowerClose, Pin, Interrupt, Finish, poolVars
    <2> QED BY <2>1, <2>2, <2>3, <2>4
  <1>2. ASSUME CreateSlot \/ CreateFails \/ PoolDestroy \/ UNCHANGED vars PROVE lease' = lease
    BY <1>2 DEF CreateSlot, CreateFails, PoolDestroy, DisposeUpTo, vars, poolVars
  <1> QED BY <1>1, <1>2 DEF Next

\* acquire hands out a connection only in the state of a freshly connected one,
\* whichever path it took, if no address is reused under a dangling slot
\* (sqli_pool_acquire_timeout, ensure_slot_connected).
THEOREM FreshLeases == ASSUME ~ReuseDangling PROVE Spec => LeaseIsFresh
  <1>1. Init => Remaking
    BY DEF Init, Remaking
  <1>2. ASSUME IInv, Remaking, [Next]_vars,
               NEW t \in Thread, lease[t] = Nil, lease'[t] # Nil
        PROVE  conn'[lease'[t]] = Connected
    <2> USE DEF IInv
    <2>1. CASE TakeReady(t)
      <3>1. PICK s \in Free :
              /\ slot[s].conn # Nil /\ Usable(conn[slot[s].conn])
              /\ conn' = [conn EXCEPT ![slot[s].conn].life = @ \ {RELEASED}]
              /\ lease' = [lease EXCEPT ![t] = slot[s].conn]
        BY <2>1 DEF TakeReady, IsFirstFree
      <3> DEFINE c == conn[slot[s].conn]
      <3>2. /\ s \in Slot /\ slot[s].conn \in Addr /\ PINNED \notin c.life
            /\ \A u \in Thread : at[u] # s
        BY <1>2, <2>1, <3>1, FreeSlotFacts DEF TakeReady
      <3>3. c \in ConnRecord /\ c.live
        BY <1>2, <3>1, <3>2 DEF SlotsLive, TypeOK
      <3>4. [c EXCEPT !.life = @ \ {RELEASED}] = Connected
        BY <3>1, <3>2, <3>3, UsableFacts
      <3> QED BY <1>2, <3>1, <3>2, <3>4 DEF TypeOK
    <2>2. CASE AcquireReconnected(t)
      BY <1>2, <2>2 DEF AcquireReconnected, Remaking, TypeOK
    <2> QED BY <1>2, <2>1, <2>2, LeaseStarts
  <1>3. IInv /\ Remaking /\ [Next]_vars
          => [\A t \in Thread :
                lease[t] = Nil /\ lease'[t] # Nil => conn'[lease'[t]] = Connected]_vars
    BY <1>2
  <1>4. ~ReuseDangling /\ IInv /\ Remaking /\ [Next]_vars => Remaking'
    BY NextRemaking
  <1>5. IInv /\ [Next]_vars => IInv'
    BY NextIInv
  <1> QED BY <1>1, <1>3, <1>4, Invariant, PTL DEF Spec, LeaseIsFresh

---------------------------------------------------------------------------
(* Blocked acquirers                                                       *)

\* The slots are finitely many, and so are the threads on their way to one.
LEMMA FiniteFacts ==
    ASSUME IsFiniteSet(Thread)
    PROVE  /\ IsFiniteSet(Free) /\ IsFiniteSet(Woken)
           /\ Cardinality(Free) \in Nat /\ Cardinality(Woken) \in Nat
           /\ IsFiniteSet(Free') /\ IsFiniteSet(Woken')
           /\ Cardinality(Free') \in Nat /\ Cardinality(Woken') \in Nat
  <1>1. IsFiniteSet(Slot)
    BY FS_Interval, PoolAssumption DEF Slot
  <1>2. /\ Free \subseteq Slot /\ Free' \subseteq Slot
        /\ Woken \subseteq Thread /\ Woken' \subseteq Thread
    BY DEF Free, Woken
  <1>3. /\ IsFiniteSet(Free) /\ IsFiniteSet(Free')
        /\ IsFiniteSet(Woken) /\ IsFiniteSet(Woken')
    BY <1>1, <1>2, FS_Subset
  <1> QED BY <1>3, FS_CardinalityType

\* No new waiter, no more free slots and no fewer woken threads.
LEMMA NothingFreed ==
    ASSUME IsFiniteSet(Thread), NoStrandedWaiter,
           Waiting' \subseteq Waiting, Free' \subseteq Free, Woken \subseteq Woken'
    PROVE  NoStrandedWaiter'
  <1>1. /\ Cardinality(Free') <= Cardinality(Free)
        /\ Cardinality(Woken) <= Cardinality(Woken')
    BY FiniteFacts, FS_Subset
  <1> QED BY <1>1, FiniteFacts DEF NoStrandedWaiter

\* Where the waiting and the woken threads are after one thread has moved.
LEMMA Moved ==
    ASSUME pc \in [Thread -> PC], NEW t \in Thread, NEW p, pc' = [pc EXCEPT ![t] = p]
    PROVE  /\ p # "waiting" => Waiting' = Waiting \ {t}
           /\ p # "woken" => Woken' = Woken \ {t}
           /\ p = "woken" => Woken' = Woken \cup {t}
  BY DEF Waiting, Woken

\* A thread leaves and signals: the waiters are gone, or one more of them is woken.
LEMMA SignalMoved ==
    ASSUME pc \in [Thread -> PC], NEW t \in Thread, pc[t] # "waiting",
           Signal([pc EXCEPT ![t] = "idle"])
    PROVE  \/ Waiting' = {}
           \/ \E w \in Waiting : /\ Waiting' \subseteq Waiting
                                 /\ Woken' = (Woken \ {t}) \cup {w}
  <1> DEFINE p == [pc EXCEPT ![t] = "idle"]
  <1>1. /\ {u \in Thread : p[u] = "waiting"} = Waiting
        /\ {u \in Thread : p[u] = "woken"} = Woken \ {t}
        /\ p \in [Thread -> PC]
    BY DEF Waiting, Woken, PC
  <1> HIDE DEF p
  <1>2. Signal(p)
    BY DEF p
  <1>3. CASE Waiting = {}
    <2>1. pc' = p
      BY <1>1, <1>2, <1>3 DEF Signal
    <2> QED BY <1>1, <1>3, <2>1 DEF Waiting
  <1>4. CASE Waiting # {}
    <2>1. PICK w \in Waiting : pc' = [p EXCEPT ![w] = "woken"]
      BY <1>1, <1>2, <1>4 DEF Signal
    <2>2. Waiting' \subseteq Waiting
      BY <1>1, <2>1 DEF Waiting
    <2>3. Woken' = (Woken \ {t}) \cup {w}
      BY <1>1, <2>1 DEF Woken, Waiting
    <2> QED BY <2>2, <2>3
  <1> QED BY <1>3, <1>4

\* A slot is taken by a thread that may have been woken for it.
LEMMA TakeStrandsNobody ==
    ASSUME IInv, NoStrandedWaiter, IsFiniteSet(Thread), NEW t \in Thread,
           TakeReady(t) \/ TakeDead(t) \/ TakeUnusable(t)
    PROVE  NoStrandedWaiter'
  <1> USE DEF IInv
  <1>1. PICK s \in Free : Free' = Free \ {s}
    <2>1. PICK s \in Slot : /\ IsFirstFree(s)
                           /\ \/ slot' = [slot EXCEPT ![s].in_use = TRUE]
                              \/ slot' = [slot EXCEPT ![s] = [conn |-> Nil, in_use |-> TRUE]]
      BY DEF TakeReady, TakeDead, TakeUnusable
    <2>2. s \in Free
      BY <2>1 DEF IsFirstFree
    <2> QED BY <2>1, <2>2 DEF Free, TypeOK
  <1>2. /\ pc[t] \in {"entered", "woken"}
        /\ pc' = [pc EXCEPT ![t] = "leased"] \/ pc' = [pc EXCEPT ![t] = "reconnect"]
    BY DEF TakeReady, TakeDead, TakeUnusable, InLoop
  <1>3. Waiting' = Waiting /\ Woken' = Woken \ {t}
    <2>1. Waiting' = Waiting \ {t} /\ Woken' = Woken \ {t}
      BY <1>2, Moved DEF TypeOK
    <2> QED BY <1>2, <2>1 DEF Waiting
  <1>4. Cardinality(Free') = Cardinality(Free) - 1
    BY <1>1, FiniteFacts, FS_RemoveElement
  <1>5. Cardinality(Woken') >= Cardinality(Woken) - 1
    <2>1. CASE t \in Woken
      BY <2>1, <1>3, FiniteFacts, FS_RemoveElement
    <2>2. CASE t \notin Woken
      <3>1. Woken' = Woken
        BY <1>3, <2>2
      <3> QED BY <3>1, FiniteFacts
    <2> QED BY <2>1, <2>2
  <1> QED BY <1>3, <1>4, <1>5, FiniteFacts DEF NoStrandedWaiter

\* A slot is freed, and its thread signals.
LEMMA SignalStrandsNobody ==
    ASSUME IInv, NoStrandedWaiter, IsFiniteSet(Thread), NEW t \in Thread,
           pc[t] \notin {"waiting", "woken"}, Signal([pc EXCEPT ![t] = "idle"]),
           NEW s \in Slot, slot' = [slot EXCEPT ![s].in_use = FALSE]
    PROVE  NoStrandedWaiter'
  <1>1. CASE Waiting' = {}
    BY <1>1 DEF NoStrandedWaiter
  <1>2. CASE Waiting' # {}
    <2>1. PICK w \in Waiting : /\ Waiting' \subseteq Waiting
                              /\ Woken' = (Woken \ {t}) \cup {w}
      BY <1>2, SignalMoved DEF IInv, TypeOK
    <2>2. Woken' = Woken \cup {w} /\ w \notin Woken
      BY <2>1 DEF Woken, Waiting
    <2>3. Cardinality(Woken') = Cardinality(Woken) + 1
      BY <2>2, FiniteFacts, FS_AddElement
    <2>4. Free' = Free \cup {s}
      BY DEF Free, IInv, TypeOK
    <2>5. Cardinality(Free') <= Cardinality(Free) + 1
      BY <2>4, FiniteFacts, FS_AddElement
    <2> QED BY <2>1, <2>3, <2>5, FiniteFacts DEF NoStrandedWaiter
  <1> QED BY <1>1, <1>2

\* A woken thread gives up, and the signal it leaves wakes another.
LEMMA TimeoutStrandsNobody ==
    ASSUME IInv, NoStrandedWaiter, IsFiniteSet(Thread), ~TimeoutConsumes,
           NEW t \in Thread, TimeoutAfterSignal(t)
    PROVE  NoStrandedWaiter'
  <1>1. pc[t] = "woken" /\ Signal([pc EXCEPT ![t] = "idle"]) /\ slot' = slot
    BY DEF TimeoutAfterSignal
  <1>2. CASE Waiting' = {}
    BY <1>2 DEF NoStrandedWaiter
  <1>3. CASE Waiting' # {}
    <2>1. PICK w \in Waiting : /\ Waiting' \subseteq Waiting
                              /\ Woken' = (Woken \ {t}) \cup {w}
      BY <1>1, <1>3, SignalMoved DEF IInv, TypeOK
    <2>2. t \in Woken /\ w \notin Woken \ {t} /\ IsFiniteSet(Woken \ {t})
      BY <1>1, FiniteFacts, FS_RemoveElement DEF Woken, Waiting
    <2>3. /\ Cardinality(Woken \ {t}) = Cardinality(Woken) - 1
          /\ Cardinality(Woken') = Cardinality(Woken \ {t}) + 1
      BY <2>1, <2>2, FiniteFacts, FS_RemoveElement, FS_AddElement
    <2>4. Free' = Free
      BY <1>1 DEF Free
    <2> QED BY <2>1, <2>3, <2>4, FiniteFacts DEF NoStrandedWaiter
  <1> QED BY <1>2, <1>3

\* The steps that keep the number of free slots and of woken threads.
LEMMA OthersStrandNobody ==
    ASSUME IInv, NoStrandedWaiter, IsFiniteSet(Thread), NEW t \in Thread,
           \/ \E m \in Timeouts : Call(t, m)
           \/ ReconnectFree(t) \/ ReconnectClear(t) \/ ConnectOK(t) \/ ConnectFail(t)
           \/ AcquireReconnected(t) \/ NoSlot(t) \/ AcquireRefused(t)
           \/ SpuriousWake(t) \/ WaitTimeout(t) \/ ReleaseFails(t) \/ Borrower(t)
    PROVE  NoStrandedWaiter'
  <1> USE DEF IInv
  <1>1. CASE NoSlot(t)
    <2>1. Free' = {}
      BY <1>1 DEF NoSlot, Free
    <2>2. Cardinality(Free') = 0
      BY <2>1, FS_EmptySet
    <2> QED BY <2>2, FiniteFacts DEF NoStrandedWaiter
  <1>2. CASE UNCHANGED poolVars
    BY <1>2, NothingFreed DEF poolVars, Waiting, Woken, Free
  <1>3. CASE ~NoSlot(t) /\ ~UNCHANGED poolVars
    <2>1. Free' = Free
      BY <1>3 DEF Call, ReconnectFree, ReconnectClear, ConnectOK, ConnectFail,
         AcquireReconnected, AcquireRefused, SpuriousWake, WaitTimeout,
         ReleaseFails, Borrower, BorrowerClose, Pin, Interrupt, Finish, Free, TypeOK
    <2>2. PICK p \in PC :
            /\ pc' = [pc EXCEPT ![t] = p] /\ p # "waiting" /\ (pc[t] = "woken" => p = "woken")
      BY <1>3 DEF Call, ReconnectFree, ReconnectClear, ConnectOK, ConnectFail,
         AcquireReconnected, AcquireRefused, SpuriousWake, WaitTimeout,
         ReleaseFails, Borrower, BorrowerClose, Pin, Interrupt, Finish, PC
    <2>3. Waiting' \subseteq Waiting /\ Woken \subseteq Woken'
      BY <2>2, Moved DEF Woken, TypeOK
    <2> QED BY <2>1, <2>3, NothingFreed
  <1> QED BY <1>1, <1>2, <1>3

\* No step leaves a waiter behind.
LEMMA NextStrandsNobody ==
    ASSUME IInv, ~TimeoutConsumes, IsFiniteSet(Thread), NoStrandedWaiter, [Next]_vars
    PROVE  NoStrandedWaiter'
  <1>1. ASSUME NEW t \in Thread, PoolNext(t) \/ Borrower(t) PROVE NoStrandedWaiter'
    <2>1. CASE AcquireFailed(t)
      <3>1. at[t] \in Slot
        BY <2>1, HeldSlotFacts DEF AcquireFailed, Reconnecting
      <3> QED BY <2>1, <3>1, SignalStrandsNobody DEF AcquireFailed
    <2>2. CASE Release(t)
      <3>1. PICK s \in Slot : slot' = [slot EXCEPT ![s].in_use = FALSE]
        BY <2>2 DEF Release, GiveBack
      <3> QED BY <2>2, <3>1, SignalStrandsNobody DEF Release
    <2>3. CASE TakeReady(t) \/ TakeDead(t) \/ TakeUnusable(t) \/ TimeoutAfterSignal(t)
      BY <2>3, TakeStrandsNobody, TimeoutStrandsNobody
    <2> QED BY <1>1, <2>1, <2>2, <2>3, OthersStrandNobody DEF PoolNext, Acquire
  <1>2. ASSUME CreateSlot \/ CreateFails \/ PoolDestroy PROVE NoStrandedWaiter'
    <2>1. Waiting = {} /\ pc' = pc
      BY <1>2 DEF CreateSlot, CreateFails, PoolDestroy, DisposeUpTo, Quiescent, Waiting,
         IInv, Lifetime
    <2> QED BY <2>1 DEF NoStrandedWaiter, Waiting
  <1>3. CASE UNCHANGED vars
    BY <1>3, NothingFreed DEF vars, poolVars, Waiting, Woken, Free
  <1> QED BY <1>1, <1>2, <1>3 DEF Next

\* While a thread waits, a woken thread is on its way to every slot that can be had,
\* whatever release, failed reconnection and expired deadline did with their signals,
\* if a timed-out waiter does not consume one (the condition variable of sqli_pool.c).
THEOREM NobodyStranded ==
    ASSUME ~ReuseDangling, ~TimeoutConsumes, IsFiniteSet(Thread)
    PROVE  Spec => []NoStrandedWaiter
  <1>1. Init => NoStrandedWaiter
    BY DEF Init, NoStrandedWaiter, Waiting
  <1>2. IInv /\ NoStrandedWaiter /\ [Next]_vars => NoStrandedWaiter'
    BY NextStrandsNobody
  <1>3. Spec => []IInv
    BY Invariant
  <1> QED BY <1>1, <1>2, <1>3, PTL DEF Spec

=============================================================================
