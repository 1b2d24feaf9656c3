------------------------------- MODULE Pool -------------------------------
(***************************************************************************)
(* The connection pool of libsqli (src/sqli_pool.c): a fixed array of      *)
(* slots behind one mutex and one condition variable, shared by threads    *)
(* that borrow connections.                                                *)
(*                                                                         *)
(* Every stretch of code between a lock and the next unlock, cond_wait or  *)
(* return is one action, so the mutex itself is not a variable.  The       *)
(* reconnection of a dead slot happens OUTSIDE the mutex and is split at   *)
(* the points where another thread can see the slot.                       *)
(*                                                                         *)
(* Connections are identified by their ADDRESS, as in the code, where      *)
(* sqli_pool_release finds the slot by comparing pointers: free() makes an *)
(* address available and calloc() may return it again.                     *)
(***************************************************************************)
EXTENDS Conn, Naturals, FiniteSets

CONSTANTS
    Thread,           \* the threads that use the pool
    Addr,             \* addresses a connection object can have
    Nil,              \* NULL: no connection, no slot
    Size,             \* pool->size
    Timeouts,         \* the timeout arguments callers use
    MaxCalls,         \* bound: acquire calls made by one thread
    ReuseDangling,    \* calloc may return an address a slot still holds
    TimeoutConsumes   \* a timed-out waiter may consume a signal (POSIX)

ASSUME PoolAssumption ==
    /\ Size \in Nat \ {0}
    /\ MaxCalls \in Nat
    /\ Timeouts \subseteq {"infinite", "timed", "try"}  \* UINT32_MAX, a deadline, 0
    /\ Nil \notin Addr /\ Nil \notin Nat
    /\ ReuseDangling \in BOOLEAN /\ TimeoutConsumes \in BOOLEAN

Slot == 1 .. Size

VARIABLES
    conn,           \* conn[a]: the connection object at address a
    slot,           \* slot[s]: [conn, in_use]
    phase,          \* of the pool's life: being created, open, shut down, freed
    pc,             \* pc[t]: where thread t is
    mode,           \* mode[t]: the timeout argument of t's acquire call
    at,             \* at[t]: the slot t took (local idx; kept with the lease)
    lease,          \* lease[t]: the connection t has borrowed
    calls           \* calls[t]: acquire calls made by t

poolVars == <<slot, phase, pc, mode, at, lease, calls>>
vars     == <<conn, poolVars>>

PC == {"idle",        \* outside the pool, no lease
       "entered",     \* in sqli_pool_acquire_timeout, about to test the slots
       "waiting",     \* blocked in pthread_cond_wait / timedwait
       "woken",       \* signalled, about to reacquire the mutex
       "reconnect",   \* in ensure_slot_connected, mutex released
       "dangling",    \* after sqli_destroy(slot->conn), before slot->conn = NULL
       "connect",     \* slot->conn is NULL, a new connection is being made
       "connected",   \* ensure_slot_connected returned SQLI_OK
       "unconnected", \* ensure_slot_connected returned an error
       "leased"}      \* the caller holds a lease

Reconnecting == {"reconnect", "dangling", "connect", "connected", "unconnected"}

TypeOK ==
    /\ conn \in [Addr -> ConnRecord]
    /\ slot \in [Slot -> [conn: Addr \cup {Nil}, in_use: BOOLEAN]]
    /\ phase \in {"creating", "open", "shutting_down", "freed"}
    /\ pc \in [Thread -> PC]
    /\ mode \in [Thread -> {"infinite", "timed", "try"}]
    /\ at \in [Thread -> Slot \cup {Nil}]
    /\ lease \in [Thread -> Addr \cup {Nil}]
    /\ calls \in [Thread -> 0 .. MaxCalls]
    /\ \A t \in Thread : /\ pc[t] = "leased" <=> lease[t] # Nil
                         /\ pc[t] \in Reconnecting \cup {"leased"} <=> at[t] # Nil

---------------------------------------------------------------------------
(* Helpers                                                                 *)

Waiting == {t \in Thread : pc[t] = "waiting"}
Woken   == {t \in Thread : pc[t] = "woken"}
Free    == {s \in Slot : ~slot[s].in_use}

\* find_available_slot_locked: the lowest slot that is not in use.
IsFirstFree(s) == s \in Free /\ \A r \in Free : s <= r

\* The slot the scan of sqli_pool_release stops at.
IsSlotOf(s, c) ==
    /\ slot[s].conn = c
    /\ \A r \in Slot : slot[r].conn = c => s <= r

\* pthread_cond_signal with pc already changed to p: one waiter, if any.
Signal(p) ==
    LET W == {t \in Thread : p[t] = "waiting"}
    IN IF W = {} THEN pc' = p
       ELSE \E w \in W : pc' = [p EXCEPT ![w] = "woken"]

\* sqli_close then sqli_destroy.
Disposed(c) == UNION {Destroyed(d) : d \in Closed(c)}

\* Addresses calloc may return.
Available ==
    {a \in Addr : /\ ~conn[a].live
                  /\ ReuseDangling \/ \A s \in Slot : slot[s].conn # a}

---------------------------------------------------------------------------
(* Teardown: the loop of sqli_pool_destroy over the slots.                 *)

\* A connection whose transport has been disposed of is closed and freed.
Torn(c) == IF PINNED \in c.life THEN Discarded(c, "OK") ELSE FreeMemory

\* Slots below n are torn down; when n <= Size the disposal of slot n's
\* transport fails and the loop stops there, to be retried.
DisposeUpTo(n) ==
    /\ n <= Size => slot[n].conn # Nil /\ conn[slot[n].conn].open
    /\ phase' = IF n = Size + 1 THEN "freed" ELSE "shutting_down"
    /\ slot' = [s \in Slot |->
                  IF s < n THEN [conn |-> Nil, in_use |-> FALSE] ELSE slot[s]]
    /\ \E status \in {"IO_ERROR", "ERR"} :
         conn' = [a \in Addr |->
            IF \E s \in Slot : s < n /\ slot[s].conn = a THEN Torn(conn[a])
            ELSE IF n <= Size /\ slot[n].conn = a
                 THEN Discarded(conn[a], status) ELSE conn[a]]
    /\ UNCHANGED <<pc, mode, at, lease, calls>>

---------------------------------------------------------------------------
(* sqli_pool_create: single-threaded, the slots are connected in order.     *)
Init ==
    /\ conn = [a \in Addr |-> FreeMemory]
    /\ slot = [s \in Slot |-> [conn |-> Nil, in_use |-> FALSE]]
    /\ phase = "creating"
    /\ pc = [t \in Thread |-> "idle"]
    /\ mode = [t \in Thread |-> "infinite"]
    /\ at = [t \in Thread |-> Nil]
    /\ lease = [t \in Thread |-> Nil]
    /\ calls = [t \in Thread |-> 0]

\* One more slot is connected and marked RELEASED; the last one completes it.
CreateSlot ==
    /\ phase = "creating"
    /\ \E s \in Slot, a \in Available :
         /\ slot[s].conn = Nil
         /\ \A r \in Slot : slot[r].conn = Nil => s <= r
         /\ slot' = [slot EXCEPT ![s].conn = a]
         /\ conn' = [conn EXCEPT ![a] = [Connected EXCEPT !.life = {RELEASED}]]
         /\ phase' = IF s = Size THEN "open" ELSE phase
    /\ UNCHANGED <<pc, mode, at, lease, calls>>

\* failed_pool_creation: a connection cannot be made and the pool is destroyed.
\* The handle survives, shut down, only if that destruction fails.
CreateFails ==
    /\ phase = "creating"
    /\ \E n \in 1 .. Size + 1 : DisposeUpTo(n)

---------------------------------------------------------------------------
(* sqli_pool_acquire / try_acquire / acquire_timeout                       *)

\* A thread calls acquire with timeout m.
Call(t, m) ==
    /\ pc[t] = "idle" /\ phase \in {"open", "shutting_down"}
    /\ calls[t] < MaxCalls
    /\ pc' = [pc EXCEPT ![t] = "entered"]
    /\ mode' = [mode EXCEPT ![t] = m]
    /\ calls' = [calls EXCEPT ![t] = @ + 1]
    /\ UNCHANGED <<conn, slot, phase, at, lease>>

\* Mutant: the loop does not look at shutting_down.
InLoopIgnoringShutdown(t) == pc[t] \in {"entered", "woken"}

\* The thread holds the mutex and tests the loop condition.
InLoop(t) == pc[t] \in {"entered", "woken"} /\ phase # "shutting_down"

\* Mutant: the slot is not marked in use.
TakeReadyUnmarked(t) ==
    /\ InLoop(t)
    /\ \E s \in Slot :
         LET c == slot[s].conn IN
         /\ IsFirstFree(s)
         /\ c # Nil
         /\ Usable(conn[c])
         /\ slot' = slot
         /\ conn' = [conn EXCEPT ![c].life = @ \ {RELEASED}]
         /\ at' = [at EXCEPT ![t] = s]
         /\ lease' = [lease EXCEPT ![t] = c]
    /\ pc' = [pc EXCEPT ![t] = "leased"]
    /\ UNCHANGED <<phase, mode, calls>>

\* Mutant: the RELEASED mark is left on the connection.
TakeReadyStillReleased(t) ==
    /\ InLoop(t)
    /\ \E s \in Slot :
         LET c == slot[s].conn IN
         /\ IsFirstFree(s)
         /\ c # Nil
         /\ Usable(conn[c])
         /\ slot' = [slot EXCEPT ![s].in_use = TRUE]
         /\ at' = [at EXCEPT ![t] = s]
         /\ lease' = [lease EXCEPT ![t] = c]
    /\ pc' = [pc EXCEPT ![t] = "leased"]
    /\ UNCHANGED <<conn, phase, mode, calls>>

\* A usable connection whose socket is alive: lease it.
TakeReady(t) ==
    /\ InLoop(t)
    /\ \E s \in Slot :
         LET c == slot[s].conn IN
         /\ IsFirstFree(s)
         /\ c # Nil
         /\ Usable(conn[c])
         /\ slot' = [slot EXCEPT ![s].in_use = TRUE]
         /\ conn' = [conn EXCEPT ![c].life = @ \ {RELEASED}]
         /\ at' = [at EXCEPT ![t] = s]
         /\ lease' = [lease EXCEPT ![t] = c]
    /\ pc' = [pc EXCEPT ![t] = "leased"]
    /\ UNCHANGED <<phase, mode, calls>>

\* A usable connection whose peer is gone: disposed of under the mutex, then
\* the slot is reconnected outside it.
TakeDead(t) ==
    /\ InLoop(t)
    /\ \E s \in Slot :
         LET c == slot[s].conn IN
         /\ IsFirstFree(s)
         /\ c # Nil
         /\ Usable(conn[c])
         /\ slot' = [slot EXCEPT ![s] = [conn |-> Nil, in_use |-> TRUE]]
         /\ \E d \in Disposed(conn[c]) : conn' = [conn EXCEPT ![c] = d]
         /\ at' = [at EXCEPT ![t] = s]
    /\ pc' = [pc EXCEPT ![t] = "reconnect"]
    /\ UNCHANGED <<phase, mode, lease, calls>>

\* No connection, or one that is discarded or closed: reconnect.
TakeUnusable(t) ==
    /\ InLoop(t)
    /\ \E s \in Slot :
         LET c == slot[s].conn IN
         /\ IsFirstFree(s)
         /\ c # Nil => ~Usable(conn[c])
         /\ slot' = [slot EXCEPT ![s].in_use = TRUE]
         /\ at' = [at EXCEPT ![t] = s]
    /\ pc' = [pc EXCEPT ![t] = "reconnect"]
    /\ UNCHANGED <<conn, phase, mode, lease, calls>>

\* ensure_slot_connected, first half: the old object is closed and freed while
\* slot->conn still holds its address (or the connection turns out usable).
ReconnectFree(t) ==
    LET c == slot[at[t]].conn IN
    /\ pc[t] = "reconnect"
    /\ c # Nil
    /\ IF Usable(conn[c])
       THEN /\ conn' = conn
            /\ pc' = [pc EXCEPT ![t] = "connected"]
       ELSE /\ \E d \in Disposed(conn[c]) : conn' = [conn EXCEPT ![c] = d]
            /\ pc' = [pc EXCEPT ![t] = "dangling"]
    /\ UNCHANGED <<slot, phase, mode, at, lease, calls>>

\* slot->conn = NULL.
ReconnectClear(t) ==
    /\ \/ pc[t] = "dangling"
       \/ pc[t] = "reconnect" /\ slot[at[t]].conn = Nil
    /\ slot' = [slot EXCEPT ![at[t]].conn = Nil]
    /\ pc' = [pc EXCEPT ![t] = "connect"]
    /\ UNCHANGED <<conn, phase, mode, at, lease, calls>>

\* ensure_slot_connected, second half: create, connect and publish.
ConnectOK(t) ==
    /\ pc[t] = "connect"
    /\ \E a \in Available :
         /\ conn' = [conn EXCEPT ![a] = Connected]
         /\ slot' = [slot EXCEPT ![at[t]].conn = a]
    /\ pc' = [pc EXCEPT ![t] = "connected"]
    /\ UNCHANGED <<phase, mode, at, lease, calls>>

\* sqli_create or sqli_connect fails; the new object is destroyed.
ConnectFail(t) ==
    /\ pc[t] = "connect"
    /\ pc' = [pc EXCEPT ![t] = "unconnected"]
    /\ UNCHANGED <<conn, slot, phase, mode, at, lease, calls>>

\* Back under the mutex: the reconnected slot is leased.
AcquireReconnected(t) ==
    /\ pc[t] = "connected" /\ phase # "shutting_down"
    /\ lease' = [lease EXCEPT ![t] = slot[at[t]].conn]
    /\ pc' = [pc EXCEPT ![t] = "leased"]
    /\ UNCHANGED <<conn, slot, phase, mode, at, calls>>

\* Mutant: the slot stays in use after a failed reconnection.
AcquireFailedLeaks(t) ==
    /\ pc[t] = "unconnected" /\ phase # "shutting_down"
    /\ at' = [at EXCEPT ![t] = Nil]
    /\ Signal([pc EXCEPT ![t] = "idle"])
    /\ UNCHANGED <<conn, slot, phase, mode, lease, calls>>

\* Mutant: nobody is signalled after a failed reconnection.
AcquireFailedSilently(t) ==
    /\ pc[t] = "unconnected" /\ phase # "shutting_down"
    /\ slot' = [slot EXCEPT ![at[t]].in_use = FALSE]
    /\ at' = [at EXCEPT ![t] = Nil]
    /\ pc' = [pc EXCEPT ![t] = "idle"]
    /\ UNCHANGED <<conn, phase, mode, lease, calls>>

\* Back under the mutex after a failure: free the slot, signal, report.
AcquireFailed(t) ==
    /\ pc[t] = "unconnected" /\ phase # "shutting_down"
    /\ slot' = [slot EXCEPT ![at[t]].in_use = FALSE]
    /\ at' = [at EXCEPT ![t] = Nil]
    /\ Signal([pc EXCEPT ![t] = "idle"])
    /\ UNCHANGED <<conn, phase, mode, lease, calls>>

\* Every slot is in use: block, or report SQLI_TIMEOUT when timeout_ms = 0.
NoSlot(t) ==
    /\ InLoop(t)
    /\ Free = {}
    /\ pc' = [pc EXCEPT ![t] = IF mode[t] = "try" THEN "idle" ELSE "waiting"]
    /\ UNCHANGED <<conn, slot, phase, mode, at, lease, calls>>

\* A spurious wakeup of pthread_cond_wait.
SpuriousWake(t) ==
    /\ pc[t] = "waiting"
    /\ pc' = [pc EXCEPT ![t] = "woken"]
    /\ UNCHANGED <<conn, slot, phase, mode, at, lease, calls>>

\* The deadline of pthread_cond_timedwait passes before a signal arrives.
WaitTimeout(t) ==
    /\ pc[t] = "waiting" /\ mode[t] = "timed"
    /\ pc' = [pc EXCEPT ![t] = "idle"]
    /\ UNCHANGED <<conn, slot, phase, mode, at, lease, calls>>

\* The deadline passes when the waiter has been signalled: ETIMEDOUT, and the
\* code returns without testing the slots again.  POSIX lets such a waiter
\* consume the signal; glibc sends a replacement.
TimeoutAfterSignal(t) ==
    /\ pc[t] = "woken" /\ mode[t] = "timed"
    /\ LET p == [pc EXCEPT ![t] = "idle"]
       IN IF TimeoutConsumes THEN pc' = p ELSE Signal(p)
    /\ UNCHANGED <<conn, slot, phase, mode, at, lease, calls>>

\* The loop ends because the pool is shutting down: SQLI_INVALID_STATE.
AcquireRefused(t) ==
    /\ pc[t] = "entered" /\ phase = "shutting_down"
    /\ pc' = [pc EXCEPT ![t] = "idle"]
    /\ UNCHANGED <<conn, slot, phase, mode, at, lease, calls>>

---------------------------------------------------------------------------
(* sqli_pool_release                                                       *)

\* Mutant: a pinned connection can be released.
ReleasablePinned(s, c) == IsSlotOf(s, c) /\ slot[s].in_use

\* The guard of release: the slot is in use and the connection not pinned.
\* (The compare-and-swap that sets RELEASED excludes a concurrent pin.)
Releasable(s, c) ==
    IsSlotOf(s, c) /\ slot[s].in_use /\ PINNED \notin conn[c].life

\* The connection's lifecycle word with the mark of a returned lease.
Marked(c) == [c EXCEPT !.life = @ \cup {RELEASED}]

\* Mutant: the status of the disposal is not looked at.
GiveBackUnchecked(s, c) ==
    /\ Releasable(s, c)
    /\ IF DISCARDED \in conn[c].life
       THEN \E status \in DiscardStatus(conn[c]) :
              conn' = [conn EXCEPT ![c] = Marked(Discarded(@, status))]
       ELSE conn' = [conn EXCEPT ![c] = Marked(@)]
    /\ slot' = [slot EXCEPT ![s].in_use = FALSE]

\* The slot becomes available: a discarded connection only once its
\* transport is disposed of.
GiveBack(s, c) ==
    /\ Releasable(s, c)
    /\ IF DISCARDED \in conn[c].life
       THEN /\ "OK" \in DiscardStatus(conn[c])
            /\ conn' = [conn EXCEPT ![c] = Marked(Discarded(@, "OK"))]
       ELSE conn' = [conn EXCEPT ![c] = Marked(@)]
    /\ slot' = [slot EXCEPT ![s].in_use = FALSE]

\* Mutant: release does not signal.
ReleaseSilently(t) ==
    /\ pc[t] = "leased"
    /\ \E s \in Slot : GiveBack(s, lease[t])
    /\ pc' = [pc EXCEPT ![t] = "idle"]
    /\ lease' = [lease EXCEPT ![t] = Nil]
    /\ at' = [at EXCEPT ![t] = Nil]
    /\ UNCHANGED <<phase, mode, calls>>

\* Release succeeds.
Release(t) ==
    /\ pc[t] = "leased"
    /\ \E s \in Slot : GiveBack(s, lease[t])
    /\ Signal([pc EXCEPT ![t] = "idle"])
    /\ lease' = [lease EXCEPT ![t] = Nil]
    /\ at' = [at EXCEPT ![t] = Nil]
    /\ UNCHANGED <<phase, mode, calls>>

\* Disposal of a discarded connection fails: the RELEASED mark is taken back
\* and the caller keeps the lease.
ReleaseFails(t) ==
    LET c == lease[t] IN
    /\ pc[t] = "leased"
    /\ \E s \in Slot : Releasable(s, c)
    /\ DISCARDED \in conn[c].life
    /\ \E status \in DiscardStatus(conn[c]) \ {"OK"} :
         conn' = [conn EXCEPT ![c] = Discarded(@, status)]
    /\ UNCHANGED poolVars

---------------------------------------------------------------------------
(* sqli_pool_destroy.  Callers stop using the pool first (sqli.h): no      *)
(* thread is inside a pool call.                                           *)

Quiescent == \A t \in Thread : pc[t] \in {"idle", "leased"}

\* Refused while a slot is in use.
PoolDestroy ==
    /\ phase \in {"open", "shutting_down"} /\ Quiescent
    /\ Free = Slot
    /\ \E n \in 1 .. Size + 1 : DisposeUpTo(n)

---------------------------------------------------------------------------
(* What a borrower may do to the connection it has leased.  The module     *)
(* PoolCancel replaces Pin, Interrupt and Finish by the cancellation       *)
(* handle's own actions.                                                   *)

\* sqli_close by the borrower.
BorrowerClose(t) ==
    /\ pc[t] = "leased"
    /\ PINNED \notin conn[lease[t]].life
    /\ \E d \in Closed(conn[lease[t]]) : conn' = [conn EXCEPT ![lease[t]] = d]
    /\ UNCHANGED poolVars

\* An operation is registered: compare-and-swap of the lifecycle, 0 to PINNED.
Pin(t) ==
    /\ pc[t] = "leased"
    /\ conn[lease[t]].life = {} /\ conn[lease[t]].state = "READY"
    /\ conn' = [conn EXCEPT ![lease[t]].life = {PINNED}]
    /\ UNCHANGED poolVars

\* An urgent byte is sent, or a response is lost, while pinned.
Interrupt(t) ==
    /\ pc[t] = "leased"
    /\ PINNED \in conn[lease[t]].life
    /\ conn' = [conn EXCEPT ![lease[t]].life = @ \cup {DISCARDED}]
    /\ UNCHANGED poolVars

\* The operation finishes: a discarded connection, or one whose response was
\* lost, is disposed of, successfully or not, and then unpinned.
Finish(t) ==
    LET c == lease[t]
        disposed == {Discarded(conn[c], status) : status \in DiscardStatus(conn[c])}
        kept == {conn[c]}
    IN
    /\ pc[t] = "leased"
    /\ PINNED \in conn[c].life
    /\ \E d \in IF DISCARDED \in conn[c].life THEN disposed ELSE disposed \cup kept :
         conn' = [conn EXCEPT ![c] = [d EXCEPT !.life = @ \ {PINNED}]]
    /\ UNCHANGED poolVars

---------------------------------------------------------------------------
Acquire(t) ==
    \/ TakeReady(t) \/ TakeDead(t) \/ TakeUnusable(t)
    \/ ReconnectFree(t) \/ ReconnectClear(t)
    \/ ConnectOK(t) \/ ConnectFail(t)
    \/ AcquireReconnected(t) \/ AcquireFailed(t)
    \/ NoSlot(t) \/ AcquireRefused(t)

Borrower(t) == BorrowerClose(t) \/ Pin(t) \/ Interrupt(t) \/ Finish(t)

PoolNext(t) ==
    \/ \E m \in Timeouts : Call(t, m)
    \/ Acquire(t) \/ SpuriousWake(t) \/ WaitTimeout(t) \/ TimeoutAfterSignal(t)
    \/ Release(t) \/ ReleaseFails(t)

Next ==
    \/ \E t \in Thread : PoolNext(t) \/ Borrower(t)
    \/ CreateSlot \/ CreateFails \/ PoolDestroy

Spec == Init /\ [][Next]_vars

\* Threads keep running and borrowers return what they borrow: they let their
\* operations finish and retry a failed release.  Deadlines and peers may fail
\* or not, and the pool need never be destroyed.
Fairness ==
    \A t \in Thread :
        WF_vars(Acquire(t)) /\ WF_vars(Finish(t)) /\ SF_vars(Release(t))

FairSpec == Spec /\ Fairness

---------------------------------------------------------------------------
(* Properties                                                              *)

\* Two threads never hold the same connection, and a borrowed connection is
\* allocated and still stored in the slot it was borrowed from, marked in use
\* (sqli_pool_acquire_timeout and sqli_pool_release).
LeaseExclusive ==
    \A t \in Thread : lease[t] # Nil =>
        /\ conn[lease[t]].live
        /\ at[t] # Nil
        /\ slot[at[t]] = [conn |-> lease[t], in_use |-> TRUE]
        /\ \A u \in Thread \ {t} : lease[u] # lease[t]

\* A slot is in use exactly while one thread has it on lease or reconnects
\* it outside the mutex: no error path of acquire or release leaks a slot or
\* frees one that another thread is working on.
SlotOwned ==
    \A s \in Slot :
        /\ slot[s].in_use <=> \E t \in Thread : at[t] = s
        /\ \A t, u \in Thread : at[t] = s /\ at[u] = s => t = u

\* No connection object is lost: every allocated object is in a slot, so once
\* sqli_pool_destroy has freed the pool none is left.
NoObjectLeak ==
    /\ \A a \in Addr : conn[a].live => \E s \in Slot : slot[s].conn = a
    /\ phase = "freed" => \A s \in Slot : slot[s].conn = Nil

\* A connection object is never freed while its socket is still open, although
\* transport disposal can fail: release keeps the lease and destroy stops.
NoSocketLeak == \A a \in Addr : conn[a].open => conn[a].live

NoLeak == NoObjectLeak /\ NoSocketLeak

\* A pinned connection stays on lease: neither release nor destroy nor a
\* reconnection takes it from under the registered operation.
PinnedIsLeased ==
    \A a \in Addr : PINNED \in conn[a].life =>
        /\ RELEASED \notin conn[a].life
        /\ \E t \in Thread : lease[t] = a

\* Blocked acquirers are not forgotten: while somebody waits, at least as many
\* woken threads are on their way to the mutex as there are slots to be had.
NoStrandedWaiter ==
    Waiting # {} => Cardinality(Free) <= Cardinality(Woken)

\* Once destruction has begun there is no lease and no reconnection under way,
\* so the branch of acquire that finds shutting_down set after a reconnection
\* is dead code.
ShutdownIsQuiet ==
    phase \in {"shutting_down", "freed"} => \A t \in Thread : at[t] = Nil

\* The mark of a slot says whether a thread works on it, and nobody does once
\* sqli_pool_destroy has begun.
SlotKept == SlotOwned /\ ShutdownIsQuiet

\* A connection is handed out only in the state of a freshly connected one:
\* ready, open, not discarded, and with a lifecycle word of zero, without which
\* no cancellable operation could be registered on it.
LeaseIsFresh ==
    [][\A t \in Thread :
          lease[t] = Nil /\ lease'[t] # Nil => conn'[lease'[t]] = Connected]_vars

\* The pool implements the lease service: a thread's loan is what acquire gave
\* it and release has not taken back.
L == INSTANCE Lease
       WITH loan <- [t \in Thread |-> [slot |-> IF pc[t] = "leased" THEN at[t] ELSE Nil,
                                      conn |-> lease[t]]],
            closed <- phase \in {"shutting_down", "freed"}

\* Exclusive loans, ended by their borrowers alone, and none after shutdown.
LeaseService == L!Spec

\* Every acquire call returns, with a lease or without one, if borrowers return
\* their leases: no wakeup is lost among the threads that compete for a slot.
AcquireReturns ==
    \A t \in Thread :
        pc[t] \notin {"idle", "leased"} ~> pc[t] \in {"idle", "leased"}
===========================================================================
