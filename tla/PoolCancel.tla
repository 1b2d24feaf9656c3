---------------------------- MODULE PoolCancel ----------------------------
(***************************************************************************)
(* The pool and the cancellation handles together: borrowers execute       *)
(* cancellable statements on the connections they have leased, requesters  *)
(* call sqli_cancel_operation_request at any time, leases change hands and *)
(* discarded connections are replaced by new ones, possibly at the same    *)
(* address.  The two components meet in the lifecycle word of the          *)
(* connection (conn->lifecycle): the pin, the discard mark and the         *)
(* returned-lease mark.                                                    *)
(***************************************************************************)
EXTENDS Conn, Naturals, FiniteSets

CONSTANTS Thread, Addr, Nil, Size, Timeouts, MaxCalls, ReuseDangling,
          TimeoutConsumes, Op

VARIABLES conn, slot, phase, pc, mode, at, lease, calls,   \* Pool
          op, run, srv, effect                             \* Cancel

P == INSTANCE Pool
C == INSTANCE Cancel WITH Session <- Addr

ASSUME PoolCancelAssumption == P!PoolAssumption /\ C!CancelAssumption

poolVars   == <<slot, phase, pc, mode, at, lease, calls>>
handleVars == <<op, run, srv, effect>>
vars       == <<conn, poolVars, handleVars>>

Init == P!Init /\ op = [o \in Op |-> C!NewOp]
               /\ run = [a \in Addr |-> C!IdleRun]
               /\ srv = [a \in Addr |-> C!NewSession]
               /\ effect = [o \in Op |-> "none"]

\* A new connection object is a new session with the server.
SessionsFollow ==
    /\ IF \E a \in Addr : ~conn[a].live /\ conn'[a].live
       THEN \E a \in Addr : /\ ~conn[a].live /\ conn'[a].live
                            /\ C!NewPhysicalSession(a)
       ELSE UNCHANGED <<run, srv, effect>>
    /\ UNCHANGED op

\* A pool call or a plain sqli_close.  The close is the borrower's own.
PoolStep(t) ==
    /\ \/ P!PoolNext(t)
       \/ P!BorrowerClose(t)
    /\ SessionsFollow

\* Creation of the pool, and its destruction.
PoolLifetime ==
    /\ P!CreateSlot \/ P!CreateFails \/ P!PoolDestroy
    /\ SessionsFollow

\* The borrower executes a statement on its lease.
Execute(t) ==
    /\ pc[t] = "leased"
    /\ C!Execution(lease[t])
    /\ UNCHANGED poolVars

\* Requesters and servers act at any time.
Elsewhere ==
    /\ \/ \E o \in Op : C!Request(o)
       \/ \E a \in Addr : C!Server(a)
    /\ UNCHANGED poolVars

Next ==
    \/ \E t \in Thread : PoolStep(t) \/ Execute(t)
    \/ PoolLifetime \/ Elsewhere

Spec == Init /\ [][Next]_vars

---------------------------------------------------------------------------
(* Properties                                                              *)

\* Seen from the pool, the handles do nothing but pin, discard and unpin the
\* connections on lease: the composition implements the pool specification,
\* whose borrower was assumed to behave that way.
PoolImplemented == P!Spec

\* A handle never touches another lease: while it is active its connection is
\* on lease and pinned, and only its own execution runs there.
HandleStaysInLease ==
    \A o \in Op : op[o].state = "active" =>
        /\ \E t \in Thread : lease[t] = op[o].connection
        /\ PINNED \in conn[op[o].connection].life
        /\ run[op[o].connection].op = o

\* A connection that waits in the pool or is on lease without an execution is in step
\* with its server whenever a handle could still be registered on it.
LeasesAreClean ==
    \A a \in Addr :
        /\ conn[a].live /\ run[a].pc = "idle"
        /\ conn[a].life \subseteq {RELEASED}
        => srv[a] = C!NewSession

\* What a borrower may rely on although leases change hands and addresses are
\* reused: no handle but its own acts on its connection, its statements are
\* interrupted on request only, and its session starts in step.
LeaseUnharmed == HandleStaysInLease /\ C!InterruptedOnRequest /\ LeasesAreClean
===========================================================================
