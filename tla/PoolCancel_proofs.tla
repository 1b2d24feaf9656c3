------------------------- MODULE PoolCancel_proofs -------------------------
(***************************************************************************)
(* Proofs about the pool and the cancellation handles together, for every  *)
(* number of threads, slots, addresses and handles: each component's       *)
(* inductive invariant survives the steps of the other.                    *)
(***************************************************************************)
EXTENDS PoolCancel, TLAPS

PP == INSTANCE Pool_proofs
CC == INSTANCE Cancel_proofs WITH Session <- Addr

\* The inductive invariant: that of the pool and that of the handles.
IInv == PP!IInv /\ CC!IInv
---------------------------------------------------------------------------
(* The proof modules speak of the components this composition is made of   *)

\* The assumptions on the constants.
LEMMA SameAssumptions == PP!PoolAssumption /\ CC!CancelAssumption
  BY PoolCancelAssumption DEF P!PoolAssumption, PP!PoolAssumption,
     C!CancelAssumption, CC!CancelAssumption

\* The pool.
LEMMA SamePool ==
    /\ P!Init => PP!Init
    /\ P!Next => PP!Next
    /\ P!CreateSlot => PP!CreateSlot
    /\ P!CreateFails => PP!CreateFails
    /\ P!PoolDestroy => PP!PoolDestroy
    /\ \A t \in Thread : /\ P!PoolNext(t) => PP!PoolNext(t)
                         /\ P!BorrowerClose(t) => PP!BorrowerClose(t)
  <1>1. P!Init => PP!Init
    BY DEF P!FreeMemory, PP!FreeMemory, P!Init, PP!Init, P!Slot, PP!Slot
  <1>2. P!CreateSlot => PP!CreateSlot
    BY DEF P!Available, PP!Available, P!Connected, PP!Connected, P!CreateSlot, PP!CreateSlot,
         P!RELEASED, PP!RELEASED, P!Slot, PP!Slot
  <1>3. P!CreateFails => PP!CreateFails
    BY DEF P!CreateFails, PP!CreateFails, P!DISCARDED, PP!DISCARDED, P!Discarded, PP!Discarded,
         P!DisposeUpTo, PP!DisposeUpTo, P!FreeMemory, PP!FreeMemory, P!PINNED, PP!PINNED,
         P!Slot, PP!Slot, P!Torn, PP!Torn
  <1>4. P!PoolDestroy => PP!PoolDestroy
    BY DEF P!DISCARDED, PP!DISCARDED, P!Discarded, PP!Discarded, P!DisposeUpTo, PP!DisposeUpTo,
         P!Free, PP!Free, P!FreeMemory, PP!FreeMemory, P!PINNED, PP!PINNED, P!PoolDestroy,
         PP!PoolDestroy, P!Quiescent, PP!Quiescent, P!Slot, PP!Slot, P!Torn, PP!Torn
  <1>5. ASSUME NEW t \in Thread PROVE P!PoolNext(t) => PP!PoolNext(t)
    BY DEF P!Acquire, PP!Acquire, P!AcquireFailed, PP!AcquireFailed, P!AcquireReconnected,
         PP!AcquireReconnected, P!AcquireRefused, PP!AcquireRefused, P!Available,
         PP!Available, P!Call, PP!Call, P!Closed, PP!Closed, P!ConnectFail,
         PP!ConnectFail, P!ConnectOK, PP!ConnectOK, P!Connected, PP!Connected,
         P!DISCARDED, PP!DISCARDED, P!Destroyed, PP!Destroyed, P!DiscardStatus,
         PP!DiscardStatus, P!Discarded, PP!Discarded, P!Disposed, PP!Disposed, P!Free,
         PP!Free, P!FreeMemory, PP!FreeMemory, P!GiveBack, PP!GiveBack, P!InLoop,
         PP!InLoop, P!IsFirstFree, PP!IsFirstFree, P!IsSlotOf, PP!IsSlotOf, P!Marked,
         PP!Marked, P!NoSlot, PP!NoSlot, P!PINNED, PP!PINNED, P!PoolNext, PP!PoolNext,
         P!RELEASED, PP!RELEASED, P!ReconnectClear, PP!ReconnectClear, P!ReconnectFree,
         PP!ReconnectFree, P!Releasable, PP!Releasable, P!Release, PP!Release,
         P!ReleaseFails, PP!ReleaseFails, P!Signal, PP!Signal, P!Slot, PP!Slot,
         P!SpuriousWake, PP!SpuriousWake, P!TakeDead, PP!TakeDead, P!TakeReady,
         PP!TakeReady, P!TakeUnusable, PP!TakeUnusable, P!TimeoutAfterSignal,
         PP!TimeoutAfterSignal, P!Usable, PP!Usable, P!WaitTimeout, PP!WaitTimeout,
         P!poolVars, PP!poolVars
  <1>6. ASSUME NEW t \in Thread PROVE P!BorrowerClose(t) => PP!BorrowerClose(t)
    BY DEF P!BorrowerClose, PP!BorrowerClose, P!Closed, PP!Closed, P!DISCARDED, PP!DISCARDED,
         P!DiscardStatus, PP!DiscardStatus, P!Discarded, PP!Discarded, P!PINNED,
         PP!PINNED, P!poolVars, PP!poolVars
  <1>7. ASSUME NEW t \in Thread PROVE P!Borrower(t) => PP!Borrower(t)
    BY DEF P!Borrower, PP!Borrower, P!BorrowerClose, PP!BorrowerClose, P!Closed, PP!Closed,
         P!DISCARDED, PP!DISCARDED, P!DiscardStatus, PP!DiscardStatus, P!Discarded,
         PP!Discarded, P!Finish, PP!Finish, P!Interrupt, PP!Interrupt, P!PINNED,
         PP!PINNED, P!Pin, PP!Pin, P!poolVars, PP!poolVars
  <1>8. P!Next => PP!Next
    BY <1>2, <1>3, <1>4, <1>5, <1>7 DEF P!Next, PP!Next
  <1> QED BY <1>1, <1>2, <1>3, <1>4, <1>5, <1>6, <1>8

\* The cancellation handles.
LEMMA SameHandles ==
    /\ \A a \in Addr : /\ C!Execution(a) => CC!Execution(a)
                       /\ C!Server(a) => CC!Server(a)
                       /\ C!NewPhysicalSession(a) => CC!NewPhysicalSession(a)
    /\ \A o \in Op : C!Request(o) => CC!Request(o)
  <1>1. ASSUME NEW a \in Addr PROVE C!Execution(a) => CC!Execution(a)
    BY DEF C!Arm, CC!Arm, C!CanRegister, CC!CanRegister, C!CancelBeforeStart, CC!CancelBeforeStart,
         C!DISCARDED, CC!DISCARDED, C!DiscardStatus, CC!DiscardStatus, C!Discarded,
         CC!Discarded, C!Execution, CC!Execution, C!Finish, CC!Finish, C!OutcomeOf,
         CC!OutcomeOf, C!PINNED, CC!PINNED, C!Receive, CC!Receive, C!ReceiveFails,
         CC!ReceiveFails, C!Register, CC!Register, C!SendExecute, CC!SendExecute,
         C!SendFails, CC!SendFails, C!SendInterrupt, CC!SendInterrupt
  <1>2. ASSUME NEW a \in Addr PROVE C!Server(a) => CC!Server(a)
    BY DEF C!Server, CC!Server, C!ServerApplies, CC!ServerApplies, C!ServerEnds, CC!ServerEnds,
         C!ServerInterrupts, CC!ServerInterrupts, C!ServerRejects, CC!ServerRejects
  <1>3. ASSUME NEW a \in Addr PROVE C!NewPhysicalSession(a) => CC!NewPhysicalSession(a)
    BY DEF C!IdleRun, CC!IdleRun, C!NewPhysicalSession, CC!NewPhysicalSession, C!NewSession,
         CC!NewSession
  <1>4. ASSUME NEW o \in Op PROVE C!Request(o) => CC!Request(o)
    BY DEF C!DISCARDED, CC!DISCARDED, C!Request, CC!Request, C!SendInterrupt, CC!SendInterrupt
  <1> QED BY <1>1, <1>2, <1>3, <1>4

---------------------------------------------------------------------------
(* Steps of the pool keep the handles' invariant                           *)

\* Handles look at the pin and at the discard mark of a connection only.  A step of
\* the pool that leaves every session alone keeps their invariant.
LEMMA SessionsKept ==
    ASSUME IInv, PP!ConnectionsKept, conn' \in [Addr -> CC!ConnRecord],
           \A a \in Addr : ~PP!Born(a), UNCHANGED <<op, run, srv, effect>>
    PROVE  CC!IInv'
  <1> USE SameAssumptions DEF IInv, CC!IInv
  <1>1. ASSUME NEW a \in Addr
        PROVE  /\ PINNED \in conn'[a].life <=> PINNED \in conn[a].life
               /\ PINNED \in conn[a].life => conn'[a] = conn[a]
               /\ conn'[a].live => conn[a].live
               /\ conn'[a].live /\ DISCARDED \in conn[a].life => DISCARDED \in conn'[a].life
    BY DEF PP!ConnectionsKept, PP!Handled, PP!Born, PP!PINNED, PP!DISCARDED,
           PINNED, DISCARDED
  <1>2. CC!TypeOK'
    BY DEF CC!TypeOK
  <1>3. CC!Pinning'
    BY <1>1 DEF CC!Pinning, CC!PINNED, PINNED
  <1>4. CC!Requests'
    BY <1>1 DEF CC!Requests, CC!Pinning, CC!PINNED, PINNED, CC!DISCARDED, DISCARDED
  <1>5. CC!Urgency'
    BY <1>1 DEF CC!Urgency, CC!DISCARDED, DISCARDED
  <1>6. CC!Executing'
    BY <1>1 DEF CC!Executing, CC!DISCARDED, DISCARDED
  <1>7. ASSUME NEW a \in Addr PROVE CC!Stage(a)'
    <2>1. CASE run[a].pc = "idle"
      BY <1>1, <2>1 DEF CC!Stages, CC!Stage, CC!DISCARDED, DISCARDED
    <2>2. CASE run[a].pc # "idle"
      <3>1. conn'[a] = conn[a]
        BY <1>1, <2>2 DEF CC!Pinning, CC!PINNED, PINNED
      <3> QED BY <2>2, <3>1 DEF CC!Stages, CC!Stage, CC!Concluded, CC!Quiet
    <2> QED BY <2>1, <2>2
  <1>8. CC!InterruptedOnRequest' /\ CC!OutcomeTruthful'
    BY DEF CC!InterruptedOnRequest, CC!OutcomeTruthful
  <1> QED BY <1>2, <1>3, <1>4, <1>5, <1>6, <1>7, <1>8 DEF CC!Stages

\* A new connection object starts a new session; what the old one left behind is
\* settled out of the handles' sight.
LEMMA SessionReplaced ==
    ASSUME IInv, PP!ConnectionsKept, conn' \in [Addr -> CC!ConnRecord],
           NEW a \in Addr, PP!Born(a), CC!NewPhysicalSession(a), UNCHANGED op
    PROVE  CC!IInv'
  <1> USE SameAssumptions DEF IInv, CC!IInv
  <1>0. PINNED \notin conn[a].life /\ run[a].pc = "idle"
    BY PP!PinnedLive DEF PP!Born, PP!PINNED, CC!PINNED, PINNED, CC!Pinning
  <1>1. ASSUME NEW b \in Addr
        PROVE  /\ PINNED \in conn'[b].life <=> PINNED \in conn[b].life
               /\ PINNED \in conn[b].life => conn'[b] = conn[b]
               /\ b # a /\ conn'[b].live => conn[b].live
               /\ b # a /\ conn'[b].live /\ DISCARDED \in conn[b].life
                    => DISCARDED \in conn'[b].life
    BY DEF PP!ConnectionsKept, PP!Handled, PP!Born, PP!PINNED, PP!DISCARDED,
           PINNED, DISCARDED
  <1>2. /\ run' = [run EXCEPT ![a] = CC!IdleRun]
        /\ srv' = [srv EXCEPT ![a] = CC!NewSession]
        /\ CC!IdleRun \in CC!RunRecord /\ CC!IdleRun.pc = "idle" /\ CC!IdleRun.op = Nil
        /\ CC!NewSession \in CC!SrvRecord /\ CC!NewSession.executing = Nil
        /\ CC!NewSession.reply = "none" /\ ~CC!NewSession.urgent
    BY CC!RecordFacts DEF CC!NewPhysicalSession
  <1>3. /\ effect' \in [Op -> {"none", "applied", "failed", "interrupted"}]
        /\ \A o \in Op : \/ effect'[o] = effect[o]
                         \/ /\ srv[a].executing = o
                            /\ effect'[o] \in {"applied", "failed"}
    BY DEF CC!NewPhysicalSession, CC!TypeOK, CC!SrvRecord
  <1>4. CC!TypeOK'
    BY <1>2, <1>3 DEF CC!TypeOK
  <1>5. CC!Pinning'
    BY <1>0, <1>1, <1>2 DEF CC!TypeOK, CC!Pinning, CC!PINNED, PINNED
  <1>6. \A o \in Op : op[o].state = "active" => op[o].connection # a
    BY <1>0 DEF CC!Pinning
  <1>7. srv[a].executing # Nil => /\ op[srv[a].executing].state = "terminal"
                                  /\ op[srv[a].executing].outcome = "UNKNOWN"
    BY <1>0 DEF CC!Executing
  <1>8. CC!Requests'
    BY <1>0, <1>1, <1>2, <1>3, <1>6, <1>7
       DEF CC!TypeOK, CC!Requests, CC!Pinning, CC!PINNED, PINNED, CC!DISCARDED, DISCARDED
  <1>9. CC!Urgency'
    BY <1>1, <1>2 DEF CC!TypeOK, CC!Urgency, CC!DISCARDED, DISCARDED
  <1>10. CC!Executing'
    <2>1. \A b \in Addr : /\ b # a => srv'[b] = srv[b] /\ run'[b] = run[b]
                          /\ srv'[a].executing = Nil
      BY <1>2 DEF CC!TypeOK
    <2>2. ASSUME NEW b \in Addr, b # a, srv[b].executing # Nil
          PROVE  effect'[srv[b].executing] = "none"
      <3>1. srv[b].executing \in Op /\ effect[srv[b].executing] = "none"
        BY <2>2 DEF CC!TypeOK, CC!SrvRecord, CC!Executing
      <3>2. srv[a].executing # srv[b].executing
        BY <2>2 DEF CC!Executing
      <3> QED BY <1>3, <3>1, <3>2
    <2> QED BY <1>1, <2>1, <2>2 DEF CC!Executing, CC!DISCARDED, DISCARDED
  <1>11. ASSUME NEW b \in Addr PROVE CC!Stage(b)'
    <2>1. CASE b = a
      BY <1>2, <2>1 DEF CC!TypeOK, CC!Stage
    <2>2. CASE b # a /\ run[b].pc = "idle"
      BY <1>1, <1>2, <2>2 DEF CC!TypeOK, CC!Stages, CC!Stage, CC!DISCARDED, DISCARDED
    <2>3. CASE b # a /\ run[b].pc # "idle"
      <3>1. conn'[b] = conn[b] /\ run'[b] = run[b] /\ srv'[b] = srv[b]
        BY <1>1, <1>2, <2>3 DEF CC!TypeOK, CC!Pinning, CC!PINNED, PINNED
      <3>2. run[b].op \in Op /\ op[run[b].op].state = "active"
        BY <2>3 DEF CC!TypeOK, CC!RunRecord, CC!Pinning
      <3>3. effect'[run[b].op] = effect[run[b].op]
        BY <1>3, <1>7, <3>2
      <3> QED BY <2>3, <3>1, <3>3 DEF CC!Stages, CC!Stage, CC!Concluded, CC!Quiet
    <2> QED BY <2>1, <2>2, <2>3
  <1>12. CC!InterruptedOnRequest' /\ CC!OutcomeTruthful'
    BY <1>3, <1>7 DEF CC!InterruptedOnRequest, CC!OutcomeTruthful
  <1> QED BY <1>4, <1>5, <1>8, <1>9, <1>10, <1>11, <1>12 DEF CC!Stages

\* Every step of the pool, or a plain sqli_close, keeps both invariants.
LEMMA PoolStepKeeps ==
    ASSUME IInv, ~ReuseDangling, (\E t \in Thread : PoolStep(t)) \/ PoolLifetime
    PROVE  IInv'
  <1>1. /\ \/ \E t \in Thread : PP!PoolNext(t) \/ PP!BorrowerClose(t)
           \/ PP!CreateSlot \/ PP!CreateFails \/ PP!PoolDestroy
        /\ SessionsFollow
    <2>1. ASSUME NEW t \in Thread, PoolStep(t)
          PROVE  (PP!PoolNext(t) \/ PP!BorrowerClose(t)) /\ SessionsFollow
      BY <2>1, SamePool DEF PoolStep
    <2>2. ASSUME PoolLifetime
          PROVE  (PP!CreateSlot \/ PP!CreateFails \/ PP!PoolDestroy) /\ SessionsFollow
      BY <2>2, SamePool DEF PoolLifetime
    <2> QED BY <2>1, <2>2
  <1>2. PP!Next
    BY <1>1 DEF PP!Next, PP!Borrower
  <1>3. PP!IInv'
    BY <1>2, PP!NextIInv, SameAssumptions DEF IInv
  <1>4. PP!ConnectionsKept
    BY <1>1, PP!PoolKeepsConnections, SameAssumptions DEF IInv
  <1>5. conn' \in [Addr -> CC!ConnRecord]
    BY <1>3 DEF PP!IInv, PP!TypeOK, PP!ConnRecord, CC!ConnRecord, PP!Bits, CC!Bits,
       PP!PINNED, CC!PINNED, PP!DISCARDED, CC!DISCARDED, PP!RELEASED, CC!RELEASED
  <1>6. CASE \A a \in Addr : ~PP!Born(a)
    <2>1. UNCHANGED <<op, run, srv, effect>>
      BY <1>1, <1>6 DEF SessionsFollow, PP!Born
    <2> QED BY <1>3, <1>4, <1>5, <1>6, <2>1, SessionsKept DEF IInv
  <1>7. CASE ~(\A a \in Addr : ~PP!Born(a))
    <2>1. PICK a \in Addr : PP!Born(a) /\ C!NewPhysicalSession(a)
      BY <1>1, <1>7 DEF SessionsFollow, PP!Born
    <2>3. CC!NewPhysicalSession(a)
      BY <2>1, SameHandles
    <2>2. UNCHANGED op
      BY <1>1 DEF SessionsFollow
    <2> QED BY <1>3, <1>4, <1>5, <2>1, <2>2, <2>3, SessionReplaced DEF IInv
  <1> QED BY <1>6, <1>7

---------------------------------------------------------------------------
(* Steps of the handles are steps of a borrower                            *)

\* What an execution does to its connection: nothing, pin it, disqualify it while
\* it is pinned, or finish.
LEMMA ExecutionOnConn ==
    ASSUME CC!IInv, NEW c \in Addr, CC!Execution(c)
    PROVE  \/ conn' = conn
           \/ /\ conn[c].life = {} /\ conn[c].state = "READY"
              /\ conn' = [conn EXCEPT ![c].life = {PINNED}]
           \/ /\ PINNED \in conn[c].life
              /\ conn' = [conn EXCEPT ![c].life = @ \cup {DISCARDED}]
           \/ /\ PINNED \in conn[c].life
              /\ \E d \in IF DISCARDED \in conn[c].life
                          THEN {Discarded(conn[c], status) : status \in DiscardStatus(conn[c])}
                          ELSE {Discarded(conn[c], status) : status \in DiscardStatus(conn[c])}
                               \cup {conn[c]} :
                   conn' = [conn EXCEPT ![c] = [d EXCEPT !.life = @ \ {PINNED}]]
  <1> USE SameAssumptions DEF CC!IInv
  <1>1. run[c].pc # "idle" => PINNED \in conn[c].life /\ op[run[c].op].connection = c
    BY DEF CC!Pinning, CC!PINNED, PINNED
  <1>2. CASE \E o \in Op : CC!CancelBeforeStart(c, o)
    BY <1>2 DEF CC!CancelBeforeStart
  <1>3. CASE \E o \in Op : CC!Register(c, o)
    BY <1>3 DEF CC!Register, CC!CanRegister, CC!PINNED, PINNED
  <1>4. CASE CC!SendFails(c)
    <2>1. PICK st \in {"ALLOC_FAIL", "IO_ERROR"} :
            conn' = [conn EXCEPT ![c].life =
                       IF st = "IO_ERROR" THEN @ \cup {DISCARDED} ELSE @]
      BY <1>4, Zenon DEF CC!SendFails, CC!DISCARDED, DISCARDED
    <2>2. CASE st = "IO_ERROR"
      BY <1>1, <1>4, <2>1, <2>2 DEF CC!SendFails
    <2>3. CASE st = "ALLOC_FAIL"
      BY <2>1, <2>3 DEF CC!TypeOK, CC!ConnRecord
    <2> QED BY <2>2, <2>3
  <1>5. CASE CC!SendExecute(c) \/ CC!Receive(c)
    BY <1>5 DEF CC!SendExecute, CC!Receive
  <1>6. CASE CC!Arm(c)
    BY <1>1, <1>6 DEF CC!Arm, CC!SendInterrupt, CC!DISCARDED, DISCARDED
  <1>7. CASE CC!ReceiveFails(c)
    <2>1. PICK st \in {"IO_ERROR", "PROTO_ERROR", "ALLOC_FAIL"} :
            conn' = [conn EXCEPT ![c].life =
                       IF st = "ALLOC_FAIL" THEN @ ELSE @ \cup {DISCARDED}]
      BY <1>7, Zenon DEF CC!ReceiveFails, CC!DISCARDED, DISCARDED
    <2>2. CASE st # "ALLOC_FAIL"
      BY <1>1, <1>7, <2>1, <2>2 DEF CC!ReceiveFails
    <2>3. CASE st = "ALLOC_FAIL"
      BY <2>1, <2>3 DEF CC!TypeOK, CC!ConnRecord
    <2> QED BY <2>2, <2>3
  <1>8. CASE CC!Finish(c)
    <2>1. PINNED \in conn[c].life
      BY <1>1, <1>8 DEF CC!Finish
    <2> DEFINE dispose == {Discarded(conn[c], status) : status \in DiscardStatus(conn[c])}
    <2>2. \/ \E d \in dispose : conn' = [conn EXCEPT ![c] = [d EXCEPT !.life = @ \ {PINNED}]]
          \/ /\ DISCARDED \notin conn[c].life
             /\ conn' = [conn EXCEPT ![c] = [conn[c] EXCEPT !.life = @ \ {PINNED}]]
      <3>1. PICK discarded \in BOOLEAN, status \in DiscardStatus(conn[c]) :
              /\ DISCARDED \in conn[c].life => discarded
              /\ LET d == IF discarded THEN Discarded(conn[c], status) ELSE conn[c]
                 IN conn' = [conn EXCEPT ![c] = [d EXCEPT !.life = @ \ {PINNED}]]
        BY <1>8 DEF CC!Finish, CC!PINNED, PINNED, CC!DISCARDED, DISCARDED, CC!Discarded,
           Discarded, CC!DiscardStatus, DiscardStatus
      <3>2. CASE discarded
        <4>1. Discarded(conn[c], status) \in dispose
          OBVIOUS
        <4> HIDE DEF dispose
        <4> QED BY <3>1, <3>2, <4>1
      <3>3. CASE ~discarded
        BY <3>1, <3>3
      <3> QED BY <3>2, <3>3
    <2> HIDE DEF dispose
    <2>3. \E d \in IF DISCARDED \in conn[c].life THEN dispose ELSE dispose \cup {conn[c]} :
            conn' = [conn EXCEPT ![c] = [d EXCEPT !.life = @ \ {PINNED}]]
      BY <2>2
    <2> QED BY <2>1, <2>3 DEF dispose
  <1> QED BY <1>2, <1>3, <1>4, <1>5, <1>6, <1>7, <1>8 DEF CC!Execution

\* An execution on a lease is the borrower's step, or none, of the pool.
LEMMA ExecutionIsBorrower ==
    ASSUME IInv, NEW t \in Thread, Execute(t)
    PROVE  [P!Next]_P!vars
  <1>1. pc[t] = "leased" /\ C!Execution(lease[t]) /\ UNCHANGED P!poolVars
    BY DEF Execute, P!poolVars, poolVars
  <1>2. lease[t] \in Addr
    BY <1>1 DEF IInv, PP!IInv, PP!TypeOK
  <1>3. CC!Execution(lease[t])
    BY <1>1, <1>2, SameHandles
  <1>4. CASE conn' = conn
    BY <1>1, <1>4 DEF P!vars
  <1>5. CASE P!Borrower(t)
    BY <1>5 DEF P!Next
  <1> QED BY <1>1, <1>2, <1>3, <1>4, <1>5, ExecutionOnConn
          DEF IInv, P!Borrower, P!Pin, P!Interrupt, P!Finish, P!PINNED, PINNED,
              P!DISCARDED, DISCARDED, P!Discarded, Discarded, P!DiscardStatus, DiscardStatus

\* An active handle's connection is pinned, hence on lease.
LEMMA ActiveOnLease ==
    ASSUME IInv, NEW o \in Op, op[o].state = "active"
    PROVE  /\ op[o].connection \in Addr /\ run[op[o].connection].op = o
           /\ PINNED \in conn[op[o].connection].life
           /\ \E t \in Thread : lease[t] = op[o].connection /\ pc[t] = "leased"
  <1>1. op[o].connection \in Addr /\ run[op[o].connection].op = o
    BY DEF IInv, CC!IInv, CC!Pinning
  <1>2. PINNED \in conn[op[o].connection].life
    BY <1>1, SameAssumptions DEF IInv, CC!IInv, CC!Pinning, CC!PINNED, PINNED, CC!CancelAssumption
  <1>3. PICK t \in Thread : lease[t] = op[o].connection
    BY <1>1, <1>2 DEF IInv, PP!IInv, PP!PinnedIsLeased, PP!PINNED, PINNED
  <1>4. pc[t] = "leased"
    BY <1>1, <1>3, SameAssumptions DEF IInv, PP!IInv, PP!TypeOK, PP!PoolAssumption
  <1> QED BY <1>1, <1>2, <1>3, <1>4

\* So is a step of a requester or of a server.
LEMMA ElsewhereIsBorrower ==
    ASSUME IInv, Elsewhere
    PROVE  [P!Next]_P!vars
  <1>1. UNCHANGED P!poolVars
    BY DEF Elsewhere, poolVars, P!poolVars
  <1>2. CASE conn' = conn
    BY <1>1, <1>2 DEF P!vars
  <1>3. ASSUME NEW o \in Op, CC!Request(o) PROVE conn' = conn \/ \E t \in Thread : P!Borrower(t)
    <2>1. CASE conn' = conn
      BY <2>1
    <2>2. CASE conn' # conn
      <3>1. /\ op[o].state = "active"
            /\ conn' = [conn EXCEPT ![op[o].connection].life = @ \cup {DISCARDED}]
        BY <1>3, <2>2 DEF CC!Request, CC!SendInterrupt, CC!DISCARDED, DISCARDED, IInv,
           CC!IInv, CC!TypeOK, CC!OpRecord
      <3>2. PICK t \in Thread : lease[t] = op[o].connection /\ pc[t] = "leased"
        BY <3>1, ActiveOnLease
      <3>3. P!Interrupt(t)
        BY <1>1, <3>1, <3>2, ActiveOnLease DEF P!Interrupt, P!PINNED, PINNED, P!DISCARDED, DISCARDED
      <3> QED BY <3>3 DEF P!Borrower
    <2> QED BY <2>1, <2>2
  <1>4. ASSUME NEW a \in Addr, CC!Server(a) PROVE conn' = conn
    BY <1>4 DEF CC!Server, CC!ServerApplies, CC!ServerRejects, CC!ServerInterrupts, CC!ServerEnds
  <1> QED BY <1>2, <1>3, <1>4, SameHandles DEF Elsewhere, P!Next

---------------------------------------------------------------------------
(* The composition                                                         *)

\* Every step of the composition is a step of the pool with its borrowers.
LEMMA NextIsPool ==
    ASSUME IInv, [Next]_vars
    PROVE  [P!Next]_P!vars
  <1>1. CASE UNCHANGED vars
    BY <1>1 DEF vars, poolVars, P!vars, P!poolVars
  <1>2. CASE (\E t \in Thread : PoolStep(t)) \/ PoolLifetime
    BY <1>2 DEF PoolStep, PoolLifetime, P!Next, P!Borrower
  <1> QED BY <1>1, <1>2, ExecutionIsBorrower, ElsewhereIsBorrower DEF Next

\* Every step keeps both invariants.
LEMMA NextIInv ==
    ASSUME IInv, ~ReuseDangling, [Next]_vars
    PROVE  IInv'
  <1>1. PP!IInv'
    <2>1. [PP!Next]_PP!vars
      BY NextIsPool, SamePool DEF P!vars, PP!vars, P!poolVars, PP!poolVars
    <2> QED BY <2>1, PP!NextIInv, SameAssumptions DEF IInv
  <1>2. ASSUME \/ \E t \in Thread : Execute(t)
               \/ Elsewhere
               \/ UNCHANGED vars
        PROVE  CC!IInv'
    <2>1. lease \in [Thread -> Addr \cup {Nil}] /\ \A t \in Thread : pc[t] = "leased" => lease[t] # Nil
      BY DEF IInv, PP!IInv, PP!TypeOK
    <2>2. [CC!Next]_CC!vars
      BY <1>2, <2>1, SameHandles DEF Execute, Elsewhere, vars, CC!Next, CC!vars, CC!opVars,
         handleVars
    <2> QED BY <2>2, CC!NextIInv, SameAssumptions DEF IInv
  <1>3. ASSUME (\E t \in Thread : PoolStep(t)) \/ PoolLifetime PROVE CC!IInv'
    BY <1>3, PoolStepKeeps DEF IInv
  <1> QED BY <1>1, <1>2, <1>3 DEF Next, IInv

\* Both invariants hold before the pool is created.
LEMMA InitIInv == Init => IInv
  <1> SUFFICES ASSUME Init PROVE IInv
    OBVIOUS
  <1>1. PP!IInv
    BY SamePool, PP!InitIInv, SameAssumptions DEF Init
  <1>2. CC!IInv
    <2> USE SameAssumptions, CC!RecordFacts
    <2>1. /\ conn = [a \in Addr |-> CC!FreeMemory]
          /\ op = [o \in Op |-> CC!NewOp] /\ run = [a \in Addr |-> CC!IdleRun]
          /\ srv = [a \in Addr |-> CC!NewSession] /\ effect = [o \in Op |-> "none"]
      BY DEF Init, P!Init, P!FreeMemory, CC!FreeMemory, C!NewOp, CC!NewOp, C!IdleRun,
         CC!IdleRun, C!NewSession, CC!NewSession
    <2>2. CC!FreeMemory \in CC!ConnRecord /\ CC!FreeMemory.life = {} /\ ~CC!FreeMemory.live
      BY DEF CC!FreeMemory, CC!ConnRecord
    <2>3. CC!TypeOK
      BY <2>1, <2>2 DEF CC!TypeOK
    <2>4. CC!Pinning
      BY <2>1, <2>2 DEF CC!Pinning, CC!NewOp, CC!PINNED
    <2>5. CC!Requests /\ CC!Urgency /\ CC!Executing /\ CC!Stages
      BY <2>1, <2>2 DEF CC!Requests, CC!Urgency, CC!Executing, CC!Stages, CC!Stage, CC!NewOp
    <2>6. CC!InterruptedOnRequest /\ CC!OutcomeTruthful
      BY <2>1 DEF CC!InterruptedOnRequest, CC!OutcomeTruthful, CC!NewOp
    <2> QED BY <2>3, <2>4, <2>5, <2>6 DEF CC!IInv
  <1> QED BY <1>1, <1>2 DEF IInv

\* The inductive invariant holds in every reachable state, unless calloc hands
\* out an address that a slot still holds.
THEOREM CompositionInvariant == ASSUME ~ReuseDangling PROVE Spec => []IInv
  BY InitIInv, NextIInv, PTL DEF Spec

\* The handles do to leased connections what the pool expects of its borrowers:
\* register, disqualify and finish under the pin (the composition implements Pool).
THEOREM ImplementsPool == ASSUME ~ReuseDangling PROVE Spec => PoolImplemented
  <1>1. Init => P!Init
    BY DEF Init
  <1>2. IInv /\ [Next]_vars => [P!Next]_P!vars
    BY NextIsPool
  <1> QED BY <1>1, <1>2, CompositionInvariant, PTL DEF Spec, PoolImplemented, P!Spec

\* No handle acts on a lease but its own, nobody's statement is interrupted
\* unasked, and every lease starts in step with its server.
THEOREM NoLeaseHarmed == ASSUME ~ReuseDangling PROVE Spec => []LeaseUnharmed
  <1>1. ASSUME IInv PROVE HandleStaysInLease
    BY <1>1, ActiveOnLease DEF HandleStaysInLease
  <1>2. ASSUME IInv PROVE C!InterruptedOnRequest
    BY <1>2 DEF IInv, CC!IInv, CC!InterruptedOnRequest, C!InterruptedOnRequest
  <1>3. ASSUME IInv PROVE LeasesAreClean
    <2> SUFFICES ASSUME NEW a \in Addr, conn[a].live, run[a].pc = "idle",
                        conn[a].life \subseteq {RELEASED}
                 PROVE  srv[a] = C!NewSession
      BY DEF LeasesAreClean
    <2>1. DISCARDED \notin conn[a].life
      BY DEF DISCARDED, RELEASED
    <2>2. srv[a] = CC!NewSession
      BY <1>3, <2>1 DEF IInv, CC!IInv, CC!Stages, CC!Stage, CC!DISCARDED, DISCARDED
    <2> QED BY <2>2 DEF C!NewSession, CC!NewSession
  <1>4. IInv => LeaseUnharmed
    BY <1>1, <1>2, <1>3 DEF LeaseUnharmed
  <1> QED BY <1>4, CompositionInvariant, PTL

\* What a finished handle reports is what its statement did, although leases
\* change hands and connections are replaced meanwhile.
THEOREM OutcomesStayTruthful == ASSUME ~ReuseDangling PROVE Spec => []C!OutcomeTruthful
  <1>1. IInv => C!OutcomeTruthful
    BY DEF IInv, CC!IInv, CC!OutcomeTruthful, C!OutcomeTruthful
  <1> QED BY <1>1, CompositionInvariant, PTL
===========================================================================
