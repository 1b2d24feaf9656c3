--------------------------- MODULE Cancel_proofs ---------------------------
(***************************************************************************)
(* Proofs about cancellation handles, for every number of handles and      *)
(* connections.                                                            *)
(***************************************************************************)
EXTENDS Cancel, TLAPS

\* An execution in progress, its active handle and the pin go together.
Pinning ==
    /\ \A c \in Session :
         /\ PINNED \in conn[c].life <=> run[c].pc # "idle"
         /\ run[c].op # Nil <=> run[c].pc # "idle"
         /\ run[c].pc # "idle" => /\ op[run[c].op].state = "active"
                                  /\ op[run[c].op].connection = c
    /\ \A o \in Op : op[o].state = "active" =>
         op[o].connection \in Session /\ run[op[o].connection].op = o

\* A handle that was asked to cancel sends its urgent byte once it is armed, which
\* it is from the moment its statement is written.
Requests ==
    /\ \A o \in Op :
         /\ op[o].sends = IF op[o].armed /\ op[o].requested THEN 1 ELSE 0
         /\ op[o].state = "fresh" => ~op[o].armed /\ effect[o] = "none"
         /\ op[o].sends = 1 =>
              IF op[o].state = "active"
              THEN DISCARDED \in conn[op[o].connection].life
              ELSE op[o].connection_discarded
    /\ \A c \in Session :
         /\ run[c].pc \in {"sending", "sent"} => ~op[run[c].op].armed
         /\ run[c].pc = "receiving" => op[run[c].op].armed

\* An urgent byte waits only on disqualified connections, for a statement whose
\* handle sent it.
Urgency ==
    \A c \in Session : srv[c].urgent =>
        /\ conn[c].live => DISCARDED \in conn[c].life
        /\ run[c].pc # "idle" => op[run[c].op].sends = 1
        /\ srv[c].executing # Nil => op[srv[c].executing].sends = 1

\* A server executes the statement in progress, or one whose outcome was given up
\* as unknown, and no statement is executed by two servers.
Executing ==
    /\ \A c \in Session : srv[c].executing # Nil =>
         LET o == srv[c].executing IN
         /\ effect[o] = "none" /\ srv[c].reply = "none"
         /\ IF run[c].pc = "idle"
            THEN /\ op[o].state = "terminal" /\ op[o].outcome = "UNKNOWN"
                 /\ conn[c].live => DISCARDED \in conn[c].life
            ELSE run[c].op = o /\ run[c].pc # "sending"
    /\ \A c, d \in Session :
         srv[c].executing # Nil /\ srv[c].executing = srv[d].executing => c = d

\* What the server did when it sent a reply.
EffectOf(reply) ==
    CASE reply = "DONE" -> "applied"
      [] reply = "ERR" -> "failed"
      [] reply = "ERR-213" -> "interrupted"

\* The server has nothing to do and the client nothing to read.
Quiet(c) == srv[c].executing = Nil /\ srv[c].reply = "none"

\* What is known of a statement when its handle is about to be finished: the
\* server's answer, nothing, or that it was never sent.
Concluded(c) ==
    LET o == run[c].op
        st == run[c].status
        code == run[c].sqlcode
    IN \/ st = "OK" /\ code = "0" /\ effect[o] = "applied" /\ Quiet(c)
       \/ st = "PROTO_ERROR" /\ code = "other" /\ effect[o] = "failed" /\ Quiet(c)
       \/ st = "CANCELED" /\ code = "-213" /\ effect[o] = "interrupted" /\ Quiet(c)
       \/ st = "ALLOC_FAIL" /\ code = "0" /\ effect[o] = "none" /\ Quiet(c)
       \/ st = "IO_ERROR" /\ code = "0" /\ DISCARDED \in conn[c].life
       \/ st \in {"PROTO_ERROR", "ALLOC_FAIL"} /\ code = "0" /\ op[o].armed

\* The server's end of a connection at each point of an execution.
Stage(c) ==
    /\ run[c].pc = "idle" /\ conn[c].live /\ DISCARDED \notin conn[c].life
         => srv[c] = NewSession
    /\ run[c].pc = "sending" =>
         srv[c] = NewSession /\ effect[run[c].op] = "none"
    /\ run[c].pc \in {"sending", "sent", "receiving"} => run[c].sqlcode = "0"
    /\ run[c].pc \in {"sent", "receiving"} =>
         \/ srv[c].executing = run[c].op
         \/ /\ srv[c].executing = Nil /\ srv[c].reply # "none"
            /\ effect[run[c].op] = EffectOf(srv[c].reply)
    /\ run[c].pc = "finishing" => Concluded(c)

Stages == \A c \in Session : Stage(c)

\* The inductive invariant.  It asks of a connection that is not allocated only
\* that nothing is registered on it, so that it also holds where connections are
\* freed (PoolCancel).
IInv ==
    /\ TypeOK /\ Pinning /\ Requests /\ Urgency /\ Executing /\ Stages
    /\ InterruptedOnRequest /\ OutcomeTruthful
---------------------------------------------------------------------------
(* Connection records                                                      *)

\* What disposing of a disqualified connection leaves behind.
LEMMA DiscardedFacts ==
    ASSUME NEW c \in ConnRecord, NEW status \in DiscardStatus(c)
    PROVE  /\ Discarded(c, status) \in ConnRecord
           /\ Discarded(c, status).live = c.live
           /\ Discarded(c, status).life = c.life \cup {DISCARDED}
  BY DEF ConnRecord, Discarded, Bits, PINNED, DISCARDED, RELEASED

\* The records of the initial state.
LEMMA RecordFacts ==
    /\ Connected \in ConnRecord /\ Connected.life = {}
    /\ NewSession \in SrvRecord /\ NewSession.executing = Nil
    /\ NewSession.reply = "none" /\ ~NewSession.urgent
    /\ IdleRun \in RunRecord /\ IdleRun.pc = "idle" /\ IdleRun.op = Nil
    /\ NewOp \in OpRecord
  BY DEF Connected, ConnRecord, Bits, NewSession, SrvRecord, IdleRun, RunRecord,
         Status, SqlCode, NewOp, OpRecord, Outcome

\* The invariant holds when connections are new and no handle is in use.
LEMMA InitIInv == Init => IInv
  <1> SUFFICES ASSUME Init PROVE IInv
    OBVIOUS
  <1> USE DEF Init
  <1>1. TypeOK
    BY RecordFacts DEF TypeOK
  <1>2. Pinning
    BY RecordFacts DEF Pinning, NewOp, PINNED
  <1>3. Requests /\ Urgency /\ Executing /\ Stages
    BY RecordFacts DEF Requests, Urgency, Executing, Stages, Stage, NewOp
  <1>4. InterruptedOnRequest /\ OutcomeTruthful
    BY DEF InterruptedOnRequest, OutcomeTruthful, NewOp
  <1> QED BY <1>1, <1>2, <1>3, <1>4 DEF IInv, NewOp

\* The updates of a handle keep its type.
LEMMA OpUpdates ==
    ASSUME NEW h \in OpRecord
    PROVE  /\ [h EXCEPT !.requested = TRUE] \in OpRecord
           /\ [h EXCEPT !.armed = TRUE] \in OpRecord
           /\ [h EXCEPT !.state = "terminal", !.operation_status = "CANCELED",
                        !.outcome = "NOT_EXECUTED"] \in OpRecord
           /\ \A c \in Session :
                [h EXCEPT !.state = "active", !.connection = c] \in OpRecord
  BY DEF OpRecord, Status, Outcome

\* The updates of an execution keep its type.
LEMMA RunUpdates ==
    ASSUME NEW r \in RunRecord
    PROVE  /\ \A pc \in {"sent", "receiving"} : [r EXCEPT !.pc = pc] \in RunRecord
           /\ \A st \in Status : [r EXCEPT !.pc = "finishing", !.status = st] \in RunRecord
           /\ \A st \in Status, code \in SqlCode :
                [r EXCEPT !.pc = "finishing", !.status = st, !.sqlcode = code] \in RunRecord
           /\ [r EXCEPT !.pc = "idle", !.op = Nil, !.status = "OK"] \in RunRecord
  BY DEF RunRecord, Status

---------------------------------------------------------------------------
(* One lemma per action.  The conjuncts an action can really disturb come    *)
(* first, in a lemma of their own.                                           *)

\* A handle cancelled before its execution (register_operation).
LEMMA CancelBeforeStartCore ==
    ASSUME IInv, NEW c \in Session, NEW o \in Op, CancelBeforeStart(c, o)
    PROVE  op' \in [Op -> OpRecord]
  BY OpUpdates DEF CancelBeforeStart, IInv, TypeOK

\* The same action keeps the whole invariant.
LEMMA CancelBeforeStartStep ==
    ASSUME IInv, NEW c \in Session, NEW o \in Op, CancelBeforeStart(c, o)
    PROVE  IInv'
  <1> USE CancelAssumption DEF IInv
  <1>1. conn' \in [Session -> ConnRecord]
    BY DEF TypeOK, CancelBeforeStart
  <1>2. run' \in [Session -> RunRecord]
    BY DEF TypeOK, CancelBeforeStart
  <1>3. srv' \in [Session -> SrvRecord]
    BY DEF TypeOK, CancelBeforeStart
  <1>4. effect' \in [Op -> {"none", "applied", "failed", "interrupted"}]
    BY DEF TypeOK, CancelBeforeStart
  <1>5. Pinning'
    BY DEF TypeOK, Pinning, CancelBeforeStart, CanRegister
  <1>6. Requests'
    BY DEF TypeOK, Requests, CancelBeforeStart, CanRegister
  <1>7. Urgency'
    BY DEF TypeOK, Urgency, CancelBeforeStart
  <1>8. Executing'
    BY DEF TypeOK, Executing, CancelBeforeStart, CanRegister
  <1>9. Stages'
    BY DEF TypeOK, SrvRecord, Stages, Stage, Concluded, Quiet, CancelBeforeStart
  <1>10. InterruptedOnRequest'
    BY DEF TypeOK, InterruptedOnRequest, CancelBeforeStart
  <1>11. OutcomeTruthful'
    BY DEF TypeOK, OutcomeTruthful, Requests, CancelBeforeStart, CanRegister
  <1> QED BY CancelBeforeStartCore, <1>1, <1>2, <1>3, <1>4, <1>5, <1>6, <1>7,
     <1>8, <1>9, <1>10, <1>11 DEF TypeOK

\* Registration pins an idle connection, with urgent sending disarmed
\* (register_operation).
LEMMA RegisterCore ==
    ASSUME IInv, NEW c \in Session, NEW o \in Op, Register(c, o)
    PROVE  op' \in [Op -> OpRecord]
  BY OpUpdates DEF Register, IInv, TypeOK

\* The same action keeps the whole invariant.
LEMMA RegisterStep ==
    ASSUME IInv, NEW c \in Session, NEW o \in Op, Register(c, o)
    PROVE  IInv'
  <1> USE CancelAssumption DEF IInv
  <1>1. conn' \in [Session -> ConnRecord]
    BY DEF TypeOK, ConnRecord, Bits, Register
  <1>2. run' \in [Session -> RunRecord]
    BY DEF TypeOK, RunRecord, Status, SqlCode, Register
  <1>3. srv' \in [Session -> SrvRecord]
    BY DEF TypeOK, Register
  <1>4. effect' \in [Op -> {"none", "applied", "failed", "interrupted"}]
    BY DEF TypeOK, Register
  <1>5. Pinning'
    BY DEF TypeOK, Pinning, Register, CanRegister
  <1>6. Requests'
    BY DEF TypeOK, Requests, Register, CanRegister
  <1>7. Urgency'
    BY DEF TypeOK, Urgency, Register, CanRegister
  <1>8. Executing'
    BY DEF TypeOK, Executing, Register, CanRegister
  <1>9. Stages'
    BY DEF TypeOK, SrvRecord, Requests, Stages, Stage, Concluded, Quiet,
       Register, CanRegister
  <1>10. InterruptedOnRequest'
    BY DEF TypeOK, InterruptedOnRequest, Register
  <1>11. OutcomeTruthful'
    BY DEF TypeOK, OutcomeTruthful, Register
  <1> QED BY RegisterCore, <1>1, <1>2, <1>3, <1>4, <1>5, <1>6, <1>7, <1>8, <1>9,
     <1>10, <1>11 DEF TypeOK

\* A request that cannot be written (execute_bound_params).
LEMMA SendFailsCore ==
    ASSUME IInv, NEW c \in Session, SendFails(c)
    PROVE  run' \in [Session -> RunRecord] /\ Stages'
  <1> USE CancelAssumption DEF IInv
  <1>1. PICK st \in {"ALLOC_FAIL", "IO_ERROR"}, arrived \in {FALSE, TRUE} :
          /\ run' = [run EXCEPT ![c] = [run[c] EXCEPT !.pc = "finishing", !.status = st]]
          /\ conn' = [conn EXCEPT ![c].life =
                        IF st = "IO_ERROR" THEN @ \cup {DISCARDED} ELSE @]
          /\ arrived => st = "IO_ERROR"
          /\ srv' = [srv EXCEPT ![c].executing = IF arrived THEN run[c].op ELSE @]
    BY DEF SendFails, TypeOK
  <1>2. run' \in [Session -> RunRecord]
    BY <1>1, RunUpdates DEF TypeOK, Status
  <1>3. ASSUME NEW d \in Session PROVE Stage(d)'
    <2>1. CASE d = c
      <3>1. /\ run[c].pc = "sending" /\ run[c].op \in Op /\ run[c].sqlcode = "0"
            /\ srv[c] = NewSession /\ effect[run[c].op] = "none" /\ effect' = effect
        BY DEF SendFails, TypeOK, RunRecord, Pinning, Stages, Stage
      <3>2. /\ run'[c].pc = "finishing" /\ run'[c].op = run[c].op
            /\ run'[c].status = st /\ run'[c].sqlcode = "0"
        BY <1>1, <3>1 DEF TypeOK, RunRecord
      <3>3. st = "IO_ERROR" => DISCARDED \in conn'[c].life
        BY <1>1 DEF TypeOK, ConnRecord
      <3>4. st = "ALLOC_FAIL" => srv'[c].executing = Nil /\ srv'[c].reply = "none"
        BY <1>1, <3>1 DEF TypeOK, SrvRecord, NewSession
      <3> QED BY <2>1, <3>1, <3>2, <3>3, <3>4 DEF Stage, Concluded, Quiet
    <2>2. CASE d # c
      BY <1>1, <2>2 DEF SendFails, TypeOK, Stages, Stage, Concluded, Quiet
    <2> QED BY <2>1, <2>2
  <1> QED BY <1>2, <1>3 DEF Stages

\* The same action keeps the whole invariant.
LEMMA SendFailsStep ==
    ASSUME IInv, NEW c \in Session, SendFails(c)
    PROVE  IInv'
  <1> USE CancelAssumption DEF IInv
  <1>1. conn' \in [Session -> ConnRecord]
    BY DEF TypeOK, ConnRecord, Bits, SendFails
  <1>2. op' \in [Op -> OpRecord]
    BY DEF TypeOK, SendFails
  <1>3. srv' \in [Session -> SrvRecord]
    BY DEF TypeOK, SrvRecord, RunRecord, SendFails
  <1>4. effect' \in [Op -> {"none", "applied", "failed", "interrupted"}]
    BY DEF TypeOK, SendFails
  <1>5. Pinning'
    BY DEF TypeOK, Pinning, SendFails
  <1>6. Requests'
    BY DEF TypeOK, Requests, SendFails
  <1>7. Urgency'
    BY DEF TypeOK, Urgency, SendFails
  <1>8. Executing'
    BY DEF TypeOK, OpRecord, SrvRecord, Executing, Pinning, PINNED, DISCARDED,
       Stages, Stage, NewSession, SendFails
  <1>9. InterruptedOnRequest'
    BY DEF TypeOK, InterruptedOnRequest, SendFails
  <1>10. OutcomeTruthful'
    BY DEF TypeOK, OutcomeTruthful, SendFails
  <1> QED BY SendFailsCore, <1>1, <1>2, <1>3, <1>4, <1>5, <1>6, <1>7, <1>8,
     <1>9, <1>10 DEF TypeOK

\* A request written in full.
LEMMA SendExecuteCore ==
    ASSUME IInv, NEW c \in Session, SendExecute(c)
    PROVE  Stages'
  <1> USE CancelAssumption DEF IInv
  <1>3. ASSUME NEW d \in Session PROVE Stage(d)'
    <2>1. CASE d = c
      BY <2>1 DEF SendExecute, TypeOK, RunRecord, SrvRecord, Stages, Stage
    <2>2. CASE d # c
      BY <2>2 DEF SendExecute, TypeOK, Stages, Stage, Concluded, Quiet
    <2> QED BY <2>1, <2>2
  <1> QED BY <1>3 DEF Stages

\* The same action keeps the whole invariant.
LEMMA SendExecuteStep ==
    ASSUME IInv, NEW c \in Session, SendExecute(c)
    PROVE  IInv'
  <1> USE CancelAssumption DEF IInv
  <1>1. conn' \in [Session -> ConnRecord]
    BY DEF TypeOK, SendExecute
  <1>2. op' \in [Op -> OpRecord]
    BY DEF TypeOK, SendExecute
  <1>3. run' \in [Session -> RunRecord]
    BY DEF TypeOK, RunRecord, SendExecute
  <1>4. srv' \in [Session -> SrvRecord]
    BY DEF TypeOK, SrvRecord, RunRecord, SendExecute
  <1>5. effect' \in [Op -> {"none", "applied", "failed", "interrupted"}]
    BY DEF TypeOK, SendExecute
  <1>6. Pinning'
    BY DEF TypeOK, Pinning, SendExecute
  <1>7. Requests'
    BY DEF TypeOK, Requests, SendExecute
  <1>8. Urgency'
    BY DEF TypeOK, Urgency, SendExecute
  <1>9. Executing'
    BY DEF TypeOK, OpRecord, RunRecord, Executing, Pinning, PINNED, DISCARDED,
       Stages, Stage, NewSession, SendExecute
  <1>10. InterruptedOnRequest'
    BY DEF TypeOK, InterruptedOnRequest, SendExecute
  <1>11. OutcomeTruthful'
    BY DEF TypeOK, OutcomeTruthful, SendExecute
  <1> QED BY SendExecuteCore, <1>1, <1>2, <1>3, <1>4, <1>5, <1>6, <1>7, <1>8,
     <1>9, <1>10, <1>11 DEF TypeOK

\* Arming a handle nobody asked to cancel (sqli_cancel_operation_arm).
LEMMA ArmCore ==
    ASSUME IInv, NEW c \in Session, Arm(c), ~op[run[c].op].requested
    PROVE  op' \in [Op -> OpRecord] /\ Pinning' /\ Requests' /\ Urgency'
  <1> USE CancelAssumption DEF IInv
  <1>1. /\ op' = [op EXCEPT ![run[c].op] = [op[run[c].op] EXCEPT !.armed = TRUE]]
        /\ run' = [run EXCEPT ![c].pc = "receiving"]
        /\ UNCHANGED <<conn, srv, effect>>
        /\ run[c].pc = "sent" /\ run[c].op \in Op
    BY DEF Arm, TypeOK, Pinning, RunRecord
  <1>2. op' \in [Op -> OpRecord]
    BY <1>1, OpUpdates DEF TypeOK
  <1>3. \A p \in Op : /\ op'[p].armed = IF p = run[c].op THEN TRUE ELSE op[p].armed
                      /\ op'[p].state = op[p].state /\ op'[p].connection = op[p].connection
                      /\ op'[p].requested = op[p].requested /\ op'[p].sends = op[p].sends
                      /\ op'[p].connection_discarded = op[p].connection_discarded
    BY <1>1 DEF TypeOK, OpRecord
  <1>4. \A d \in Session : run'[d].op = run[d].op /\ (run'[d].pc = run[d].pc \/ d = c) /\ run'[c].pc = "receiving"
    BY <1>1 DEF TypeOK, RunRecord
  <1>5. Pinning'
    BY <1>1, <1>3, <1>4 DEF TypeOK, RunRecord, Pinning
  <1>6. Requests'
    BY <1>1, <1>3, <1>4 DEF TypeOK, RunRecord, OpRecord, Pinning, Requests
  <1>7. Urgency'
    BY <1>1, <1>3, <1>4 DEF TypeOK, RunRecord, SrvRecord, Pinning, Urgency
  <1> QED BY <1>2, <1>5, <1>6, <1>7

\* The same action keeps the whole invariant.
LEMMA ArmStep ==
    ASSUME IInv, NEW c \in Session, Arm(c), ~op[run[c].op].requested
    PROVE  IInv'
  <1> USE CancelAssumption DEF IInv
  <1>1. conn' \in [Session -> ConnRecord]
    BY DEF TypeOK, Arm
  <1>2. run' \in [Session -> RunRecord]
    BY DEF TypeOK, RunRecord, Arm
  <1>3. srv' \in [Session -> SrvRecord]
    BY DEF TypeOK, Arm
  <1>4. effect' \in [Op -> {"none", "applied", "failed", "interrupted"}]
    BY DEF TypeOK, Arm
  <1>5. Executing'
    BY DEF TypeOK, SrvRecord, Executing, Arm
  <1>6. Stages'
    BY DEF TypeOK, RunRecord, SrvRecord, Pinning, Requests, PINNED, DISCARDED,
       Stages, Stage, Concluded, EffectOf, Quiet, Arm
  <1>7. InterruptedOnRequest'
    BY DEF TypeOK, InterruptedOnRequest, Arm
  <1>8. OutcomeTruthful'
    BY DEF TypeOK, OpRecord, OutcomeTruthful, Arm
  <1> QED BY ArmCore, <1>1, <1>2, <1>3, <1>4, <1>5, <1>6, <1>7, <1>8 DEF TypeOK

\* A response read to its end.
LEMMA ReceiveCore ==
    ASSUME IInv, NEW c \in Session, Receive(c)
    PROVE  run' \in [Session -> RunRecord] /\ Stages'
  <1> USE CancelAssumption DEF IInv
  <1>1. PICK st \in {"OK", "PROTO_ERROR", "CANCELED"}, code \in {"0", "other", "-213"} :
          /\ run' = [run EXCEPT ![c] = [run[c] EXCEPT !.pc = "finishing", !.status = st, !.sqlcode = code]]
          /\ \/ srv[c].reply = "DONE" /\ st = "OK" /\ code = "0"
             \/ srv[c].reply = "ERR" /\ st = "PROTO_ERROR" /\ code = "other"
             \/ srv[c].reply = "ERR-213" /\ st = "CANCELED" /\ code = "-213"
    <2>1. srv[c].reply \in {"DONE", "ERR", "ERR-213"}
      BY DEF Receive, TypeOK, SrvRecord
    <2> QED BY <2>1 DEF Receive, TypeOK
  <1>2. run' \in [Session -> RunRecord]
    BY <1>1, RunUpdates DEF TypeOK, Status, SqlCode
  <1>3. ASSUME NEW d \in Session PROVE Stage(d)'
    <2>1. CASE d = c
      <3>1. srv[c].executing = Nil /\ effect[run[c].op] = EffectOf(srv[c].reply)
        BY DEF Receive, Stages, Stage, Executing, Pinning
      <3> QED BY <1>1, <2>1, <3>1 DEF Receive, TypeOK, RunRecord, SrvRecord, Stage, Concluded, Quiet, EffectOf
    <2>2. CASE d # c
      BY <1>1, <2>2 DEF Receive, TypeOK, Stages, Stage, Concluded, Quiet
    <2> QED BY <2>1, <2>2
  <1> QED BY <1>2, <1>3 DEF Stages

\* The same action keeps the whole invariant.
LEMMA ReceiveStep ==
    ASSUME IInv, NEW c \in Session, Receive(c)
    PROVE  IInv'
  <1> USE CancelAssumption DEF IInv
  <1>1. conn' \in [Session -> ConnRecord]
    BY DEF TypeOK, Receive
  <1>2. op' \in [Op -> OpRecord]
    BY DEF TypeOK, Receive
  <1>3. srv' \in [Session -> SrvRecord]
    BY DEF TypeOK, SrvRecord, Receive
  <1>4. effect' \in [Op -> {"none", "applied", "failed", "interrupted"}]
    BY DEF TypeOK, Receive
  <1>5. Pinning'
    BY DEF TypeOK, Pinning, Receive
  <1>6. Requests'
    BY DEF TypeOK, Requests, Receive
  <1>7. Urgency'
    BY DEF TypeOK, Urgency, Receive
  <1>8. Executing'
    BY DEF TypeOK, Executing, Receive
  <1>9. InterruptedOnRequest'
    BY DEF TypeOK, InterruptedOnRequest, Receive
  <1>10. OutcomeTruthful'
    BY DEF TypeOK, OutcomeTruthful, Receive
  <1> QED BY ReceiveCore, <1>1, <1>2, <1>3, <1>4, <1>5, <1>6, <1>7, <1>8, <1>9,
     <1>10 DEF TypeOK

\* A response that is lost, late or malformed.
LEMMA ReceiveFailsCore ==
    ASSUME IInv, NEW c \in Session, ReceiveFails(c)
    PROVE  run' \in [Session -> RunRecord]
  <1>1. PICK st \in {"IO_ERROR", "PROTO_ERROR", "ALLOC_FAIL"} :
          run' = [run EXCEPT ![c] = [run[c] EXCEPT !.pc = "finishing", !.status = st]]
    BY DEF ReceiveFails, IInv, TypeOK
  <1> QED BY <1>1, RunUpdates DEF IInv, TypeOK, Status

\* The same action keeps the whole invariant.
LEMMA ReceiveFailsStep ==
    ASSUME IInv, NEW c \in Session, ReceiveFails(c)
    PROVE  IInv'
  <1> USE CancelAssumption DEF IInv
  <1>1. conn' \in [Session -> ConnRecord]
    BY DEF TypeOK, ConnRecord, Bits, ReceiveFails
  <1>2. op' \in [Op -> OpRecord]
    BY DEF TypeOK, ReceiveFails
  <1>3. srv' \in [Session -> SrvRecord]
    BY DEF TypeOK, ReceiveFails
  <1>4. effect' \in [Op -> {"none", "applied", "failed", "interrupted"}]
    BY DEF TypeOK, ReceiveFails
  <1>5. Pinning'
    BY DEF TypeOK, Pinning, ReceiveFails
  <1>6. Requests'
    BY DEF TypeOK, Requests, ReceiveFails
  <1>7. Urgency'
    BY DEF TypeOK, Urgency, ReceiveFails
  <1>8. Executing'
    BY DEF TypeOK, Executing, ReceiveFails
  <1>9. Stages'
    BY DEF TypeOK, SrvRecord, Requests, Stages, Stage, Concluded, Quiet,
       ReceiveFails
  <1>10. InterruptedOnRequest'
    BY DEF TypeOK, InterruptedOnRequest, ReceiveFails
  <1>11. OutcomeTruthful'
    BY DEF TypeOK, OutcomeTruthful, ReceiveFails
  <1> QED BY ReceiveFailsCore, <1>1, <1>2, <1>3, <1>4, <1>5, <1>6, <1>7, <1>8,
     <1>9, <1>10, <1>11 DEF TypeOK

\* Finishing an execution: outcome, disposal, unpinning
\* (sqli_cancel_operation_finish).
LEMMA FinishCore ==
    ASSUME IInv, NEW c \in Session, Finish(c)
    PROVE  /\ op' \in [Op -> OpRecord]
           /\ run' \in [Session -> RunRecord]
           /\ OutcomeTruthful'
  <1> USE CancelAssumption DEF IInv
  <1>0. PICK o \in Op : o = run[c].op
    BY DEF Finish, TypeOK, RunRecord, Pinning
  <1> DEFINE st == run[c].status
             code == run[c].sqlcode
             unknown == op[o].armed /\ st # "OK" /\ code = "0"
             discarded == unknown \/ DISCARDED \in conn[c].life
  <1>1. op[o] \in OpRecord /\ st \in Status /\ code \in SqlCode
    BY DEF Finish, TypeOK, RunRecord, Pinning
  <1>2. PICK disposal \in {"OK", "IO_ERROR", "ERR"} :
          op' = [op EXCEPT ![o] =
                   [op[o] EXCEPT !.state = "terminal", !.connection = Nil,
                             !.operation_status = st, !.disposal = disposal,
                             !.connection_discarded = discarded,
                             !.outcome = OutcomeOf(st, code, unknown)]]
    BY <1>0 DEF Finish, DiscardStatus, TypeOK
  <1>3. OutcomeOf(st, code, unknown) \in Outcome
    BY DEF OutcomeOf, Outcome
  <1>4. op' \in [Op -> OpRecord]
    BY <1>1, <1>2, <1>3 DEF TypeOK, OpRecord
  <1>5. run' \in [Session -> RunRecord]
    BY RunUpdates DEF Finish, TypeOK
  <1>6. OutcomeTruthful'
    <2>1. /\ op'[o].outcome = OutcomeOf(st, code, unknown)
          /\ op'[o].connection_discarded = discarded
          /\ \A p \in Op \ {o} : op'[p] = op[p]
      BY <1>1, <1>2 DEF TypeOK, OpRecord
    <2>2. effect' = effect
      BY DEF Finish
    <2>3. Concluded(c) /\ run[c].op = o
      BY <1>0 DEF Finish, Stages, Stage
    <2>4. LET out == OutcomeOf(st, code, unknown) IN
          /\ out # "NONE" /\ out # "NOT_EXECUTED"
          /\ out = "EXECUTED" => effect[o] = "applied"
          /\ out = "INTERRUPTED" => effect[o] = "interrupted"
          /\ out = "FAILED" => effect[o] \in {"none", "failed"}
          /\ out = "UNKNOWN" => discarded
      BY <2>3, <1>1 DEF OutcomeOf, Concluded, Status, SqlCode
    <2> QED BY <2>1, <2>2, <2>4 DEF OutcomeTruthful
  <1> QED BY <1>4, <1>5, <1>6

\* The same action keeps the whole invariant.
LEMMA FinishStep ==
    ASSUME IInv, NEW c \in Session, Finish(c)
    PROVE  IInv'
  <1> USE CancelAssumption DEF IInv
  <1>1. conn' \in [Session -> ConnRecord]
    BY DiscardedFacts DEF TypeOK, ConnRecord, Finish
  <1>2. srv' \in [Session -> SrvRecord]
    BY DiscardedFacts DEF TypeOK, Finish
  <1>3. effect' \in [Op -> {"none", "applied", "failed", "interrupted"}]
    BY DiscardedFacts DEF TypeOK, Finish
  <1>4. Pinning'
    BY DiscardedFacts DEF TypeOK, Pinning, Finish
  <1>5. Requests'
    BY DiscardedFacts DEF TypeOK, OpRecord, Requests, Pinning, Finish
  <1>6. Urgency'
    BY DiscardedFacts DEF TypeOK, Urgency, PINNED, DISCARDED, Finish
  <1>7. Executing'
    BY DiscardedFacts DEF TypeOK, SrvRecord, Executing, PINNED, DISCARDED,
       Stages, Stage, Concluded, Quiet, Finish, OutcomeOf
  <1>8. Stages'
    BY DiscardedFacts DEF TypeOK, SrvRecord, Urgency, PINNED, DISCARDED, Stages,
       Stage, Concluded, Quiet, NewSession, Finish
  <1>9. InterruptedOnRequest'
    BY DiscardedFacts DEF TypeOK, InterruptedOnRequest, Finish
  <1> QED BY FinishCore, <1>1, <1>2, <1>3, <1>4, <1>5, <1>6, <1>7, <1>8, <1>9
     DEF TypeOK

\* A request that finds its handle disarmed is only latched
\* (sqli_cancel_operation_request).
LEMMA RequestCore ==
    ASSUME IInv, NEW o \in Op, Request(o), ~op[o].armed
    PROVE  op' \in [Op -> OpRecord] /\ Pinning' /\ Requests' /\ Urgency' /\ Stages'
  <1> USE CancelAssumption DEF IInv
  <1>1. /\ op' = [op EXCEPT ![o] = [op[o] EXCEPT !.requested = TRUE]]
        /\ UNCHANGED <<conn, run, srv, effect>>
    BY DEF Request
  <1>2. op' \in [Op -> OpRecord]
    BY <1>1, OpUpdates DEF TypeOK
  <1>3. \A p \in Op : /\ op'[p].armed = op[p].armed
                      /\ op'[p].state = op[p].state /\ op'[p].connection = op[p].connection
                      /\ op'[p].requested = IF p = o THEN TRUE ELSE op[p].requested /\ op'[p].sends = op[p].sends
                      /\ op'[p].connection_discarded = op[p].connection_discarded
    BY <1>1 DEF TypeOK, OpRecord
  <1>5. Pinning'
    BY <1>1, <1>3 DEF TypeOK, RunRecord, Pinning
  <1>6. Requests'
    BY <1>1, <1>3 DEF TypeOK, RunRecord, OpRecord, Pinning, Requests
  <1>7. Urgency'
    BY <1>1, <1>3 DEF TypeOK, RunRecord, SrvRecord, Pinning, Urgency
  <1>8. Stages'
    BY <1>1, <1>3 DEF TypeOK, RunRecord, Pinning, Stages, Stage, Concluded, Quiet
  <1> QED BY <1>2, <1>5, <1>6, <1>7, <1>8

\* The same action keeps the whole invariant.
LEMMA RequestStep ==
    ASSUME IInv, NEW o \in Op, Request(o), ~op[o].armed
    PROVE  IInv'
  <1> USE CancelAssumption DEF IInv
  <1>1. conn' \in [Session -> ConnRecord]
    BY DEF TypeOK, Request
  <1>2. run' \in [Session -> RunRecord]
    BY DEF TypeOK, Request
  <1>3. srv' \in [Session -> SrvRecord]
    BY DEF TypeOK, Request
  <1>4. effect' \in [Op -> {"none", "applied", "failed", "interrupted"}]
    BY DEF TypeOK, Request
  <1>5. Executing'
    BY DEF TypeOK, SrvRecord, Executing, Request
  <1>6. InterruptedOnRequest'
    BY DEF TypeOK, InterruptedOnRequest, Request
  <1>7. OutcomeTruthful'
    BY DEF TypeOK, OpRecord, OutcomeTruthful, Request
  <1> QED BY RequestCore, <1>1, <1>2, <1>3, <1>4, <1>5, <1>6, <1>7 DEF TypeOK

\* The server ends a statement.
LEMMA ServerCore ==
    ASSUME IInv, NEW c \in Session, Server(c)
    PROVE  /\ srv' \in [Session -> SrvRecord]
           /\ Urgency' /\ Executing' /\ Stages'
  <1> USE CancelAssumption DEF IInv
  <1>0. PICK o \in Op : o = srv[c].executing
    BY DEF Server, ServerApplies, ServerRejects, ServerInterrupts, ServerEnds, TypeOK, SrvRecord
  <1>1. PICK result \in {"applied", "failed", "interrupted"}, reply \in {"DONE", "ERR", "ERR-213"} :
          /\ ServerEnds(c, result, reply)
          /\ result = EffectOf(reply)
    BY DEF Server, ServerApplies, ServerRejects, ServerInterrupts, EffectOf
  <1>2. op' = op /\ run' = run /\ conn' = conn /\ o # Nil /\ o = srv[c].executing
    BY <1>0, <1>1 DEF ServerEnds, TypeOK, SrvRecord
  <1>3. \A p \in Op : effect'[p] = IF p = o THEN result ELSE effect[p]
    BY <1>0, <1>1 DEF ServerEnds, TypeOK
  <1>5. srv' \in [Session -> SrvRecord]
    <2>1. [srv[c] EXCEPT !.executing = Nil, !.reply = reply,
             !.urgent = srv[c].urgent /\ result # "interrupted"] \in SrvRecord
      BY DEF TypeOK, SrvRecord
    <2> QED BY <1>1, <2>1 DEF ServerEnds, TypeOK
  <1>6. /\ \A d \in Session \ {c} : srv'[d] = srv[d]
        /\ srv'[c].executing = Nil /\ srv'[c].reply = reply
        /\ srv'[c].urgent => srv[c].urgent
    BY <1>1 DEF ServerEnds, TypeOK, SrvRecord
  <1>7. Urgency'
    BY <1>2, <1>6 DEF Urgency
  <1>8. \A d \in Session \ {c} : srv[d].executing # o
    BY <1>2 DEF Executing
  <1>9. Executing'
    <2>1. ASSUME NEW d \in Session, srv'[d].executing # Nil
          PROVE  /\ d # c /\ srv'[d] = srv[d]
                 /\ effect'[srv[d].executing] = effect[srv[d].executing]
      BY <2>1, <1>3, <1>6, <1>8 DEF TypeOK, SrvRecord
    <2> QED BY <2>1, <1>2 DEF Executing
  <1>10. ASSUME NEW d \in Session PROVE Stage(d)'
    <2>1. CASE d = c
      <3>1. run[c].pc = "idle" /\ conn[c].live => DISCARDED \in conn[c].life
        BY <1>2 DEF Executing
      <3>2. run[c].pc # "idle" => run[c].op = o /\ run[c].pc # "sending" /\ effect[o] = "none"
        BY <1>2 DEF Executing
      <3>3. run[c].pc \in {"sent", "receiving"} =>
              /\ srv'[c].executing = Nil /\ srv'[c].reply # "none"
              /\ effect'[run[c].op] = EffectOf(srv'[c].reply)
        BY <1>1, <1>2, <1>3, <1>6, <3>2
      <3>4. run[c].pc = "finishing" =>
              \/ run[c].status = "IO_ERROR" /\ run[c].sqlcode = "0" /\ DISCARDED \in conn[c].life
              \/ /\ run[c].status \in {"PROTO_ERROR", "ALLOC_FAIL"} /\ run[c].sqlcode = "0"
                 /\ op[run[c].op].armed
        BY <1>2, <3>2 DEF Stages, Stage, Concluded, Quiet
      <3> QED BY <2>1, <1>2, <3>1, <3>2, <3>3, <3>4 DEF Stages, Stage, Concluded
    <2>2. CASE d # c
      <3>1. run[d].pc # "idle" => run[d].op \in Op /\ run[d].op # o
        BY <2>2, <1>2 DEF Pinning, Executing, TypeOK, RunRecord
      <3>2. run[d].pc # "idle" => effect'[run[d].op] = effect[run[d].op]
        BY <3>1, <1>3
      <3> QED BY <2>2, <3>2, <1>2, <1>6 DEF Stages, Stage, Concluded, Quiet
    <2> QED BY <2>1, <2>2
  <1> QED BY <1>5, <1>7, <1>9, <1>10 DEF Stages

\* The same action keeps the whole invariant.
LEMMA ServerStep ==
    ASSUME IInv, NEW c \in Session, Server(c)
    PROVE  IInv'
  <1> USE CancelAssumption DEF IInv
  <1>1. conn' \in [Session -> ConnRecord]
    BY DEF TypeOK, Server, ServerApplies, ServerRejects, ServerInterrupts,
       ServerEnds
  <1>2. op' \in [Op -> OpRecord]
    BY DEF TypeOK, Server, ServerApplies, ServerRejects, ServerInterrupts,
       ServerEnds
  <1>3. run' \in [Session -> RunRecord]
    BY DEF TypeOK, Server, ServerApplies, ServerRejects, ServerInterrupts,
       ServerEnds
  <1>4. effect' \in [Op -> {"none", "applied", "failed", "interrupted"}]
    BY DEF TypeOK, Server, ServerApplies, ServerRejects, ServerInterrupts,
       ServerEnds
  <1>5. Pinning'
    BY DEF TypeOK, Pinning, Server, ServerApplies, ServerRejects,
       ServerInterrupts, ServerEnds
  <1>6. Requests'
    BY DEF TypeOK, Pinning, Requests, Executing, Server, ServerApplies,
       ServerRejects, ServerInterrupts, ServerEnds
  <1>7. InterruptedOnRequest'
    BY DEF TypeOK, InterruptedOnRequest, Requests, Urgency, Server,
       ServerApplies, ServerRejects, ServerInterrupts, ServerEnds
  <1>8. OutcomeTruthful'
    BY DEF TypeOK, OutcomeTruthful, Executing, Pinning, Server, ServerApplies,
       ServerRejects, ServerInterrupts, ServerEnds
  <1> QED BY ServerCore, <1>1, <1>2, <1>3, <1>4, <1>5, <1>6, <1>7, <1>8 DEF
     TypeOK

\* A disqualified connection is replaced by a new one.
LEMMA ReplaceCore ==
    ASSUME IInv, NEW c \in Session, Replace(c)
    PROVE  Stages'
  <1> USE CancelAssumption DEF IInv
  <1>3. ASSUME NEW d \in Session PROVE Stage(d)'
    <2>1. CASE d = c
      BY <2>1 DEF Replace, NewPhysicalSession, TypeOK, Stage, IdleRun
    <2>2. CASE d # c
      <3>1. run[d].pc # "idle" => effect'[run[d].op] = effect[run[d].op]
        <4>1. run[d].pc # "idle" => run[d].op \in Op /\ srv[c].executing # run[d].op
          BY DEF Replace, Pinning, Executing, TypeOK, RunRecord
        <4> QED BY <4>1 DEF Replace, NewPhysicalSession, TypeOK
      <3> QED BY <3>1, <2>2 DEF Replace, NewPhysicalSession, TypeOK, Stages, Stage, Concluded, Quiet
    <2> QED BY <2>1, <2>2
  <1> QED BY <1>3 DEF Stages

\* The same action keeps the whole invariant.
LEMMA ReplaceStep ==
    ASSUME IInv, NEW c \in Session, Replace(c)
    PROVE  IInv'
  <1> USE CancelAssumption DEF IInv
  <1>1. conn' \in [Session -> ConnRecord]
    BY RecordFacts DEF TypeOK, Replace
  <1>2. op' \in [Op -> OpRecord]
    BY RecordFacts DEF TypeOK, Replace
  <1>3. run' \in [Session -> RunRecord]
    BY RecordFacts DEF TypeOK, Replace, NewPhysicalSession
  <1>4. srv' \in [Session -> SrvRecord]
    BY RecordFacts DEF TypeOK, Replace, NewPhysicalSession
  <1>5. effect' \in [Op -> {"none", "applied", "failed", "interrupted"}]
    BY RecordFacts DEF TypeOK, SrvRecord, Replace, NewPhysicalSession
  <1>6. Pinning'
    BY RecordFacts DEF TypeOK, Pinning, Replace, NewPhysicalSession
  <1>7. Requests'
    BY RecordFacts DEF TypeOK, Pinning, Requests, Executing, Replace,
       NewPhysicalSession
  <1>8. Urgency'
    BY RecordFacts DEF TypeOK, Urgency, Replace, NewPhysicalSession
  <1>9. Executing'
    BY RecordFacts DEF TypeOK, Executing, Replace, NewPhysicalSession
  <1>10. InterruptedOnRequest'
    BY RecordFacts DEF TypeOK, InterruptedOnRequest, Replace, NewPhysicalSession
  <1>11. OutcomeTruthful'
    BY RecordFacts DEF TypeOK, OutcomeTruthful, Executing, Replace,
       NewPhysicalSession
  <1> QED BY ReplaceCore, <1>1, <1>2, <1>3, <1>4, <1>5, <1>6, <1>7, <1>8, <1>9,
     <1>10, <1>11 DEF TypeOK

\* A failed disposal is tried again.
LEMMA DisposeAgainStep ==
    ASSUME IInv, NEW c \in Session, DisposeAgain(c)
    PROVE  IInv'
  <1> USE CancelAssumption DEF IInv
  <1>1. conn' \in [Session -> ConnRecord]
    BY DiscardedFacts DEF TypeOK, DisposeAgain
  <1>2. op' \in [Op -> OpRecord]
    BY DiscardedFacts DEF TypeOK, DisposeAgain, opVars
  <1>3. run' \in [Session -> RunRecord]
    BY DiscardedFacts DEF TypeOK, DisposeAgain, opVars
  <1>4. srv' \in [Session -> SrvRecord]
    BY DiscardedFacts DEF TypeOK, DisposeAgain, opVars
  <1>5. effect' \in [Op -> {"none", "applied", "failed", "interrupted"}]
    BY DiscardedFacts DEF TypeOK, DisposeAgain, opVars
  <1>6. Pinning'
    BY DiscardedFacts DEF TypeOK, Pinning, DisposeAgain, opVars
  <1>7. Requests'
    BY DiscardedFacts DEF TypeOK, Requests, DisposeAgain, opVars
  <1>8. Urgency'
    BY DiscardedFacts DEF TypeOK, Urgency, DisposeAgain, opVars
  <1>9. Executing'
    BY DiscardedFacts DEF TypeOK, Executing, DisposeAgain, opVars
  <1>10. Stages'
    BY DiscardedFacts DEF TypeOK, SrvRecord, Stages, Stage, Concluded, Quiet,
       DisposeAgain, opVars
  <1>11. InterruptedOnRequest'
    BY DiscardedFacts DEF TypeOK, InterruptedOnRequest, DisposeAgain, opVars
  <1>12. OutcomeTruthful'
    BY DiscardedFacts DEF TypeOK, OutcomeTruthful, DisposeAgain, opVars
  <1> QED BY <1>1, <1>2, <1>3, <1>4, <1>5, <1>6, <1>7, <1>8, <1>9, <1>10, <1>11,
     <1>12 DEF TypeOK

\* The urgent byte, sent by whoever comes second: the execution thread that arms
\* a requested handle or the requester of an armed one (send_interrupt_locked).
LEMMA InterruptCore ==
    ASSUME IInv, NEW o \in Op, NEW c \in Session, NEW delivered \in BOOLEAN,
           op[o].state = "active", op[o].connection = c, op[o].sends = 0,
           run[c].pc # "sending",
           NEW h \in OpRecord, h.armed, h.requested, h.sends = 1,
           h.state = "active", h.connection = c,
           op' = [op EXCEPT ![o] = h],
           conn' = [conn EXCEPT ![c].life = @ \cup {DISCARDED}],
           srv' = [srv EXCEPT ![c].urgent = @ \/ delivered],
           effect' = effect,
           run' = IF run[c].pc = "sent" THEN [run EXCEPT ![c].pc = "receiving"] ELSE run
    PROVE  Pinning' /\ Requests' /\ Stages'
  <1> USE CancelAssumption DEF IInv
  <1>1. run[c].op = o /\ run[c].pc \in {"sent", "receiving", "finishing"}
    BY DEF Pinning, TypeOK, RunRecord
  <1>3. /\ \A p \in Op : op'[p] = IF p = o THEN h ELSE op[p]
        /\ op'[o].armed /\ \A p \in Op \ {o} : op'[p] = op[p]
    BY DEF TypeOK
  <1>4. /\ \A d \in Session \ {c} : run'[d] = run[d] /\ conn'[d] = conn[d] /\ srv'[d] = srv[d]
        /\ run' \in [Session -> RunRecord]
        /\ run'[c].op = o /\ run'[c].status = run[c].status /\ run'[c].sqlcode = run[c].sqlcode
        /\ run'[c].pc = IF run[c].pc = "sent" THEN "receiving" ELSE run[c].pc
    <2>1. run' \in [Session -> RunRecord]
      BY RunUpdates DEF TypeOK
    <2> QED BY <2>1, <1>1 DEF TypeOK, RunRecord
  <1>5. conn'[c].life = conn[c].life \cup {DISCARDED}
    BY <1>1 DEF TypeOK, ConnRecord
  <1>6. srv'[c].executing = srv[c].executing /\ srv'[c].reply = srv[c].reply
    BY <1>1 DEF TypeOK, SrvRecord
  <1>7. Pinning'
    <2>1. \A d \in Session : run'[d].op = run[d].op /\ (run'[d].pc # "idle" <=> run[d].pc # "idle")
                             /\ (PINNED \in conn'[d].life <=> PINNED \in conn[d].life)
      BY <1>1, <1>4, <1>5 DEF PINNED, DISCARDED
    <2>2. \A d \in Session : run[d].pc # "idle" => run[d].op \in Op
      BY DEF Pinning, TypeOK, RunRecord
    <2> QED BY <2>1, <2>2, <1>3 DEF Pinning
  <1>8. Requests'
    <2>1. \A p \in Op : /\ op'[p].sends = IF op'[p].armed /\ op'[p].requested THEN 1 ELSE 0
                        /\ op'[p].state = "fresh" => ~op'[p].armed /\ effect'[p] = "none"
      BY <1>3 DEF Requests, OpRecord, TypeOK
    <2>2. ASSUME NEW p \in Op, op'[p].sends = 1
          PROVE  IF op'[p].state = "active"
                 THEN DISCARDED \in conn'[op'[p].connection].life
                 ELSE op'[p].connection_discarded
      BY <2>2, <1>1, <1>3, <1>4, <1>5 DEF Requests, Pinning
    <2>3. ASSUME NEW d \in Session
          PROVE  /\ run'[d].pc \in {"sending", "sent"} => ~op'[run'[d].op].armed
                 /\ run'[d].pc = "receiving" => op'[run'[d].op].armed
      <3>1. CASE d = c
        BY <3>1, <1>1, <1>3, <1>4
      <3>2. CASE d # c
        BY <3>2, <1>1, <1>3, <1>4 DEF Requests, Pinning, TypeOK, RunRecord
      <3> QED BY <3>1, <3>2
    <2> QED BY <2>1, <2>2, <2>3 DEF Requests
  <1>9. ASSUME NEW d \in Session PROVE Stage(d)'
    <2>1. CASE d = c
      BY <2>1, <1>1, <1>3, <1>4, <1>5, <1>6 DEF Stages, Stage, Concluded, Quiet
    <2>2. CASE d # c
      <3>1. run[d].pc # "idle" => op'[run[d].op].armed = op[run[d].op].armed
        <4>1. run[d].pc # "idle" => run[d].op \in Op \ {o}
          BY <2>2, <1>1 DEF Pinning, TypeOK, RunRecord
        <4> QED BY <4>1, <1>3
      <3> QED BY <2>2, <3>1, <1>4 DEF Stages, Stage, Concluded, Quiet
    <2> QED BY <2>1, <2>2
  <1> QED BY <1>7, <1>8, <1>9 DEF Stages

\* The same action keeps the whole invariant.
LEMMA InterruptStep ==
    ASSUME IInv, NEW o \in Op, NEW c \in Session, NEW delivered \in BOOLEAN,
           op[o].state = "active", op[o].connection = c, op[o].sends = 0,
           run[c].pc # "sending",
           NEW h \in OpRecord, h.armed, h.requested, h.sends = 1,
           h.state = "active", h.connection = c,
           op' = [op EXCEPT ![o] = h],
           conn' = [conn EXCEPT ![c].life = @ \cup {DISCARDED}],
           srv' = [srv EXCEPT ![c].urgent = @ \/ delivered],
           effect' = effect,
           run' = IF run[c].pc = "sent" THEN [run EXCEPT ![c].pc = "receiving"] ELSE run
    PROVE  IInv'
  <1> USE CancelAssumption DEF IInv
  <1>1. conn' \in [Session -> ConnRecord]
    <2>1. [conn[c] EXCEPT !.life = @ \cup {DISCARDED}] \in ConnRecord
      BY DEF TypeOK, ConnRecord, Bits, DISCARDED
    <2> QED BY <2>1 DEF TypeOK
  <1>2. op' \in [Op -> OpRecord]
    BY DEF TypeOK
  <1>3. run' \in [Session -> RunRecord]
    BY RunUpdates DEF TypeOK
  <1>4. srv' \in [Session -> SrvRecord]
    BY DEF TypeOK, SrvRecord, Requests, PINNED, Stages, Stage, EffectOf,
       NewSession, InterruptedOnRequest, OutcomeTruthful
  <1>5. effect' \in [Op -> {"none", "applied", "failed", "interrupted"}]
    BY DEF TypeOK
  <1>6. Urgency'
    BY DEF TypeOK, Urgency, Pinning, Executing
  <1>7. Executing'
    BY DEF TypeOK, Executing
  <1>8. InterruptedOnRequest'
    BY DEF TypeOK, InterruptedOnRequest
  <1>9. OutcomeTruthful'
    BY DEF TypeOK, OutcomeTruthful
  <1> QED BY InterruptCore, <1>1, <1>2, <1>3, <1>4, <1>5, <1>6, <1>7, <1>8, <1>9
     DEF TypeOK

---------------------------------------------------------------------------
\* A handle whose urgent byte goes out: one byte sent, nothing else changed.
LEMMA UrgentSent ==
    ASSUME NEW r \in OpRecord, r.sends = 0
    PROVE  LET h == [r EXCEPT !.sends = @ + 1]
           IN  /\ h \in OpRecord /\ h.sends = 1
               /\ h.armed = r.armed /\ h.requested = r.requested
               /\ h.state = r.state /\ h.connection = r.connection
  <1>1. \A n \in 0 .. 2 : [r EXCEPT !.sends = n] \in OpRecord
    BY DEF OpRecord
  <1>2. r.sends + 1 = 1
    OBVIOUS
  <1>3. [r EXCEPT !.sends = @ + 1] \in OpRecord
    BY <1>1, <1>2
  <1>4. \A n \in 0 .. 2 : LET h == [r EXCEPT !.sends = n] IN
          /\ h.sends = n /\ h.armed = r.armed /\ h.requested = r.requested
          /\ h.state = r.state /\ h.connection = r.connection
    BY DEF OpRecord
  <1> QED BY <1>2, <1>3, <1>4

\* An urgent byte sent on arming: the request was latched during the write.
LEMMA ArmRequested ==
    ASSUME IInv, NEW c \in Session, Arm(c), op[run[c].op].requested
    PROVE  IInv'
  <1> USE CancelAssumption DEF IInv
  <1>1. PICK o \in Op : o = run[c].op
    BY DEF Arm, TypeOK, RunRecord, Pinning
  <1> DEFINE r == [op[o] EXCEPT !.armed = TRUE]
             h == [r EXCEPT !.sends = @ + 1]
  <1>2. /\ op[o] \in OpRecord /\ op[o].state = "active" /\ op[o].connection = c
        /\ run[c].pc = "sent" /\ op[o].requested /\ op[o].sends = 0
    BY <1>1 DEF Arm, TypeOK, OpRecord, Pinning, Requests
  <1>3. /\ r \in OpRecord /\ r.armed /\ r.requested /\ r.sends = 0
        /\ r.state = "active" /\ r.connection = c
    BY <1>2 DEF OpRecord
  <1>4. /\ h \in OpRecord /\ h.armed /\ h.requested /\ h.sends = 1
        /\ h.state = "active" /\ h.connection = c
    BY <1>3, UrgentSent
  <1>5. PICK delivered \in BOOLEAN :
          srv' = [srv EXCEPT ![c].urgent = @ \/ delivered]
    BY <1>1, <1>2, Zenon DEF Arm, SendInterrupt
  <1>6. /\ conn' = [conn EXCEPT ![c].life = @ \cup {DISCARDED}]
        /\ op' = [op EXCEPT ![o] = h]
        /\ run' = [run EXCEPT ![c].pc = "receiving"]
        /\ effect' = effect
    BY <1>1, <1>2 DEF Arm, SendInterrupt
  <1> HIDE DEF r, h
  <1> QED BY <1>2, <1>4, <1>5, <1>6, InterruptStep

\* An urgent byte sent by the requester of an armed handle.
LEMMA RequestArmed ==
    ASSUME IInv, NEW o \in Op, Request(o), op[o].armed
    PROVE  IInv'
  <1> USE CancelAssumption DEF IInv
  <1>1. /\ op[o] \in OpRecord /\ op[o].state = "active" /\ op[o].sends = 0
        /\ ~op[o].requested
    BY DEF Request, TypeOK, OpRecord, Requests
  <1>2. PICK c \in Session : c = op[o].connection
    BY <1>1 DEF Pinning
  <1> DEFINE r == [op[o] EXCEPT !.requested = TRUE]
             h == [r EXCEPT !.sends = @ + 1]
  <1>3. /\ r \in OpRecord /\ r.armed /\ r.requested /\ r.sends = 0
        /\ r.state = "active" /\ r.connection = c
    BY <1>1, <1>2 DEF OpRecord
  <1>4. /\ h \in OpRecord /\ h.armed /\ h.requested /\ h.sends = 1
        /\ h.state = "active" /\ h.connection = c
    BY <1>3, UrgentSent
  <1>5. PICK delivered \in BOOLEAN :
          srv' = [srv EXCEPT ![c].urgent = @ \/ delivered]
    BY <1>1, <1>2, Zenon DEF Request, SendInterrupt
  <1>6. /\ conn' = [conn EXCEPT ![c].life = @ \cup {DISCARDED}]
        /\ op' = [op EXCEPT ![o] = h]
        /\ run' = run /\ effect' = effect
    BY <1>1, <1>2 DEF Request, SendInterrupt
  <1>7. run[c].op = o /\ run[c].pc \notin {"sending", "sent"}
    BY <1>1, <1>2 DEF Pinning, Requests
  <1> HIDE DEF r, h
  <1> QED BY <1>1, <1>2, <1>4, <1>5, <1>6, <1>7, InterruptStep

\* Every step keeps the invariant.
LEMMA NextIInv == IInv /\ [Next]_vars => IInv'
  <1> SUFFICES ASSUME IInv, [Next]_vars PROVE IInv'
    OBVIOUS
  <1>1. ASSUME NEW c \in Session, Execution(c) PROVE IInv'
    <2>1. ASSUME Arm(c) PROVE IInv'
      BY <2>1, ArmStep, ArmRequested
    <2> QED BY <1>1, <2>1, CancelBeforeStartStep, RegisterStep, SendFailsStep,
               SendExecuteStep, ReceiveStep, ReceiveFailsStep, FinishStep DEF Execution
  <1>2. ASSUME NEW c \in Session, Server(c) \/ Replace(c) \/ DisposeAgain(c) PROVE IInv'
    BY <1>2, ServerStep, ReplaceStep, DisposeAgainStep
  <1>3. ASSUME NEW o \in Op, Request(o) PROVE IInv'
    BY <1>3, RequestStep, RequestArmed
  <1>4. CASE UNCHANGED vars
    BY <1>4 DEF vars, opVars, IInv, TypeOK, Pinning, Requests, Urgency, Executing,
       Stages, Stage, Concluded, Quiet, InterruptedOnRequest, OutcomeTruthful
  <1> QED BY <1>1, <1>2, <1>3, <1>4 DEF Next

\* The inductive invariant holds in every reachable state.
THEOREM CancelInvariant == Spec => []IInv
  <1> QED BY InitIInv, NextIInv, PTL DEF Spec

---------------------------------------------------------------------------
(* What follows                                                            *)

\* Here every connection stays allocated.
Allocated == \A c \in Session : conn[c].live

\* No action frees a connection.
LEMMA NextAllocated == TypeOK /\ Allocated /\ [Next]_vars => Allocated'
  <1> SUFFICES ASSUME TypeOK, Allocated, [Next]_vars PROVE Allocated'
    OBVIOUS
  <1>0. ASSUME NEW c, NEW life, conn' = [conn EXCEPT ![c].life = life] PROVE Allocated'
    BY <1>0 DEF TypeOK, ConnRecord, Allocated
  <1>1. ASSUME NEW c \in Session, Server(c) PROVE Allocated'
    BY <1>1 DEF Server, ServerApplies, ServerRejects, ServerInterrupts, ServerEnds,
       Allocated
  <1>2. ASSUME NEW c \in Session, Replace(c) \/ DisposeAgain(c) PROVE Allocated'
    BY <1>2, DiscardedFacts DEF Replace, DisposeAgain, Connected, TypeOK, Allocated
  <1>3. ASSUME NEW c \in Session, Finish(c) PROVE Allocated'
    <2>1. PICK d \in ConnRecord : conn' = [conn EXCEPT ![c] = d] /\ d.live
      <3>1. PICK disposal \in DiscardStatus(conn[c]), discarded \in BOOLEAN :
              LET d == IF discarded THEN Discarded(conn[c], disposal) ELSE conn[c]
              IN conn' = [conn EXCEPT ![c] = [d EXCEPT !.life = @ \ {PINNED}]]
        BY <1>3 DEF Finish, DiscardStatus
      <3>2. \A d \in ConnRecord : /\ [d EXCEPT !.life = @ \ {PINNED}] \in ConnRecord
                                  /\ [d EXCEPT !.life = @ \ {PINNED}].live = d.live
        BY DEF ConnRecord
      <3>3. conn[c] \in ConnRecord /\ conn[c].live
        BY DEF TypeOK, Allocated
      <3> DEFINE d == IF discarded THEN Discarded(conn[c], disposal) ELSE conn[c]
      <3>4. d \in ConnRecord /\ d.live
        BY <3>3, DiscardedFacts
      <3> HIDE DEF d
      <3> QED BY <3>1, <3>2, <3>4 DEF d
    <2> QED BY <2>1 DEF TypeOK, Allocated
  <1>4. ASSUME NEW c \in Session,
               \/ \E o \in Op : CancelBeforeStart(c, o) \/ Register(c, o)
               \/ SendFails(c) \/ SendExecute(c) \/ Receive(c) \/ ReceiveFails(c)
        PROVE  Allocated'
    <2>1. ASSUME NEW o \in Op, CancelBeforeStart(c, o) \/ Register(c, o) PROVE Allocated'
      BY <2>1, <1>0 DEF CancelBeforeStart, Register, Allocated
    <2>2. CASE SendFails(c)
      <3>1. PICK st : conn' = [conn EXCEPT ![c].life =
                                 IF st = "IO_ERROR" THEN @ \cup {DISCARDED} ELSE @]
        BY <2>2, Zenon DEF SendFails
      <3> QED BY <3>1, <1>0
    <2>3. CASE SendExecute(c) \/ Receive(c)
      BY <2>3 DEF SendExecute, Receive, Allocated
    <2>4. CASE ReceiveFails(c)
      <3>1. PICK st : conn' = [conn EXCEPT ![c].life =
                                 IF st = "ALLOC_FAIL" THEN @ ELSE @ \cup {DISCARDED}]
        BY <2>4, Zenon DEF ReceiveFails
      <3> QED BY <3>1, <1>0
    <2> QED BY <1>4, <2>1, <2>2, <2>3, <2>4
  <1>5. ASSUME NEW c \in Session, Arm(c) PROVE Allocated'
    BY <1>5, <1>0 DEF Arm, SendInterrupt, Allocated
  <1>6. ASSUME NEW o \in Op, Request(o) PROVE Allocated'
    BY <1>6, <1>0 DEF Request, SendInterrupt, Allocated
  <1>7. CASE UNCHANGED vars
    BY <1>7 DEF vars, Allocated
  <1> QED BY <1>1, <1>2, <1>3, <1>4, <1>5, <1>6, <1>7 DEF Next, Execution

\* Every connection is allocated in every reachable state.
LEMMA AlwaysAllocated == Spec => []Allocated
  <1>1. Init => Allocated
    BY DEF Init, Allocated, Connected
  <1>2. IInv => TypeOK
    BY DEF IInv
  <1> QED BY <1>1, <1>2, NextAllocated, CancelInvariant, PTL DEF Spec

\* The outcome sqli_cancel_operation_finish derives is what happened on the
\* server, for any number of connections and handles.
THEOREM TruthfulOutcome == Spec => []OutcomeTruthful
  <1>1. IInv => OutcomeTruthful
    BY DEF IInv
  <1> QED BY <1>1, CancelInvariant, PTL

\* No urgent byte reaches another statement, a connection in use again or a
\* half-written request (send_interrupt_locked disqualifies first).
THEOREM NoStray == Spec => []NoStrayInterrupt
  <1>1. ASSUME IInv, Allocated PROVE ReusableIsClean
    BY <1>1 DEF IInv, Allocated, Stages, Stage, ReusableIsClean, DISCARDED
  <1>2. ASSUME IInv PROVE NoInterruptWhileSending
    BY <1>2 DEF IInv, Stages, Stage, NoInterruptWhileSending, NewSession
  <1>3. IInv /\ Allocated => NoStrayInterrupt
    BY <1>1, <1>2 DEF IInv, NoStrayInterrupt
  <1> QED BY <1>3, CancelInvariant, AlwaysAllocated, PTL

\* A request latched while the statement is written is acted upon on arming, one
\* that arrives later at once, neither twice (sqli_cancel_operation_request).
THEOREM ActedUpon == Spec => []RequestActedUpon
  <1>1. ASSUME IInv PROVE RequestActedUpon
    <2>1. \A o \in Op :
            /\ op[o].sends <= 1
            /\ op[o].state # "fresh" /\ op[o].armed /\ op[o].requested => op[o].sends = 1
            /\ op[o].sends = 1 /\ op[o].state = "terminal" => op[o].connection_discarded
      BY <1>1 DEF IInv, Requests
    <2>2. \A o \in Op : op[o].state = "active" =>
            /\ op[o].connection \in Session
            /\ PINNED \in conn[op[o].connection].life
            /\ run[op[o].connection].op = o
      BY <1>1, CancelAssumption DEF IInv, Pinning
    <2>3. \A c \in Session : PINNED \in conn[c].life =>
            \E o \in Op : op[o].state = "active" /\ op[o].connection = c
      BY <1>1, CancelAssumption DEF IInv, Pinning, TypeOK, RunRecord
    <2> QED BY <2>1, <2>2, <2>3 DEF RequestActedUpon
  <1>2. IInv => RequestActedUpon
    BY <1>1
  <1> QED BY <1>2, CancelInvariant, PTL
===========================================================================
