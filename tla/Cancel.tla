------------------------------ MODULE Cancel ------------------------------
(***************************************************************************)
(* Cancellable execution of prepared DML: the single-use handle of         *)
(* src/sqli_cancel_posix.c and the function that drives it,                *)
(* sqli_execute_cancelable of src/sqli_prepare.c.                          *)
(*                                                                         *)
(* Every connection has one execution thread, which runs handles one after *)
(* the other; sqli_cancel_operation_request may be called on any handle at *)
(* any time by other threads.  A handle's mutex is held for each action on *)
(* it, so each is atomic; no action holds it across statement I/O.  The    *)
(* server end of each session is modelled from what the client expects of  *)
(* it: it executes one statement at a time and an urgent byte interrupts   *)
(* whatever the session executes when, or after, the byte arrives.         *)
(***************************************************************************)
EXTENDS Conn, Naturals

CONSTANTS
    Op,      \* cancellation handles, one DML execution each
    Session, \* connection objects, each with its execution thread
    Nil      \* NULL

ASSUME CancelAssumption == Nil \notin Op /\ Nil \notin Session

VARIABLES
    conn,    \* conn[c]: the connection object
    op,      \* op[o]: the handle
    run,     \* run[c]: progress of sqli_execute_cancelable on c
    srv,     \* srv[c]: the server end of the session
    effect   \* effect[o]: what the server did with o's statement

opVars == <<op, run, srv, effect>>
vars   == <<conn, opVars>>

Status  == {"OK", "CANCELED", "IO_ERROR", "PROTO_ERROR", "ALLOC_FAIL", "INVALID_STATE"}
Outcome == {"NONE", "NOT_EXECUTED", "EXECUTED", "INTERRUPTED", "FAILED", "UNKNOWN"}
SqlCode == {"0", "-213", "other"}      \* conn->error_info.sqlcode

\* operation->snapshot is folded in; sends counts send_attempted.
OpRecord == [state: {"fresh", "active", "terminal"}, armed: BOOLEAN,
             connection: Session \cup {Nil}, requested: BOOLEAN, sends: 0 .. 2,
             operation_status: Status, disposal: {"OK", "IO_ERROR", "ERR"},
             connection_discarded: BOOLEAN, outcome: Outcome]

\* calloc, and operation_status = SQLI_INVALID_STATE.
NewOp == [state |-> "fresh", armed |-> FALSE, connection |-> Nil,
          requested |-> FALSE, sends |-> 0, operation_status |-> "INVALID_STATE",
          disposal |-> "OK", connection_discarded |-> FALSE, outcome |-> "NONE"]

\* pc: between calls, writing ID/BIND/EXECUTE, EXECUTE written, reading the
\* response, about to finish.  status and sqlcode: result so far.
RunRecord == [pc: {"idle", "sending", "sent", "receiving", "finishing"},
              op: Op \cup {Nil}, status: Status, sqlcode: SqlCode]

IdleRun == [pc |-> "idle", op |-> Nil, status |-> "OK", sqlcode |-> "0"]

\* executing: the statement being executed; reply: sent and not yet read;
\* urgent: an urgent byte has arrived and interrupted nothing so far.
SrvRecord == [executing: Op \cup {Nil}, urgent: BOOLEAN,
              reply: {"none", "DONE", "ERR", "ERR-213"}]

NewSession == [executing |-> Nil, urgent |-> FALSE, reply |-> "none"]

\* The types of the state.
TypeOK ==
    /\ conn \in [Session -> ConnRecord]
    /\ op \in [Op -> OpRecord]
    /\ run \in [Session -> RunRecord]
    /\ srv \in [Session -> SrvRecord]
    /\ effect \in [Op -> {"none", "applied", "failed", "interrupted"}]

Init ==
    /\ conn = [c \in Session |-> Connected]
    /\ op = [o \in Op |-> NewOp]
    /\ run = [c \in Session |-> IdleRun]
    /\ srv = [c \in Session |-> NewSession]
    /\ effect = [o \in Op |-> "none"]

---------------------------------------------------------------------------
(* The execution thread                                                    *)

\* register_operation, guards: a fresh handle, a ready connection and a
\* lifecycle word of zero, swapped for PINNED.
CanRegister(c, o) ==
    /\ run[c].pc = "idle"
    /\ op[o].state = "fresh"
    /\ conn[c].live /\ conn[c].life = {}
    /\ conn[c].state = "READY" /\ conn[c].open

\* Cancelled before it started: nothing is sent and the pin is dropped again.
CancelBeforeStart(c, o) ==
    /\ CanRegister(c, o)
    /\ op[o].requested
    /\ op' = [op EXCEPT ![o] = [@ EXCEPT !.state = "terminal",
                                        !.operation_status = "CANCELED",
                                        !.outcome = "NOT_EXECUTED"]]
    /\ UNCHANGED <<conn, run, srv, effect>>

\* Registered with urgent sending disarmed; diagnostics are cleared.
Register(c, o) ==
    /\ CanRegister(c, o)
    /\ ~op[o].requested
    /\ conn' = [conn EXCEPT ![c].life = {PINNED}]
    /\ op' = [op EXCEPT ![o] = [@ EXCEPT !.state = "active", !.connection = c]]
    /\ run' = [run EXCEPT ![c] = [pc |-> "sending", op |-> o,
                                  status |-> "OK", sqlcode |-> "0"]]
    /\ UNCHANGED <<srv, effect>>

\* execute_bound_params gives up before EXECUTE is out: allocation of the BIND
\* message fails, or a send does.  An I/O error disqualifies the connection
\* and does not prove that the request never arrived.
SendFails(c) ==
    /\ run[c].pc = "sending"
    /\ \E st \in {"ALLOC_FAIL", "IO_ERROR"} :
         /\ run' = [run EXCEPT ![c] = [@ EXCEPT !.pc = "finishing", !.status = st]]
         /\ conn' = [conn EXCEPT ![c].life =
                       IF st = "IO_ERROR" THEN @ \cup {DISCARDED} ELSE @]
         /\ \E arrived \in {FALSE, st = "IO_ERROR"} :
              srv' = [srv EXCEPT ![c].executing = IF arrived THEN run[c].op ELSE @]
    /\ UNCHANGED <<op, effect>>

\* The whole ID/BIND/EXECUTE/EOT group is written.
SendExecute(c) ==
    /\ run[c].pc = "sending"
    /\ srv' = [srv EXCEPT ![c].executing = run[c].op]
    /\ run' = [run EXCEPT ![c].pc = "sent"]
    /\ UNCHANGED <<conn, op, effect>>

\* Mutant: the connection is not disqualified.
SendInterruptReusable(o, handle) ==
    /\ op' = [op EXCEPT ![o] = [handle EXCEPT !.sends = @ + 1]]
    /\ \E delivered \in BOOLEAN :
         srv' = [srv EXCEPT ![op[o].connection].urgent = @ \/ delivered]
    /\ UNCHANGED conn

\* send_interrupt_locked: the connection is disqualified first, then one
\* urgent byte is sent, which may fail.
SendInterrupt(o, handle) ==
    LET c == op[o].connection IN
    /\ conn' = [conn EXCEPT ![c].life = @ \cup {DISCARDED}]
    /\ op' = [op EXCEPT ![o] = [handle EXCEPT !.sends = @ + 1]]
    /\ \E delivered \in BOOLEAN :
         srv' = [srv EXCEPT ![c].urgent = @ \/ delivered]

\* Mutant: a request latched during the write is forgotten.
ArmForgetful(c) ==
    /\ run[c].pc = "sent"
    /\ op[run[c].op].state = "active" /\ ~op[run[c].op].armed
    /\ op' = [op EXCEPT ![run[c].op].armed = TRUE]
    /\ run' = [run EXCEPT ![c].pc = "receiving"]
    /\ UNCHANGED <<conn, srv, effect>>

\* sqli_cancel_operation_arm: urgent sending is allowed from now on, and a
\* request latched during the write is acted upon.
Arm(c) ==
    LET o == run[c].op
        armed == [op[o] EXCEPT !.armed = TRUE]
    IN
    /\ run[c].pc = "sent"
    /\ op[o].state = "active" /\ ~op[o].armed
    /\ IF op[o].requested
       THEN SendInterrupt(o, armed)
       ELSE op' = [op EXCEPT ![o] = armed] /\ UNCHANGED <<conn, srv>>
    /\ run' = [run EXCEPT ![c].pc = "receiving"]
    /\ UNCHANGED effect

\* The response is read: the statement's result as the server reported it.
Receive(c) ==
    /\ run[c].pc = "receiving"
    /\ srv[c].reply # "none"
    /\ run' = [run EXCEPT ![c] = [@ EXCEPT
         !.pc = "finishing",
         !.status = CASE srv[c].reply = "DONE" -> "OK"
                      [] srv[c].reply = "ERR" -> "PROTO_ERROR"
                      [] srv[c].reply = "ERR-213" -> "CANCELED",
         !.sqlcode = CASE srv[c].reply = "DONE" -> "0"
                       [] srv[c].reply = "ERR" -> "other"
                       [] srv[c].reply = "ERR-213" -> "-213"]]
    /\ srv' = [srv EXCEPT ![c].reply = "none"]
    /\ UNCHANGED <<conn, op, effect>>

\* Mutant: reading the response has no time limit.
ReceiveFailsNever(c) == FALSE /\ UNCHANGED vars

\* The response is lost, late, malformed, without DONE, or cannot be stored.
\* All but the last disqualify the connection at once.
ReceiveFails(c) ==
    /\ run[c].pc = "receiving"
    /\ \E st \in {"IO_ERROR", "PROTO_ERROR", "ALLOC_FAIL"} :
         /\ run' = [run EXCEPT ![c] = [@ EXCEPT !.pc = "finishing", !.status = st]]
         /\ conn' = [conn EXCEPT ![c].life =
                       IF st = "ALLOC_FAIL" THEN @ ELSE @ \cup {DISCARDED}]
    /\ UNCHANGED <<op, srv, effect>>

\* Mutant: a response that could not be processed counts as failure.
OutcomeCertain(status, sqlcode, unknown) ==
    CASE status = "OK" -> "EXECUTED"
      [] status # "OK" /\ sqlcode = "-213" -> "INTERRUPTED"
      [] status = "IO_ERROR" -> "UNKNOWN"
      [] OTHER -> "FAILED"

\* The outcome sqli_cancel_operation_finish derives.
OutcomeOf(status, sqlcode, unknown) ==
    CASE status = "OK" -> "EXECUTED"
      [] status # "OK" /\ sqlcode = "-213" -> "INTERRUPTED"
      [] /\ status # "OK" /\ sqlcode # "-213"
         /\ \/ unknown \/ status = "IO_ERROR"
            \/ status = "PROTO_ERROR" /\ sqlcode = "0" -> "UNKNOWN"
      [] OTHER -> "FAILED"

\* Mutant: the last step stores a lifecycle word of zero.
FinishClearing(c) ==
    LET o == run[c].op
        st == run[c].status
        unknown == op[o].armed /\ st # "OK" /\ run[c].sqlcode = "0"
        discarded == unknown \/ DISCARDED \in conn[c].life
    IN
    /\ run[c].pc = "finishing"
    /\ op[o].state = "active"
    /\ \E disposal \in IF discarded THEN DiscardStatus(conn[c]) ELSE {"OK"} :
         LET d == IF discarded THEN Discarded(conn[c], disposal) ELSE conn[c] IN
         /\ conn' = [conn EXCEPT ![c] = [d EXCEPT !.life = {}]]
         /\ op' = [op EXCEPT ![o] =
                     [@ EXCEPT !.state = "terminal", !.connection = Nil,
                               !.operation_status = st, !.disposal = disposal,
                               !.connection_discarded = discarded,
                               !.outcome = OutcomeOf(st, run[c].sqlcode, unknown)]]
    /\ run' = [run EXCEPT ![c] = [@ EXCEPT !.pc = "idle", !.op = Nil, !.status = "OK"]]
    /\ UNCHANGED <<srv, effect>>

\* sqli_cancel_operation_finish: derive the outcome, dispose of a disqualified
\* connection, forget the connection and drop the pin.
Finish(c) ==
    LET o == run[c].op
        st == run[c].status
        unknown == op[o].armed /\ st # "OK" /\ run[c].sqlcode = "0"
        discarded == unknown \/ DISCARDED \in conn[c].life
    IN
    /\ run[c].pc = "finishing"
    /\ op[o].state = "active"
    /\ \E disposal \in IF discarded THEN DiscardStatus(conn[c]) ELSE {"OK"} :
         LET d == IF discarded THEN Discarded(conn[c], disposal) ELSE conn[c] IN
         /\ conn' = [conn EXCEPT ![c] = [d EXCEPT !.life = @ \ {PINNED}]]
         /\ op' = [op EXCEPT ![o] =
                     [@ EXCEPT !.state = "terminal", !.connection = Nil,
                               !.operation_status = st, !.disposal = disposal,
                               !.connection_discarded = discarded,
                               !.outcome = OutcomeOf(st, run[c].sqlcode, unknown)]]
    /\ run' = [run EXCEPT ![c] = [@ EXCEPT !.pc = "idle", !.op = Nil, !.status = "OK"]]
    /\ UNCHANGED <<srv, effect>>

---------------------------------------------------------------------------
(* A requester thread.                                                     *)

\* sqli_cancel_operation_request.  Calls that find the handle terminal or
\* already requested change nothing.
Request(o) ==
    LET requested == [op[o] EXCEPT !.requested = TRUE] IN
    /\ op[o].state # "terminal" /\ ~op[o].requested
    /\ IF op[o].state = "fresh" \/ ~op[o].armed
       THEN op' = [op EXCEPT ![o] = requested] /\ UNCHANGED <<conn, srv>>
       ELSE SendInterrupt(o, requested)
    /\ UNCHANGED <<run, effect>>

---------------------------------------------------------------------------
(* The server end of session c (external).                                 *)
ServerEnds(c, result, reply) ==
    LET o == srv[c].executing IN
    /\ o # Nil
    /\ effect' = [effect EXCEPT ![o] = result]
    /\ srv' = [srv EXCEPT ![c] = [@ EXCEPT !.executing = Nil, !.reply = reply,
                                          !.urgent = srv[c].urgent /\ result # "interrupted"]]
    /\ UNCHANGED <<conn, op, run>>

ServerApplies(c)    == ServerEnds(c, "applied", "DONE")
ServerRejects(c)    == ServerEnds(c, "failed", "ERR")
ServerInterrupts(c) == srv[c].urgent /\ ServerEnds(c, "interrupted", "ERR-213")

\* Session c is a new physical session.  The server end of the old one is on
\* its own: a statement it still executes is applied or not, unseen.
NewPhysicalSession(c) ==
    /\ srv' = [srv EXCEPT ![c] = NewSession]
    /\ run' = [run EXCEPT ![c] = IdleRun]
    /\ \E result \in {"applied", "failed"} :
         effect' = IF srv[c].executing = Nil THEN effect
                   ELSE [effect EXCEPT ![srv[c].executing] = result]

\* The owner destroys a disqualified connection whose transport is gone and
\* connects a new object (a pool does it when the slot is acquired again).
Replace(c) ==
    /\ run[c].pc = "idle"
    /\ DISCARDED \in conn[c].life
    /\ ~conn[c].open
    /\ conn' = [conn EXCEPT ![c] = Connected]
    /\ NewPhysicalSession(c)
    /\ UNCHANGED op

\* A disposal that failed is tried again (release of the lease).
DisposeAgain(c) ==
    /\ run[c].pc = "idle"
    /\ DISCARDED \in conn[c].life /\ conn[c].open
    /\ \E status \in DiscardStatus(conn[c]) :
         conn' = [conn EXCEPT ![c] = Discarded(@, status)]
    /\ UNCHANGED opVars

---------------------------------------------------------------------------
Execution(c) ==
    \/ \E o \in Op : CancelBeforeStart(c, o) \/ Register(c, o)
    \/ SendFails(c) \/ SendExecute(c) \/ Arm(c)
    \/ Receive(c) \/ ReceiveFails(c) \/ Finish(c)

Server(c) == ServerApplies(c) \/ ServerRejects(c) \/ ServerInterrupts(c)

Next ==
    \/ \E c \in Session : Execution(c) \/ Server(c) \/ Replace(c) \/ DisposeAgain(c)
    \/ \E o \in Op : Request(o)

Spec == Init /\ [][Next]_vars

\* An execution that has begun goes on: every wait for the socket is bounded by
\* the I/O timeout, after which ReceiveFails is always possible.
FairSpec ==
    Spec /\ \A c \in Session :
               WF_vars(run[c].pc # "idle" /\ Execution(c))

---------------------------------------------------------------------------
(* Properties                                                              *)

\* The outcome a finished handle reports is what happened on the server: a
\* reported success was applied, a statement reported as not executed,
\* interrupted or failed has not been and never will be applied.
OutcomeTruthful ==
    \A o \in Op : op[o].state = "terminal" =>
        /\ op[o].outcome # "NONE"
        /\ op[o].outcome = "EXECUTED" => effect[o] = "applied"
        /\ op[o].outcome = "NOT_EXECUTED" => effect[o] = "none"
        /\ op[o].outcome = "INTERRUPTED" => effect[o] = "interrupted"
        /\ op[o].outcome = "FAILED" => effect[o] \in {"none", "failed"}
        /\ op[o].outcome = "UNKNOWN" => op[o].connection_discarded

\* The server interrupts only statements whose own handle was asked to cancel:
\* an urgent byte that loses the race against completion hits nobody else.
InterruptedOnRequest ==
    \A o \in Op : effect[o] = "interrupted" => op[o].requested /\ op[o].sends = 1

\* An idle connection that can still be registered on is in step with the
\* server: nothing executing, no unread response, no urgent byte on its way.
ReusableIsClean ==
    \A c \in Session :
        run[c].pc = "idle" /\ conn[c].life = {} => srv[c] = NewSession

\* No urgent byte reaches the session while a BIND or EXECUTE group is only
\* partly written.
NoInterruptWhileSending ==
    \A c \in Session : run[c].pc = "sending" => ~srv[c].urgent

\* An urgent byte hits the statement it was sent for and no other: not a later
\* one of the same connection, not a connection that is used again, not a
\* request that is half written (sqli_cancel_operation_request and _finish).
NoStrayInterrupt ==
    InterruptedOnRequest /\ ReusableIsClean /\ NoInterruptWhileSending

\* A request is acted upon exactly once: at most one urgent byte per handle,
\* none is forgotten once the statement has been sent, and a requester that
\* finds a handle active finds its connection pinned and not yet replaced, so
\* that it interrupts the statement it was asked to (operation_arm, _request).
RequestActedUpon ==
    /\ \A o \in Op :
           /\ op[o].sends <= 1
           /\ op[o].state # "fresh" /\ op[o].armed /\ op[o].requested
                 => op[o].sends = 1
           /\ op[o].sends = 1 /\ op[o].state = "terminal"
                 => op[o].connection_discarded
           /\ op[o].state = "active" =>
                 /\ op[o].connection \in Session
                 /\ PINNED \in conn[op[o].connection].life
                 /\ run[op[o].connection].op = o
    /\ \A c \in Session : PINNED \in conn[c].life =>
           \E o \in Op : op[o].state = "active" /\ op[o].connection = c

\* A started execution reaches a terminal handle, cancelled or not.
ActiveEnds == \A o \in Op : op[o].state = "active" ~> op[o].state = "terminal"
===========================================================================
