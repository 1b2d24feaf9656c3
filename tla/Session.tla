------------------------------ MODULE Session ------------------------------
(***************************************************************************)
(* One connection's session with the server: transactions, savepoints,     *)
(* the transaction mode and the isolation level (src/sqli_transaction.c),   *)
(* direct queries (src/sqli_query.c), a prepared statement with its cursor  *)
(* and its batches (src/sqli_prepare.c) and the framing of replies on which *)
(* they all rest (src/sqli_dispatch.c).                                    *)
(*                                                                         *)
(* A connection is used by one thread, so a call runs from one blocking     *)
(* read to the next in one step.  What it meets is the timing of the        *)
(* network: the library decides that a reply is over by looking at what    *)
(* has arrived.  pc is the request whose reply is being read, or a tail     *)
(* in which further groups are drained.                                     *)
(***************************************************************************)
EXTENDS Integers, Sequences

CONSTANTS
    Ops,        \* the calls the application makes, a subset of Operation
    Kinds,      \* the statements it queries directly, a subset of Kind
    Prepared,   \* the statements it prepares, a subset of Kind
    Holds,      \* whether its cursors outlive a commit, a subset of BOOLEAN
    Levels,     \* the isolation levels it sets, a subset of Level
    Faults,     \* what may go wrong, a subset of Fault
    BatchRows,  \* bound: rows of a statement batch
    MaxCalls    \* bound: calls that reach the server

Operation == {"begin", "commit", "rollback", "savepoint", "isolation",
              "query", "prepare", "execute", "batch", "stmt_close"}

\* DESCRIBE's statement type: SELECT (2), other data access (3-8, 32, 33, 56),
\* BEGIN (34), COMMIT (35), ROLLBACK (36), DDL and session settings.
Kind == {"select", "work", "begin", "commit", "rollback", "set"}

Level == {"committed", "repeatable", "serializable"}

\* close: the peer closes the connection; late: a receive times out;
\* split: the parts of a reply arrive some milliseconds apart, longer than the
\* waits of receive_done (none) and after an EOT (1 ms), shorter than the polls
\* after an SQ_ERR (50 ms) and in a tail (20 ms).
Fault == {"close", "late", "split"}

ASSUME SessionAssumption ==
    /\ Ops \subseteq Operation /\ Kinds \subseteq Kind /\ Prepared \subseteq Kind
    /\ Holds \subseteq BOOLEAN /\ BatchRows \in Nat \ {0}
    /\ Levels \subseteq Level /\ Faults \subseteq Fault
    /\ MaxCalls \in Nat

VARIABLES
    pc,          \* where the call blocks, or "idle"
    call,        \* its operation, arguments, what it learnt and its status
    grp,         \* sqli_receive_dispatch: the group being read
    autocommit, inTx, epochs, isolation, hold,   \* fields of sqli_conn_t
    stmt,        \* the prepared statement, of kind "none" without one
    out,         \* status of the last call, set_autocommit's OK apart
    pending,     \* requests the server has not processed; manual: the mode they
                 \* were sent in, n: the call
    flight,      \* reply tokens that have not arrived
    inbox,       \* tokens that have arrived and are unread: socket and read_buf
    link,        \* "up" or "down"
    server,      \* the server's side of the session
    outstanding, \* requests of the call neither accepted nor reported as failed in a
                 \* batch item, CLOSE and RELEASE apart
    io,          \* an I/O error has been met
    calls        \* calls that reached the server

client == <<autocommit, inTx, epochs, isolation, hold, stmt>>
wire   == <<pending, flight, inbox, link>>
vars   == <<pc, call, grp, client, out, wire, server, outstanding, io, calls>>

Request  == {"PREPARE", "BEGIN", "COMMIT", "ROLLBACK", "SAVEPOINT", "EXECUTE",
             "OPEN", "FETCH", "CURSOR", "CLOSE", "RELEASE"}   \* CURSOR: SQ_CLOSE alone
Draining == {"resync", "execute_tail", "cursor_tail", "close_tail", "release_tail"}
Token    == {"DESCRIBE", "TUPLE", "DONE", "EOT", "ERR"}
Status   == {"OK", "PROTO_ERROR", "IO_ERROR", "INVALID_STATE"}
Owner    == {"stmt", "select", "direct"}

TypeOK ==
    /\ pc \in {"idle"} \cup Request \cup Draining
    /\ call.op \in Operation \cup {"none"}
    /\ call.kind \in Kind \cup {"none"} /\ call.level \in Level \cup {"none"}
    /\ call.described \in BOOLEAN /\ call.status \in Status /\ call.row \in 0 .. BatchRows
    /\ grp.end \in {"poll", "open", "OK", "PROTO_ERROR", "IO_ERROR"}
    /\ grp.described \in BOOLEAN /\ grp.rows \in BOOLEAN
    /\ autocommit \in BOOLEAN /\ inTx \in BOOLEAN
    /\ epochs \in [commit: 0 .. MaxCalls, rollback: 0 .. MaxCalls]
    /\ isolation \in Level /\ hold \in Holds
    /\ stmt.kind \in Kind \cup {"none"}
    /\ stmt.open \in BOOLEAN /\ stmt.saw_error \in BOOLEAN
    /\ stmt.epochs \in [commit: 0 .. MaxCalls, rollback: 0 .. MaxCalls]
    /\ out \in Status
    /\ pending \in Seq([t: Request, kind: Kind \cup {"none"}, level: Level \cup {"none"},
                        owner: Owner, manual: BOOLEAN, hold: BOOLEAN, n: 1 .. MaxCalls])
    /\ flight \in Seq(Token) /\ inbox \in Seq(Token)
    /\ link \in {"up", "down"}
    /\ server.tx \in BOOLEAN
    /\ server.ended \in [commit: 0 .. MaxCalls, rollback: 0 .. MaxCalls]
    /\ server.level \in Level /\ server.handles \subseteq Owner
    /\ server.cursors \subseteq Owner /\ server.held \subseteq Owner
    /\ server.rows \in BOOLEAN /\ server.owes \in BOOLEAN
    /\ outstanding \in Nat /\ io \in BOOLEAN /\ calls \in 0 .. MaxCalls

NoCall  == [op |-> "none", kind |-> "none", level |-> "none",
            described |-> FALSE, status |-> "OK", row |-> 0]
NoGroup == [end |-> "open", described |-> FALSE, rows |-> FALSE]
Poll    == [NoGroup EXCEPT !.end = "poll"]
NoEpoch == [commit |-> 0, rollback |-> 0]
NoStmt  == [kind |-> "none", open |-> FALSE, saw_error |-> FALSE, epochs |-> NoEpoch]

Init ==
    /\ pc = "idle" /\ call = NoCall /\ grp = NoGroup
    /\ autocommit = TRUE /\ inTx = FALSE /\ isolation = "committed"
    /\ epochs = NoEpoch /\ hold \in Holds
    /\ stmt = NoStmt /\ out = "OK"
    /\ pending = <<>> /\ flight = <<>> /\ inbox = <<>> /\ link = "up"
    /\ server = [tx |-> FALSE, ended |-> NoEpoch, level |-> "committed",
                 handles |-> {}, cursors |-> {}, held |-> {},
                 rows |-> FALSE, owes |-> FALSE]
    /\ outstanding = 0 /\ io = FALSE /\ calls = 0

---------------------------------------------------------------------------
(* Sending a request and returning from a call                              *)

OwnerOf(c) ==
    IF c.op \in {"prepare", "execute", "batch", "stmt_close"} THEN "stmt"
    ELSE IF c.kind = "select" THEN "select" ELSE "direct"

\* The part of a call that sends request t and blocks for its reply.  On a
\* closed connection the send or the read that follows fails, with one status.
Send(t, c, before) ==
    /\ pc' = t /\ call' = c /\ grp' = NoGroup
    /\ pending' = IF link = "up"
                  THEN Append(pending, [t |-> t, kind |-> c.kind, level |-> c.level,
                                        owner |-> OwnerOf(c), manual |-> ~autocommit, hold |-> hold, n |-> calls'])
                  ELSE pending
    /\ outstanding' = before + IF t \in {"CURSOR", "CLOSE", "RELEASE"} THEN 0 ELSE 1
    /\ UNCHANGED <<out, flight, inbox, link, server, io>>

Go(t, c) == calls' = calls /\ Send(t, c, outstanding)

Finish(status, left) ==
    /\ pc' = "idle" /\ call' = NoCall /\ grp' = NoGroup
    /\ out' = status /\ outstanding' = left
    /\ UNCHANGED <<wire, server, calls>>

Return(status) == Finish(status, outstanding) /\ io' = io

Drain(tail) ==
    /\ pc' = tail /\ grp' = Poll
    /\ UNCHANGED <<call, out, wire, server, outstanding, io, calls>>

---------------------------------------------------------------------------
(* Entry of the calls                                                      *)

\* A call that has passed its checks; the application gives a session up after
\* an I/O error, as the header advises.
Enter(t, c) ==
    /\ pc = "idle" /\ ~io /\ calls < MaxCalls /\ c.op \in Ops
    /\ calls' = calls + 1
    /\ Send(t, c, 0)

Reject(op) ==
    /\ pc = "idle" /\ ~io /\ op \in Ops
    /\ out' = "INVALID_STATE"
    /\ UNCHANGED <<pc, call, grp, client, wire, server, outstanding, io, calls>>

Call(op, kind) == [NoCall EXCEPT !.op = op, !.kind = kind]

\* Mutant: SELECT does not open a transaction.
NeedsBeginForWrites(c) ==
    ~autocommit /\ ~inTx /\ c.kind = "work"

\* sqli_autobegin's condition.
NeedsBegin(c) == ~autocommit /\ ~inTx /\ c.kind \in {"select", "work"}

Begin ==
    /\ UNCHANGED client
    /\ \/ inTx /\ Reject("begin")
       \/ ~inTx /\ Enter("BEGIN", Call("begin", "none"))

Commit ==
    /\ UNCHANGED client
    /\ \/ ~inTx /\ Reject("commit")
       \/ inTx /\ Enter("COMMIT", Call("commit", "none"))

Rollback ==
    /\ UNCHANGED client
    /\ \/ ~inTx /\ Reject("rollback")
       \/ inTx /\ Enter("ROLLBACK", Call("rollback", "none"))

\* sqli_savepoint_set, release and rollback.
Savepoint ==
    /\ UNCHANGED client
    /\ \/ ~inTx /\ autocommit /\ Reject("savepoint")
       \/ ~inTx /\ ~autocommit /\ Enter("BEGIN", Call("savepoint", "none"))
       \/ inTx /\ Enter("SAVEPOINT", Call("savepoint", "none"))

SetAutocommit ==
    /\ pc = "idle" /\ ~io
    /\ \E on \in BOOLEAN :
          LET refused == on /\ ~autocommit /\ inTx
          IN /\ autocommit' = IF refused THEN autocommit ELSE on
             /\ out' = IF refused THEN "INVALID_STATE" ELSE out
    /\ UNCHANGED <<pc, call, grp, inTx, epochs, isolation, hold, stmt, wire, server,
                   outstanding, io, calls>>

SetIsolation ==
    /\ UNCHANGED client
    /\ \/ inTx /\ Reject("isolation")
       \/ ~inTx /\ \E level \in Levels :
             Enter("PREPARE", [Call("isolation", "set") EXCEPT !.level = level])

Query ==
    /\ UNCHANGED client
    /\ \E kind \in Kinds : Enter("PREPARE", Call("query", kind))

\* sqli_prepare reads what is left over from earlier replies first.
Prepare ==
    /\ pc = "idle" /\ ~io /\ calls < MaxCalls /\ "prepare" \in Ops /\ stmt = NoStmt
    /\ \E kind \in Prepared : call' = Call("prepare", kind)
    /\ pc' = "resync" /\ grp' = Poll /\ calls' = calls + 1 /\ outstanding' = 0
    /\ UNCHANGED <<client, out, wire, server, io>>

\* Mutant: the end of a transaction is taken to close every cursor.
AnyEndCloses == stmt.epochs # epochs

\* The end of its transaction has closed the cursor of the statement.
ClosedByEnd ==
    \/ stmt.epochs.rollback # epochs.rollback
    \/ ~hold /\ stmt.epochs.commit # epochs.commit

\* sqli_stmt_close_cursor_if_open has to ask the server.
MustClose == stmt.open /\ ~ClosedByEnd

\* sqli_execute closes the cursor of the last execution first; the OPEN or
\* EXECUTE may need a BEGIN.
Starting(c) ==
    IF NeedsBegin(c) THEN "BEGIN" ELSE IF c.kind = "select" THEN "OPEN" ELSE "EXECUTE"

\* The statement's result from here on: sqli_stmt_prepare_result_for_execute.
Opened == [stmt EXCEPT !.open = TRUE, !.epochs = epochs]

Execute ==
    /\ stmt # NoStmt
    /\ UNCHANGED <<autocommit, inTx, epochs, isolation, hold>>
    /\ LET c == [Call("execute", stmt.kind) EXCEPT !.described = TRUE]
           t == IF MustClose THEN "CURSOR" ELSE Starting(c)
       IN /\ Enter(t, c)
          /\ stmt' = IF t = "CURSOR" THEN stmt
                     ELSE IF t = "OPEN" THEN Opened ELSE [stmt EXCEPT !.open = FALSE]

\* On a closed connection the sends themselves may fail.  A batch tells a refused
\* row from the loss of the connection by saw_error, which a failure before the
\* reply finds as the last execution left it: every row is then an item in error.
SendsFail(saw_error) ==
    link = "down" /\ saw_error

\* sqli_stmt_batch_execute, of the rows added before.
Batch ==
    /\ UNCHANGED client
    /\ stmt.kind \notin {"none", "select"}
    /\ LET c == [Call("batch", stmt.kind) EXCEPT !.row = 1]
       IN \/ Enter(Starting(c), c)
          \/ /\ pc = "idle" /\ ~io /\ "batch" \in Ops /\ SendsFail(stmt.saw_error)
             /\ Finish("OK", 0) /\ io' = TRUE

StmtClose ==
    /\ stmt # NoStmt
    /\ Enter("CLOSE", Call("stmt_close", stmt.kind))
    /\ stmt' = NoStmt
    /\ UNCHANGED <<autocommit, inTx, epochs, isolation, hold>>

---------------------------------------------------------------------------
(* sqli_receive_dispatch: reading a group of tokens                         *)

Reading == grp.end = "open" /\ pc # "idle"

\* What is left of s once the EOTs it starts with are gone.
DropEots(s) ==
    LET k == CHOOSE k \in 0 .. Len(s) :
                /\ \A i \in 1 .. k : s[i] = "EOT"
                /\ k = Len(s) \/ s[k + 1] # "EOT"
    IN SubSeq(s, k + 1, Len(s))

\* Mutant: no group ends at an EOT, DONE is always waited for.
MayEndOnlyWithDone(g) == FALSE

\* Whether a group may end at an EOT with nothing behind it: not before the
\* answer to the PREPARE of a direct query, nor before the first row or DONE
\* of a fetch.
MayEnd(g) ==
    /\ ~(pc = "PREPARE" /\ call.op \in {"query", "isolation"} /\ ~g.described)
    /\ ~(pc = "FETCH" /\ ~g.rows)

\* receive_done takes the EOTs that have arrived with it, sqli_receive_error waits
\* for one; both end the group.
ReadToken ==
    /\ Reading /\ inbox # <<>>
    /\ LET rest == Tail(inbox)
       IN \/ /\ Head(inbox) = "DONE"
             /\ inbox' = DropEots(rest)
             /\ grp' = [grp EXCEPT !.end = "OK"]
          \/ /\ Head(inbox) = "ERR"
             /\ rest = <<>> => flight = <<>>
             /\ inbox' = IF rest # <<>> /\ Head(rest) = "EOT" THEN Tail(rest) ELSE rest
             /\ grp' = [grp EXCEPT !.end = "PROTO_ERROR"]
          \/ /\ Head(inbox) = "EOT"
             /\ inbox' = rest
             /\ grp' = IF rest = <<>> /\ MayEnd(grp) THEN [grp EXCEPT !.end = "OK"] ELSE grp
          \/ /\ Head(inbox) \in {"DESCRIBE", "TUPLE"}
             /\ inbox' = rest
             /\ grp' = [grp EXCEPT !.described = @ \/ Head(inbox) = "DESCRIBE",
                                   !.rows = @ \/ Head(inbox) = "TUPLE"]
    /\ UNCHANGED <<pc, call, client, out, pending, flight, link, server, outstanding, io, calls>>

\* The read fails: the peer has closed the connection, or the receive timeout
\* runs out while nothing arrives.
ReadFails ==
    /\ Reading /\ inbox = <<>>
    /\ link = "down" \/ "late" \in Faults
    /\ grp' = [grp EXCEPT !.end = "IO_ERROR"]
    /\ io' = TRUE
    /\ UNCHANGED <<pc, call, client, out, wire, server, outstanding, calls>>

---------------------------------------------------------------------------
(* The end of the calls                                                    *)

\* Mutant: only the result of a successful SELECT is released.
FailUnreleased(status) == Return(status)

\* sqli_result_destroy on an error path: a described SELECT is closed and
\* released first; sqli_execute closes the cursor it has opened.
Fail(status) ==
    IF call.op = "query" /\ call.kind = "select" /\ call.described
    THEN Go("CLOSE", [call EXCEPT !.status = status])
    ELSE IF call.op = "execute" /\ MustClose
    THEN Go("CURSOR", [call EXCEPT !.status = status])
    ELSE Return(status)

\* Mutant: COMMIT sent as SQL text leaves the epoch alone.
TrackFlagOnly(kind) ==
    /\ inTx' = IF kind = "begin" THEN TRUE
               ELSE IF kind \in {"commit", "rollback"} THEN FALSE ELSE inTx
    /\ UNCHANGED epochs

\* sqli_track_transaction_statement, and the end of a transaction.
Track(kind) ==
    /\ inTx' = IF kind = "begin" THEN TRUE
               ELSE IF kind \in {"commit", "rollback"} THEN FALSE ELSE inTx
    /\ epochs' = IF kind \in {"commit", "rollback"}
                 THEN [epochs EXCEPT ![kind] = @ + 1] ELSE epochs

\* After PREPARE, and after the BEGIN it may need: open or execute.
Main(c) ==
    IF c.kind = "select" /\ c.described
    THEN Go("OPEN", c) /\ stmt' = IF c.op = "execute" THEN Opened ELSE stmt
    ELSE Go("EXECUTE", c) /\ stmt' = stmt

\* A batch goes on to the next row, or is over.
NextRow(saw_error, left) ==
    \/ /\ call.row < BatchRows
       /\ calls' = calls
       /\ Send(Starting(call), [call EXCEPT !.row = @ + 1], left)
    \/ /\ call.row = BatchRows
       /\ Finish("OK", left) /\ io' = io
    \/ /\ call.row < BatchRows /\ SendsFail(saw_error)
       /\ Finish("OK", left) /\ io' = TRUE

\* What is left of outstanding when a row has failed and an item says so.
Reported == IF grp.end = "PROTO_ERROR" THEN outstanding - 1 ELSE 0

AfterPrepare ==
    /\ pc = "PREPARE"
    /\ \/ /\ grp.end = "OK" /\ call.op = "prepare"
          /\ stmt' = [NoStmt EXCEPT !.kind = call.kind, !.epochs = epochs]
          /\ UNCHANGED <<autocommit, inTx, epochs, isolation, hold>>
          /\ Return("OK")
       \/ /\ grp.end = "OK" /\ call.op # "prepare"
          /\ UNCHANGED <<autocommit, inTx, epochs, isolation, hold>>
          /\ LET c == [call EXCEPT !.described = grp.described]
             IN IF c.described /\ NeedsBegin(c) THEN Go("BEGIN", c) /\ stmt' = stmt ELSE Main(c)
       \/ /\ grp.end \in {"PROTO_ERROR", "IO_ERROR"}
          /\ UNCHANGED client
          /\ Return(grp.end)

\* sqli_begin's end, called by the application or by a statement that needs it.
AfterBegin ==
    /\ pc = "BEGIN"
    /\ UNCHANGED <<autocommit, epochs, isolation, hold>>
    /\ \/ /\ grp.end = "OK"
          /\ inTx' = TRUE
          /\ IF call.op = "begin" THEN Return("OK") /\ stmt' = stmt
             ELSE IF call.op = "savepoint" THEN Go("SAVEPOINT", call) /\ stmt' = stmt
             ELSE Main(call)
       \/ /\ grp.end \in {"PROTO_ERROR", "IO_ERROR"}
          /\ UNCHANGED <<inTx, stmt>>
          /\ IF call.op = "batch" /\ stmt.saw_error THEN NextRow(TRUE, Reported) ELSE Fail(grp.end)

\* Mutant: an SQ_ERR reply passes for an answer.
AfterTransactionUnchecked ==
    /\ pc \in {"COMMIT", "ROLLBACK", "SAVEPOINT"}
    /\ \/ /\ grp.end \in {"OK", "PROTO_ERROR"}
          /\ Track(IF pc = "COMMIT" THEN "commit" ELSE IF pc = "ROLLBACK" THEN "rollback" ELSE "none")
          /\ UNCHANGED <<autocommit, isolation, hold, stmt>>
          /\ Return("OK")
       \/ /\ grp.end = "IO_ERROR"
          /\ UNCHANGED client
          /\ Return(grp.end)

\* sqli_commit, sqli_rollback, savepoint_send_core: the flag follows an OK only.
AfterTransaction ==
    /\ pc \in {"COMMIT", "ROLLBACK", "SAVEPOINT"}
    /\ \/ /\ grp.end = "OK"
          /\ Track(IF pc = "COMMIT" THEN "commit" ELSE IF pc = "ROLLBACK" THEN "rollback" ELSE "none")
          /\ UNCHANGED <<autocommit, isolation, hold, stmt>>
          /\ Return("OK")
       \/ /\ grp.end \in {"PROTO_ERROR", "IO_ERROR"}
          /\ UNCHANGED client
          /\ Return(grp.end)

\* The cursor of a forward-only SELECT: fetch until a group brings no row; the
\* direct query then closes and releases it.
AfterOpenOrFetch ==
    /\ pc \in {"OPEN", "FETCH"}
    /\ UNCHANGED client
    /\ \/ /\ grp.end = "OK"
          /\ IF pc = "OPEN" \/ grp.rows THEN Go("FETCH", call)
             ELSE IF call.op = "query" THEN Go("CLOSE", call) ELSE Return("OK")
       \/ grp.end \in {"PROTO_ERROR", "IO_ERROR"} /\ Fail(grp.end)

\* sqli_stmt_close_cursor_if_open: a failure is the call's own at its start, and
\* the cursor stays open; after a failure it changes nothing.
AfterCursor ==
    /\ pc = "CURSOR"
    /\ UNCHANGED client
    /\ \/ grp.end = "OK" /\ Drain("cursor_tail")
       \/ /\ grp.end \in {"PROTO_ERROR", "IO_ERROR"}
          /\ Return(IF call.status = "OK" THEN grp.end ELSE call.status)

\* sqli_stmt_close_release: failures are logged, and only an OK is followed by
\* a drain.
AfterClose ==
    /\ pc \in {"CLOSE", "RELEASE"}
    /\ UNCHANGED client
    /\ IF grp.end = "OK" THEN Drain(IF pc = "CLOSE" THEN "close_tail" ELSE "release_tail")
       ELSE /\ grp.end \in {"PROTO_ERROR", "IO_ERROR"}
            /\ IF pc = "CLOSE" THEN Go("RELEASE", call) ELSE Return(call.status)

\* The end of an executed statement, or row of a batch.
Executed ==
    /\ Track(call.kind)
    /\ isolation' = IF call.op = "isolation" THEN call.level ELSE isolation
    /\ stmt' = IF OwnerOf(call) = "stmt" THEN [stmt EXCEPT !.saw_error = FALSE] ELSE stmt
    /\ UNCHANGED <<autocommit, hold>>
    /\ IF call.op = "batch" THEN NextRow(FALSE, outstanding) ELSE Return("OK")

\* Mutant: the groups after the first are left for the next call.
AfterExecuteUndrained ==
    /\ pc = "EXECUTE"
    /\ \/ grp.end = "OK" /\ Executed
       \/ /\ grp.end \in {"PROTO_ERROR", "IO_ERROR"}
          /\ UNCHANGED client
          /\ Return(grp.end)

\* Mutant: a batch goes on after any failure of a row.
AfterExecuteGoesOn ==
    /\ pc = "EXECUTE"
    /\ UNCHANGED client
    /\ \/ grp.end = "OK" /\ Drain("execute_tail")
       \/ /\ grp.end \in {"PROTO_ERROR", "IO_ERROR"}
          /\ IF call.op = "batch" THEN NextRow(TRUE, outstanding - 1) ELSE Return(grp.end)

\* The receive has reset saw_error; SQ_ERR sets it, and the batch goes on.
AfterExecute ==
    /\ pc = "EXECUTE"
    /\ UNCHANGED <<autocommit, inTx, epochs, isolation, hold>>
    /\ \/ grp.end = "OK" /\ stmt' = stmt /\ Drain("execute_tail")
       \/ /\ grp.end \in {"PROTO_ERROR", "IO_ERROR"}
          /\ LET saw_error == grp.end = "PROTO_ERROR"
             IN /\ stmt' = IF OwnerOf(call) = "stmt" THEN [stmt EXCEPT !.saw_error = saw_error]
                           ELSE stmt
                /\ IF call.op = "batch" /\ saw_error THEN NextRow(TRUE, Reported)
                   ELSE Return(grp.end)

---------------------------------------------------------------------------
(* Draining what follows a reply: poll for 20 ms, read a group, again       *)

\* The poll runs out: what the server has sent or still owes arrives before.
Quiet == inbox = <<>> /\ link = "up" /\ flight = <<>> /\ ~server.owes

\* The cursor is closed: the execution starts, or the failed one is over.
CursorClosed ==
    /\ UNCHANGED <<autocommit, inTx, epochs, isolation, hold>>
    /\ IF call.status # "OK" THEN stmt' = [stmt EXCEPT !.open = FALSE] /\ Return(call.status)
       ELSE /\ stmt' = IF NeedsBegin(call) THEN [stmt EXCEPT !.open = FALSE] ELSE Opened
            /\ Go(Starting(call), call)

AfterTail ==
    CASE pc = "resync"       -> UNCHANGED client /\ Go("PREPARE", call)
      [] pc = "execute_tail" -> Executed
      [] pc = "cursor_tail"  -> CursorClosed
      [] pc = "close_tail"   -> UNCHANGED client /\ Go("RELEASE", call)
      [] pc = "release_tail" -> UNCHANGED client /\ Return(call.status)

\* A failed group ends the draining; only a direct query reports it.
Tailing ==
    /\ pc \in Draining
    /\ \/ /\ grp.end = "poll" /\ (inbox # <<>> \/ link = "down")
          /\ grp' = NoGroup
          /\ UNCHANGED <<pc, call, client, out, wire, server, outstanding, io, calls>>
       \/ grp.end = "poll" /\ Quiet /\ AfterTail
       \/ grp.end = "OK" /\ UNCHANGED client /\ Drain(pc)
       \/ /\ grp.end \in {"PROTO_ERROR", "IO_ERROR"}
          /\ IF pc = "execute_tail" /\ call.op \in {"query", "isolation"}
             THEN UNCHANGED client /\ Return(grp.end)
             ELSE AfterTail

---------------------------------------------------------------------------
(* The server, as the library relies on it, and the network                *)

Ends(r) ==
    IF r.t = "BEGIN" \/ (r.t = "EXECUTE" /\ r.kind = "begin") THEN "begin"
    ELSE IF r.t = "COMMIT" \/ (r.t = "EXECUTE" /\ r.kind = "commit") THEN "commit"
    ELSE IF r.t = "ROLLBACK" \/ (r.t = "EXECUTE" /\ r.kind = "rollback") THEN "rollback"
    ELSE "none"

\* A request that cannot be accepted: a second BEGIN, the end of a transaction
\* or a savepoint without one, OPEN of an open cursor and FETCH of a closed one.
Impossible(r) ==
    \/ Ends(r) = "begin" /\ server.tx
    \/ (Ends(r) \in {"commit", "rollback"} \/ r.t = "SAVEPOINT") /\ ~server.tx
    \/ r.t = "OPEN" /\ r.owner \in server.cursors
    \/ r.t = "FETCH" /\ r.owner \notin server.cursors

\* The server after accepting r; rows and owes are what it chooses to have left.
Accepting(r, rows, owes) ==
    [tx |-> IF Ends(r) = "begin" THEN TRUE
            ELSE IF Ends(r) = "none" THEN server.tx ELSE FALSE,
     ended |-> IF Ends(r) \in {"commit", "rollback"}
               THEN [server.ended EXCEPT ![Ends(r)] = @ + 1] ELSE server.ended,
     level |-> IF r.t = "EXECUTE" /\ r.level # "none"
               THEN IF r.level = "serializable" THEN "repeatable" ELSE r.level
               ELSE server.level,
     handles |-> IF r.t = "PREPARE" THEN server.handles \cup {r.owner}
                 ELSE IF r.t = "RELEASE" THEN server.handles \ {r.owner}
                 ELSE server.handles,
     cursors |-> IF r.t = "OPEN" THEN server.cursors \cup {r.owner}
                 ELSE IF r.t \in {"CURSOR", "CLOSE", "RELEASE"} THEN server.cursors \ {r.owner}
                 ELSE IF Ends(r) = "commit" THEN server.cursors \cap server.held
                 ELSE IF Ends(r) = "rollback" THEN {} ELSE server.cursors,
     held |-> IF r.t = "OPEN" /\ r.hold THEN server.held \cup {r.owner}
              ELSE IF r.t \in {"CURSOR", "CLOSE", "RELEASE"} THEN server.held \ {r.owner}
              ELSE IF Ends(r) = "rollback" THEN {} ELSE server.held,
     rows |-> IF r.t = "OPEN" THEN rows ELSE IF r.t = "FETCH" THEN FALSE ELSE server.rows,
     owes |-> owes]

ReplyTo(r) ==
    CASE r.t = "PREPARE"                    -> <<"DESCRIBE", "DONE", "EOT">>
      [] r.t \in {"OPEN", "CURSOR", "CLOSE", "RELEASE"} -> <<"EOT">>
      [] r.t = "FETCH" /\ server.rows       -> <<"TUPLE", "DONE", "EOT">>
      [] OTHER                              -> <<"DONE", "EOT">>

\* One request is answered, in order.  Data statements may owe a second group.
Accept ==
    /\ pending # <<>> /\ ~server.owes /\ ~Impossible(Head(pending))
    /\ LET r == Head(pending)
       IN /\ \E rows, owes \in BOOLEAN :
                /\ rows => r.t = "OPEN"
                /\ owes => r.t = "EXECUTE" /\ r.kind = "work"
                /\ server' = Accepting(r, rows, owes)
          /\ flight' = flight \o ReplyTo(r)
          /\ outstanding' = IF r.n = calls /\ r.t \notin {"CURSOR", "CLOSE", "RELEASE"}
                            THEN outstanding - 1 ELSE outstanding
    /\ pending' = Tail(pending)
    /\ UNCHANGED <<pc, call, grp, client, out, inbox, link, io, calls>>

Refuse ==
    /\ pending # <<>> /\ ~server.owes /\ Head(pending).t # "RELEASE"
    /\ flight' = flight \o <<"ERR", "EOT">>
    /\ pending' = Tail(pending)
    /\ UNCHANGED <<pc, call, grp, client, out, inbox, link, server, outstanding, io, calls>>

\* The second group of a statement with large objects.
SendOwed ==
    /\ server.owes
    /\ server' = [server EXCEPT !.owes = FALSE]
    /\ flight' = flight \o <<"DONE", "EOT">>
    /\ UNCHANGED <<pc, call, grp, client, out, pending, inbox, link, outstanding, io, calls>>

Arrive ==
    /\ flight # <<>>
    /\ \E k \in IF "split" \in Faults THEN 1 .. Len(flight) ELSE {Len(flight)} :
          /\ inbox' = inbox \o SubSeq(flight, 1, k)
          /\ flight' = SubSeq(flight, k + 1, Len(flight))
    /\ UNCHANGED <<pc, call, grp, client, out, pending, link, server, outstanding, io, calls>>

\* The peer closes: the server undoes the open transaction and drops the
\* session's handles; what had arrived can still be read.
PeerCloses ==
    /\ "close" \in Faults /\ link = "up"
    /\ link' = "down" /\ pending' = <<>> /\ flight' = <<>>
    /\ server' = [server EXCEPT !.tx = FALSE, !.handles = {}, !.cursors = {}, !.held = {},
                                    !.owes = FALSE]
    /\ UNCHANGED <<pc, call, grp, client, out, inbox, outstanding, io, calls>>

---------------------------------------------------------------------------
Application ==
    \/ Begin \/ Commit \/ Rollback \/ Savepoint \/ SetAutocommit \/ SetIsolation
    \/ Query \/ Prepare \/ Execute \/ Batch \/ StmtClose

Library ==
    \/ ReadToken
    \/ AfterPrepare \/ AfterBegin \/ AfterTransaction \/ AfterOpenOrFetch
    \/ AfterCursor \/ AfterClose \/ AfterExecute \/ Tailing

Peer == Accept \/ Refuse \/ SendOwed

Next == Application \/ Library \/ ReadFails \/ Peer \/ Arrive \/ PeerCloses

Spec == Init /\ [][Next]_vars

\* The library runs, the server answers, what is sent arrives and a closed
\* connection is noticed.  Receive timeouts are not counted on.
FairSpec ==
    /\ Spec
    /\ WF_vars(Library) /\ WF_vars(Peer) /\ WF_vars(Arrive)
    /\ WF_vars(ReadFails /\ link = "down")

---------------------------------------------------------------------------
(* Properties                                                              *)

\* A call that returns SQLI_OK has had every request it sent answered and
\* accepted: no leftover of an earlier reply passed for its answer.
OkMeansDone ==
    pc = "idle" /\ out = "OK" => outstanding = 0

\* Between calls nothing of an earlier reply is left to be read by the next.
InStep ==
    pc = "idle" /\ ~io =>
        pending = <<>> /\ flight = <<>> /\ inbox = <<>> /\ ~server.owes

\* Between calls in_transaction, the epochs and the isolation level are the
\* server's, whether a transaction was opened or ended by a call, implicitly
\* or as SQL text, and whatever failed.
MirrorTruthful ==
    pc = "idle" /\ ~io /\ link = "up" =>
        /\ inTx = server.tx
        /\ epochs = server.ended
        /\ server.level = IF isolation = "serializable" THEN "repeatable" ELSE isolation

\* The server processes no data statement sent in manual mode outside a
\* transaction: nothing the application has yet to commit is committed.
WorkInTransaction ==
    [][pending # <<>> /\ pending' = Tail(pending) /\ link' = "up"
         /\ Head(pending).t \in {"EXECUTE", "OPEN"}
         /\ Head(pending).kind \in {"select", "work"}
         /\ Head(pending).manual
       => server.tx]_vars

\* A forward-only SELECT leaves no statement behind on the server, whatever
\* step of it fails.
SelectReleased == pc = "idle" /\ ~io => "select" \notin server.handles

\* Between calls the library knows of a cursor that is open on the server: the
\* next execution or the next close will close it, through commits that keep
\* it, rollbacks that do not and CLOSEs that are refused; so no OPEN finds the
\* cursor open.
CursorKnown ==
    /\ pc = "idle" /\ ~io /\ link = "up" /\ "stmt" \in server.cursors => MustClose
    /\ \A i \in DOMAIN pending :
           i = 1 /\ pending[i].t = "OPEN" => pending[i].owner \notin server.cursors

\* Every call returns: none waits for a reply the server does not owe.
CallReturns == (pc # "idle") ~> (pc = "idle")
=============================================================================
