--------------------------- MODULE Session_proofs ---------------------------
(***************************************************************************)
(* Proofs about the calls of a session, for every set of operations, kinds *)
(* of statement, isolation levels and faults but one: no reply comes in    *)
(* pieces between which a 20 ms poll runs out.                             *)
(*                                                                         *)
(* The invariant says, at every point of every call, what the client, the  *)
(* wire and the server have of each other: which request waits, what is    *)
(* left to read of its answer, and which effect the client has yet to take.*)
(***************************************************************************)
EXTENDS Session, SequenceTheorems, TLAPS

-----------------------------------------------------------------------------
\* A request on the wire, a call in progress, a reply being read, the statement
\* object and the server.
RequestRecord ==
    [t: Request, kind: Kind \cup {"none"}, level: Level \cup {"none"}, owner: Owner,
     manual: BOOLEAN, hold: BOOLEAN, n: Nat]
CallRecord ==
    [op: Operation \cup {"none"}, kind: Kind \cup {"none"}, level: Level \cup {"none"},
     described: BOOLEAN, status: Status, row: Nat]
GroupRecord ==
    [end: {"poll", "open", "OK", "PROTO_ERROR", "IO_ERROR"}, described: BOOLEAN, rows: BOOLEAN]
EpochRecord == [commit: Nat, rollback: Nat]
StmtRecord ==
    [kind: Kind \cup {"none"}, open: BOOLEAN, saw_error: BOOLEAN, epochs: EpochRecord]
ServerRecord ==
    [tx: BOOLEAN, ended: EpochRecord, level: Level, handles: SUBSET Owner,
     cursors: SUBSET Owner, held: SUBSET Owner, rows: BOOLEAN, owes: BOOLEAN]

\* The state the connection object keeps from call to call.
ClientTypes ==
    /\ autocommit \in BOOLEAN /\ inTx \in BOOLEAN /\ epochs \in EpochRecord
    /\ isolation \in Level /\ hold \in BOOLEAN
    /\ stmt \in StmtRecord

\* The call in progress, the wire and the server.  Only sqli_set_isolation has a level.
ProgressTypes ==
    /\ pc \in {"idle"} \cup Request \cup Draining
    /\ call \in CallRecord /\ grp \in GroupRecord /\ out \in Status
    /\ call.level # "none" <=> call.op = "isolation"
    /\ pending \in Seq(RequestRecord)
    /\ link \in {"up", "down"} /\ server \in ServerRecord
    /\ io \in BOOLEAN /\ calls \in Nat

Types == ClientTypes /\ ProgressTypes

-----------------------------------------------------------------------------
\* A direct SELECT whose PREPARE has been answered.
SelectQuery == call.op = "query" /\ call.kind = "select" /\ call.described
\* The statement is being given back.
Releasing == pc \in {"CLOSE", "close_tail", "RELEASE", "release_tail"}

Underway ==
    /\ stmt.kind = "none" => stmt = NoStmt
    /\ call.op = "isolation" => call.kind = "set"
    /\ call.op \in {"query", "prepare", "execute", "batch"} => call.kind # "none"
    /\ call.op \in {"execute", "batch"} => stmt.kind = call.kind
    /\ call.op = "batch" => call.kind # "select"
    /\ call.op = "execute" => call.described /\ (pc = "BEGIN" => ~stmt.open)
    /\ call.op \in {"prepare", "stmt_close"} => stmt = NoStmt
    /\ pc = "idle" => call = NoCall
    /\ pc = "resync" => call.op = "prepare"
    /\ pc = "PREPARE" => call.op \in {"prepare", "query", "isolation"}
    /\ pc = "BEGIN" => \/ call.op \in {"begin", "savepoint"} /\ call.kind = "none"
                       \/ call.op \in {"execute", "batch"} /\ NeedsBegin(call)
                       \/ call.op = "query" /\ call.described /\ NeedsBegin(call)
    /\ pc = "COMMIT" => call.op = "commit" /\ call.kind = "none"
    /\ pc = "ROLLBACK" => call.op = "rollback" /\ call.kind = "none"
    /\ pc = "SAVEPOINT" => call.op = "savepoint" /\ call.kind = "none"
    /\ pc \in {"OPEN", "FETCH"} => SelectQuery \/ (call.op = "execute" /\ call.kind = "select")
    /\ pc \in {"EXECUTE", "execute_tail"} =>
          call.op \in {"query", "execute", "batch", "isolation"}
            /\ call.kind \notin {"none", "select"}
    /\ pc \in {"OPEN", "EXECUTE"} => ~NeedsBegin(call)
    /\ pc = "OPEN" /\ call.op = "execute" => stmt.open /\ stmt.epochs = epochs
    /\ pc \in {"CURSOR", "cursor_tail"} => call.op = "execute"
    /\ Releasing => SelectQuery \/ call.op = "stmt_close"

-----------------------------------------------------------------------------
\* Nothing of an earlier or a current reply is on its way or left to be read.
Silent == pending = <<>> /\ flight = <<>> /\ inbox = <<>> /\ ~server.owes
\* The connection was closed before the reply came.
Lost == link = "down" /\ Silent

\* The reply s is on its way, or has arrived and is all there is to read.
Sent(s) == \/ flight = s /\ inbox = <<>> /\ link = "up"
           \/ flight = <<>> /\ inbox = s
\* The group is as it was when its request was sent, except for the first token of
\* a DESCRIBE or TUPLE reply.
Unread == inbox = <<>> \/ pc \notin {"PREPARE", "FETCH"} => grp = NoGroup

\* The replies, as the server sends them.
Group       == <<"DONE", "EOT">>
Description == <<"DESCRIBE", "DONE", "EOT">>
OneRow      == <<"TUPLE", "DONE", "EOT">>
Ack         == <<"EOT">>
Refusal     == <<"ERR", "EOT">>
TwoGroups   == <<"DONE", "EOT", "DONE", "EOT">>
Answers     == {Description, OneRow, Group, Ack}

\* What is left to read of the accepted answer to the request of pc.
Answer(s) ==
    \/ pc = "PREPARE" /\ ~grp.described /\ s = Description
    \/ pc = "PREPARE" /\ grp.described /\ s = Group
    \/ pc \in {"OPEN", "CURSOR", "CLOSE", "RELEASE"} /\ s = Ack
    \/ pc = "FETCH" /\ ~grp.rows /\ s = OneRow
    \/ pc \in Request \ {"PREPARE", "OPEN", "CURSOR", "CLOSE", "RELEASE"} /\ s = Group

\* The call in progress executes a data statement: a second group may follow.
MayOwe == pc \in {"EXECUTE", "execute_tail"} /\ call.kind = "work"
\* At most that second group is behind what has been read.
Behind ==
    /\ server.owes => MayOwe
    /\ \/ flight = <<>> /\ inbox = <<>>
       \/ MayOwe /\ ~server.owes /\ Sent(Group)

\* What the request of pc does to the transaction once it is accepted.
Effect == Ends([t |-> IF pc = "execute_tail" THEN "EXECUTE" ELSE pc, kind |-> call.kind])
\* The level the server grants.
Granted(level) == IF level = "serializable" THEN "repeatable" ELSE level

\* The server is as the connection object says, and in Applied as it will say once
\* the call has taken the effect of its request.
Unapplied ==
    link = "up" =>
        /\ server.tx = inTx /\ server.ended = epochs /\ server.level = Granted(isolation)
Applied ==
    link = "up" =>
        /\ server.tx = IF Effect = "none" THEN inTx ELSE Effect = "begin"
        /\ server.ended = IF Effect \in {"commit", "rollback"}
                          THEN [epochs EXCEPT ![Effect] = @ + 1] ELSE epochs
        /\ server.level = Granted(IF pc \in {"EXECUTE", "execute_tail"} /\ call.op = "isolation"
                                  THEN call.level ELSE isolation)
        /\ pc = "RELEASE" => OwnerOf(call) \notin server.handles \cup server.cursors
        /\ pc = "CURSOR" => OwnerOf(call) \notin server.cursors

\* The request of pc waits at the server and nothing has come back.
Waiting ==
    /\ link = "up" /\ grp = NoGroup
    /\ pending = <<[t |-> pc, kind |-> call.kind, level |-> call.level, owner |-> OwnerOf(call),
                    manual |-> ~autocommit, hold |-> hold, n |-> calls]>>
    /\ flight = <<>> /\ inbox = <<>> /\ ~server.owes
    /\ Unapplied
    /\ pc = "OPEN" => OwnerOf(call) \notin server.cursors

\* The request of pc was refused: its error is all there is to read.
Refused == /\ pc # "RELEASE" /\ pending = <<>> /\ ~server.owes
           /\ grp = NoGroup /\ Sent(Refusal) /\ Unapplied

\* The request of pc was accepted: its answer, or what is left of it, is all there is
\* to read, with a second group behind it if the statement has one.
Answered ==
    /\ pending = <<>> /\ Applied
    /\ server.owes => MayOwe
    /\ \/ \E s \in Answers :
             Answer(s) /\ Sent(s) /\ Unread
       \/ /\ MayOwe /\ ~server.owes /\ pc = "EXECUTE"
          /\ grp = NoGroup
          /\ \/ Sent(TwoGroups)
             \/ flight = Group /\ inbox = Group /\ link = "up"

\* A reply is being read, or has been and its call goes on.
InReply ==
    \/ grp.end = "open" /\ (Waiting \/ Lost \/ Refused \/ Answered)
    \/ grp.end = "OK" /\ pending = <<>> /\ Behind /\ Applied /\ (pc = "PREPARE" => grp.described)
    \/ grp.end = "PROTO_ERROR" /\ Silent /\ Unapplied /\ pc # "RELEASE"

\* What follows a reply is being drained.
InTail ==
    /\ Applied /\ pending = <<>>
    /\ \/ grp = Poll /\ Behind
       \/ grp = NoGroup /\ (Lost \/ (MayOwe /\ ~server.owes /\ flight = <<>> /\ inbox = Group))
       \/ pc = "execute_tail" /\ grp.end = "OK" /\ Silent

\* Between calls, in a request and in a drain.
Framed ==
    /\ pc = "idle" => Silent /\ Unapplied
    /\ pc \in Request => InReply
    /\ pc \in Draining => InTail

\* A connection that is closed takes everything the server kept with it.
Severed ==
    link = "down" => /\ pending = <<>> /\ flight = <<>> /\ ~server.owes
                     /\ server.handles = {} /\ server.cursors = {}

\* The statement of a direct SELECT and its cursor exist during its query only.
SelectInQuery ==
    /\ "select" \in server.handles =>
         /\ call.op = "query" /\ call.kind = "select"
         /\ pc \in {"PREPARE", "BEGIN", "OPEN", "FETCH", "CLOSE", "close_tail", "RELEASE"}
         /\ pc = "PREPARE" => grp.end = "OK" \/ (grp.end = "open" /\ Answered)
    /\ "select" \in server.cursors =>
         call.op = "query" /\ pc \in {"OPEN", "FETCH", "CLOSE", "close_tail", "RELEASE"}
    /\ "direct" \notin server.cursors

\* No transaction has ended since the cursor of the statement was opened, or none that
\* closed it.
StillOpen ==
    /\ stmt.open /\ stmt.epochs.rollback = server.ended.rollback
    /\ hold \/ stmt.epochs.commit = server.ended.commit

\* A cursor the server has open for the prepared statement is known to the library.
CursorTracked ==
    /\ ~hold => server.held = {}
    /\ "stmt" \in server.cursors =>
         /\ hold => "stmt" \in server.held
         /\ StillOpen \/ (call.op = "stmt_close" /\ pc \in {"CLOSE", "close_tail", "RELEASE"})
         /\ pc # "cursor_tail"

Core == Underway /\ Framed /\ Severed /\ SelectInQuery /\ CursorTracked

\* The inductive invariant.  After an I/O error the application gives the session up,
\* and only the values of the variables are still known.
IInv == Types /\ (~io => Core)

\* The requests whose accepted answer nobody counts.
Closing == {"CURSOR", "CLOSE", "RELEASE"}

\* What outstanding counts while the reply to any other request is read: the request
\* itself until the server has accepted it, and still when it is refused.
Credit ==
    \/ grp.end = "open" /\ outstanding = 1 /\ (Waiting \/ Refused)
    \/ grp.end = "open" /\ outstanding = 0 /\ Answered
    \/ grp.end = "open" /\ Lost
    \/ grp.end = "OK" /\ outstanding = 0
    \/ grp.end = "PROTO_ERROR" /\ outstanding = 1

-----------------------------------------------------------------------------
\* An empty call and a call without options are calls.
LEMMA CallFacts ==
    /\ NoCall \in CallRecord
    /\ NoCall.op = "none" /\ NoCall.kind = "none" /\ NoCall.level = "none"
    /\ NoCall.status = "OK" /\ NoCall.row = 0 /\ ~NoCall.described
    /\ \A op \in Operation, kind \in Kind \cup {"none"} :
         LET c == Call(op, kind)
         IN /\ c \in CallRecord /\ c.op = op /\ c.kind = kind /\ c.level = "none"
            /\ c.status = "OK" /\ c.row = 0 /\ ~c.described
  BY DEF NoCall, CallRecord, Call, Status, Operation, Kind

\* An update of one field of a call keeps it a call.
Updates(c) ==
    /\ \A x \in BOOLEAN : [c EXCEPT !.described = x] \in CallRecord
    /\ \A x \in Status : [c EXCEPT !.status = x] \in CallRecord
    /\ \A x \in Nat : [c EXCEPT !.row = x] \in CallRecord
    /\ \A x \in Level : [c EXCEPT !.level = x] \in CallRecord

\* It does.
LEMMA CallUpdates == \A c \in CallRecord : Updates(c)
  <1> SUFFICES ASSUME NEW c \in CallRecord PROVE Updates(c)
    OBVIOUS
  <1>1. \A x \in BOOLEAN : [c EXCEPT !.described = x] \in CallRecord
    BY Zenon DEF CallRecord
  <1>2. \A x \in Status : [c EXCEPT !.status = x] \in CallRecord
    BY Zenon DEF CallRecord
  <1>3. \A x \in Nat : [c EXCEPT !.row = x] \in CallRecord
    BY Zenon DEF CallRecord
  <1>4. \A x \in Level : [c EXCEPT !.level = x] \in CallRecord
    BY DEF CallRecord
  <1> QED BY <1>1, <1>2, <1>3, <1>4 DEF Updates

\* Sending a request (the send half of every call) keeps the values of the variables.
LEMMA SendTypes ==
    ASSUME Types, NEW t \in Request, NEW c \in CallRecord,
           c.level # "none" <=> c.op = "isolation",
           NEW b, calls' \in Nat, Send(t, c, b)
    PROVE  ProgressTypes'
  <1>1. grp' \in GroupRecord
    BY DEF Send, NoGroup, GroupRecord
  <1>2. OwnerOf(c) \in Owner
    BY DEF OwnerOf, Owner
  <1>3. pending' \in Seq(RequestRecord)
    <2>1. [t |-> t, kind |-> c.kind, level |-> c.level,
           owner |-> OwnerOf(c), manual |-> ~autocommit, hold |-> hold, n |-> calls']
             \in RequestRecord
      BY <1>2 DEF Types, ClientTypes, RequestRecord, CallRecord
    <2> QED BY <2>1 DEF Send, Types, ProgressTypes
  <1> QED BY <1>1, <1>3 DEF Send, Types, ProgressTypes

\* So does the next request of a call,
LEMMA GoTypes ==
    ASSUME Types, NEW t \in Request, NEW c \in CallRecord,
           c.level # "none" <=> c.op = "isolation", Go(t, c)
    PROVE  ProgressTypes'
  BY SendTypes DEF Go, Types, ProgressTypes

\* the first one,
LEMMA EnterTypes ==
    ASSUME Types, NEW t \in Request, NEW c \in CallRecord,
           c.level # "none" <=> c.op = "isolation", Enter(t, c)
    PROVE  ProgressTypes'
  <1>1. calls' \in Nat
    BY DEF Enter, Types, ProgressTypes
  <1> QED BY <1>1, SendTypes DEF Enter

\* the end of a call,
LEMMA FinishTypes ==
    ASSUME Types, NEW s \in Status, NEW left, Finish(s, left), io' \in BOOLEAN
    PROVE  ProgressTypes'
  <1>1. NoGroup \in GroupRecord
    BY DEF NoGroup, GroupRecord
  <1> QED BY <1>1, CallFacts DEF Finish, Types, ProgressTypes, wire

\* a return without more ado,
LEMMA ReturnTypes ==
    ASSUME Types, NEW s \in Status, Return(s)
    PROVE  ProgressTypes'
  BY FinishTypes DEF Return, Types, ProgressTypes

\* a call refused by its checks (SQLI_INVALID_STATE),
LEMMA RejectTypes ==
    ASSUME Types, NEW op, Reject(op)
    PROVE  Types'
  BY DEF Reject, Types, ProgressTypes, ClientTypes, client, wire, Status

\* the start of a drain
LEMMA DrainTypes ==
    ASSUME Types, NEW t \in Draining, Drain(t)
    PROVE  ProgressTypes'
  <1>1. Poll \in GroupRecord
    BY DEF Poll, NoGroup, GroupRecord
  <1> QED BY <1>1 DEF Drain, Types, ProgressTypes, wire

\* and an error path that closes what the call has opened.
LEMMA FailTypes ==
    ASSUME Types, NEW s \in Status, Fail(s)
    PROVE  ProgressTypes'
  <1>1. /\ [call EXCEPT !.status = s] \in CallRecord
        /\ [call EXCEPT !.status = s].level = call.level
        /\ [call EXCEPT !.status = s].op = call.op
    BY CallUpdates DEF Updates, Types, ProgressTypes, CallRecord
  <1>2. call.level # "none" <=> call.op = "isolation"
    BY DEF Types, ProgressTypes
  <1> QED BY <1>1, <1>2, GoTypes, ReturnTypes DEF Fail, Request

\* The updates of a statement object keep it one.
LEMMA StmtFacts ==
    /\ NoStmt \in StmtRecord
    /\ \A s \in StmtRecord :
         /\ \A x \in BOOLEAN : /\ [s EXCEPT !.open = x] \in StmtRecord
                               /\ [s EXCEPT !.saw_error = x] \in StmtRecord
         /\ \A e \in EpochRecord : /\ [s EXCEPT !.open = TRUE, !.epochs = e] \in StmtRecord
                                   /\ \A k \in Kind \cup {"none"} : [NoStmt EXCEPT !.kind = k, !.epochs = e] \in StmtRecord
  <1>1. NoStmt \in StmtRecord
    BY DEF NoStmt, StmtRecord, NoEpoch, EpochRecord
  <1>2. ASSUME NEW s \in StmtRecord, NEW x \in BOOLEAN
        PROVE  [s EXCEPT !.open = x] \in StmtRecord /\ [s EXCEPT !.saw_error = x] \in StmtRecord
    BY Zenon DEF StmtRecord
  <1>3. \A s \in StmtRecord, e \in EpochRecord : [s EXCEPT !.epochs = e] \in StmtRecord
    BY DEF StmtRecord
  <1>4. \A s \in StmtRecord, k \in Kind \cup {"none"} : [s EXCEPT !.kind = k] \in StmtRecord
    BY DEF StmtRecord
  <1>5. \A s \in StmtRecord, e \in EpochRecord :
          [s EXCEPT !.open = TRUE, !.epochs = e] \in StmtRecord
    BY <1>2, <1>3, Zenon
  <1>6. \A e \in EpochRecord, k \in Kind \cup {"none"} : [NoStmt EXCEPT !.kind = k, !.epochs = e] \in StmtRecord
    BY <1>1, <1>3, <1>4, Zenon
  <1> QED BY <1>1, <1>2, <1>5, <1>6

\* A transaction end keeps the epochs a record of two counts.
LEMMA EpochFacts ==
    \A e \in EpochRecord, k \in {"commit", "rollback"} : [e EXCEPT ![k] = @ + 1] \in EpochRecord
  <1> SUFFICES ASSUME NEW e \in EpochRecord
               PROVE  /\ [e EXCEPT !["commit"] = @ + 1] \in EpochRecord
                      /\ [e EXCEPT !["rollback"] = @ + 1] \in EpochRecord
    OBVIOUS
  <1>1. e.commit + 1 \in Nat /\ e.rollback + 1 \in Nat
    BY DEF EpochRecord
  <1> QED BY <1>1 DEF EpochRecord

\* sqli_track_transaction_statement keeps the flag and the epochs what they are.
LEMMA TrackTypes ==
    ASSUME Types, NEW k, Track(k)
    PROVE  inTx' \in BOOLEAN /\ epochs' \in EpochRecord
  BY EpochFacts DEF Track, Types, ClientTypes

\* The entries of the calls keep the values of the variables.
LEMMA EntryTypes ==
    ASSUME Types, Application
    PROVE  Types'
  <1> USE DEF Types
  <1>1. CASE Begin \/ Commit \/ Rollback \/ Savepoint
    <2>1. UNCHANGED client
      BY <1>1 DEF Begin, Commit, Rollback, Savepoint
    <2>2. \/ \E op : Reject(op)
          \/ \E t \in Request, op \in Operation \ {"isolation"} : Enter(t, Call(op, "none"))
      BY <1>1 DEF Begin, Commit, Rollback, Savepoint, Request, Operation
    <2> QED BY <2>1, <2>2, RejectTypes, EnterTypes, CallFacts DEF ClientTypes, client
  <1>2. CASE SetAutocommit
    BY <1>2 DEF SetAutocommit, ClientTypes, ProgressTypes, wire, Status
  <1>3. CASE SetIsolation
    <2>1. CASE Reject("isolation")
      BY <2>1, RejectTypes
    <2>2. CASE \E level \in Levels :
                  Enter("PREPARE", [Call("isolation", "set") EXCEPT !.level = level])
      <3>1. PICK level \in Levels :
                  Enter("PREPARE", [Call("isolation", "set") EXCEPT !.level = level])
        BY <2>2
      <3> DEFINE c == [Call("isolation", "set") EXCEPT !.level = level]
      <3>2. level \in Level /\ level # "none"
        BY SessionAssumption DEF Level
      <3>3. Call("isolation", "set") \in CallRecord /\ Call("isolation", "set").op = "isolation"
        BY CallFacts DEF Operation, Kind
      <3>4. c \in CallRecord /\ c.op = "isolation" /\ c.level = level
        BY <3>2, <3>3, CallUpdates DEF Updates, CallRecord
      <3> QED BY <1>3, <3>1, <3>2, <3>4, EnterTypes DEF SetIsolation, ClientTypes, client, Request
    <2> QED BY <1>3, <2>1, <2>2 DEF SetIsolation
  <1>4. CASE Query
    <2>1. PICK kind \in Kinds : Enter("PREPARE", Call("query", kind))
      BY <1>4 DEF Query
    <2>2. LET c == Call("query", kind) IN
          c \in CallRecord /\ c.level = "none" /\ c.op # "isolation"
      BY CallFacts, SessionAssumption DEF Operation
    <2> QED BY <1>4, <2>1, <2>2, EnterTypes DEF Query, ClientTypes, client, Request
  <1>5. CASE Prepare
    <2>1. PICK kind \in Prepared : call' = Call("prepare", kind)
      BY <1>5 DEF Prepare
    <2>2. call' \in CallRecord /\ call'.level = "none" /\ call'.op # "isolation"
      BY <2>1, CallFacts, SessionAssumption DEF Operation
    <2>3. Poll \in GroupRecord
      BY DEF Poll, NoGroup, GroupRecord
    <2> QED BY <1>5, <2>2, <2>3 DEF Prepare, ClientTypes, ProgressTypes, client, wire, Draining
  <1>6. CASE Execute
    <2> DEFINE c == [Call("execute", stmt.kind) EXCEPT !.described = TRUE]
               t == IF MustClose THEN "CURSOR" ELSE Starting(c)
    <2>1. LET d == Call("execute", stmt.kind) IN
          d \in CallRecord /\ d.level = "none" /\ d.op = "execute"
      BY CallFacts DEF Operation, ClientTypes, StmtRecord
    <2>2. c \in CallRecord /\ c.level = "none" /\ c.op = "execute"
      BY <2>1, CallUpdates DEF Updates, CallRecord
    <2>3. t \in Request
      BY DEF Starting, Request
    <2>4. /\ Enter(t, c)
          /\ stmt' = IF t = "CURSOR" THEN stmt
                     ELSE IF t = "OPEN" THEN Opened ELSE [stmt EXCEPT !.open = FALSE]
      BY <1>6 DEF Execute
    <2>5. stmt' \in StmtRecord
      BY <2>4, StmtFacts DEF ClientTypes, Opened
    <2>6. ProgressTypes'
      BY <2>2, <2>3, <2>4, EnterTypes
    <2> QED BY <1>6, <2>5, <2>6 DEF Execute, ClientTypes
  <1>7. CASE Batch
    <2> DEFINE d == Call("batch", stmt.kind)
               c == [d EXCEPT !.row = 1]
    <2>1. d \in CallRecord /\ d.level = "none" /\ d.op = "batch"
      BY CallFacts DEF Operation, ClientTypes, StmtRecord
    <2>2. c \in CallRecord /\ c.level = "none" /\ c.op = "batch"
      BY <2>1, CallUpdates DEF Updates, CallRecord
    <2>3. Starting(c) \in Request
      BY DEF Starting, Request
    <2>4. ProgressTypes'
      <3>1. CASE Enter(Starting(c), c)
        BY <2>2, <2>3, <3>1, EnterTypes
      <3>2. CASE Finish("OK", 0) /\ io' = TRUE
        BY <3>2, FinishTypes DEF Status
      <3> QED BY <1>7, <3>1, <3>2 DEF Batch
    <2> QED BY <1>7, <2>4 DEF Batch, ClientTypes, client
  <1>8. CASE StmtClose
    <2>1. LET c == Call("stmt_close", stmt.kind) IN
          c \in CallRecord /\ c.level = "none" /\ c.op # "isolation"
      BY CallFacts DEF Operation, ClientTypes, StmtRecord
    <2>2. ProgressTypes'
      BY <1>8, <2>1, EnterTypes DEF StmtClose, Request
    <2> QED BY <1>8, <2>2, StmtFacts DEF StmtClose, ClientTypes
  <1> QED BY <1>1, <1>2, <1>3, <1>4, <1>5, <1>6, <1>7, <1>8 DEF Application

\* So do the reads of sqli_receive_dispatch and the arrival of bytes,
LEMMA ReadTypes ==
    ASSUME Types, ReadToken \/ ReadFails \/ Arrive
    PROVE  Types'
  <1>1. ClientTypes'
    BY DEF ReadToken, ReadFails, Arrive, client, Types, ClientTypes
  <1>2. /\ \A x \in {"OK", "PROTO_ERROR", "IO_ERROR"} : [grp EXCEPT !.end = x] \in GroupRecord
        /\ \A x, y \in BOOLEAN : [grp EXCEPT !.described = x, !.rows = y] \in GroupRecord
    <2>1. \A g \in GroupRecord, x \in {"OK", "PROTO_ERROR", "IO_ERROR"} : [g EXCEPT !.end = x] \in GroupRecord
      BY DEF GroupRecord
    <2>2. \A g \in GroupRecord, x \in BOOLEAN : /\ [g EXCEPT !.described = x] \in GroupRecord
                                           /\ [g EXCEPT !.rows = x] \in GroupRecord
      BY Zenon DEF GroupRecord
    <2>3. grp \in GroupRecord
      BY DEF Types, ProgressTypes
    <2>4. \A x, y \in BOOLEAN : [grp EXCEPT !.described = x, !.rows = y] \in GroupRecord
      BY <2>2, <2>3, Zenon
    <2> QED BY <2>1, <2>3, <2>4
  <1>3. (grp.described \/ Head(inbox) = "DESCRIBE") \in BOOLEAN
        /\ (grp.rows \/ Head(inbox) = "TUPLE") \in BOOLEAN
    BY DEF Types, ProgressTypes, GroupRecord
  <1>4. grp' \in GroupRecord
    BY <1>2, <1>3, Zenon DEF ReadToken, ReadFails, Arrive, Types, ProgressTypes
  <1>5. ProgressTypes'
    BY <1>4 DEF Types, ProgressTypes, ReadToken, ReadFails, Arrive, wire
  <1> QED BY <1>1, <1>5 DEF Types

\* The server loses what it owes, or all of a session, and stays a server.
LEMMA ServerFacts ==
    \A s \in ServerRecord :
       /\ [s EXCEPT !.owes = FALSE] \in ServerRecord
       /\ [s EXCEPT !.tx = FALSE, !.handles = {}, !.cursors = {}, !.held = {}, !.owes = FALSE]
             \in ServerRecord
  BY DEF ServerRecord

\* It stays one when it accepts a request.
LEMMA AcceptingTypes ==
    ASSUME Types, NEW r \in RequestRecord, NEW rows \in BOOLEAN, NEW owes \in BOOLEAN
    PROVE  Accepting(r, rows, owes) \in ServerRecord
  <1> DEFINE s == Accepting(r, rows, owes)
  <1>0. server \in ServerRecord
    BY DEF Types, ProgressTypes
  <1>1. s.tx \in BOOLEAN /\ s.rows \in BOOLEAN /\ s.owes \in BOOLEAN
    BY <1>0 DEF Accepting, ServerRecord
  <1>2. s.ended \in EpochRecord
    BY <1>0, EpochFacts DEF Accepting, ServerRecord
  <1>3. s.level \in Level
    BY <1>0 DEF Accepting, ServerRecord, RequestRecord, Level
  <1>4. s.handles \subseteq Owner /\ s.cursors \subseteq Owner /\ s.held \subseteq Owner
    BY <1>0 DEF Accepting, ServerRecord, RequestRecord
  <1>5. s = [tx |-> s.tx, ended |-> s.ended, level |-> s.level, handles |-> s.handles,
             cursors |-> s.cursors, held |-> s.held, rows |-> s.rows, owes |-> s.owes]
    BY DEF Accepting
  <1> HIDE DEF s
  <1>6. s \in ServerRecord
    BY <1>1, <1>2, <1>3, <1>4, <1>5 DEF ServerRecord
  <1> QED BY <1>6 DEF s

\* The server's steps keep the values of the variables.
LEMMA PeerTypes ==
    ASSUME Types, Peer \/ PeerCloses
    PROVE  Types'
  <1>1. ClientTypes'
    BY DEF Peer, Accept, Refuse, SendOwed, PeerCloses, client, Types, ClientTypes
  <1>2. pending # <<>> => Head(pending) \in RequestRecord /\ Tail(pending) \in Seq(RequestRecord)
    BY DEF Types, ProgressTypes
  <1>3. <<>> \in Seq(RequestRecord)
    OBVIOUS
  <1>4. server' \in ServerRecord
    BY <1>2, AcceptingTypes, ServerFacts DEF Peer, Accept, Refuse, SendOwed, PeerCloses,
       Types, ProgressTypes
  <1>5. pending' \in Seq(RequestRecord)
    BY <1>2, <1>3 DEF Peer, Accept, Refuse, SendOwed, PeerCloses, Types, ProgressTypes
  <1>6. ProgressTypes'
    BY <1>4, <1>5 DEF Peer, Accept, Refuse, SendOwed, PeerCloses, Types, ProgressTypes
  <1> QED BY <1>1, <1>6 DEF Types

\* So does the open or execute that follows PREPARE and BEGIN,
LEMMA MainTypes ==
    ASSUME Types, NEW c \in CallRecord, c.level # "none" <=> c.op = "isolation", Main(c)
    PROVE  ProgressTypes' /\ stmt' \in StmtRecord
  <1>1. ProgressTypes'
    BY GoTypes DEF Main, Request
  <1> QED BY <1>1, StmtFacts DEF Main, Opened, Types, ClientTypes

\* the next row of sqli_stmt_batch_execute,
LEMMA NextRowTypes ==
    ASSUME Types, NEW s, NEW left, NextRow(s, left)
    PROVE  ProgressTypes'
  <1> DEFINE c == [call EXCEPT !.row = @ + 1]
  <1>1. c \in CallRecord /\ c.level = call.level /\ c.op = call.op
    BY CallUpdates DEF Updates, Types, ProgressTypes, CallRecord
  <1>2. Starting(call) \in Request
    BY DEF Starting, Request
  <1>3. CASE calls' = calls /\ Send(Starting(call), c, left)
    BY <1>1, <1>2, <1>3, SendTypes DEF Types, ProgressTypes
  <1>4. CASE Finish("OK", left) /\ io' \in BOOLEAN
    BY <1>4, FinishTypes DEF Status
  <1> QED BY <1>3, <1>4 DEF NextRow, Types, ProgressTypes

\* what the calls do when a reply has been read,
LEMMA PhaseTypes ==
    ASSUME Types, AfterPrepare \/ AfterBegin \/ AfterTransaction
                  \/ AfterOpenOrFetch \/ AfterCursor \/ AfterClose
    PROVE  Types'
  <1> USE DEF Types
  <1>0. /\ call \in CallRecord
        /\ call.level # "none" <=> call.op = "isolation"
        /\ call.status \in Status /\ {"OK", "PROTO_ERROR", "IO_ERROR"} \subseteq Status
        /\ grp.described \in BOOLEAN
    BY DEF ProgressTypes, CallRecord, Status, GroupRecord
  <1>1. CASE AfterPrepare
    <2>1. CASE grp.end = "OK" /\ call.op = "prepare" /\ Return("OK")
               /\ stmt' = [NoStmt EXCEPT !.kind = call.kind, !.epochs = epochs]
      <3>1. call.kind \in Kind \cup {"none"}
        BY <1>0 DEF CallRecord
      <3>2. stmt' \in StmtRecord
        BY <2>1, <3>1, StmtFacts DEF ClientTypes
      <3> QED BY <1>0, <1>1, <2>1, <3>2, ReturnTypes DEF AfterPrepare, ClientTypes
    <2>2. CASE grp.end = "OK" /\ call.op # "prepare"
      <3> DEFINE c == [call EXCEPT !.described = grp.described]
      <3>1. c \in CallRecord /\ c.level = call.level /\ c.op = call.op
        BY <1>0, CallUpdates DEF Updates, CallRecord
      <3>2. \/ Go("BEGIN", c) /\ stmt' = stmt
            \/ Main(c)
        BY <1>1, <2>2 DEF AfterPrepare
      <3>3. ProgressTypes' /\ stmt' \in StmtRecord
        BY <1>0, <3>1, <3>2, GoTypes, MainTypes DEF Request, ClientTypes
      <3> QED BY <1>1, <2>2, <3>3 DEF AfterPrepare, ClientTypes
    <2>3. CASE grp.end \in {"PROTO_ERROR", "IO_ERROR"}
      BY <1>0, <1>1, <2>3, ReturnTypes DEF AfterPrepare, ClientTypes, client
    <2> QED BY <1>1, <2>1, <2>2, <2>3 DEF AfterPrepare
  <1>2. CASE AfterBegin
    <2>1. CASE grp.end = "OK"
      <3>1. \/ (Return("OK") \/ Go("SAVEPOINT", call)) /\ stmt' = stmt
            \/ Main(call)
        BY <1>2, <2>1 DEF AfterBegin
      <3>2. ProgressTypes' /\ stmt' \in StmtRecord
        BY <1>0, <3>1, GoTypes, ReturnTypes, MainTypes DEF Request, ClientTypes
      <3> QED BY <1>2, <2>1, <3>2 DEF AfterBegin, ClientTypes
    <2>2. CASE grp.end \in {"PROTO_ERROR", "IO_ERROR"}
      <3>1. NextRow(TRUE, Reported) \/ Fail(grp.end)
        BY <1>2, <2>2 DEF AfterBegin
      <3>2. ProgressTypes'
        BY <1>0, <2>2, <3>1, NextRowTypes, FailTypes
      <3> QED BY <1>2, <2>2, <3>2 DEF AfterBegin, ClientTypes
    <2> QED BY <1>2, <2>1, <2>2 DEF AfterBegin
  <1>3. CASE AfterTransaction
    <2>1. ProgressTypes'
      BY <1>0, <1>3, ReturnTypes DEF AfterTransaction
    <2>2. ClientTypes'
      BY <1>3, TrackTypes DEF AfterTransaction, ClientTypes, client
    <2> QED BY <2>1, <2>2
  <1>4. CASE AfterOpenOrFetch
    <2>1. ProgressTypes'
      BY <1>0, <1>4, ReturnTypes, GoTypes, FailTypes DEF AfterOpenOrFetch, Request
    <2> QED BY <1>4, <2>1 DEF AfterOpenOrFetch, ClientTypes, client
  <1>5. CASE AfterCursor
    <2>1. ProgressTypes'
      BY <1>0, <1>5, ReturnTypes, DrainTypes DEF AfterCursor, Draining
    <2> QED BY <1>5, <2>1 DEF AfterCursor, ClientTypes, client
  <1>6. CASE AfterClose
    <2>1. ProgressTypes'
      BY <1>0, <1>6, ReturnTypes, DrainTypes, GoTypes DEF AfterClose, Draining, Request
    <2> QED BY <1>6, <2>1 DEF AfterClose, ClientTypes, client
  <1> QED BY <1>1, <1>2, <1>3, <1>4, <1>5, <1>6

\* and what they do when a statement has been executed or a tail drained.
LEMMA ExecutionTypes ==
    ASSUME Types, AfterExecute \/ Tailing
    PROVE  Types'
  <1> USE DEF Types
  <1>0. /\ call \in CallRecord
        /\ call.level # "none" <=> call.op = "isolation"
        /\ call.status \in Status /\ {"OK", "PROTO_ERROR", "IO_ERROR"} \subseteq Status
        /\ stmt \in StmtRecord
    BY DEF ProgressTypes, CallRecord, Status, ClientTypes
  <1>1. CASE AfterExecute
    <2>1. ProgressTypes'
      BY <1>0, <1>1, DrainTypes, NextRowTypes, ReturnTypes DEF AfterExecute, Draining
    <2>2. stmt' \in StmtRecord
      BY <1>0, <1>1, StmtFacts DEF AfterExecute
    <2> QED BY <1>1, <2>1, <2>2 DEF AfterExecute, ClientTypes
  <1>2. CASE Executed
    <2>1. ProgressTypes'
      BY <1>0, <1>2, NextRowTypes, ReturnTypes DEF Executed
    <2>2. stmt' \in StmtRecord
      BY <1>0, <1>2, StmtFacts DEF Executed
    <2>3. isolation' \in Level
      <3>1. call.level \in Level \cup {"none"}
        BY <1>0 DEF CallRecord
      <3> QED BY <1>0, <1>2, <3>1 DEF Executed, ClientTypes
    <2> QED BY <1>2, <2>1, <2>2, <2>3, TrackTypes DEF Executed, ClientTypes
  <1>3. CASE CursorClosed
    <2>0. Starting(call) \in Request
      BY DEF Starting, Request
    <2>1. ProgressTypes'
      BY <1>0, <1>3, <2>0, GoTypes, ReturnTypes DEF CursorClosed
    <2>2. stmt' \in StmtRecord
      BY <1>0, <1>3, StmtFacts DEF CursorClosed, Opened, ClientTypes
    <2> QED BY <1>3, <2>1, <2>2 DEF CursorClosed, ClientTypes
  <1>4. ASSUME UNCHANGED client, ProgressTypes' PROVE Types'
    BY <1>4 DEF ClientTypes, client
  <1>5. CASE grp' = NoGroup /\ UNCHANGED <<pc, call, client, out, wire, server, outstanding, io, calls>>
    <2>1. NoGroup \in GroupRecord
      BY DEF NoGroup, GroupRecord
    <2> QED BY <1>5, <2>1 DEF ClientTypes, ProgressTypes, client, wire
  <1>6. CASE Tailing /\ AfterTail
    <2>1. pc \in Draining
      BY <1>6 DEF Tailing
    <2>2. CASE pc = "execute_tail"
      BY <1>2, <1>6, <2>2 DEF AfterTail
    <2>3. CASE pc = "cursor_tail"
      BY <1>3, <1>6, <2>3 DEF AfterTail
    <2>4. CASE pc \in {"resync", "close_tail", "release_tail"}
      <3>1. UNCHANGED client /\ (Go("PREPARE", call) \/ Go("RELEASE", call) \/ Return(call.status))
        BY <1>6, <2>4 DEF AfterTail
      <3>2. ProgressTypes'
        BY <1>0, <3>1, GoTypes, ReturnTypes DEF Request
      <3> QED BY <1>4, <3>1, <3>2
    <2> QED BY <2>1, <2>2, <2>3, <2>4 DEF Draining
  <1>7. CASE Tailing /\ ~AfterTail
    <2>1. CASE UNCHANGED client /\ Drain(pc)
      BY <1>4, <1>7, <2>1, DrainTypes DEF Tailing
    <2>2. CASE UNCHANGED client /\ grp.end \in {"PROTO_ERROR", "IO_ERROR"} /\ Return(grp.end)
      BY <1>0, <1>4, <2>2, ReturnTypes
    <2> QED BY <1>5, <1>7, <2>1, <2>2 DEF Tailing
  <1> QED BY <1>1, <1>6, <1>7

\* Every step keeps the values of the variables.
LEMMA NextTypes ==
    ASSUME Types, [Next]_vars
    PROVE  Types'
  <1>1. CASE UNCHANGED vars
    BY <1>1 DEF vars, client, wire, Types, ClientTypes, ProgressTypes
  <1> QED BY <1>1, EntryTypes, ReadTypes, PeerTypes, PhaseTypes, ExecutionTypes DEF Next, Library

\* An opened session has them.
LEMMA InitTypes == Init => Types
  <1> SUFFICES ASSUME Init PROVE Types
    OBVIOUS
  <1>1. NoGroup \in GroupRecord /\ NoEpoch \in EpochRecord
    BY DEF NoGroup, GroupRecord, NoEpoch, EpochRecord
  <1>2. [tx |-> FALSE, ended |-> NoEpoch, level |-> "committed", handles |-> {}, cursors |-> {},
         held |-> {}, rows |-> FALSE, owes |-> FALSE] \in ServerRecord
    BY <1>1 DEF ServerRecord, Level
  <1>3. ClientTypes
    BY <1>1, StmtFacts, SessionAssumption DEF Init, ClientTypes, Level
  <1>4. pending \in Seq(RequestRecord)
    BY DEF Init
  <1>5. ProgressTypes
    BY <1>1, <1>2, <1>4, CallFacts DEF Init, ProgressTypes, Status, NoCall
  <1> QED BY <1>3, <1>5 DEF Types

-----------------------------------------------------------------------------
\* Sending a request on a quiet, truthful session starts a new wait.
LEMMA SendCore ==
    ASSUME Types, Core, ~io, Silent, NEW t \in Request, NEW c \in CallRecord, NEW b, Send(t, c, b),
           autocommit' = autocommit, hold' = hold,
           link = "up" => /\ server.tx = inTx' /\ server.ended = epochs'
                          /\ server.level = Granted(isolation'),
           t = "OPEN" => OwnerOf(c) \notin server.cursors
    PROVE  /\ pc' = t /\ call' = c /\ grp' = NoGroup
           /\ server' = server /\ link' = link /\ io' = io
           /\ Waiting' \/ Lost'
           /\ Framed' /\ Severed'
  <1>1. pc' = t /\ call' = c /\ grp' = NoGroup /\ server' = server /\ link' = link /\ io' = io
    BY DEF Send
  <1>2. flight' = <<>> /\ inbox' = <<>> /\ ~server'.owes
    BY DEF Send, Silent
  <1>3. OwnerOf(c)' = OwnerOf(c)
    BY DEF OwnerOf
  <1>4. CASE link = "up"
    <2>1. pending' = <<[t |-> t, kind |-> c.kind, level |-> c.level, owner |-> OwnerOf(c),
                        manual |-> ~autocommit, hold |-> hold, n |-> calls']>>
      BY <1>4 DEF Send, Silent
    <2>2. Waiting'
      BY <1>1, <1>2, <1>3, <1>4, <2>1 DEF Waiting, Unapplied, OwnerOf
    <2>3. Framed'
      BY <1>1, <2>2 DEF Framed, InReply, NoGroup, Request, Draining
    <2> QED BY <1>1, <1>4, <2>2, <2>3 DEF Severed
  <1>5. CASE link = "down"
    <2>1. Lost'
      BY <1>1, <1>2, <1>5 DEF Lost, Send, Silent
    <2>2. Framed'
      BY <1>1, <2>1 DEF Framed, InReply, NoGroup, Request, Draining
    <2> QED BY <1>1, <1>5, <2>1, <2>2 DEF Severed, Lost, Silent, Core
  <1> QED BY <1>1, <1>4, <1>5 DEF Types, ProgressTypes

\* So a call is entered.
LEMMA EnterCore ==
    ASSUME Types, Core, ~io, NEW t \in Request, NEW c \in CallRecord, Enter(t, c),
           UNCHANGED <<autocommit, inTx, epochs, isolation, hold>>,
           t = "OPEN" => OwnerOf(c) \notin server.cursors,
           "stmt" \in server.cursors => stmt' = stmt \/ (c.op = "stmt_close" /\ t = "CLOSE"),
           Underway'
    PROVE  Core'
  <1>1. pc = "idle" /\ call = NoCall /\ Silent /\ Unapplied
    BY DEF Enter, Core, Underway, Framed
  <1>2. Send(t, c, 0)
    BY DEF Enter
  <1>3. /\ pc' = t /\ call' = c /\ server' = server /\ link' = link
        /\ Framed' /\ Severed'
    BY <1>1, <1>2, SendCore DEF Unapplied
  <1>4. SelectInQuery'
    BY <1>1, <1>3, CallFacts DEF SelectInQuery, Core
  <1>5. CursorTracked'
    BY <1>1, <1>3, CallFacts DEF CursorTracked, Core, StillOpen, Request
  <1> QED BY <1>3, <1>4, <1>5 DEF Core

\* A call that has left nothing to read and has taken the effect of its requests may
\* return.
LEMMA FinishCore ==
    ASSUME Types, Core, Silent, NEW s, NEW left, Finish(s, left), Unapplied', hold' = hold,
           link = "up" => "select" \notin server.handles \cup server.cursors,
           link = "up" /\ "stmt" \in server.cursors => StillOpen',
           stmt'.kind = "none" => stmt' = NoStmt
    PROVE  Core'
  <1>1. /\ pc' = "idle" /\ call' = NoCall /\ server' = server /\ link' = link
        /\ pending' = pending /\ flight' = flight /\ inbox' = inbox
    BY DEF Finish, wire
  <1>2. Underway'
    BY <1>1, CallFacts DEF Underway, Releasing
  <1>3. Framed'
    BY <1>1 DEF Framed, Silent, Request, Draining
  <1>4. Severed'
    BY <1>1 DEF Severed, Core
  <1>5. SelectInQuery'
    BY <1>1, <1>4 DEF SelectInQuery, Severed, Core, Types, ProgressTypes
  <1>6. CursorTracked'
    BY <1>1, <1>4 DEF CursorTracked, Severed, Core, Types, ProgressTypes
  <1> QED BY <1>2, <1>3, <1>4, <1>5, <1>6 DEF Core

\* While the mirror is truthful a cursor the server has open for the statement is one
\* that sqli_stmt_close_cursor_if_open will close.
LEMMA MirroredCursor ==
    ASSUME Types, Core, Unapplied, link = "up", "stmt" \in server.cursors,
           call.op # "stmt_close"
    PROVE  MustClose
  BY DEF Core, CursorTracked, StillOpen, Unapplied, MustClose, ClosedByEnd

\* Every call of the application starts well.
LEMMA EntryCore ==
    ASSUME Types, Types', Core, ~io, ~io', Application
    PROVE  Core'
  <1> USE DEF Types, ProgressTypes
  <1>0. pc = "idle" /\ call = NoCall /\ Silent /\ Unapplied /\ call.op = "none"
    BY CallFacts DEF Application, Begin, Commit, Rollback, Savepoint, SetAutocommit, SetIsolation,
       Query, Prepare, Execute, Batch, StmtClose, Enter, Reject, Core, Underway, Framed
  <1>00. stmt.kind = "none" => stmt = NoStmt
    BY DEF Core, Underway
  <1>1. ASSUME UNCHANGED client, NEW op, Reject(op) PROVE Core'
    <2>1. UNCHANGED <<pc, call, grp, autocommit, inTx, epochs, isolation, hold, stmt, pending, flight,
                      inbox, link, server, calls>>
      BY <1>1 DEF Reject, client, wire
    <2>2. Underway'
      BY <1>00, <2>1, <1>0, CallFacts DEF Core, Underway, Releasing, client
    <2>3. Framed' /\ Severed' /\ SelectInQuery' /\ CursorTracked'
      BY <2>1, <1>0 DEF Core, Framed, Silent, Unapplied, Severed, SelectInQuery, CursorTracked,
         StillOpen,
         Request, Draining
    <2> QED BY <2>2, <2>3 DEF Core
  <1>2. ASSUME UNCHANGED client, NEW t \in {"BEGIN", "COMMIT", "ROLLBACK", "SAVEPOINT"},
               NEW op \in {"begin", "commit", "rollback", "savepoint"}, Enter(t, Call(op, "none")),
               t = "BEGIN" => op \in {"begin", "savepoint"},
               t = "COMMIT" => op = "commit", t = "ROLLBACK" => op = "rollback",
               t = "SAVEPOINT" => op = "savepoint"
        PROVE Core'
    <2> DEFINE c == Call(op, "none")
    <2>1. c \in CallRecord /\ c.op = op /\ c.kind = "none" /\ c.level = "none"
      BY CallFacts DEF Operation
    <2>2. pc' = t /\ call' = c /\ t \in Request
      BY <1>2 DEF Enter, Send, Request
    <2> HIDE DEF c
    <2>3. Underway'
      BY <1>00, <1>2, <2>1, <2>2 DEF Underway, Releasing, client
    <2> QED BY <1>2, <2>1, <2>2, <2>3, EnterCore DEF client, c
  <1>3. CASE Begin \/ Commit \/ Rollback \/ Savepoint
    BY <1>1, <1>2, <1>3 DEF Begin, Commit, Rollback, Savepoint
  <1>4. CASE SetAutocommit
    <2>1. UNCHANGED <<pc, call, grp, inTx, epochs, isolation, hold, stmt, pending, flight,
                      inbox, link, server, calls>>
      BY <1>4 DEF SetAutocommit, wire
    <2>2. Underway'
      BY <1>00, <2>1, <1>0, CallFacts DEF Core, Underway, Releasing, client
    <2>3. Framed' /\ Severed' /\ SelectInQuery' /\ CursorTracked'
      BY <2>1, <1>0 DEF Core, Framed, Silent, Unapplied, Severed, SelectInQuery, CursorTracked,
         StillOpen,
         Request, Draining
    <2> QED BY <2>2, <2>3 DEF Core
  <1>5. CASE SetIsolation
    <2>1. CASE Reject("isolation")
      BY <1>1, <1>5, <2>1 DEF SetIsolation
    <2>2. CASE ~Reject("isolation")
      <3>1. PICK level \in Levels :
                  Enter("PREPARE", [Call("isolation", "set") EXCEPT !.level = level])
        BY <1>5, <2>2 DEF SetIsolation
      <3> DEFINE c == [Call("isolation", "set") EXCEPT !.level = level]
      <3>2. level \in Level /\ level # "none"
        BY SessionAssumption DEF Level
      <3>3. LET d == Call("isolation", "set") IN d \in CallRecord /\ d.op = "isolation"
              /\ d.kind = "set"
        BY CallFacts DEF Operation, Kind
      <3>4. c \in CallRecord /\ c.op = "isolation" /\ c.level = level /\ c.kind = "set"
        BY <3>2, <3>3, CallUpdates DEF Updates, CallRecord
      <3>5. pc' = "PREPARE" /\ call' = c
        BY <3>1 DEF Enter, Send
      <3> HIDE DEF c
      <3>6. Underway'
        BY <1>00, <1>5, <3>4, <3>5 DEF Underway, Releasing, SetIsolation, client
      <3> QED BY <1>5, <3>1, <3>4, <3>6, EnterCore DEF SetIsolation, client, Request, c
    <2> QED BY <2>1, <2>2
  <1>6. CASE Query
    <2>1. PICK kind \in Kinds : Enter("PREPARE", Call("query", kind))
      BY <1>6 DEF Query
    <2>0. kind \in Kind /\ kind # "none"
      BY SessionAssumption DEF Kind
    <2> DEFINE c == Call("query", kind)
    <2>2. c \in CallRecord /\ c.level = "none" /\ c.op = "query" /\ c.kind # "none"
      BY <2>0, CallFacts DEF Operation
    <2>3. pc' = "PREPARE" /\ call' = c
      BY <2>1 DEF Enter, Send
    <2> HIDE DEF c
    <2>4. Underway'
      BY <1>00, <1>6, <2>2, <2>3 DEF Underway, Releasing, Query, client
    <2> QED BY <1>6, <2>1, <2>2, <2>4, EnterCore DEF Query, client, Request, c
  <1>7. CASE Prepare
    <2>1. PICK kind \in Prepared : call' = Call("prepare", kind)
      BY <1>7 DEF Prepare
    <2>0. kind \in Kind /\ kind # "none"
      BY SessionAssumption DEF Kind
    <2>2. call'.op = "prepare" /\ call'.kind # "none"
      BY <2>0, <2>1, CallFacts DEF Operation
    <2>3. /\ pc' = "resync" /\ grp' = Poll /\ stmt = NoStmt
          /\ UNCHANGED <<autocommit, inTx, epochs, isolation, hold, stmt, pending, flight, inbox,
                         link, server>>
      BY <1>7 DEF Prepare, client, wire
    <2>4. Underway'
      BY <1>00, <2>2, <2>3 DEF Underway, Releasing, client
    <2>5. Applied'
      BY <1>0, <2>3 DEF Applied, Unapplied, Effect, Ends
    <2>6. Framed'
      BY <1>0, <2>3, <2>5 DEF Framed, InTail, Behind, Silent, Request, Draining
    <2>7. Severed' /\ SelectInQuery' /\ CursorTracked'
      BY <1>0, <2>3 DEF Core, Severed, SelectInQuery, CursorTracked, StillOpen
    <2> QED BY <2>4, <2>6, <2>7 DEF Core
  <1>8. CASE Execute
    <2> DEFINE d == Call("execute", stmt.kind)
               c == [d EXCEPT !.described = TRUE]
               t == IF MustClose THEN "CURSOR" ELSE Starting(c)
    <2>1. d \in CallRecord /\ d.level = "none" /\ d.op = "execute" /\ d.kind = stmt.kind
      BY CallFacts DEF Operation, ClientTypes, StmtRecord
    <2>2. /\ c \in CallRecord /\ c.level = "none" /\ c.op = "execute"
          /\ c.kind = stmt.kind /\ c.described
      BY <2>1, CallUpdates DEF Updates, CallRecord
    <2> HIDE DEF c, d
    <2>3. t \in Request /\ t \in {"CURSOR", "BEGIN", "OPEN", "EXECUTE"}
      BY DEF Starting, Request
    <2>4. /\ Enter(t, c) /\ stmt # NoStmt
          /\ stmt' = IF t = "CURSOR" THEN stmt
                     ELSE IF t = "OPEN" THEN Opened ELSE [stmt EXCEPT !.open = FALSE]
          /\ UNCHANGED <<autocommit, inTx, epochs, isolation, hold>>
      BY <1>8 DEF Execute, c, d
    <2>5. pc' = t /\ call' = c
      BY <2>4 DEF Enter, Send
    <2>6. /\ stmt.kind # "none" /\ stmt'.kind = stmt.kind /\ (t = "BEGIN" => ~stmt'.open)
          /\ t = "OPEN" => stmt'.open /\ stmt'.epochs = epochs
      <3>1. stmt.kind # "none"
        BY <2>4 DEF Core, Underway
      <3> QED BY <2>4, <3>1 DEF Opened, ClientTypes, StmtRecord
    <2>7. t \in {"OPEN", "EXECUTE"} => ~NeedsBegin(c)
      BY DEF Starting
    <2>8. t = "BEGIN" => NeedsBegin(c)
      BY DEF Starting
    <2>9. t = "OPEN" => c.kind = "select"
      BY DEF Starting
    <2>10. t = "EXECUTE" => c.kind # "select"
      BY DEF Starting
    <2> HIDE DEF t
    <2>11. Underway'
      BY <1>00, <2>2, <2>3, <2>4, <2>5, <2>6, <2>7, <2>8, <2>9, <2>10 DEF Underway, Releasing,
         NeedsBegin, client
    <2>12. t # "CURSOR" => "stmt" \notin server.cursors
      BY <1>0, MirroredCursor DEF Core, Severed, t, NoCall
    <2>13. t = "CURSOR" => stmt' = stmt
      BY <2>4
    <2>14. OwnerOf(c) = "stmt"
      BY <2>2 DEF OwnerOf
    <2> QED BY <2>2, <2>3, <2>4, <2>11, <2>12, <2>13, <2>14, EnterCore
  <1>9. CASE Batch
    <2> DEFINE d == Call("batch", stmt.kind)
               c == [d EXCEPT !.row = 1]
    <2>1. d \in CallRecord /\ d.level = "none" /\ d.op = "batch" /\ d.kind = stmt.kind
      BY CallFacts DEF Operation, ClientTypes, StmtRecord
    <2>2. /\ c \in CallRecord /\ c.level = "none" /\ c.op = "batch" /\ c.kind = stmt.kind
      BY <2>1, CallUpdates DEF Updates, CallRecord
    <2> HIDE DEF c, d
    <2>3. UNCHANGED client /\ stmt.kind \notin {"none", "select"} /\ Enter(Starting(c), c)
      BY <1>9 DEF Batch, c, d
    <2>4. /\ Starting(c) \in Request /\ Starting(c) \in {"BEGIN", "EXECUTE"}
          /\ Starting(c) = "BEGIN" <=> NeedsBegin(c)
      BY <2>2, <2>3 DEF Starting, Request
    <2>5. pc' = Starting(c) /\ call' = c
      BY <2>3 DEF Enter, Send
    <2>6. Underway'
      BY <1>00, <2>2, <2>3, <2>4, <2>5 DEF Underway, Releasing, NeedsBegin, client, Core
    <2> QED BY <2>2, <2>3, <2>4, <2>6, EnterCore DEF client
  <1>10. CASE StmtClose
    <2> DEFINE c == Call("stmt_close", stmt.kind)
    <2>1. c \in CallRecord /\ c.level = "none" /\ c.op = "stmt_close"
      BY CallFacts DEF Operation, ClientTypes, StmtRecord
    <2> HIDE DEF c
    <2>2. /\ Enter("CLOSE", c) /\ stmt' = NoStmt
          /\ UNCHANGED <<autocommit, inTx, epochs, isolation, hold>>
      BY <1>10 DEF StmtClose, c
    <2>3. pc' = "CLOSE" /\ call' = c
      BY <2>2 DEF Enter, Send
    <2>4. Underway'
      BY <1>00, <2>1, <2>2, <2>3 DEF Underway, Releasing, client
    <2> QED BY <2>1, <2>2, <2>4, EnterCore DEF Request
  <1> QED BY <1>3, <1>4, <1>5, <1>6, <1>7, <1>8, <1>9, <1>10 DEF Application

\* A call goes on: its reply has been read, and the client has taken its effect.
LEMMA GoCore ==
    ASSUME Types, Core, ~io, Silent, NEW t \in Request, NEW c \in CallRecord, NEW b, Send(t, c, b),
           autocommit' = autocommit, hold' = hold, Unapplied', Underway',
           t = "OPEN" => OwnerOf(c) \notin server.cursors,
           "select" \in server.handles =>
               c.op = "query" /\ c.kind = "select"
                 /\ t \in {"BEGIN", "OPEN", "FETCH", "CLOSE", "RELEASE"},
           "select" \in server.cursors =>
               c.op = "query" /\ t \in {"OPEN", "FETCH", "CLOSE", "RELEASE"},
           "stmt" \in server.cursors =>
               StillOpen' \/ (c.op = "stmt_close" /\ t \in {"CLOSE", "RELEASE"})
    PROVE  Core'
  <1>0. server' = server /\ link' = link
    BY DEF Send
  <1>1. /\ pc' = t /\ call' = c /\ Framed' /\ Severed'
    BY <1>0, SendCore DEF Unapplied
  <1>2. SelectInQuery'
    BY <1>0, <1>1 DEF SelectInQuery, Core
  <1>3. CursorTracked'
    BY <1>0, <1>1 DEF CursorTracked, Core, Request
  <1> QED BY <1>1, <1>2, <1>3 DEF Core

\* A reply without a second group leaves nothing to read once it has ended.
LEMMA AnswerRead ==
    ASSUME Types, Core, ~io, pc \in Request, pc # "EXECUTE", grp.end # "open"
    PROVE  /\ Silent
           /\ grp.end = "OK" => Applied
           /\ grp.end # "OK" => grp.end = "PROTO_ERROR" /\ Unapplied /\ pc # "RELEASE"
  <1>1. InReply
    BY DEF Core, Framed
  <1>2. CASE grp.end = "OK"
    <2>1. pending = <<>> /\ Behind /\ Applied
      BY <1>1, <1>2 DEF InReply
    <2>2. Silent
      BY <2>1 DEF Behind, MayOwe, Silent, Request
    <2> QED BY <1>2, <2>1, <2>2
  <1>3. CASE grp.end # "OK"
    BY <1>1, <1>3 DEF InReply
  <1> QED BY <1>2, <1>3

\* sqli_track_transaction_statement takes the effect of the accepted request.
LEMMA TrackApplied ==
    ASSUME Types, Applied, NEW k, Track(k), server' = server, link' = link,
           Effect = "none" => k \notin {"begin", "commit", "rollback"},
           Effect # "none" => k = Effect,
           isolation' = IF pc \in {"EXECUTE", "execute_tail"} /\ call.op = "isolation"
                        THEN call.level ELSE isolation
    PROVE  Unapplied'
  <1>1. Effect \in {"none", "begin", "commit", "rollback"}
    BY DEF Effect, Ends
  <1> QED BY <1>1 DEF Applied, Unapplied, Track

\* A request without effect leaves the mirror truthful as it is.
LEMMA NothingApplied ==
    ASSUME Types, Applied, Effect = "none", UNCHANGED <<inTx, epochs, isolation>>,
           server' = server, link' = link,
           call.op = "isolation" => pc \notin {"EXECUTE", "execute_tail"}
    PROVE  Unapplied'
  BY DEF Applied, Unapplied

\* An error path releases what the call has made on the server.
LEMMA FailCore ==
    ASSUME Types, Core, ~io, pc \in {"BEGIN", "OPEN", "FETCH"}, grp.end = "PROTO_ERROR",
           UNCHANGED client, NEW s \in Status, Fail(s)
    PROVE  Core'
  <1> DEFINE c == [call EXCEPT !.status = s]
  <1>0. Silent /\ Unapplied
    BY AnswerRead DEF Request
  <1>1. call \in CallRecord
    BY DEF Types, ProgressTypes
  <1>2. /\ c \in CallRecord /\ c.op = call.op /\ c.kind = call.kind
        /\ c.level = call.level /\ c.described = call.described
    BY <1>1, CallUpdates DEF Updates, CallRecord
  <1>3. UNCHANGED <<autocommit, inTx, epochs, isolation, hold, stmt>>
    BY DEF client
  <1>4. "stmt" \in server.cursors => StillOpen
    BY DEF Core, CursorTracked
  <1> HIDE DEF c
  <1>5. CASE SelectQuery /\ Go("CLOSE", c)
    <2>1. Send("CLOSE", c, outstanding)
      BY <1>5 DEF Go
    <2>2. pc' = "CLOSE" /\ call' = c /\ server' = server /\ link' = link
      BY <2>1 DEF Send
    <2>3. Underway'
      BY <1>2, <1>3, <1>5, <2>2 DEF Underway, Releasing, SelectQuery, Core
    <2>4. Unapplied' /\ (StillOpen => StillOpen')
      BY <1>0, <1>3, <2>2 DEF Unapplied, StillOpen
    <2> QED BY <1>0, <1>2, <1>3, <1>4, <1>5, <2>1, <2>3, <2>4, GoCore DEF SelectQuery, Request
  <1>6. CASE call.op = "execute" /\ Go("CURSOR", c)
    <2>1. Send("CURSOR", c, outstanding)
      BY <1>6 DEF Go
    <2>2. pc' = "CURSOR" /\ call' = c /\ server' = server /\ link' = link
      BY <2>1 DEF Send
    <2>3. Underway'
      BY <1>2, <1>3, <1>6, <2>2 DEF Underway, Releasing, Core
    <2>4. Unapplied' /\ (StillOpen => StillOpen')
      BY <1>0, <1>3, <2>2 DEF Unapplied, StillOpen
    <2>5. "select" \notin server.handles \cup server.cursors
      BY <1>6 DEF Core, SelectInQuery
    <2> QED BY <1>0, <1>2, <1>3, <1>4, <2>1, <2>3, <2>4, <2>5, GoCore DEF Request
  <1>7. CASE ~SelectQuery /\ Return(s)
    <2>1. server' = server /\ link' = link
      BY <1>7 DEF Return, Finish, wire
    <2>2. Unapplied' /\ (StillOpen => StillOpen')
      BY <1>0, <1>3, <2>1 DEF Unapplied, StillOpen
    <2>3. "select" \notin server.handles \cup server.cursors
      BY <1>7 DEF Core, SelectInQuery, Underway, SelectQuery
    <2>4. stmt'.kind = "none" => stmt' = NoStmt
      BY <1>3 DEF Core, Underway
    <2> QED BY <1>0, <1>3, <1>4, <1>7, <2>2, <2>3, <2>4, FinishCore DEF Return
  <1> QED BY <1>5, <1>6, <1>7 DEF Fail, SelectQuery, c

\* After the reply to PREPARE: sqli_prepare returns, a direct query goes on.
LEMMA PrepareCore ==
    ASSUME Types, Core, ~io, ~io', AfterPrepare
    PROVE  Core'
  <1>0. /\ pc = "PREPARE" /\ grp.end # "open" /\ Silent
        /\ call \in CallRecord /\ grp.described \in BOOLEAN
    BY AnswerRead DEF AfterPrepare, Request, Types, ProgressTypes, GroupRecord
  <1>1. "stmt" \in server.cursors => StillOpen
    BY <1>0 DEF Core, CursorTracked
  <1>2. "select" \notin server.cursors
    BY <1>0 DEF Core, SelectInQuery
  <1>3. CASE grp.end = "OK"
    <2>1. Applied /\ Effect = "none" /\ grp.described
      BY <1>0, <1>3, AnswerRead DEF Request, Effect, Ends, Core, Framed, InReply
    <2>2. CASE call.op = "prepare"
      <3>1. /\ Return("OK") /\ UNCHANGED <<autocommit, inTx, epochs, isolation, hold>>
            /\ stmt' = [NoStmt EXCEPT !.kind = call.kind, !.epochs = epochs]
        BY <1>0, <1>3, <2>2 DEF AfterPrepare
      <3>2. stmt'.kind # "none"
        BY <2>2, <3>1 DEF Core, Underway, NoStmt
      <3>3. "select" \notin server.handles
        BY <2>2 DEF Core, SelectInQuery
      <3>4. "stmt" \notin server.cursors
        <4>1. ~NoStmt.open
          BY DEF NoStmt
        <4>2. stmt = NoStmt
          BY <2>2 DEF Core, Underway
        <4> QED BY <1>1, <4>1, <4>2 DEF StillOpen
      <3>5. Unapplied'
        BY <1>0, <2>1, <3>1, NothingApplied DEF Return, Finish, wire
      <3> QED BY <1>0, <1>2, <3>1, <3>2, <3>3, <3>4, <3>5, FinishCore DEF Return
    <2>3. CASE call.op # "prepare"
      <3> DEFINE c == [call EXCEPT !.described = grp.described]
      <3>1. call.op \in {"query", "isolation"}
        BY <1>0, <2>3 DEF Core, Underway
      <3>20. /\ c \in CallRecord /\ c.op = call.op /\ c.kind = call.kind /\ c.level = call.level
             /\ c.described = grp.described
        BY <1>0, CallUpdates DEF Updates, CallRecord
      <3>2. c \in CallRecord /\ c.op = call.op /\ c.kind = call.kind /\ c.level = call.level
              /\ c.described
        BY <2>1, <3>20
      <3>3. /\ UNCHANGED <<autocommit, inTx, epochs, isolation, hold>>
            /\ IF c.described /\ NeedsBegin(c) THEN Go("BEGIN", c) /\ stmt' = stmt ELSE Main(c)
        BY <1>0, <1>3, <2>3 DEF AfterPrepare
      <3> HIDE DEF c
      <3> DEFINE t == IF NeedsBegin(c) THEN "BEGIN" ELSE IF c.kind = "select" THEN "OPEN"
          ELSE "EXECUTE"
      <3>4. Go(t, c) /\ stmt' = stmt
        BY <3>1, <3>2, <3>3 DEF Main
      <3>5. t \in Request /\ OwnerOf(c) # "stmt" /\ (t = "OPEN" => OwnerOf(c) = "select")
        BY <3>1, <3>2 DEF Request, OwnerOf
      <3>6. pc' = t /\ call' = c /\ server' = server /\ link' = link
        BY <3>4 DEF Go, Send
      <3>7. c.kind # "none" /\ (c.op = "isolation" => c.kind = "set")
        BY <3>1, <3>2 DEF Core, Underway
      <3>70. t = "BEGIN" => c.op = "query"
        BY <3>1, <3>2, <3>7 DEF NeedsBegin
      <3>9. t = "BEGIN" <=> NeedsBegin(c)
        OBVIOUS
      <3>10. t \in {"BEGIN", "OPEN", "EXECUTE"} /\ (t = "OPEN" => c.op = "query"
               /\ c.kind = "select") /\ (t = "EXECUTE" => c.kind # "select")
        <4>1. t = "OPEN" => c.kind = "select"
          OBVIOUS
        <4>2. c.kind = "select" => c.op = "query"
          BY <3>1, <3>2, <3>7
        <4> QED BY <4>1, <4>2 DEF NeedsBegin
      <3> HIDE DEF t
      <3>11. stmt'.kind = "none" => stmt' = NoStmt
        BY <3>4 DEF Core, Underway
      <3>12. NeedsBegin(call)' <=> NeedsBegin(c)
        BY <3>3, <3>6 DEF NeedsBegin
      <3>13. Underway'
        BY <3>1, <3>2, <3>6, <3>7, <3>70, <3>9, <3>10, <3>11, <3>12 DEF Underway, Releasing,
           SelectQuery
      <3>14. Unapplied'
        BY <1>0, <2>1, <3>3, <3>6, NothingApplied
      <3>15. StillOpen => StillOpen'
        BY <3>3, <3>4, <3>6 DEF StillOpen
      <3>16. "select" \in server.handles => c.op = "query" /\ c.kind = "select"
               /\ t \in {"BEGIN", "OPEN"}
        BY <3>2, <3>10 DEF Core, SelectInQuery
      <3> QED BY <1>0, <1>1, <1>2, <3>2, <3>3, <3>4, <3>5, <3>13, <3>14, <3>15, <3>16, GoCore DEF Go
    <2> QED BY <2>2, <2>3
  <1>4. CASE grp.end # "OK"
    <2>1. grp.end = "PROTO_ERROR" /\ Unapplied
      BY <1>0, <1>4, AnswerRead DEF Request
    <2>2. UNCHANGED client /\ Return("PROTO_ERROR")
      BY <1>4, <2>1 DEF AfterPrepare
    <2>3. "select" \notin server.handles
      BY <1>0, <2>1 DEF Core, SelectInQuery
    <2>4. server' = server /\ link' = link
      BY <2>2 DEF Return, Finish, wire
    <2>5. Unapplied' /\ (StillOpen => StillOpen') /\ (stmt'.kind = "none" => stmt' = NoStmt)
      BY <2>1, <2>2, <2>4 DEF Unapplied, StillOpen, client, Core, Underway
    <2> QED BY <1>0, <1>1, <1>2, <2>2, <2>3, <2>5, FinishCore DEF Return, client
  <1> QED BY <1>3, <1>4

\* After the reply to COMMIT, ROLLBACK or a savepoint request.
LEMMA TransactionCore ==
    ASSUME Types, Core, ~io, ~io', AfterTransaction
    PROVE  Core'
  <1>0. /\ pc \in {"COMMIT", "ROLLBACK", "SAVEPOINT"} /\ grp.end # "open" /\ Silent
        /\ call.op \in {"commit", "rollback", "savepoint"} /\ call.kind = "none"
    BY AnswerRead DEF AfterTransaction, Request, Core, Underway
  <1>1. "stmt" \in server.cursors => StillOpen
    BY <1>0 DEF Core, CursorTracked
  <1>2. "select" \notin server.cursors \cup server.handles
    BY <1>0 DEF Core, SelectInQuery
  <1>3. PICK s \in Status : Return(s)
    BY DEF AfterTransaction, Status
  <1>4. server' = server /\ link' = link /\ stmt' = stmt /\ hold' = hold /\ isolation' = isolation
    BY <1>3 DEF Return, Finish, wire, AfterTransaction, client
  <1>5. Unapplied'
    <2>1. CASE grp.end = "OK"
      <3> DEFINE k == IF pc = "COMMIT" THEN "commit" ELSE IF pc = "ROLLBACK" THEN "rollback"
          ELSE "none"
      <3>1. Applied /\ Effect = k
        BY <1>0, <2>1, AnswerRead DEF Request, Effect, Ends
      <3>2. Track(k)
        BY <2>1 DEF AfterTransaction
      <3>3. k \in {"commit", "rollback", "none"}
        OBVIOUS
      <3> HIDE DEF k
      <3> QED BY <1>0, <1>4, <3>1, <3>2, <3>3, TrackApplied
    <2>2. CASE grp.end # "OK"
      BY <1>0, <1>4, <2>2, AnswerRead DEF Request, AfterTransaction, client, Unapplied
    <2> QED BY <2>1, <2>2
  <1>6. StillOpen' <=> StillOpen
    BY <1>4 DEF StillOpen
  <1>7. stmt'.kind = "none" => stmt' = NoStmt
    BY <1>4 DEF Core, Underway
  <1> QED BY <1>0, <1>1, <1>2, <1>3, <1>4, <1>5, <1>6, <1>7, FinishCore DEF Return

\* A batch goes on to its next row, or is over.
LEMMA NextRowCore ==
    ASSUME Types, Core, ~io, ~io', Silent, call.op = "batch", NEW s, NEW left, NextRow(s, left),
           pc \in {"BEGIN", "EXECUTE", "execute_tail"}, Unapplied',
           autocommit' = autocommit, hold' = hold, call.kind = "work" => inTx' = inTx,
           stmt'.kind = stmt.kind, StillOpen => StillOpen'
    PROVE  Core'
  <1>0. call \in CallRecord /\ call.kind \notin {"none", "select"} /\ stmt'.kind = call.kind
    BY DEF Core, Underway, Types, ProgressTypes
  <1>1. "select" \notin server.cursors \cup server.handles
    BY DEF Core, SelectInQuery
  <1>2. "stmt" \in server.cursors => StillOpen'
    BY DEF Core, CursorTracked
  <1>3. CASE Finish("OK", left)
    BY <1>0, <1>1, <1>2, <1>3, FinishCore
  <1>4. CASE ~Finish("OK", left)
    <2> DEFINE c == [call EXCEPT !.row = @ + 1]
               t == Starting(call)
    <2>1. Send(t, c, left)
      BY <1>4 DEF NextRow
    <2>0. call.row + 1 \in Nat
      BY <1>0 DEF CallRecord
    <2>2. c \in CallRecord /\ c.op = "batch" /\ c.kind = call.kind /\ c.level = call.level
      <3>1. c \in CallRecord
        BY <1>0, <2>0, CallUpdates DEF Updates
      <3> QED BY <1>0, <3>1 DEF CallRecord
    <2>3. t \in {"BEGIN", "EXECUTE"} /\ t \in Request /\ (t = "BEGIN" <=> NeedsBegin(call))
      BY <1>0 DEF Starting, Request
    <2> HIDE DEF c, t
    <2>4. pc' = t /\ call' = c
      BY <2>1 DEF Send
    <2>5. NeedsBegin(call)' <=> NeedsBegin(call)
      <3>1. call'.kind = call.kind
        BY <2>2, <2>4
      <3>2. call.kind \in {"select", "work"} => inTx' = inTx
        BY <1>0
      <3> QED BY <3>1, <3>2 DEF NeedsBegin
    <2>6. call.level = "none"
      BY DEF Types, ProgressTypes
    <2>7. Underway'
      BY <1>0, <2>2, <2>3, <2>4, <2>5 DEF Underway, Releasing
    <2> QED BY <1>1, <1>2, <2>1, <2>2, <2>3, <2>7, GoCore
  <1> QED BY <1>3, <1>4

\* After the reply to BEGIN, sent for the application or for a statement.
LEMMA BeginCore ==
    ASSUME Types, Core, ~io, ~io', AfterBegin
    PROVE  Core'
  <1>0. /\ pc = "BEGIN" /\ grp.end # "open" /\ Silent /\ call \in CallRecord
        /\ UNCHANGED <<autocommit, epochs, isolation, hold>>
    BY AnswerRead DEF AfterBegin, Request, Types, ProgressTypes
  <1>1. "stmt" \in server.cursors => StillOpen
    BY <1>0 DEF Core, CursorTracked
  <1>2. "select" \notin server.cursors
    BY <1>0 DEF Core, SelectInQuery
  <1>3. CASE grp.end = "OK"
    <2>1. Applied /\ Effect = "begin"
      BY <1>0, <1>3, AnswerRead DEF Request, Effect, Ends
    <2>2. /\ inTx' = TRUE
          /\ IF call.op = "begin" THEN Return("OK") /\ stmt' = stmt
             ELSE IF call.op = "savepoint" THEN Go("SAVEPOINT", call) /\ stmt' = stmt
             ELSE Main(call)
      BY <1>0, <1>3 DEF AfterBegin
    <2>3. server' = server /\ link' = link
      BY <2>2 DEF Return, Finish, wire, Main, Go, Send
    <2>4. Unapplied'
      BY <1>0, <2>1, <2>2, <2>3 DEF Applied, Unapplied
    <2>5. CASE call.op = "begin"
      <3>1. "select" \notin server.handles /\ StillOpen' = StillOpen
              /\ (stmt'.kind = "none" => stmt' = NoStmt)
        BY <1>0, <2>2, <2>3, <2>5 DEF Core, SelectInQuery, Underway, StillOpen
      <3> QED BY <1>0, <1>1, <1>2, <2>2, <2>4, <2>5, <3>1, FinishCore DEF Return
    <2>6. CASE call.op = "savepoint"
      <3>1. Send("SAVEPOINT", call, outstanding) /\ stmt' = stmt
        BY <2>2, <2>6 DEF Go
      <3>2. pc' = "SAVEPOINT" /\ call' = call
        BY <3>1 DEF Send
      <3>3. "select" \notin server.handles /\ StillOpen' = StillOpen
        BY <1>0, <2>3, <2>6, <3>1 DEF Core, SelectInQuery, StillOpen
      <3>4. Underway'
        BY <1>0, <2>6, <3>1, <3>2 DEF Core, Underway, Releasing
      <3> QED BY <1>0, <1>1, <1>2, <2>4, <3>1, <3>3, <3>4, GoCore DEF Request
    <2>7. CASE call.op \notin {"begin", "savepoint"}
      <3> DEFINE t == IF call.kind = "select" THEN "OPEN" ELSE "EXECUTE"
      <3>0. /\ call.op \in {"execute", "batch", "query"}
            /\ call.op \in {"execute", "query"} => call.described
            /\ call.op = "batch" => call.kind # "select"
            /\ call.kind # "none"
        BY <1>0, <2>7 DEF Core, Underway, NeedsBegin
      <3>1. Go(t, call) /\ stmt' = IF t = "OPEN" /\ call.op = "execute" THEN Opened ELSE stmt
        BY <2>2, <2>7, <3>0 DEF Main
      <3>2. pc' = t /\ call' = call
        BY <3>1 DEF Go, Send
      <3>3. t \in Request /\ t \in {"OPEN", "EXECUTE"} /\ (t = "OPEN" <=> call.kind = "select")
        BY DEF Request
      <3> HIDE DEF t
      <3>4. stmt'.kind = stmt.kind /\ (stmt'.kind = "none" => stmt' = NoStmt)
        <4>1. Opened.kind = stmt.kind
          BY DEF Opened, Types, ClientTypes, StmtRecord
        <4>2. call.op = "execute" => stmt.kind # "none"
          BY DEF Core, Underway
        <4>3. stmt.kind = "none" => stmt = NoStmt
          BY DEF Core, Underway
        <4> QED BY <3>1, <4>1, <4>2, <4>3
      <3>40. t = "OPEN" /\ call.op = "execute" => stmt'.open /\ stmt'.epochs = epochs'
        BY <1>0, <3>1 DEF Opened, Types, ClientTypes, StmtRecord
      <3>5. ~NeedsBegin(call)'
        BY <2>2 DEF NeedsBegin
      <3>6. Underway'
        BY <3>0, <3>2, <3>3, <3>4, <3>40, <3>5 DEF Core, Underway, Releasing, SelectQuery
      <3>7. call.op = "execute" => "stmt" \notin server.cursors
        BY <1>0, <1>1 DEF Core, Underway, StillOpen
      <3>8. "stmt" \in server.cursors => StillOpen'
        BY <1>0, <1>1, <2>3, <3>1, <3>7 DEF StillOpen
      <3>9. "select" \in server.handles => call.op = "query" /\ call.kind = "select" /\ t = "OPEN"
        BY <3>3 DEF Core, SelectInQuery
      <3>10. t = "OPEN" => OwnerOf(call) \notin server.cursors
        BY <1>2, <3>0, <3>3, <3>7 DEF OwnerOf
      <3> QED BY <1>0, <1>2, <2>4, <3>1, <3>3, <3>6, <3>8, <3>9, <3>10, GoCore DEF Go
    <2> QED BY <2>5, <2>6, <2>7
  <1>4. CASE grp.end # "OK"
    <2>1. grp.end = "PROTO_ERROR" /\ Unapplied
      BY <1>0, <1>4, AnswerRead DEF Request
    <2>2. UNCHANGED client
      BY <1>0, <1>4 DEF AfterBegin, client
    <2>3. CASE call.op = "batch" /\ NextRow(TRUE, Reported)
      <3>1. server' = server /\ link' = link
        BY <2>3 DEF NextRow, Finish, Send, wire
      <3>2. Unapplied' /\ (StillOpen => StillOpen')
        BY <2>1, <2>2, <3>1 DEF Unapplied, StillOpen, client
      <3> QED BY <1>0, <2>2, <2>3, <3>2, NextRowCore DEF client
    <2>4. CASE Fail("PROTO_ERROR")
      BY <1>0, <2>1, <2>2, <2>4, FailCore DEF Status
    <2> QED BY <1>0, <1>4, <2>1, <2>3, <2>4 DEF AfterBegin
  <1> QED BY <1>3, <1>4

\* After a reply to OPEN or FETCH of a forward-only SELECT.
LEMMA OpenOrFetchCore ==
    ASSUME Types, Core, ~io, ~io', AfterOpenOrFetch
    PROVE  Core'
  <1>0. /\ pc \in {"OPEN", "FETCH"} /\ grp.end # "open" /\ Silent /\ call \in CallRecord
        /\ UNCHANGED <<autocommit, inTx, epochs, isolation, hold, stmt>>
        /\ call.kind = "select" /\ call.op \in {"query", "execute"} /\ call.described
    BY AnswerRead DEF AfterOpenOrFetch, Request, Types, ProgressTypes, client, Core, Underway,
       SelectQuery
  <1>1. "stmt" \in server.cursors => StillOpen
    BY <1>0 DEF Core, CursorTracked
  <1>2. CASE grp.end = "OK"
    <2>1. Applied /\ Effect = "none"
      BY <1>0, <1>2, AnswerRead DEF Request, Effect, Ends
    <2>2. server' = server /\ link' = link
      BY <1>0, <1>2 DEF AfterOpenOrFetch, Return, Finish, wire, Go, Send
    <2>3. Unapplied' /\ (StillOpen => StillOpen')
      BY <1>0, <2>1, <2>2, NothingApplied DEF StillOpen
    <2>4. CASE Return("OK") /\ call.op = "execute"
      <3>1. "select" \notin server.handles \cup server.cursors
        BY <2>4 DEF Core, SelectInQuery
      <3>2. stmt'.kind = "none" => stmt' = NoStmt
        BY <1>0 DEF Core, Underway
      <3> QED BY <1>0, <1>1, <2>3, <2>4, <3>1, <3>2, FinishCore DEF Return
    <2>5. CASE Go("FETCH", call) \/ (call.op = "query" /\ Go("CLOSE", call))
      <3>1. PICK t \in {"FETCH", "CLOSE"} : Go(t, call) /\ (t = "CLOSE" => call.op = "query")
        BY <2>5
      <3>2. pc' = t /\ call' = call
        BY <3>1 DEF Go, Send
      <3>3. Underway'
        BY <1>0, <3>1, <3>2 DEF Core, Underway, Releasing, SelectQuery
      <3>4. "select" \in server.handles \cup server.cursors => call.op = "query"
        BY DEF Core, SelectInQuery
      <3>5. t \in Request
        BY DEF Request
      <3> QED BY <1>0, <1>1, <2>3, <3>1, <3>3, <3>4, <3>5, GoCore DEF Go
    <2> QED BY <1>0, <1>2, <2>4, <2>5 DEF AfterOpenOrFetch
  <1>3. CASE grp.end # "OK"
    <2>1. grp.end = "PROTO_ERROR" /\ Fail("PROTO_ERROR")
      BY <1>0, <1>3, AnswerRead DEF Request, AfterOpenOrFetch
    <2> QED BY <1>0, <2>1, FailCore DEF Status, client
  <1> QED BY <1>2, <1>3

\* A reply has been read, and its tail is drained.
LEMMA DrainCore ==
    ASSUME Types, Core, ~io, UNCHANGED client, NEW t \in Draining, Drain(t), Applied,
           pending = <<>>, Behind,
           \/ pc \in {"EXECUTE", "execute_tail"} /\ t = "execute_tail"
           \/ pc \in {"CURSOR", "cursor_tail"} /\ t = "cursor_tail"
           \/ pc \in {"CLOSE", "close_tail"} /\ t = "close_tail"
           \/ pc \in {"RELEASE", "release_tail"} /\ t = "release_tail"
           \/ pc = "resync" /\ t = "resync"
    PROVE  Core'
  <1>1. /\ pc' = t /\ grp' = Poll
        /\ UNCHANGED <<call, server, link, pending, flight, inbox,
                       autocommit, inTx, epochs, isolation, hold, stmt>>
    BY DEF Drain, wire, client
  <1>2. pc' \in Draining /\ pc' # "idle" /\ pc' \notin Request
    BY <1>1 DEF Draining, Request
  <1>3. Underway'
    BY <1>1 DEF Core, Underway, Releasing, SelectQuery
  <1>4. Effect' = Effect
    BY <1>1 DEF Effect, Ends
  <1>5. Applied'
    BY <1>1, <1>4 DEF Applied
  <1>6. Behind'
    BY <1>1 DEF Behind, MayOwe, Sent
  <1>7. Framed'
    BY <1>1, <1>2, <1>5, <1>6 DEF Framed, InTail
  <1>8. Severed'
    BY <1>1 DEF Severed, Core
  <1>9. /\ call.op \in {"execute", "stmt_close"} => OwnerOf(call) = "stmt"
        /\ SelectQuery => OwnerOf(call) = "select"
    BY DEF OwnerOf, SelectQuery
  <1>10. link = "down" => server.handles = {} /\ server.cursors = {}
    BY DEF Severed, Core
  <1>11. pc = "RELEASE" => OwnerOf(call) \notin server.handles \cup server.cursors
    BY <1>10 DEF Applied, Types, ProgressTypes
  <1>12. pc = "CURSOR" => OwnerOf(call) \notin server.cursors
    BY <1>10 DEF Applied, Types, ProgressTypes
  <1>13. pc = "RELEASE" => SelectQuery \/ call.op = "stmt_close"
    BY DEF Core, Underway, Releasing
  <1>14. pc = "CURSOR" => call.op = "execute"
    BY DEF Core, Underway
  <1>15. SelectInQuery'
    BY <1>1, <1>9, <1>11, <1>13 DEF SelectInQuery, Core, SelectQuery
  <1>16. CursorTracked'
    BY <1>1, <1>9, <1>11, <1>12, <1>13, <1>14 DEF CursorTracked, Core, StillOpen, SelectQuery
  <1> QED BY <1>3, <1>7, <1>8, <1>15, <1>16 DEF Core

\* After the replies of sqli_stmt_close_cursor_if_open and sqli_stmt_close_release.
LEMMA CloseCore ==
    ASSUME Types, Core, ~io, ~io', AfterCursor \/ AfterClose
    PROVE  Core'
  <1>0. /\ pc \in {"CURSOR", "CLOSE", "RELEASE"} /\ grp.end # "open" /\ Silent
             /\ call \in CallRecord
        /\ UNCHANGED client
        /\ UNCHANGED <<autocommit, inTx, epochs, isolation, hold, stmt>>
    BY AnswerRead DEF AfterCursor, AfterClose, Request, Types, ProgressTypes, client
  <1>1. CASE grp.end = "OK"
    <2>1. Applied /\ pending = <<>> /\ Behind
      BY <1>0, <1>1 DEF Core, Framed, InReply, Request
    <2>2. \/ pc = "CURSOR" /\ Drain("cursor_tail")
          \/ pc = "CLOSE" /\ Drain("close_tail")
          \/ pc = "RELEASE" /\ Drain("release_tail")
      BY <1>0, <1>1 DEF AfterCursor, AfterClose
    <2> QED BY <1>0, <2>1, <2>2, DrainCore DEF Draining
  <1>2. CASE grp.end # "OK"
    <2>1. grp.end = "PROTO_ERROR" /\ Unapplied /\ pc # "RELEASE"
      BY <1>0, <1>2, AnswerRead DEF Request
    <2>2. CASE pc = "CURSOR"
      <3>1. PICK s : Return(s)
        BY <2>1, <2>2 DEF AfterCursor, AfterClose
      <3>2. server' = server /\ link' = link
        BY <3>1 DEF Return, Finish, wire
      <3>3. Unapplied' /\ (StillOpen => StillOpen') /\ (stmt'.kind = "none" => stmt' = NoStmt)
        BY <1>0, <2>1, <3>2 DEF Unapplied, StillOpen, Core, Underway
      <3>4. "select" \notin server.handles \cup server.cursors
              /\ ("stmt" \in server.cursors => StillOpen)
        BY <2>2 DEF Core, SelectInQuery, CursorTracked
      <3> QED BY <1>0, <3>1, <3>3, <3>4, FinishCore DEF Return
    <2>3. CASE pc = "CLOSE"
      <3>1. Go("RELEASE", call)
        BY <2>1, <2>3 DEF AfterCursor, AfterClose
      <3>2. pc' = "RELEASE" /\ call' = call /\ server' = server /\ link' = link
        BY <3>1 DEF Go, Send
      <3>3. Unapplied' /\ (StillOpen => StillOpen')
        BY <1>0, <2>1, <3>2 DEF Unapplied, StillOpen
      <3>4. Underway'
        BY <1>0, <2>3, <3>2 DEF Core, Underway, Releasing, SelectQuery
      <3>5. /\ "select" \in server.handles => call.op = "query" /\ call.kind = "select"
            /\ "select" \in server.cursors => call.op = "query"
            /\ "stmt" \in server.cursors => StillOpen \/ call.op = "stmt_close"
        BY <2>3 DEF Core, SelectInQuery, CursorTracked
      <3> QED BY <1>0, <3>1, <3>3, <3>4, <3>5, GoCore DEF Go, Request
    <2> QED BY <1>0, <2>1, <2>2, <2>3
  <1> QED BY <1>1, <1>2

\* After the first group of an executed statement.
LEMMA ExecuteCore ==
    ASSUME Types, Core, ~io, ~io', AfterExecute
    PROVE  Core'
  <1>0. /\ pc = "EXECUTE" /\ grp.end # "open" /\ InReply
        /\ UNCHANGED <<autocommit, inTx, epochs, isolation, hold>>
    BY DEF AfterExecute, Core, Framed, Request
  <1>1. CASE grp.end = "OK"
    <2>1. pending = <<>> /\ Behind /\ Applied
      BY <1>0, <1>1 DEF InReply
    <2>2. stmt' = stmt /\ Drain("execute_tail")
      BY <1>1 DEF AfterExecute
    <2> QED BY <1>0, <2>1, <2>2, DrainCore DEF Draining, client
  <1>2. CASE grp.end # "OK"
    <2>1. grp.end = "PROTO_ERROR" /\ Silent /\ Unapplied
      BY <1>0, <1>2 DEF InReply
    <2>2. stmt' = IF OwnerOf(call) = "stmt" THEN [stmt EXCEPT !.saw_error = TRUE] ELSE stmt
      BY <2>1 DEF AfterExecute
    <2>3. stmt'.kind = stmt.kind /\ stmt'.open = stmt.open /\ stmt'.epochs = stmt.epochs
      BY <2>2 DEF Types, ClientTypes, StmtRecord
    <2>4. stmt'.kind = "none" => stmt' = NoStmt
      BY <1>0, <2>2, <2>3 DEF Core, Underway, OwnerOf
    <2>5. CASE call.op = "batch" /\ NextRow(TRUE, Reported)
      <3>1. server' = server /\ link' = link
        BY <2>5 DEF NextRow, Finish, Send, wire
      <3>2. Unapplied' /\ (StillOpen => StillOpen')
        BY <1>0, <2>1, <2>3, <3>1 DEF Unapplied, StillOpen
      <3> QED BY <1>0, <2>1, <2>3, <2>5, <3>2, NextRowCore
    <2>6. CASE Return("PROTO_ERROR")
      <3>1. server' = server /\ link' = link
        BY <2>6 DEF Return, Finish, wire
      <3>2. Unapplied' /\ (StillOpen => StillOpen')
        BY <1>0, <2>1, <2>3, <3>1 DEF Unapplied, StillOpen
      <3>3. "select" \notin server.handles \cup server.cursors
              /\ ("stmt" \in server.cursors => StillOpen)
        BY <1>0 DEF Core, SelectInQuery, CursorTracked
      <3> QED BY <1>0, <2>1, <2>4, <2>6, <3>2, <3>3, FinishCore DEF Return
    <2> QED BY <2>1, <2>5, <2>6 DEF AfterExecute
  <1> QED BY <1>1, <1>2

\* A statement has been executed and its tail is drained: its effect is tracked.
LEMMA ExecutedCore ==
    ASSUME Types, Core, ~io, ~io', pc = "execute_tail", Silent, Applied, Executed
    PROVE  Core'
  <1>1. /\ autocommit' = autocommit /\ hold' = hold /\ Track(call.kind)
        /\ isolation' = IF call.op = "isolation" THEN call.level ELSE isolation
        /\ stmt' = IF OwnerOf(call) = "stmt" THEN [stmt EXCEPT !.saw_error = FALSE] ELSE stmt
        /\ IF call.op = "batch" THEN NextRow(FALSE, outstanding) ELSE Return("OK")
    BY DEF Executed
  <1>2. server' = server /\ link' = link
    BY <1>1 DEF NextRow, Return, Finish, Send, wire
  <1>3. call.kind \notin {"none", "select"}
    BY DEF Core, Underway
  <1>4. /\ Effect = "none" => call.kind \notin {"begin", "commit", "rollback"}
        /\ Effect # "none" => call.kind = Effect
    BY DEF Effect, Ends
  <1>5. Unapplied'
    BY <1>1, <1>2, <1>4, TrackApplied
  <1>6. stmt'.kind = stmt.kind /\ stmt'.open = stmt.open /\ stmt'.epochs = stmt.epochs
    BY <1>1 DEF Types, ClientTypes, StmtRecord
  <1>7. StillOpen => StillOpen'
    BY <1>1, <1>2, <1>6 DEF StillOpen
  <1>8. stmt'.kind = "none" => stmt' = NoStmt
    BY <1>1, <1>6 DEF Core, Underway, OwnerOf
  <1>9. call.kind = "work" => inTx' = inTx
    BY <1>1 DEF Track
  <1>10. CASE call.op = "batch"
    BY <1>1, <1>5, <1>6, <1>7, <1>9, <1>10, NextRowCore
  <1>11. CASE call.op # "batch"
    <2>1. "select" \notin server.handles \cup server.cursors
            /\ ("stmt" \in server.cursors => StillOpen)
      BY DEF Core, SelectInQuery, CursorTracked
    <2> QED BY <1>1, <1>5, <1>7, <1>8, <1>11, <2>1, FinishCore DEF Return
  <1> QED BY <1>10, <1>11

\* The cursor of the last execution is closed: the execution starts, or is over.
LEMMA CursorClosedCore ==
    ASSUME Types, Core, ~io, ~io', pc = "cursor_tail", Silent, Applied, CursorClosed
    PROVE  Core'
  <1>0. /\ call \in CallRecord /\ call.op = "execute" /\ call.described
        /\ stmt.kind = call.kind /\ call.kind # "none"
        /\ UNCHANGED <<autocommit, inTx, epochs, isolation, hold>>
        /\ "stmt" \notin server.cursors
    BY DEF Core, Underway, CursorTracked, CursorClosed, Types, ProgressTypes
  <1>1. "select" \notin server.handles \cup server.cursors
    BY <1>0 DEF Core, SelectInQuery
  <1>2. server' = server /\ link' = link
    BY DEF CursorClosed, Return, Finish, wire, Go, Send
  <1>3. Effect = "none"
    BY DEF Effect, Ends
  <1>4. Unapplied'
    BY <1>0, <1>2, <1>3, NothingApplied
  <1>5. stmt \in StmtRecord
    BY DEF Types, ClientTypes
  <1>6. CASE call.status # "OK"
    <2>1. stmt' = [stmt EXCEPT !.open = FALSE] /\ Return(call.status)
      BY <1>6 DEF CursorClosed
    <2>2. stmt'.kind = stmt.kind
      BY <1>5, <2>1 DEF StmtRecord
    <2> QED BY <1>0, <1>1, <1>4, <2>1, <2>2, FinishCore DEF Return
  <1>7. CASE call.status = "OK"
    <2> DEFINE t == Starting(call)
    <2>1. /\ stmt' = IF NeedsBegin(call) THEN [stmt EXCEPT !.open = FALSE] ELSE Opened
          /\ Go(t, call)
      BY <1>7 DEF CursorClosed
    <2>2. /\ stmt'.kind = stmt.kind /\ (NeedsBegin(call) => ~stmt'.open)
          /\ ~NeedsBegin(call) => stmt'.open /\ stmt'.epochs = epochs
      BY <1>5, <2>1 DEF StmtRecord, Opened
    <2>3. /\ t \in Request /\ t \in {"BEGIN", "OPEN", "EXECUTE"}
          /\ t = "BEGIN" <=> NeedsBegin(call)
          /\ t = "OPEN" => call.kind = "select"
          /\ t = "EXECUTE" => call.kind # "select"
      BY DEF Starting, Request
    <2> HIDE DEF t
    <2>4. pc' = t /\ call' = call
      BY <2>1 DEF Go, Send
    <2>5. NeedsBegin(call)' <=> NeedsBegin(call)
      BY <1>0, <2>4 DEF NeedsBegin
    <2>6. Underway'
      BY <1>0, <2>2, <2>3, <2>4, <2>5 DEF Core, Underway, Releasing
    <2>7. OwnerOf(call) = "stmt"
      BY <1>0 DEF OwnerOf
    <2> QED BY <1>0, <1>1, <1>4, <2>1, <2>3, <2>6, <2>7, GoCore DEF Go
  <1> QED BY <1>6, <1>7

\* The drains, with a second group to be read or without.
LEMMA TailCore ==
    ASSUME Types, Core, ~io, ~io', Tailing
    PROVE  Core'
  <1>0. pc \in Draining /\ Applied /\ pending = <<>> /\ call \in CallRecord /\ InTail
    BY DEF Tailing, Core, Framed, InTail, Types, ProgressTypes
  <1>1. CASE /\ grp.end = "poll" /\ (inbox # <<>> \/ link = "down") /\ grp' = NoGroup
             /\ UNCHANGED <<pc, call, client, out, wire, server, outstanding, io, calls>>
    <2>1. grp = Poll /\ Behind
      BY <1>0, <1>1 DEF InTail, NoGroup
    <2>2. UNCHANGED <<pc, call, autocommit, inTx, epochs, isolation, hold, stmt, pending, flight,
                      inbox, link, server>> /\ grp' = NoGroup
      BY <1>1 DEF client, wire
    <2>3. link = "down" => flight = <<>> /\ ~server.owes
      BY DEF Core, Severed
    <2>4. Lost \/ (MayOwe /\ ~server.owes /\ flight = <<>> /\ inbox = Group)
      BY <1>0, <1>1, <2>1, <2>3 DEF Behind, Sent, Lost, Silent, Group
    <2>5. Effect' = Effect
      BY <2>2 DEF Effect, Ends
    <2>6. InTail'
      BY <1>0, <2>2, <2>4, <2>5 DEF InTail, Applied, Lost, Silent, MayOwe
    <2>7. Framed'
      BY <1>0, <2>2, <2>6 DEF Framed, Draining, Request
    <2>8. Underway' /\ Severed' /\ SelectInQuery' /\ CursorTracked'
      BY <1>0, <2>2 DEF Core, Underway, Releasing, SelectQuery, NeedsBegin, Severed, SelectInQuery,
         CursorTracked,
         StillOpen, Draining
    <2> QED BY <2>7, <2>8 DEF Core
  <1>2. CASE grp.end = "OK" /\ UNCHANGED client /\ Drain(pc)
    <2>1. Behind
      BY <1>0, <1>2 DEF InTail, Poll, NoGroup, Behind, Silent
    <2> QED BY <1>0, <1>2, <2>1, DrainCore DEF Draining
  <1>3. CASE grp.end = "poll" /\ Quiet /\ AfterTail
    <2>1. Silent
      BY <1>0, <1>3 DEF Quiet, Silent
    <2>2. CASE pc = "execute_tail"
      BY <1>0, <1>3, <2>1, <2>2, ExecutedCore DEF AfterTail
    <2>3. CASE pc = "cursor_tail"
      BY <1>0, <1>3, <2>1, <2>3, CursorClosedCore DEF AfterTail
    <2>4. CASE pc \in {"resync", "close_tail"}
      <3> DEFINE t == IF pc = "resync" THEN "PREPARE" ELSE "RELEASE"
      <3>1. Go(t, call) /\ UNCHANGED <<autocommit, inTx, epochs, isolation, hold, stmt>>
        BY <1>3, <2>4 DEF AfterTail, client
      <3>2. t \in Request /\ (t = "PREPARE" <=> pc = "resync") /\ t \in {"PREPARE", "RELEASE"}
        BY DEF Request
      <3> HIDE DEF t
      <3>3. pc' = t /\ call' = call /\ server' = server /\ link' = link
        BY <3>1 DEF Go, Send
      <3>4. Underway'
        BY <2>4, <3>1, <3>2, <3>3 DEF Core, Underway, Releasing, SelectQuery
      <3>5. Effect = "none"
        BY <2>4 DEF Effect, Ends
      <3>6. Unapplied' /\ (StillOpen => StillOpen')
        BY <1>0, <2>4, <3>1, <3>3, <3>5, NothingApplied DEF StillOpen
      <3>7. /\ "select" \in server.handles => call.op = "query" /\ call.kind = "select"
                 /\ t = "RELEASE"
            /\ "select" \in server.cursors => call.op = "query" /\ t = "RELEASE"
            /\ "stmt" \in server.cursors => StillOpen \/ (call.op = "stmt_close" /\ t = "RELEASE")
        BY <2>4, <3>2 DEF Core, SelectInQuery, CursorTracked
      <3> QED BY <1>0, <2>1, <3>1, <3>2, <3>4, <3>6, <3>7, GoCore DEF Go
    <2>5. CASE pc = "release_tail"
      <3>1. Return(call.status) /\ UNCHANGED <<autocommit, inTx, epochs, isolation, hold, stmt>>
        BY <1>3, <2>5 DEF AfterTail, client
      <3>2. server' = server /\ link' = link
        BY <3>1 DEF Return, Finish, wire
      <3>3. Effect = "none"
        BY <2>5 DEF Effect, Ends
      <3>4. Unapplied' /\ (StillOpen => StillOpen') /\ (stmt'.kind = "none" => stmt' = NoStmt)
        BY <1>0, <2>5, <3>1, <3>2, <3>3, NothingApplied DEF StillOpen, Core, Underway
      <3>5. "select" \notin server.handles \cup server.cursors
              /\ ("stmt" \in server.cursors => StillOpen)
        BY <2>5 DEF Core, SelectInQuery, CursorTracked
      <3> QED BY <2>1, <3>1, <3>4, <3>5, FinishCore DEF Return
    <2> QED BY <1>0, <2>2, <2>3, <2>4, <2>5 DEF Draining
  <1>4. grp.end \notin {"PROTO_ERROR", "IO_ERROR"}
    BY <1>0 DEF InTail, Poll, NoGroup
  <1> QED BY <1>1, <1>2, <1>3, <1>4 DEF Tailing

-----------------------------------------------------------------------------
\* receive_done takes the EOTs that come next, and no more.
LEMMA DropFacts ==
    /\ DropEots(<<"EOT">>) = <<>>
    /\ DropEots(<<"EOT", "DONE", "EOT">>) = Group
  <1>1. DropEots(<<"EOT">>) = <<>>
    <2> DEFINE s == <<"EOT">>
               P(k) == (\A i \in 1 .. k : s[i] = "EOT") /\ (k = Len(s) \/ s[k + 1] # "EOT")
    <2>1. P(1)
      OBVIOUS
    <2>2. \A k \in 0 .. Len(s) : P(k) => k = 1
      OBVIOUS
    <2>3. (CHOOSE k \in 0 .. Len(s) : P(k)) = 1
      BY <2>1, <2>2
    <2>4. SubSeq(s, 2, Len(s)) = <<>>
      OBVIOUS
    <2> QED BY <2>3, <2>4 DEF DropEots
  <1>2. DropEots(<<"EOT", "DONE", "EOT">>) = Group
    <2> DEFINE s == <<"EOT", "DONE", "EOT">>
               P(k) == (\A i \in 1 .. k : s[i] = "EOT") /\ (k = Len(s) \/ s[k + 1] # "EOT")
    <2>1. P(1)
      OBVIOUS
    <2>2. \A k \in 0 .. Len(s) : P(k) => k = 1
      <3> SUFFICES ASSUME NEW k \in 0 .. Len(s), P(k) PROVE k = 1
        OBVIOUS
      <3>1. Len(s) = 3 /\ s[1] = "EOT" /\ s[2] = "DONE"
        OBVIOUS
      <3> QED BY <3>1
    <2>3. (CHOOSE k \in 0 .. Len(s) : P(k)) = 1
      BY <2>1, <2>2
    <2>4. SubSeq(s, 2, Len(s)) = <<"DONE", "EOT">>
      <3> DEFINE x == SubSeq(s, 2, Len(s))
                 y == <<"DONE", "EOT">>
      <3>1. /\ s \in Seq(Token) /\ Len(s) = 3 /\ s[2] = "DONE" /\ s[3] = "EOT"
        BY DEF Token
      <3> HIDE DEF s
      <3>2. x \in Seq(Token) /\ Len(x) = 2 /\ x[1] = "DONE" /\ x[2] = "EOT"
        BY <3>1
      <3>3. y \in Seq(Token) /\ Len(y) = 2 /\ y[1] = "DONE" /\ y[2] = "EOT"
        BY DEF Token
      <3> HIDE DEF x, y
      <3>4. \A i \in 1 .. 2 : x[i] = y[i]
        <4>1. \A i \in 1 .. 2 : i = 1 \/ i = 2
          OBVIOUS
        <4> QED BY <3>2, <3>3, <4>1
      <3>5. x = y
        BY <3>2, <3>3, <3>4, SeqEqual
      <3> QED BY <3>5 DEF x, y
    <2>5. DropEots(s) = SubSeq(s, (CHOOSE k \in 0 .. Len(s) : P(k)) + 1, Len(s))
      BY Zenon DEF DropEots
    <2>6. 1 + 1 = 2
      OBVIOUS
    <2> QED BY <2>3, <2>4, <2>5, <2>6, Zenon DEF Group
  <1> QED BY <1>1, <1>2

\* The replies differ from each other, and how they are read token by token.
LEMMA ReplyFacts ==
    /\ Group \o Group = TwoGroups
    /\ <<>> \notin {Group, Description, OneRow, Ack, Refusal, TwoGroups}
    /\ Group \notin {Description, OneRow, Ack, Refusal}
    /\ Ack \notin {Description, OneRow, Refusal}
    /\ Refusal \notin {Description, OneRow} /\ Description # OneRow
    /\ Head(Group) = "DONE" /\ DropEots(Tail(Group)) = <<>>
    /\ Head(Ack) = "EOT" /\ Tail(Ack) = <<>>
    /\ Head(Refusal) = "ERR" /\ Tail(Refusal) = Ack
    /\ Head(Description) = "DESCRIBE" /\ Tail(Description) = Group
    /\ Head(OneRow) = "TUPLE" /\ Tail(OneRow) = Group
    /\ Head(TwoGroups) = "DONE" /\ DropEots(Tail(TwoGroups)) = Group
  <1>1. Tail(Group) = <<"EOT">> /\ Head(Group) = "DONE"
    BY DEF Group
  <1>2. Group \o Group = TwoGroups
    <2> DEFINE x == Group \o Group
               y == <<"DONE", "EOT", "DONE", "EOT">>
    <2>1. Group \in Seq(Token) /\ Len(Group) = 2 /\ Group[1] = "DONE" /\ Group[2] = "EOT"
      BY DEF Group, Token
    <2>2. /\ x \in Seq(Token) /\ Len(x) = 4
          /\ x[1] = "DONE" /\ x[2] = "EOT" /\ x[3] = "DONE" /\ x[4] = "EOT"
      <3> DEFINE g == Group
      <3>1. g \in Seq(Token) /\ Len(g) = 2 /\ g[1] = "DONE" /\ g[2] = "EOT" /\ x = g \o g
        BY <2>1
      <3> HIDE DEF g, x
      <3>2. /\ x \in Seq(Token) /\ Len(x) = Len(g) + Len(g)
            /\ \A i \in 1 .. Len(g) + Len(g) : x[i] = IF i <= Len(g) THEN g[i] ELSE g[i - Len(g)]
        BY <3>1, ConcatProperties
      <3>3. x[1] = g[1] /\ x[2] = g[2]
        BY <3>1, <3>2
      <3>4. x[3] = g[1] /\ x[4] = g[2] /\ Len(x) = 4
        BY <3>1, <3>2
      <3> QED BY <3>1, <3>2, <3>3, <3>4
    <2>3. y \in Seq(Token) /\ Len(y) = 4 /\ y[1] = "DONE" /\ y[2] = "EOT" /\ y[3] = "DONE"
            /\ y[4] = "EOT"
      BY DEF Token
    <2> HIDE DEF x, y
    <2>4. \A i \in 1 .. 4 : x[i] = y[i]
      <3>1. \A i \in 1 .. 4 : i = 1 \/ i = 2 \/ i = 3 \/ i = 4
        OBVIOUS
      <3> QED BY <2>2, <2>3, <3>1
    <2>5. x = y
      BY <2>2, <2>3, <2>4, SeqEqual
    <2> QED BY <2>5 DEF x, y, TwoGroups
  <1>3. <<>> \notin {Group, Description, OneRow, Ack, Refusal, TwoGroups}
    BY DEF Group, Description, OneRow, Ack, Refusal, TwoGroups
  <1>4. /\ Group \notin {Description, OneRow, Ack, Refusal}
        /\ Ack \notin {Description, OneRow, Refusal}
        /\ Refusal \notin {Description, OneRow} /\ Description # OneRow
    BY DEF Group, Description, OneRow, Ack, Refusal
  <1>5. /\ Head(Ack) = "EOT" /\ Tail(Ack) = <<>>
        /\ Head(Refusal) = "ERR" /\ Tail(Refusal) = Ack
    BY DEF Ack, Refusal
  <1>6. Head(Description) = "DESCRIBE" /\ Tail(Description) = Group
    BY DEF Group, Description
  <1>7. Head(OneRow) = "TUPLE" /\ Tail(OneRow) = Group
    BY DEF Group, OneRow
  <1>8. Head(TwoGroups) = "DONE"
    BY DEF TwoGroups
  <1>9. Tail(TwoGroups) = <<"EOT", "DONE", "EOT">>
    BY DEF TwoGroups
  <1> QED BY <1>1, <1>2, <1>3, <1>4, <1>5, <1>6, <1>7, <1>8, <1>9, DropFacts

\* What arrives as one piece leaves nothing behind.
LEMMA WholeSeq ==
    ASSUME NEW s \in Seq(Token)
    PROVE  /\ <<>> \o s = s
           /\ SubSeq(s, 1, Len(s)) = s /\ SubSeq(s, Len(s) + 1, Len(s)) = <<>>
  OBVIOUS

\* All that can be on its way or unread between calls and in them.
Replies == {<<>>, Group, Ack, Refusal, Description, OneRow, TwoGroups}

\* They are sequences of tokens.
LEMMA ReplyTypes == Replies \subseteq Seq(Token)
  BY DEF Replies, Group, Ack, Refusal, Description, OneRow, TwoGroups, Token

\* Bytes that arrive or are read change neither the call nor the client nor the server.
LEMMA StillApplied ==
    ASSUME UNCHANGED <<pc, call, client, link, server>>
    PROVE  /\ Applied' <=> Applied
           /\ Unapplied' <=> Unapplied
           /\ Effect' = Effect
           /\ MayOwe' <=> MayOwe
           /\ UNCHANGED <<autocommit, inTx, epochs, isolation, hold, stmt>>
  <1>1. UNCHANGED <<autocommit, inTx, epochs, isolation, hold, stmt>>
    BY DEF client
  <1>2. Effect' = Effect
    BY DEF Effect, Ends
  <1>3. OwnerOf(call)' = OwnerOf(call)
    BY DEF OwnerOf
  <1>4. Applied' <=> Applied
    BY <1>1, <1>2, <1>3 DEF Applied
  <1>5. Unapplied' <=> Unapplied
    BY <1>1 DEF Unapplied
  <1> QED BY <1>1, <1>2, <1>4, <1>5 DEF MayOwe

\* Then the invariant holds if what is left to read is as it should be.
LEMMA StillAround ==
    ASSUME Core, UNCHANGED <<pc, call, client, link, server>>, pending' = pending,
           link = "down" => flight' = <<>>,
           Framed',
           pc = "PREPARE" /\ "select" \in server.handles => grp'.end = "OK"
             \/ (grp'.end = "open" /\ Answered')
    PROVE  Core'
  <1>0. UNCHANGED <<autocommit, inTx, epochs, isolation, hold, stmt>>
    BY DEF client
  <1>1. Underway'
    BY <1>0 DEF Core, Underway, Releasing, SelectQuery, NeedsBegin
  <1>2. Severed'
    BY DEF Core, Severed
  <1>3. SelectInQuery'
    BY DEF Core, SelectInQuery
  <1>4. CursorTracked'
    BY <1>0 DEF Core, CursorTracked, StillOpen
  <1> QED BY <1>1, <1>2, <1>3, <1>4 DEF Core

\* The states a reply can be in exclude each other.
LEMMA Exclusive ==
    /\ Refused => ~Answered /\ ~Lost /\ ~Waiting
    /\ Answered => ~Lost /\ ~Waiting
    /\ Lost => ~Waiting
  <1>1. \A s \in Answers : s # Refusal /\ s # <<>>
    BY ReplyFacts DEF Answers
  <1>2. Refused => ~Answered
    <2> SUFFICES ASSUME Refused, Answered PROVE FALSE
      OBVIOUS
    <2>1. \/ flight = Refusal /\ inbox = <<>>
          \/ flight = <<>> /\ inbox = Refusal
      BY DEF Refused, Sent
    <2> QED BY <1>1, <2>1, ReplyFacts DEF Answered, Sent
  <1>3. Refused => ~Lost /\ ~Waiting
    BY ReplyFacts DEF Refused, Sent, Lost, Silent, Waiting
  <1>4. Answered => ~Lost /\ ~Waiting
    BY <1>1, ReplyFacts DEF Answered, Sent, Lost, Silent, Waiting
  <1> QED BY <1>2, <1>3, <1>4 DEF Lost, Silent, Waiting

\* A reply arrives in one piece.
LEMMA ArriveCore ==
    ASSUME Types, Core, ~io, Arrive, "split" \notin Faults
    PROVE  Core' /\ (pc \in Request /\ Credit => Credit')
  <1>0. /\ flight # <<>> /\ UNCHANGED <<pc, call, client, link, server, grp, pending, outstanding>>
        /\ inbox' = inbox \o SubSeq(flight, 1, Len(flight))
        /\ flight' = SubSeq(flight, Len(flight) + 1, Len(flight))
    BY DEF Arrive
  <1>1. pc # "idle" /\ (pc \in Request \/ pc \in Draining)
    BY <1>0 DEF Core, Framed, Silent, Types, ProgressTypes
  <1>2. \/ flight \in Replies /\ inbox = <<>>
        \/ flight = Group /\ inbox = Group
    BY <1>0, <1>1 DEF Core, Framed, InReply, InTail, Waiting, Lost, Refused, Answered, Behind,
       Silent, Sent, Replies, Answers
  <1>3. flight' = <<>> /\ SubSeq(flight, 1, Len(flight)) = flight
    <2>1. Group \in Replies
      BY DEF Replies
    <2>2. flight \in Seq(Token)
      BY <1>2, <2>1, ReplyTypes
    <2> QED BY <1>0, <2>2, WholeSeq
  <1>4. \/ inbox = <<>> /\ inbox' = flight
        \/ flight = Group /\ inbox = Group /\ inbox' = TwoGroups
    BY <1>0, <1>2, <1>3, ReplyTypes, ReplyFacts, WholeSeq
  <1>5. \A s : Sent(s) => Sent(s)' /\ inbox' = s /\ inbox' # <<>>
    BY <1>0, <1>3, <1>4 DEF Sent
  <1>6. CASE pc \in Request
    <2>1. InReply
      BY <1>6 DEF Core, Framed
    <2>2. CASE grp.end = "open" /\ Refused
      <3>1. Refused'
        BY <1>0, <1>5, <2>2, StillApplied DEF Refused
      <3>2. ~(pc = "PREPARE" /\ "select" \in server.handles)
        BY <2>2, Exclusive DEF Core, SelectInQuery
      <3>3. Core'
        BY <1>0, <1>1, <1>6, <2>2, <3>1, <3>2, StillAround
           DEF Framed, InReply, Request, Draining, Core, Severed
      <3> QED BY <1>0, <2>2, <3>1, <3>3, Exclusive DEF Credit
    <2>3. CASE grp.end = "open" /\ Answered
      <3>1. Answered'
        <4>1. CASE \E s \in Answers :
                 Answer(s) /\ Sent(s) /\ Unread
          <5>1. PICK s \in Answers :
                   Answer(s) /\ Sent(s) /\ Unread
            BY <4>1
          <5>2. Answer(s)' /\ Sent(s)' /\ Unread'
            BY <1>0, <1>5, <5>1 DEF Answer, Unread
          <5> QED BY <1>0, <2>3, <5>2, StillApplied DEF Answered
        <4>2. CASE /\ MayOwe /\ ~server.owes /\ pc = "EXECUTE" /\ grp = NoGroup
                   /\ \/ Sent(TwoGroups)
                      \/ flight = Group /\ inbox = Group /\ link = "up"
          <5>1. Sent(TwoGroups)'
            BY <1>3, <1>4, <1>5, <4>2, ReplyFacts DEF Sent
          <5> QED BY <1>0, <2>3, <4>2, <5>1, StillApplied DEF Answered
        <4> QED BY <2>3, <4>1, <4>2 DEF Answered
      <3>2. Core'
        BY <1>0, <1>1, <1>6, <2>3, <3>1, StillAround
           DEF Framed, InReply, Request, Draining, Core, Severed
      <3> QED BY <1>0, <2>3, <3>1, <3>2, Exclusive DEF Credit
    <2>4. CASE grp.end = "OK" /\ pending = <<>> /\ Behind /\ Applied
                 /\ (pc = "PREPARE" => grp.described)
      <3>1. MayOwe /\ ~server.owes /\ Sent(Group)
        BY <1>0, <2>4 DEF Behind
      <3>2. Behind'
        BY <1>0, <1>5, <3>1, StillApplied DEF Behind
      <3>3. Framed'
        BY <1>0, <1>6, <2>4, <3>2, StillApplied DEF Framed, InReply, Request, Draining
      <3>4. Core'
        BY <1>0, <2>4, <3>3, StillAround DEF Core, Severed
      <3> QED BY <1>0, <2>4, <3>4 DEF Credit
    <2> QED BY <1>0, <2>1, <2>2, <2>3, <2>4 DEF InReply, Waiting, Lost, Silent
  <1>7. CASE pc \in Draining
    <2>1. InTail
      BY <1>7 DEF Core, Framed
    <2>2. grp = Poll /\ Behind
      BY <1>0, <2>1 DEF InTail, Lost, Silent
    <2>3. MayOwe /\ ~server.owes /\ Sent(Group)
      BY <1>0, <2>2 DEF Behind
    <2>4. Behind'
      BY <1>0, <1>5, <2>3, StillApplied DEF Behind
    <2>5. Framed'
      BY <1>0, <1>7, <2>1, <2>2, <2>4, StillApplied DEF Framed, InTail, Poll, Request, Draining
    <2> QED BY <1>0, <1>7, <2>5, StillAround DEF Core, Severed, Draining, Request
  <1> QED BY <1>1, <1>6, <1>7

\* The updates of a group of tokens keep the fields they do not name.
LEMMA GroupUpdates ==
    ASSUME NEW g \in GroupRecord
    PROVE  /\ \A x \in {"OK", "PROTO_ERROR"} : /\ [g EXCEPT !.end = x].end = x
                                               /\ [g EXCEPT !.end = x].described = g.described
           /\ \A x, y \in BOOLEAN : /\ [g EXCEPT !.described = x, !.rows = y].end = g.end
                                    /\ [g EXCEPT !.described = x, !.rows = y].described = x
                                    /\ [g EXCEPT !.described = x, !.rows = y].rows = y
  BY DEF GroupRecord

\* What one token of the reply does to the rest and to the group.
LEMMA ReadCases ==
    ASSUME ReadToken, grp \in GroupRecord
    PROVE  /\ Head(inbox) = "DONE" => /\ inbox' = DropEots(Tail(inbox))
                                      /\ grp'.end = "OK" /\ grp'.described = grp.described
           /\ Head(inbox) = "ERR" => /\ Tail(inbox) = Ack => inbox' = <<>>
                                     /\ grp'.end = "PROTO_ERROR"
           /\ Head(inbox) = "EOT" => /\ inbox' = Tail(inbox)
                                     /\ Tail(inbox) = <<>> /\ MayEnd(grp) =>
                                          grp'.end = "OK" /\ grp'.described = grp.described
           /\ Head(inbox) \in {"DESCRIBE", "TUPLE"} =>
                 /\ inbox' = Tail(inbox) /\ grp'.end = grp.end
                 /\ Head(inbox) = "DESCRIBE" => grp'.described
  <1>1. CASE Head(inbox) = "DONE"
    <2>1. inbox' = DropEots(Tail(inbox)) /\ grp' = [grp EXCEPT !.end = "OK"]
      BY <1>1 DEF ReadToken
    <2> QED BY <1>1, <2>1, GroupUpdates
  <1>2. CASE Head(inbox) = "ERR"
    <2>1. /\ grp' = [grp EXCEPT !.end = "PROTO_ERROR"]
          /\ inbox' = IF Tail(inbox) # <<>> /\ Head(Tail(inbox)) = "EOT"
                      THEN Tail(Tail(inbox)) ELSE Tail(inbox)
      BY <1>2 DEF ReadToken
    <2>2. Tail(inbox) = Ack => inbox' = <<>>
      BY <2>1, ReplyFacts
    <2> QED BY <1>2, <2>1, <2>2, GroupUpdates
  <1>3. CASE Head(inbox) = "EOT"
    <2>1. /\ inbox' = Tail(inbox)
          /\ grp' = IF Tail(inbox) = <<>> /\ MayEnd(grp) THEN [grp EXCEPT !.end = "OK"] ELSE grp
      BY <1>3 DEF ReadToken
    <2> QED BY <1>3, <2>1, GroupUpdates
  <1>4. CASE Head(inbox) \in {"DESCRIBE", "TUPLE"}
    <2>1. /\ inbox' = Tail(inbox)
          /\ grp' = [grp EXCEPT !.described = @ \/ Head(inbox) = "DESCRIBE",
                                !.rows = @ \/ Head(inbox) = "TUPLE"]
      BY <1>4 DEF ReadToken
    <2>2. /\ (grp.described \/ Head(inbox) = "DESCRIBE") \in BOOLEAN
          /\ (grp.rows \/ Head(inbox) = "TUPLE") \in BOOLEAN
      BY DEF GroupRecord
    <2>3. /\ grp'.end = grp.end
          /\ grp'.described = (grp.described \/ Head(inbox) = "DESCRIBE")
      BY <2>1, <2>2, GroupUpdates
    <2> QED BY <1>4, <2>1, <2>3
  <1> QED BY <1>1, <1>2, <1>3, <1>4

\* A token is read.
LEMMA ReadCore ==
    ASSUME Types, Core, ~io, ReadToken
    PROVE  Core' /\ (pc \in Request /\ Credit => Credit')
  <1>0. /\ inbox # <<>> /\ grp.end = "open" /\ pc # "idle" /\ (pc \in Request \/ pc \in Draining)
        /\ UNCHANGED <<pc, call, client, link, server, pending, flight, outstanding>>
        /\ grp \in GroupRecord
    BY DEF ReadToken, Reading, Types, ProgressTypes
  <1>1. CASE pc \in Draining
    <2>1. /\ InTail /\ Applied /\ pending = <<>>
          /\ MayOwe /\ ~server.owes /\ flight = <<>> /\ inbox = Group
      BY <1>0, <1>1 DEF Core, Framed, InTail, Lost, Silent, Poll, NoGroup
    <2>2. inbox' = <<>> /\ grp'.end = "OK"
      BY <1>0, <2>1, ReplyFacts, ReadCases
    <2>3. Framed'
      BY <1>0, <1>1, <2>1, <2>2, StillApplied DEF Framed, InTail, Silent, MayOwe, Request, Draining
    <2> QED BY <1>0, <1>1, <2>1, <2>3, StillAround DEF Draining, Request
  <1>2. CASE pc \in Request
    <2>1. InReply /\ ~Waiting /\ ~Lost
      BY <1>0, <1>2 DEF Core, Framed, Waiting, Lost, Silent
    <2>2. CASE Refused
      <3>1. flight = <<>> /\ inbox = Refusal
        BY <1>0, <2>2 DEF Refused, Sent
      <3>2. inbox' = <<>> /\ grp'.end = "PROTO_ERROR"
        BY <1>0, <3>1, ReplyFacts, ReadCases
      <3>3. Framed'
        BY <1>0, <1>2, <2>2, <3>1, <3>2, StillApplied
           DEF Framed, InReply, Refused, Silent, Request, Draining
      <3>4. ~(pc = "PREPARE" /\ "select" \in server.handles)
        BY <1>0, <2>2, Exclusive DEF Core, SelectInQuery
      <3>5. Core'
        BY <1>0, <3>1, <3>3, <3>4, StillAround
      <3> QED BY <1>0, <2>2, <3>2, <3>5, Exclusive DEF Credit
    <2>3. CASE Answered /\ \E s \in Answers :
                              Answer(s) /\ Sent(s) /\ Unread
      <3>1. PICK s \in Answers :
               Answer(s) /\ Sent(s) /\ Unread
        BY <2>3
      <3>2. inbox = s /\ flight = <<>> /\ pending = <<>> /\ Applied /\ (server.owes => MayOwe)
        BY <1>0, <2>3, <3>1 DEF Sent, Answered
      <3>3. CASE s \in {Description, OneRow}
        <4>1. /\ pc \in {"PREPARE", "FETCH"} /\ Head(inbox) \in {"DESCRIBE", "TUPLE"}
              /\ pc = "PREPARE" => Head(inbox) = "DESCRIBE"
              /\ Tail(inbox) = Group
          BY <3>1, <3>2, <3>3, ReplyFacts DEF Answer
        <4>3. inbox' = Group /\ grp'.end = "open" /\ (pc = "PREPARE" => grp'.described)
          BY <1>0, <4>1, ReadCases
        <4>4. Answer(Group)' /\ Sent(Group)' /\ Unread'
          BY <1>0, <3>2, <4>1, <4>3, ReplyFacts DEF Answer, Sent, Unread, Request
        <4>5. Answered'
          BY <1>0, <3>2, <4>4, StillApplied DEF Answered, Answers
        <4>6. Framed'
          BY <1>0, <1>2, <4>3, <4>5 DEF Framed, InReply, Request, Draining
        <4>7. Core'
          BY <1>0, <3>2, <4>3, <4>5, <4>6, StillAround
        <4> QED BY <1>0, <2>3, <4>3, <4>5, <4>7, Exclusive DEF Credit
      <3>4. CASE s \in {Group, Ack}
        <4>1. inbox' = <<>> /\ grp'.end = "OK" /\ grp'.described = grp.described
          <5>1. CASE s = Group
            BY <1>0, <3>2, <5>1, ReplyFacts, ReadCases
          <5>2. CASE s = Ack
            <6>1. pc \in {"OPEN", "CURSOR", "CLOSE", "RELEASE"}
              BY <3>1, <5>2, ReplyFacts DEF Answer
            <6>2. MayEnd(grp)
              BY <6>1 DEF MayEnd
            <6> QED BY <1>0, <3>2, <5>2, <6>2, ReplyFacts, ReadCases
          <5> QED BY <3>4, <5>1, <5>2
        <4>2. pc = "PREPARE" => grp.described
          BY <3>1, <3>4, ReplyFacts DEF Answer
        <4>3. Behind'
          BY <1>0, <3>2, <4>1, StillApplied DEF Behind
        <4>4. Framed'
          BY <1>0, <1>2, <3>2, <4>1, <4>2, <4>3, StillApplied DEF Framed, InReply, Request, Draining
        <4>5. Core'
          BY <1>0, <3>2, <4>1, <4>4, StillAround
        <4> QED BY <1>0, <2>3, <4>1, <4>5, Exclusive DEF Credit
      <3> QED BY <3>1, <3>3, <3>4 DEF Answers
    <2>4. CASE /\ Answered /\ MayOwe /\ ~server.owes /\ pc = "EXECUTE" /\ grp = NoGroup
               /\ \/ Sent(TwoGroups)
                  \/ flight = Group /\ inbox = Group /\ link = "up"
      <3>1. pending = <<>> /\ Applied
        BY <2>4 DEF Answered
      <3>2. /\ grp'.end = "OK"
            /\ \/ flight' = <<>> /\ inbox' = Group
               \/ flight' = Group /\ inbox' = <<>> /\ link = "up"
        BY <1>0, <2>4, ReplyFacts, ReadCases DEF Sent
      <3>3. Behind'
        BY <1>0, <2>4, <3>2, StillApplied DEF Behind, Sent
      <3>4. Framed'
        BY <1>0, <1>2, <2>4, <3>1, <3>2, <3>3, StillApplied DEF Framed, InReply, Request, Draining
      <3>5. Core'
        BY <1>0, <2>4, <3>4, StillAround DEF Core, Severed
      <3> QED BY <1>0, <2>4, <3>2, <3>5, Exclusive DEF Credit
    <2> QED BY <1>0, <2>1, <2>2, <2>3, <2>4 DEF InReply, Answered
  <1> QED BY <1>0, <1>1, <1>2

\* Only a request whose reply is waited for is pending.
LEMMA Pending ==
    ASSUME Types, Core, pending # <<>>
    PROVE  pc \in Request /\ Waiting
  BY DEF Core, Framed, InReply, InTail, Lost, Refused, Answered, Silent, Types, ProgressTypes

\* The server refuses the request.
LEMMA RefuseCore ==
    ASSUME Types, Core, ~io, Refuse
    PROVE  Core' /\ (pc \in Request /\ Credit => Credit')
  <1>0. /\ pending # <<>> /\ Head(pending).t # "RELEASE"
        /\ flight' = flight \o <<"ERR", "EOT">> /\ pending' = Tail(pending)
        /\ UNCHANGED <<pc, call, grp, client, inbox, link, server, outstanding>>
    BY DEF Refuse
  <1>1. pc \in Request /\ Waiting
    BY <1>0, Pending
  <1>2. pending' = <<>> /\ pc # "RELEASE"
    BY <1>0, <1>1 DEF Waiting
  <1>3. flight' = Refusal
    <2>1. Refusal \in Seq(Token)
      BY ReplyTypes DEF Replies
    <2> QED BY <1>0, <1>1, <2>1, WholeSeq DEF Waiting, Refusal
  <1>4. Refused'
    BY <1>0, <1>1, <1>2, <1>3, StillApplied DEF Refused, Waiting, Sent
  <1>5. Framed'
    BY <1>0, <1>1, <1>4 DEF Framed, InReply, Waiting, NoGroup, Request, Draining
  <1>6. ~(pc = "PREPARE" /\ "select" \in server.handles)
    BY <1>0, <1>1 DEF Core, SelectInQuery, Waiting, NoGroup, Answered
  <1>7. Underway'
    BY <1>0 DEF Core, Underway, Releasing, SelectQuery, NeedsBegin, client
  <1>8. Severed' /\ SelectInQuery' /\ CursorTracked'
    BY <1>0, <1>1, <1>6 DEF Core, Severed, SelectInQuery, CursorTracked, StillOpen, client, Waiting
  <1>9. Credit => Credit'
    BY <1>0, <1>1, <1>4, Exclusive DEF Credit, Waiting, NoGroup
  <1> QED BY <1>5, <1>7, <1>8, <1>9 DEF Core

\* What the peer changes on its own side leaves the call as it is.
LEMMA SameCall ==
    ASSUME Core, UNCHANGED <<pc, call, grp, client>>
    PROVE  /\ Underway' /\ Effect' = Effect /\ (MayOwe' <=> MayOwe)
           /\ OwnerOf(call)' = OwnerOf(call)
           /\ \A s : Answer(s)' <=> Answer(s)
           /\ UNCHANGED <<autocommit, inTx, epochs, isolation, hold, stmt>>
  <1>1. UNCHANGED <<autocommit, inTx, epochs, isolation, hold, stmt>>
    BY DEF client
  <1>2. Underway'
    BY <1>1 DEF Core, Underway, Releasing, SelectQuery, NeedsBegin
  <1> QED BY <1>1, <1>2 DEF Effect, Ends, MayOwe, OwnerOf, Answer

\* The server sends the second group it owes.
LEMMA SendOwedCore ==
    ASSUME Types, Core, ~io, SendOwed
    PROVE  Core' /\ (pc \in Request /\ Credit => Credit')
  <1>0. /\ server.owes /\ flight' = flight \o Group
        /\ server' = [server EXCEPT !.owes = FALSE]
        /\ UNCHANGED <<pc, call, grp, client, pending, inbox, link, outstanding>>
    BY DEF SendOwed, Group
  <1>1. /\ ~server'.owes
        /\ UNCHANGED <<server.tx, server.ended, server.level, server.handles, server.cursors, server.held>>
    BY <1>0 DEF Types, ProgressTypes, ServerRecord
  <1>2. link = "up" /\ pc # "idle" /\ (pc \in Request \/ pc \in Draining)
    BY <1>0 DEF Core, Severed, Framed, Silent, Types, ProgressTypes
  <1>3. /\ Underway' /\ Effect' = Effect /\ (MayOwe' <=> MayOwe)
        /\ OwnerOf(call)' = OwnerOf(call)
        /\ \A s : Answer(s)' <=> Answer(s)
        /\ UNCHANGED <<autocommit, inTx, epochs, isolation, hold, stmt>>
    BY <1>0, SameCall
  <1>4. Applied => Applied'
    BY <1>0, <1>1, <1>3 DEF Applied
  <1>5. flight = <<>> => flight' = Group
    BY <1>0, ReplyTypes, WholeSeq DEF Replies
  <1>6. flight = Group => flight' = TwoGroups
    BY <1>0, ReplyFacts
  <1>7. CASE pc \in Request
    <2>1. InReply
      BY <1>7 DEF Core, Framed
    <2>2. ASSUME grp.end = "open", Answered PROVE Framed' /\ (Credit => Credit')
      <3>1. MayOwe /\ pc = "EXECUTE" /\ pending = <<>> /\ Applied
        BY <1>0, <1>7, <2>2 DEF Answered, MayOwe, Request
      <3>2. PICK s \in Answers : Answer(s) /\ Sent(s) /\ Unread
        BY <1>0, <2>2 DEF Answered
      <3>3. s = Group /\ grp = NoGroup
        BY <3>1, <3>2 DEF Answer, Unread
      <3>4. \/ Sent(TwoGroups)'
            \/ flight' = Group /\ inbox' = Group /\ link' = "up"
        BY <1>0, <1>2, <1>5, <1>6, <3>2, <3>3 DEF Sent
      <3>5. Answered'
        BY <1>0, <1>1, <1>3, <1>4, <3>1, <3>3, <3>4 DEF Answered
      <3> QED BY <1>0, <1>7, <2>2, <3>5, Exclusive DEF Framed, InReply, Credit, Request, Draining
    <2>3. ASSUME grp.end = "OK", pending = <<>>, Behind, Applied, pc = "PREPARE" => grp.described
          PROVE  Framed' /\ (Credit => Credit')
      <3>1. MayOwe /\ flight = <<>> /\ inbox = <<>>
        BY <1>0, <2>3 DEF Behind
      <3>2. Behind'
        BY <1>0, <1>1, <1>2, <1>3, <1>5, <3>1 DEF Behind, Sent
      <3> QED BY <1>0, <1>4, <1>7, <2>3, <3>2 DEF Framed, InReply, Credit, Request, Draining
    <2>4. Framed' /\ (Credit => Credit')
      BY <1>0, <2>1, <2>2, <2>3 DEF InReply, Waiting, Lost, Refused, Silent
    <2>5. SelectInQuery'
      BY <1>0, <1>1, <1>7, <2>1 DEF Core, SelectInQuery, InReply, MayOwe, Answered, Behind,
         Waiting, Lost, Refused, Silent
    <2> QED BY <1>0, <1>1, <1>2, <1>3, <2>4, <2>5 DEF Core, Severed, CursorTracked, StillOpen
  <1>8. CASE pc \in Draining
    <2>1. InTail /\ grp = Poll /\ Behind /\ Applied /\ pending = <<>>
      BY <1>0, <1>8 DEF Core, Framed, InTail, Lost, Silent
    <2>2. MayOwe /\ flight = <<>> /\ inbox = <<>>
      BY <1>0, <2>1 DEF Behind
    <2>3. Behind'
      BY <1>0, <1>1, <1>2, <1>3, <1>5, <2>2 DEF Behind, Sent
    <2>4. Framed'
      BY <1>0, <1>4, <1>8, <2>1, <2>3 DEF Framed, InTail, Request, Draining
    <2>5. Severed' /\ SelectInQuery' /\ CursorTracked'
      BY <1>0, <1>1, <1>2, <1>3, <1>8 DEF Core, Severed, SelectInQuery, CursorTracked, StillOpen,
         Draining
    <2> QED BY <1>3, <1>8, <2>4, <2>5 DEF Core, Draining, Request
  <1> QED BY <1>2, <1>7, <1>8

\* The peer closes the connection.
LEMMA PeerClosesCore ==
    ASSUME Types, Core, ~io, PeerCloses
    PROVE  Core' /\ (pc \in Request /\ Credit => Credit')
  <1>0. /\ link = "up" /\ link' = "down" /\ pending' = <<>> /\ flight' = <<>>
        /\ server' = [server EXCEPT !.tx = FALSE, !.handles = {}, !.cursors = {}, !.held = {},
                                    !.owes = FALSE]
        /\ UNCHANGED <<pc, call, grp, client, inbox, outstanding>>
    BY DEF PeerCloses
  <1>1. ~server'.owes /\ server'.handles = {} /\ server'.cursors = {} /\ server'.held = {}
    BY <1>0 DEF Types, ProgressTypes, ServerRecord
  <1>2. /\ Underway' /\ (MayOwe' <=> MayOwe)
        /\ \A s : Answer(s)' <=> Answer(s)
    BY <1>0, SameCall
  <1>3. Severed' /\ SelectInQuery' /\ CursorTracked'
    BY <1>0, <1>1 DEF Severed, SelectInQuery, CursorTracked
  <1>4. Applied' /\ Unapplied'
    BY <1>0 DEF Applied, Unapplied
  <1>5. inbox = <<>> => Lost'
    BY <1>0, <1>1 DEF Lost, Silent
  <1>6. \A s : Sent(s) => inbox = <<>> \/ (inbox = s /\ Sent(s)')
    BY <1>0 DEF Sent
  <1>7. Framed' /\ (pc \in Request /\ Credit => Credit')
    <2>1. CASE pc = "idle"
      BY <1>0, <1>1, <1>4, <2>1 DEF Core, Framed, Silent, Request, Draining
    <2>2. CASE pc \in Request
      <3>1. InReply
        BY <2>2 DEF Core, Framed
      <3>2. CASE grp.end = "open" /\ Waiting
        BY <1>0, <1>5, <2>2, <3>2, Exclusive DEF Framed, InReply, Waiting, Credit, Request, Draining
      <3>3. CASE grp.end = "open" /\ Refused
        <4>1. Lost' \/ Refused'
          BY <1>0, <1>1, <1>4, <1>5, <1>6, <3>3 DEF Refused
        <4> QED BY <1>0, <2>2, <3>3, <4>1, Exclusive DEF Framed, InReply, Credit, Request, Draining
      <3>4. CASE grp.end = "open" /\ Answered
        <4>1. CASE \E s \in Answers : Answer(s) /\ Sent(s) /\ Unread
          <5>1. PICK s \in Answers : Answer(s) /\ Sent(s) /\ Unread
            BY <4>1
          <5>2. inbox = <<>> \/ (Answer(s)' /\ Sent(s)' /\ Unread')
            BY <1>0, <1>2, <1>6, <5>1 DEF Unread
          <5>3. Lost' \/ Answered'
            BY <1>0, <1>1, <1>4, <1>5, <5>2 DEF Answered
          <5> QED BY <1>0, <2>2, <3>4, <5>3, Exclusive DEF Framed, InReply, Credit, Request,
              Draining
        <4>2. CASE MayOwe /\ pc = "EXECUTE" /\ grp = NoGroup /\ Sent(TwoGroups)
          <5>1. Lost' \/ Answered'
            BY <1>0, <1>1, <1>2, <1>4, <1>5, <1>6, <4>2 DEF Answered
          <5> QED BY <1>0, <2>2, <3>4, <5>1, Exclusive DEF Framed, InReply, Credit, Request,
              Draining
        <4>3. CASE MayOwe /\ pc = "EXECUTE" /\ grp = NoGroup /\ inbox = Group
          <5>1. Answer(Group)' /\ Sent(Group)' /\ Unread'
            BY <1>0, <4>3, ReplyFacts DEF Answer, Sent, Unread, Request
          <5>2. Answered'
            BY <1>0, <1>1, <1>4, <5>1 DEF Answered, Answers
          <5> QED BY <1>0, <2>2, <3>4, <5>2, Exclusive DEF Framed, InReply, Credit, Request,
              Draining
        <4> QED BY <3>4, <4>1, <4>2, <4>3 DEF Answered
      <3>5. CASE grp.end = "OK" /\ Behind /\ (pc = "PREPARE" => grp.described)
        <4>1. Behind'
          BY <1>0, <1>1, <1>2, <3>5 DEF Behind, Sent
        <4> QED BY <1>0, <1>4, <2>2, <3>5, <4>1, Exclusive DEF Framed, InReply, Credit, Request,
            Draining
      <3>6. CASE grp.end = "PROTO_ERROR" /\ Silent /\ pc # "RELEASE"
        BY <1>0, <1>1, <1>4, <2>2, <3>6 DEF Framed, InReply, Silent, Credit, Request, Draining
      <3> QED BY <1>0, <3>1, <3>2, <3>3, <3>4, <3>5, <3>6 DEF InReply, Lost
    <2>3. CASE pc \in Draining
      <3>1. InTail
        BY <2>3 DEF Core, Framed
      <3>2. CASE grp = Poll /\ Behind
        <4>1. Behind'
          BY <1>0, <1>1, <1>2, <3>2 DEF Behind, Sent
        <4> QED BY <1>0, <1>4, <2>3, <3>2, <4>1 DEF Framed, InTail, Request, Draining
      <3>3. CASE grp = NoGroup /\ MayOwe /\ inbox = Group
        BY <1>0, <1>1, <1>2, <1>4, <2>3, <3>3 DEF Framed, InTail, Request, Draining
      <3>4. CASE pc = "execute_tail" /\ grp.end = "OK" /\ Silent
        BY <1>0, <1>1, <1>4, <3>4 DEF Framed, InTail, Silent, Request, Draining
      <3> QED BY <1>0, <3>1, <3>2, <3>3, <3>4 DEF InTail, Lost
    <2> QED BY <2>1, <2>2, <2>3 DEF Types, ProgressTypes
  <1> QED BY <1>2, <1>3, <1>7 DEF Core

\* The server accepts the request: its effect, its answer and what it may owe.
LEMMA AcceptCore ==
    ASSUME Types, Core, ~io, Accept
    PROVE  Core' /\ (pc \in Request \ Closing /\ Credit => Credit')
  <1> DEFINE r == [t |-> pc, kind |-> call.kind, level |-> call.level, owner |-> OwnerOf(call),
                   manual |-> ~autocommit, hold |-> hold, n |-> calls]
  <1>0. /\ pending # <<>> /\ ~server.owes /\ pending' = Tail(pending)
        /\ UNCHANGED <<pc, call, grp, client, inbox, link>>
    BY DEF Accept
  <1>1. pc \in Request /\ Waiting
    BY <1>0, Pending
  <1>2. Head(pending) = r /\ pending' = <<>>
    BY <1>0, <1>1 DEF Waiting
  <1>3. PICK rows \in BOOLEAN, owes \in BOOLEAN :
           /\ owes => r.t = "EXECUTE" /\ r.kind = "work"
           /\ server' = Accepting(r, rows, owes)
    BY <1>2 DEF Accept
  <1>4. flight' = flight \o ReplyTo(r)
    BY <1>2 DEF Accept
  <1>5. /\ r.t = pc /\ r.kind = call.kind /\ r.level = call.level /\ r.owner = OwnerOf(call)
             /\ r.hold = hold
        /\ link = "up" /\ grp = NoGroup /\ flight = <<>> /\ inbox = <<>> /\ Unapplied
    BY <1>1 DEF Waiting
  <1>6. Ends(r) = Effect /\ Effect \in {"none", "begin", "commit", "rollback"}
    BY <1>1, <1>5 DEF Ends, Effect, Request
  <1> HIDE DEF r
  <1>7. /\ server'.tx = IF Effect = "begin" THEN TRUE ELSE IF Effect = "none" THEN server.tx
               ELSE FALSE
        /\ server'.ended = IF Effect \in {"commit", "rollback"}
                           THEN [server.ended EXCEPT ![Effect] = @ + 1] ELSE server.ended
        /\ server'.level = IF pc = "EXECUTE" /\ call.level # "none"
                           THEN Granted(call.level) ELSE server.level
        /\ server'.owes = owes
    BY <1>3, <1>5, <1>6 DEF Accepting, Granted
  <1>8. server'.handles = IF pc = "PREPARE" THEN server.handles \cup {OwnerOf(call)}
                          ELSE IF pc = "RELEASE" THEN server.handles \ {OwnerOf(call)}
                          ELSE server.handles
    BY <1>3, <1>5 DEF Accepting
  <1>9. server'.cursors = IF pc = "OPEN" THEN server.cursors \cup {OwnerOf(call)}
                          ELSE IF pc \in {"CURSOR", "CLOSE", "RELEASE"} THEN server.cursors \ {OwnerOf(call)}
                          ELSE IF Effect = "commit" THEN server.cursors \cap server.held
                          ELSE IF Effect = "rollback" THEN {} ELSE server.cursors
    BY <1>3, <1>5, <1>6 DEF Accepting
  <1>10. server'.held = IF pc = "OPEN" /\ hold THEN server.held \cup {OwnerOf(call)}
                        ELSE IF pc \in {"CURSOR", "CLOSE", "RELEASE"} THEN server.held \ {OwnerOf(call)}
                        ELSE IF Effect = "rollback" THEN {} ELSE server.held
    BY <1>3, <1>5, <1>6 DEF Accepting
  <1>11. /\ Underway' /\ Effect' = Effect /\ (MayOwe' <=> MayOwe)
         /\ OwnerOf(call)' = OwnerOf(call)
         /\ \A s : Answer(s)' <=> Answer(s)
         /\ UNCHANGED <<autocommit, inTx, epochs, isolation, hold, stmt>>
    BY <1>0, SameCall
  <1>12. Applied'
    <2>1. call.op = "isolation" <=> call.level # "none"
      BY DEF Types, ProgressTypes
    <2>2. server.tx = inTx /\ server.ended = epochs /\ server.level = Granted(isolation)
      BY <1>5 DEF Unapplied
    <2>3. /\ server'.tx = IF Effect = "none" THEN inTx ELSE Effect = "begin"
          /\ server'.ended = IF Effect \in {"commit", "rollback"}
                             THEN [epochs EXCEPT ![Effect] = @ + 1] ELSE epochs
      BY <1>6, <1>7, <2>2
    <2>4. server'.level = Granted(IF pc = "EXECUTE" /\ call.op = "isolation" THEN call.level
              ELSE isolation)
      BY <1>7, <2>1, <2>2
    <2>5. /\ pc = "RELEASE" => OwnerOf(call) \notin server'.handles \cup server'.cursors
          /\ pc = "CURSOR" => OwnerOf(call) \notin server'.cursors
      BY <1>8, <1>9
    <2>6. pc # "execute_tail"
      BY <1>1 DEF Request
    <2> QED BY <1>0, <1>11, <2>3, <2>4, <2>5, <2>6 DEF Applied
  <1>13. server'.owes => MayOwe
    BY <1>3, <1>5, <1>7 DEF MayOwe
  <1>14. PICK s \in Answers : flight' = s /\ Answer(s)
    <2>1. ReplyTo(r) \in Answers /\ Answer(ReplyTo(r))
      <3>1. ~grp.described /\ ~grp.rows
        BY <1>5 DEF NoGroup
      <3>2. CASE pc = "PREPARE"
        <4>1. ReplyTo(r) = Description
          BY <1>5, <3>2 DEF ReplyTo, Description
        <4> QED BY <3>1, <3>2, <4>1 DEF Answer, Answers, Description
      <3>3. CASE pc \in {"OPEN", "CURSOR", "CLOSE", "RELEASE"}
        <4>1. ReplyTo(r) = Ack
          BY <1>5, <3>3 DEF ReplyTo, Ack
        <4> QED BY <3>3, <4>1 DEF Answer, Answers, Ack
      <3>4. CASE pc = "FETCH" /\ server.rows
        <4>1. ReplyTo(r) = OneRow
          BY <1>5, <3>4 DEF ReplyTo, OneRow
        <4> QED BY <3>1, <3>4, <4>1 DEF Answer, Answers, OneRow
      <3>5. CASE pc \notin {"PREPARE", "OPEN", "CURSOR", "CLOSE", "RELEASE"} /\ ~(pc = "FETCH"
                   /\ server.rows)
        <4>1. ReplyTo(r) = Group
          BY <1>5, <3>5 DEF ReplyTo, Group
        <4> QED BY <1>1, <3>5, <4>1 DEF Answer, Answers
      <3> QED BY <3>2, <3>3, <3>4, <3>5
    <2>2. Answers \subseteq Seq(Token)
      BY ReplyTypes DEF Replies, Answers
    <2>3. flight' = ReplyTo(r)
      BY <1>4, <1>5, <2>1, <2>2, WholeSeq
    <2> QED BY <2>1, <2>3
  <1>15. Answered'
    <2>1. Answer(s)' /\ Sent(s)' /\ Unread'
      BY <1>0, <1>5, <1>11, <1>14 DEF Sent, Unread
    <2> QED BY <1>2, <1>11, <1>12, <1>13, <2>1 DEF Answered
  <1>16. Framed'
    BY <1>0, <1>1, <1>5, <1>15 DEF Framed, InReply, NoGroup, Request, Draining
  <1>17. Severed'
    BY <1>0, <1>5 DEF Severed
  <1>18. /\ call.op \in {"execute", "stmt_close", "prepare", "batch"} => OwnerOf(call) = "stmt"
         /\ call.op \notin {"execute", "stmt_close", "prepare", "batch"} =>
               OwnerOf(call) = IF call.kind = "select" THEN "select" ELSE "direct"
    BY DEF OwnerOf
  <1>19. SelectInQuery'
    <2>1. pc = "PREPARE" => call.op \in {"prepare", "query", "isolation"}
            /\ (call.op = "isolation" => call.kind = "set")
      BY DEF Core, Underway
    <2>2. pc = "OPEN" => call.kind = "select" /\ call.op \in {"query", "execute"}
      BY DEF Core, Underway, SelectQuery
    <2>3. "select" \in server'.handles =>
            /\ call.op = "query" /\ call.kind = "select"
            /\ pc \in {"PREPARE", "BEGIN", "OPEN", "FETCH", "CLOSE", "close_tail", "RELEASE"}
      BY <1>8, <1>18, <2>1 DEF Core, SelectInQuery
    <2>4. "select" \in server'.cursors =>
             call.op = "query" /\ pc \in {"OPEN", "FETCH", "CLOSE", "close_tail", "RELEASE"}
      BY <1>9, <1>18, <2>2 DEF Core, SelectInQuery
    <2>5. "direct" \notin server'.cursors
      BY <1>9, <1>18, <2>2 DEF Core, SelectInQuery
    <2> QED BY <1>0, <1>5, <1>15, <2>3, <2>4, <2>5 DEF SelectInQuery, NoGroup
  <1>20. CursorTracked'
    <2>1. pc = "OPEN" /\ call.op = "execute" => stmt.open /\ stmt.epochs = server.ended
      BY <1>5 DEF Core, Underway, Unapplied
    <2>2. pc = "OPEN" => call.kind = "select" /\ call.op \in {"query", "execute"}
      BY DEF Core, Underway, SelectQuery
    <2>3. ~hold => server'.held = {}
      BY <1>10 DEF Core, CursorTracked
    <2>4. ASSUME "stmt" \in server'.cursors PROVE hold => "stmt" \in server'.held
      BY <1>9, <1>10, <2>4 DEF Core, CursorTracked
    <2>5. ASSUME "stmt" \in server'.cursors
          PROVE  StillOpen' \/ (call.op = "stmt_close" /\ pc \in {"CLOSE", "close_tail", "RELEASE"})
      <3>1. CASE pc = "OPEN" /\ OwnerOf(call) = "stmt"
        <4>1. call.op = "execute" /\ server'.ended = server.ended
          BY <1>7, <1>18, <2>2, <3>1 DEF Effect, Ends
        <4> QED BY <1>11, <2>1, <3>1, <4>1 DEF StillOpen
      <3>2. CASE ~(pc = "OPEN" /\ OwnerOf(call) = "stmt")
        <4>1. "stmt" \in server.cursors /\ Effect # "rollback"
          BY <1>9, <2>5, <3>2 DEF Effect, Ends
        <4>2. Effect = "commit" => hold
          BY <1>9, <2>5 DEF Core, CursorTracked, Effect, Ends
        <4>3. server'.ended.rollback = server.ended.rollback
          BY <1>6, <1>7, <4>1 DEF Types, ProgressTypes, ServerRecord, EpochRecord
        <4>4. Effect # "commit" => server'.ended = server.ended
          BY <1>6, <1>7, <4>1
        <4>5. StillOpen => StillOpen'
          BY <1>11, <4>2, <4>3, <4>4 DEF StillOpen
        <4> QED BY <4>1, <4>5 DEF Core, CursorTracked
      <3> QED BY <3>1, <3>2
    <2>6. pc # "cursor_tail"
      BY <1>1 DEF Request
    <2> QED BY <1>0, <1>11, <2>3, <2>4, <2>5, <2>6 DEF CursorTracked
  <1>21. pc \notin Closing => outstanding' = outstanding - 1
    BY <1>2, <1>5 DEF Accept, Closing, r
  <1>22. pc \in Request \ Closing /\ Credit => Credit'
    BY <1>0, <1>1, <1>5, <1>15, <1>21, Exclusive DEF Credit, NoGroup
  <1> QED BY <1>11, <1>16, <1>17, <1>19, <1>20, <1>22 DEF Core

-----------------------------------------------------------------------------
\* An opened session satisfies the invariant.
LEMMA InitInv == Init => IInv
  <1> SUFFICES ASSUME Init PROVE IInv
    OBVIOUS
  <1>1. /\ pc = "idle" /\ call = NoCall /\ Silent /\ link = "up" /\ stmt = NoStmt
        /\ server.handles = {} /\ server.cursors = {} /\ server.held = {}
        /\ server.tx = inTx /\ server.ended = epochs /\ server.level = Granted(isolation)
    BY DEF Init, Silent, Granted
  <1>2. Underway
    BY <1>1, CallFacts DEF Underway, Releasing
  <1>3. Framed
    BY <1>1 DEF Framed, Unapplied, Request, Draining
  <1>4. Severed /\ SelectInQuery /\ CursorTracked
    BY <1>1 DEF Severed, SelectInQuery, CursorTracked
  <1> QED BY <1>2, <1>3, <1>4, InitTypes DEF IInv, Core

\* The application gives a session up after an I/O error, and nothing forgets it.
LEMMA ErrorStays ==
    ASSUME io, [Next]_vars
    PROVE  io'
  <1>1. /\ \A t, c, b : Send(t, c, b) => io'
        /\ \A t, c : Go(t, c) => io'
        /\ \A s : Return(s) => io'
        /\ \A t : Drain(t) => io'
    BY DEF Send, Go, Return, Drain
  <1>2. /\ \A c : Main(c) => io'
        /\ \A s : Fail(s) => io'
        /\ \A s, left : NextRow(s, left) => io'
    BY <1>1 DEF Main, Fail, NextRow
  <1>3. (Executed => io') /\ (CursorClosed => io')
    BY <1>1, <1>2 DEF Executed, CursorClosed
  <1>4. CASE Application
    BY <1>4 DEF Application, Begin, Commit, Rollback, Savepoint, SetAutocommit, SetIsolation,
       Query, Prepare, Execute, Batch, StmtClose, Enter, Reject
  <1>5. CASE ReadToken \/ ReadFails \/ Peer \/ Arrive \/ PeerCloses
    BY <1>5 DEF ReadToken, ReadFails, Peer, Accept, Refuse, SendOwed, Arrive, PeerCloses
  <1>6. CASE AfterPrepare \/ AfterBegin \/ AfterTransaction
    BY <1>1, <1>2, <1>6 DEF AfterPrepare, AfterBegin, AfterTransaction
  <1>7. CASE AfterOpenOrFetch \/ AfterCursor \/ AfterClose \/ AfterExecute
    BY <1>1, <1>2, <1>7 DEF AfterOpenOrFetch, AfterCursor, AfterClose, AfterExecute
  <1>8. CASE Tailing
    <2>1. AfterTail /\ pc \in Draining => io'
      BY <1>1, <1>3 DEF AfterTail, Draining
    <2> QED BY <1>1, <1>8, <2>1 DEF Tailing
  <1>9. CASE UNCHANGED vars
    BY <1>9 DEF vars
  <1> QED BY <1>4, <1>5, <1>6, <1>7, <1>8, <1>9 DEF Next, Library

\* Every step keeps the invariant, if no reply is split.
LEMMA StepInv ==
    ASSUME IInv, [Next]_vars, "split" \notin Faults
    PROVE  IInv'
  <1>1. Types /\ Types'
    BY NextTypes DEF IInv
  <1>2. ASSUME ~io' PROVE Core'
    <2>1. ~io
      BY <1>2, ErrorStays
    <2>2. Core
      BY <2>1 DEF IInv
    <2>3. CASE Application
      BY <1>1, <1>2, <2>1, <2>2, <2>3, EntryCore
    <2>4. CASE AfterPrepare \/ AfterBegin \/ AfterTransaction \/ AfterOpenOrFetch \/ AfterCursor
               \/ AfterClose \/ AfterExecute \/ Tailing
      BY <1>1, <1>2, <2>1, <2>2, <2>4, PrepareCore, BeginCore, TransactionCore, OpenOrFetchCore,
         CloseCore, ExecuteCore, TailCore
    <2>5. CASE ReadToken \/ Arrive \/ Accept \/ Refuse \/ SendOwed \/ PeerCloses
      BY <1>1, <2>1, <2>2, <2>5, ReadCore, ArriveCore, AcceptCore, RefuseCore, SendOwedCore,
         PeerClosesCore
    <2>6. CASE ReadFails
      BY <1>2, <2>6 DEF ReadFails
    <2>7. CASE UNCHANGED vars
      <3>1. UNCHANGED <<pc, call, grp, client, pending, flight, inbox, link, server, calls>>
        BY <2>7 DEF vars, wire
      <3>2. Underway' /\ (\A s : Answer(s)' <=> Answer(s))
        BY <2>2, <3>1, SameCall
      <3>3. /\ (Applied' <=> Applied) /\ (Unapplied' <=> Unapplied) /\ (MayOwe' <=> MayOwe)
            /\ UNCHANGED <<autocommit, inTx, epochs, isolation, hold, stmt>>
        BY <3>1, StillApplied
      <3>4. OwnerOf(call)' = OwnerOf(call)
        BY <3>1 DEF OwnerOf
      <3>5. \A s : Sent(s)' <=> Sent(s)
        BY <3>1 DEF Sent
      <3>6. /\ Waiting' <=> Waiting
            /\ Refused' <=> Refused
            /\ Silent' <=> Silent
            /\ Behind' <=> Behind
        BY <3>1, <3>3, <3>4, <3>5 DEF Waiting, Refused, Silent, Behind
      <3>7. Answered' <=> Answered
        BY <3>1, <3>2, <3>3, <3>5 DEF Answered, Unread
      <3>8. Framed'
        BY <2>2, <3>1, <3>3, <3>6, <3>7 DEF Core, Framed, InReply, InTail, Lost
      <3>9. Severed' /\ SelectInQuery' /\ CursorTracked'
        BY <2>2, <3>1, <3>3, <3>7 DEF Core, Severed, SelectInQuery, CursorTracked, StillOpen
      <3> QED BY <3>2, <3>8, <3>9 DEF Core
    <2> QED BY <2>3, <2>4, <2>5, <2>6, <2>7 DEF Next, Library, Peer
  <1> QED BY <1>1, <1>2 DEF IInv

\* So it holds throughout.
LEMMA InvHolds ==
    ASSUME "split" \notin Faults
    PROVE  Spec => []IInv
  <1>1. Init => IInv
    BY InitInv
  <1>2. IInv /\ [Next]_vars => IInv'
    BY StepInv
  <1> QED BY <1>1, <1>2, PTL DEF Spec

\* InStep (Session.tla): when a call returns nothing of its reply, or of an earlier one,
\* is left for the next call to read (sqli_receive_dispatch, drain_extra_groups), for
\* every mix of calls, refusals, second groups, lost connections and timeouts, unless
\* the 20 ms poll overtakes the rest of a reply that comes in pieces.
THEOREM BetweenCalls ==
    ASSUME "split" \notin Faults
    PROVE  Spec => []InStep
  <1>1. IInv => InStep
    BY DEF IInv, Core, Framed, Silent, InStep
  <1> QED BY <1>1, InvHolds, PTL

\* MirrorTruthful (Session.tla): between calls in_transaction, the two epochs and the
\* isolation level are the server's, however the transaction was opened or ended and
\* whichever request was refused (sqli_track_transaction_statement, sqli_begin,
\* sqli_commit, sqli_rollback, sqli_set_isolation).
THEOREM TruthfulMirror ==
    ASSUME "split" \notin Faults
    PROVE  Spec => []MirrorTruthful
  <1>1. IInv => MirrorTruthful
    BY DEF IInv, Core, Framed, Unapplied, Granted, MirrorTruthful
  <1> QED BY <1>1, InvHolds, PTL

\* SelectReleased (Session.tla): no direct SELECT leaves its statement on the server,
\* whichever step of it was refused (sqli_result_destroy on the error paths of
\* sqli_query).
THEOREM SelectsReleased ==
    ASSUME "split" \notin Faults
    PROVE  Spec => []SelectReleased
  <1>1. IInv => SelectReleased
    BY DEF IInv, Core, SelectInQuery, SelectReleased
  <1> QED BY <1>1, InvHolds, PTL
-----------------------------------------------------------------------------
(***************************************************************************)
(* A session in which replies are late: what SQLI_OK means, and in which   *)
(* order the server processes what it is sent.                             *)
(*                                                                         *)
(* The invariant above gives a session up at its first I/O error.  The     *)
(* second invariant goes on from there: the call in progress still         *)
(* returns, its requests and the ones that close what it had opened may    *)
(* still be processed, and the counter of what it owes still moves.        *)
(***************************************************************************)
\* A request that works on data, for which sqli_autobegin opens a transaction.
Data(r) == r.t \in {"EXECUTE", "OPEN"} /\ r.kind \in {"select", "work"}

\* The requests the server has yet to process.  Only closing requests are sent while
\* another waits (after a reply that did not come in time); an OPEN finds no cursor open,
\* and data is worked on inside a transaction in manual mode.
Queue ==
    \A i \in DOMAIN pending :
       /\ i > 1 => pending[i].t \in Closing
       /\ pending[i].t = "OPEN" => pending[i].owner \notin server.cursors
       /\ Data(pending[i]) /\ pending[i].manual => server.tx

\* Nothing but closing requests is left to process.
OnlyClosing == \A i \in DOMAIN pending : pending[i].t \in Closing

\* The connection is closed and all that had arrived has been read.
Dead == link = "down" /\ inbox = <<>> /\ pending = <<>> /\ flight = <<>>

\* Where a call can be after an I/O error: on its way out, giving back what it had
\* opened, or on a dead connection, where every read fails at once.
Late ==
    /\ call.op \in Ops \cup {"none"}
    /\ link = "down" => pending = <<>> /\ flight = <<>> /\ ~server.owes
    /\ io => "late" \in Faults \/ Dead
    /\ io => \/ pc = "idle" \/ Releasing
             \/ pc \in Request /\ grp.end = "IO_ERROR"
             \/ pc \in {"CURSOR", "cursor_tail"} /\ call.status # "OK"
             \/ Dead /\ (pc \in Request => grp.end = "open")

\* SQLI_OK, returned or about to be, has been earned: every request that counts has been
\* accepted.
Earned ==
    /\ pc = "idle" /\ out = "OK" => outstanding = 0 /\ OnlyClosing
    /\ pc \in Closing \cup Draining /\ call.status = "OK" => outstanding = 0 /\ OnlyClosing
    /\ pc \notin Closing \cup {"cursor_tail", "close_tail", "release_tail"} => call.status = "OK"
    /\ ~io /\ pc \in Request \ Closing => Credit

\* The second inductive invariant, on top of the first.
IInv2 == Queue /\ Late /\ Earned

\* A batch takes a BEGIN whose reply is late for a refused row when the last execution
\* failed (stmt->saw_error), and goes on; its items then say nothing of what the server
\* still does.  So either replies are in time or there are no batches.
BatchesInTime == "late" \notin Faults \/ "batch" \notin Ops

-----------------------------------------------------------------------------
\* What the first invariant already says of these.
Settled ==
    /\ Queue
    /\ (pc \in Request /\ pc \notin Closing) \/ OnlyClosing
    /\ link = "down" => pending = <<>> /\ flight = <<>> /\ ~server.owes

\* It says it.
LEMMA CoreQueue == Types /\ Core => Settled
  <1> SUFFICES ASSUME Types, Core PROVE Settled
    OBVIOUS
  <1>1. CASE pending = <<>>
    BY <1>1 DEF Settled, Queue, OnlyClosing, Core, Severed
  <1>2. CASE pending # <<>>
    <2>1. pc \in Request /\ Waiting
      BY <1>2, Pending
    <2>2. DOMAIN pending = {1} /\ pending[1].t = pc /\ pending[1].kind = call.kind
          /\ pending[1].owner = OwnerOf(call) /\ pending[1].manual = ~autocommit
      BY <2>1 DEF Waiting
    <2>3. pc \in {"OPEN", "EXECUTE"} => ~NeedsBegin(call)
      BY DEF Core, Underway
    <2>4. server.tx = inTx /\ (pc = "OPEN" => OwnerOf(call) \notin server.cursors)
      BY <2>1 DEF Waiting, Unapplied
    <2>5. Data(pending[1]) /\ pending[1].manual => server.tx
      <3>1. (autocommit = TRUE \/ autocommit = FALSE) /\ (inTx = TRUE \/ inTx = FALSE)
        BY DEF Types, ClientTypes
      <3>2. Data(pending[1]) => inTx \/ autocommit
        BY <2>2, <2>3 DEF Data, NeedsBegin
      <3> QED BY <2>2, <2>4, <3>1, <3>2
    <2>6. pending[1].t = "OPEN" => pending[1].owner \notin server.cursors
      BY <2>2, <2>4
    <2>7. Queue
      <3>1. \A i \in DOMAIN pending : i = 1
        BY <2>2
      <3> QED BY <2>5, <2>6, <3>1 DEF Queue
    <2> QED BY <2>1, <2>2, <2>7 DEF Settled, OnlyClosing, Closing, Core, Severed
  <1> QED BY <1>1, <1>2

\* A call returns with what it has earned,
LEMMA FinishLate ==
    ASSUME Types, IInv2, NEW s \in Status, NEW left, Finish(s, left),
           s = "OK" => left = 0 /\ OnlyClosing, io' => io \/ Dead
    PROVE  IInv2'
  <1>1. /\ pc' = "idle" /\ call' = NoCall /\ out' = s /\ outstanding' = left
        /\ UNCHANGED <<pending, flight, inbox, link, server>>
    BY DEF Finish, wire
  <1>2. Queue' /\ (OnlyClosing' <=> OnlyClosing)
    BY <1>1 DEF IInv2, Queue, OnlyClosing
  <1>3. Late'
    BY <1>1, CallFacts DEF IInv2, Late, Dead
  <1>4. Earned'
    BY <1>1, <1>2, CallFacts DEF Earned, Closing, Draining, Request
  <1> QED BY <1>2, <1>3, <1>4 DEF IInv2

\* or without more ado.
LEMMA ReturnLate ==
    ASSUME Types, IInv2, NEW s \in Status, Return(s), s = "OK" => outstanding = 0 /\ OnlyClosing
    PROVE  IInv2'
  BY FinishLate DEF Return, Types, ProgressTypes

\* A drain starts, or goes on.
LEMMA DrainLate ==
    ASSUME Types, IInv2, NEW t \in Draining, Drain(t),
           call.status = "OK" => outstanding = 0 /\ OnlyClosing,
           t \in {"resync", "execute_tail"} => call.status = "OK",
           io => \/ t \in {"close_tail", "release_tail"}
                 \/ t = "cursor_tail" /\ call.status # "OK"
                 \/ link = "down" /\ inbox = <<>>
    PROVE  IInv2'
  <1>1. /\ pc' = t
        /\ UNCHANGED <<call, out, pending, flight, inbox, link, server, outstanding, io>>
    BY DEF Drain, wire
  <1>2. Queue' /\ (OnlyClosing' <=> OnlyClosing)
    BY <1>1 DEF IInv2, Queue, OnlyClosing
  <1>3. Late'
    BY <1>1 DEF IInv2, Late, Dead, Releasing, Draining, Request
  <1>4. Earned'
    BY <1>1, <1>2 DEF Earned, Draining, Closing, Request
  <1> QED BY <1>2, <1>3, <1>4 DEF IInv2

\* A request is sent: on a quiet session, or a closing one behind others, or in vain.
LEMMA SendLate ==
    ASSUME IInv, IInv', IInv2, NEW t \in Request, NEW c \in CallRecord, NEW b, Send(t, c, b),
           c.op \in Ops \cup {"none"}, t \notin Closing => c.status = "OK",
           t \in Closing /\ c.status = "OK" => b = 0 /\ (io => OnlyClosing),
           ~io => Silent /\ (t \notin Closing => b = 0),
           io => \/ t \in {"CLOSE", "RELEASE"}
                 \/ t = "CURSOR" /\ c.status # "OK"
                 \/ link = "down" /\ inbox = <<>>
    PROVE  IInv2'
  <1>0. Types /\ Types'
    BY DEF IInv
  <1>1. /\ pc' = t /\ call' = c /\ grp' = NoGroup
        /\ outstanding' = b + IF t \in Closing THEN 0 ELSE 1
        /\ UNCHANGED <<out, flight, inbox, link, server, io>>
    BY DEF Send, Closing
  <1>2. CASE ~io
    <2>1. Core'
      BY <1>1, <1>2 DEF IInv
    <2>0. (Types /\ Core => Settled)'
      BY CoreQueue, PTL
    <2>2. /\ Queue'
          /\ t \in Closing => OnlyClosing'
          /\ link' = "down" => pending' = <<>> /\ flight' = <<>> /\ ~server'.owes
      BY <1>1, <2>0, <2>1, <1>0 DEF Settled, Closing
    <2>3. Late'
      BY <1>1, <1>2, <2>2 DEF Late, Dead
    <2>4. t \notin Closing => Credit'
      <3>1. InReply'
        BY <1>1, <2>1 DEF Core, Framed
      <3>2. flight' = <<>> /\ inbox' = <<>> /\ grp'.end = "open"
        BY <1>1, <1>2 DEF Silent, NoGroup
      <3>3. Waiting' \/ Lost'
        BY <3>1, <3>2, ReplyFacts DEF InReply, Refused, Answered, Sent, Answers
      <3> QED BY <1>1, <1>2, <3>2, <3>3 DEF Credit
    <2>5. Earned'
      BY <1>1, <1>2, <2>2, <2>4 DEF Earned, Request, Draining, Closing
    <2> QED BY <2>2, <2>3, <2>5 DEF IInv2
  <1>3. CASE io /\ link = "up"
    <2> DEFINE r == [t |-> t, kind |-> c.kind, level |-> c.level,
                     owner |-> OwnerOf(c), manual |-> ~autocommit, hold |-> hold, n |-> calls']
    <2>1. pending' = Append(pending, r) /\ pending \in Seq(RequestRecord)
      BY <1>0, <1>3 DEF Send, Types, ProgressTypes
    <2>2. r.t = t /\ t \in Closing
      BY <1>3 DEF Closing
    <2> HIDE DEF r
    <2>3. /\ DOMAIN pending = 1 .. Len(pending) /\ Len(pending) \in Nat
          /\ DOMAIN pending' = 1 .. Len(pending) + 1
          /\ \A i \in 1 .. Len(pending) : pending'[i] = pending[i]
          /\ pending'[Len(pending) + 1] = r
      BY <2>1
    <2>4. \A i \in DOMAIN pending' : i \in DOMAIN pending \/ pending'[i].t \in Closing
      BY <2>2, <2>3
    <2>5. \A x \in Closing : x \notin {"OPEN", "EXECUTE"}
      BY DEF Closing
    <2>6. Queue'
      BY <1>1, <2>3, <2>4, <2>5 DEF IInv2, Queue, Data
    <2>7. OnlyClosing => OnlyClosing'
      BY <2>3, <2>4 DEF OnlyClosing
    <2>8. Late'
      BY <1>1, <1>3 DEF IInv2, Late, Dead, Releasing
    <2>9. Earned'
      BY <1>1, <1>3, <2>2, <2>7 DEF Earned, Draining, Closing
    <2> QED BY <2>6, <2>8, <2>9 DEF IInv2
  <1>4. CASE io /\ link = "down"
    <2>1. pending' = <<>> /\ flight' = <<>> /\ ~server'.owes
      BY <1>1, <1>4 DEF Send, IInv2, Late
    <2>2. Queue' /\ OnlyClosing'
      BY <2>1 DEF Queue, OnlyClosing
    <2>3. Late'
      BY <1>1, <1>4, <2>1 DEF IInv2, Late, Dead, Releasing, NoGroup
    <2>4. Earned'
      BY <1>1, <1>4, <2>2 DEF Earned, Request, Draining, Closing
    <2> QED BY <2>2, <2>3, <2>4 DEF IInv2
  <1> QED BY <1>0, <1>2, <1>3, <1>4 DEF Types, ProgressTypes

-----------------------------------------------------------------------------
\* What is known when a reply has been read or its read has failed.
LEMMA ReplyEnded ==
    ASSUME IInv, IInv2, pc \in Request, grp.end # "open"
    PROVE  /\ grp.end \in {"OK", "PROTO_ERROR", "IO_ERROR", "poll"} /\ (~io => grp.end # "poll")
           /\ ~io => grp.end # "IO_ERROR"
           /\ pc \notin Closing => /\ call.status = "OK"
                                   /\ grp.end = "OK" => ~io /\ outstanding = 0 /\ OnlyClosing
                                   /\ grp.end = "PROTO_ERROR" => ~io /\ outstanding = 1
           /\ pc \in Closing /\ call.status = "OK" => outstanding = 0 /\ OnlyClosing
           /\ ~io => pending = <<>> /\ (pc # "EXECUTE" \/ grp.end = "PROTO_ERROR" => Silent)
           /\ io /\ "late" \notin Faults => Dead
           /\ pc = "CURSOR" /\ io => call.status # "OK" \/ grp.end = "IO_ERROR"
  <1>0. Types /\ pc # "idle" /\ grp.end \in {"OK", "PROTO_ERROR", "IO_ERROR", "poll"}
    BY DEF IInv, Types, ProgressTypes, GroupRecord, Request
  <1>1. ~io => /\ InReply /\ Core /\ grp.end \in {"OK", "PROTO_ERROR"}
               /\ pending = <<>>
    BY DEF IInv, Core, Framed, InReply, Silent
  <1>2. ~io /\ (pc # "EXECUTE" \/ grp.end = "PROTO_ERROR") => Silent
    BY <1>0, <1>1, AnswerRead DEF InReply
  <1>3. ~io => OnlyClosing
    BY <1>1 DEF OnlyClosing
  <1>4. pc \notin Closing => call.status = "OK"
    BY DEF IInv2, Earned, Request
  <1>5. pc \notin Closing /\ grp.end \in {"OK", "PROTO_ERROR"} => ~io
    BY <1>0 DEF IInv2, Late, Releasing, Closing, Request
  <1>6. ~io /\ pc \notin Closing => Credit
    BY DEF IInv2, Earned
  <1>7. pc = "CURSOR" /\ io => call.status # "OK" \/ grp.end = "IO_ERROR"
    BY <1>0 DEF IInv2, Late, Releasing, Request
  <1> QED BY <1>0, <1>1, <1>2, <1>3, <1>4, <1>5, <1>6, <1>7 DEF Credit, IInv2, Late, Earned

\* A call goes on with its next request.
LEMMA GoLate ==
    ASSUME IInv, IInv', IInv2, NEW t \in Request, NEW c \in CallRecord, Go(t, c),
           c.op \in Ops \cup {"none"}, t \notin Closing => c.status = "OK",
           c.status = "OK" => outstanding = 0 /\ OnlyClosing,
           ~io => Silent,
           io => \/ t \in {"CLOSE", "RELEASE"}
                 \/ t = "CURSOR" /\ c.status # "OK"
                 \/ link = "down" /\ inbox = <<>>
    PROVE  IInv2'
  BY SendLate DEF Go

\* A batch goes on to its next row, or is over.
LEMMA NextRowLate ==
    ASSUME IInv, IInv', IInv2, NEW s, NEW left, NextRow(s, left), left = 0, OnlyClosing,
           call.status = "OK", ~io => Silent, io => Dead
    PROVE  IInv2'
  <1> DEFINE c == [call EXCEPT !.row = @ + 1]
  <1>0. Types /\ call \in CallRecord /\ call.op \in Ops \cup {"none"}
    BY DEF IInv, IInv2, Late, Types, ProgressTypes
  <1>1. c \in CallRecord /\ c.op = call.op /\ c.status = call.status
    BY <1>0, CallUpdates DEF Updates, CallRecord
  <1>2. Starting(call) \in Request \ Closing
    BY DEF Starting, Request, Closing
  <1> HIDE DEF c
  <1>3. CASE Send(Starting(call), c, left)
    BY <1>0, <1>1, <1>2, <1>3, SendLate DEF Dead
  <1>4. CASE Finish("OK", left) /\ (io' = io \/ (io' = TRUE /\ link = "down"))
    <2>1. io' => io \/ Dead
      BY <1>4 DEF Dead, Silent
    <2> QED BY <1>0, <1>4, <2>1, FinishLate DEF Status
  <1> QED BY <1>3, <1>4 DEF NextRow, SendsFail, c

\* An error path closes what the call has opened, and its status is not SQLI_OK.
LEMMA FailLate ==
    ASSUME IInv, IInv', IInv2, UNCHANGED client, pc \in Request, pc # "EXECUTE", pc \notin Closing,
           grp.end \in {"PROTO_ERROR", "IO_ERROR"}, Fail(grp.end)
    PROVE  IInv2'
  <1> DEFINE c == [call EXCEPT !.status = grp.end]
  <1>0. Types /\ call \in CallRecord /\ call.op \in Ops \cup {"none"}
        /\ grp.end \in Status /\ grp.end # "OK" /\ (~io => Silent)
    BY ReplyEnded DEF IInv, IInv2, Late, Types, ProgressTypes, Status
  <1>1. c \in CallRecord /\ c.op = call.op /\ c.status = grp.end
    BY <1>0, CallUpdates DEF Updates, CallRecord
  <1>2. Go("CLOSE", c) \/ Go("CURSOR", c) \/ Return(grp.end)
    BY DEF Fail
  <1> HIDE DEF c
  <1>3. CASE Go("CLOSE", c)
    BY <1>0, <1>1, <1>3, GoLate DEF Request, Closing
  <1>4. CASE Go("CURSOR", c)
    BY <1>0, <1>1, <1>4, GoLate DEF Request, Closing
  <1>5. CASE Return(grp.end)
    BY <1>0, <1>5, ReturnLate
  <1> QED BY <1>2, <1>3, <1>4, <1>5

\* The open or execute after an accepted PREPARE or BEGIN.
LEMMA MainLate ==
    ASSUME IInv, IInv', IInv2, NEW c \in CallRecord, Main(c),
           c.op \in Ops \cup {"none"}, c.status = "OK", outstanding = 0, OnlyClosing, ~io, Silent
    PROVE  IInv2'
  BY GoLate DEF Main, Request, Closing

\* Nothing has changed but a status that is not SQLI_OK.
LEMMA SameLate ==
    ASSUME IInv2, out' = out \/ out' # "OK",
           UNCHANGED <<pending, flight, inbox, link, pc, call, grp, server, outstanding, io>>,
           pc \in Request /\ Credit => Credit'
    PROVE  IInv2'
  <1>1. Queue' /\ (OnlyClosing' <=> OnlyClosing)
    BY DEF IInv2, Queue, OnlyClosing
  <1>2. Late'
    BY DEF IInv2, Late, Releasing, Dead
  <1>3. Earned'
    BY <1>1 DEF IInv2, Earned
  <1> QED BY <1>1, <1>2, <1>3 DEF IInv2

\* A row of a batch is refused, or lost with its connection, and the batch goes on.
LEMMA RowFailed ==
    ASSUME IInv, IInv', IInv2, BatchesInTime, pc \in Request, pc \notin Closing,
           grp.end \in {"PROTO_ERROR", "IO_ERROR"}, pc # "EXECUTE" \/ grp.end = "PROTO_ERROR",
           call.op = "batch", NextRow(TRUE, Reported)
    PROVE  IInv2'
  <1>1. /\ call.status = "OK" /\ (~io => pending = <<>> /\ Silent /\ grp.end # "IO_ERROR")
        /\ grp.end = "PROTO_ERROR" => ~io /\ outstanding = 1
        /\ io /\ "late" \notin Faults => Dead
    BY ReplyEnded
  <1>2. io => Dead
    BY <1>1, SessionAssumption DEF BatchesInTime, IInv2, Late
  <1>3. Reported = 0
    BY <1>1 DEF Reported
  <1>4. OnlyClosing
    BY <1>1, <1>2 DEF Dead, OnlyClosing
  <1> QED BY <1>1, <1>2, <1>3, <1>4, NextRowLate

-----------------------------------------------------------------------------
\* Every call of the application starts with nothing owed.
LEMMA EntryLate ==
    ASSUME IInv, IInv', IInv2, Application
    PROVE  IInv2'
  <1>0. Types /\ call \in CallRecord /\ stmt \in StmtRecord
    BY DEF IInv, Types, ProgressTypes, ClientTypes
  <1>1. ASSUME NEW op, Reject(op) PROVE IInv2'
    <2>1. /\ pc = "idle" /\ out' = "INVALID_STATE"
          /\ UNCHANGED <<pc, call, grp, client, wire, server, outstanding, io, calls>>
      BY <1>1 DEF Reject
    <2>2. UNCHANGED <<pending, flight, inbox, link, pc, call, grp, server, outstanding, io>>
      BY <2>1 DEF wire
    <2> QED BY <2>1, <2>2, SameLate DEF Request
  <1>2. ASSUME NEW t \in Request, NEW c \in CallRecord, c.status = "OK", Enter(t, c) PROVE IInv2'
    <2>1. ~io /\ Silent /\ OnlyClosing /\ Send(t, c, 0) /\ c.op \in Ops
      BY <1>2 DEF Enter, IInv, Core, Framed, Silent, OnlyClosing
    <2> QED BY <1>2, <2>1, SendLate
  <1>3. CASE Begin \/ Commit \/ Rollback \/ Savepoint
    <2>1. \A op \in Operation : Call(op, "none") \in CallRecord /\ Call(op, "none").status = "OK"
      BY CallFacts
    <2>2. \/ \E op : Reject(op)
          \/ \E op \in Operation, t \in Request : Enter(t, Call(op, "none"))
      BY <1>3 DEF Begin, Commit, Rollback, Savepoint, Operation, Request
    <2> QED BY <1>1, <1>2, <2>1, <2>2
  <1>4. CASE SetAutocommit
    <2>1. /\ pc = "idle" /\ (out' = "INVALID_STATE" \/ out' = out)
          /\ UNCHANGED <<pending, flight, inbox, link, pc, call, grp, server, outstanding, io>>
      BY <1>4 DEF SetAutocommit, wire
    <2> QED BY <2>1, SameLate DEF Request
  <1>5. CASE SetIsolation
    <2>1. CASE \E op : Reject(op)
      BY <1>1, <2>1
    <2>2. CASE \E level \in Levels : Enter("PREPARE", [Call("isolation", "set") EXCEPT !.level = level])
      <3>1. PICK level \in Levels : Enter("PREPARE", [Call("isolation", "set") EXCEPT !.level = level])
        BY <2>2
      <3>2. Call("isolation", "set") \in CallRecord /\ Call("isolation", "set").status = "OK"
        BY CallFacts DEF Operation, Kind
      <3>3. level \in Level
        BY SessionAssumption
      <3>4. /\ [Call("isolation", "set") EXCEPT !.level = level] \in CallRecord
            /\ [Call("isolation", "set") EXCEPT !.level = level].status = "OK"
        BY <3>2, <3>3, CallUpdates DEF Updates, CallRecord
      <3> QED BY <1>2, <3>1, <3>4 DEF Request
    <2> QED BY <1>5, <2>1, <2>2 DEF SetIsolation
  <1>6. CASE Query
    <2>1. PICK kind \in Kinds : Enter("PREPARE", Call("query", kind))
      BY <1>6 DEF Query
    <2>2. Call("query", kind) \in CallRecord /\ Call("query", kind).status = "OK"
      BY CallFacts, SessionAssumption DEF Operation
    <2> QED BY <1>2, <2>1, <2>2 DEF Request
  <1>7. CASE Prepare
    <2>1. PICK kind \in Prepared : call' = Call("prepare", kind)
      BY <1>7 DEF Prepare
    <2>2. call' \in CallRecord /\ call'.status = "OK" /\ call'.op = "prepare" /\ "prepare" \in Ops
      BY <1>7, <2>1, CallFacts, SessionAssumption DEF Operation, Prepare
    <2>3. /\ pc = "idle" /\ ~io /\ pc' = "resync" /\ outstanding' = 0
          /\ UNCHANGED <<pending, flight, inbox, link, server, io>>
      BY <1>7 DEF Prepare, wire
    <2>4. Silent
      BY <2>3 DEF IInv, Core, Framed
    <2>5. Queue' /\ OnlyClosing'
      BY <2>3, <2>4 DEF Silent, Queue, OnlyClosing
    <2>6. Late'
      BY <2>2, <2>3 DEF IInv2, Late
    <2>7. Earned'
      BY <2>2, <2>3, <2>5 DEF Earned, Request
    <2> QED BY <2>5, <2>6, <2>7 DEF IInv2
  <1>8. CASE Execute
    <2> DEFINE d == Call("execute", stmt.kind)
               c == [d EXCEPT !.described = TRUE]
    <2>1. stmt.kind \in Kind \cup {"none"}
      BY <1>0 DEF StmtRecord
    <2>2. d \in CallRecord /\ d.status = "OK"
      BY <2>1, CallFacts DEF Operation
    <2>3. c \in CallRecord /\ c.status = "OK"
      BY <2>2, CallUpdates DEF Updates, CallRecord
    <2>4. \E t \in Request : Enter(t, c)
      BY <1>8 DEF Execute, Starting, Request
    <2> QED BY <1>2, <2>3, <2>4
  <1>9. CASE Batch
    <2> DEFINE d == Call("batch", stmt.kind)
               c == [d EXCEPT !.row = 1]
    <2>1. stmt.kind \in Kind \cup {"none"}
      BY <1>0 DEF StmtRecord
    <2>2. d \in CallRecord /\ d.status = "OK"
      BY <2>1, CallFacts DEF Operation
    <2>3. c \in CallRecord /\ c.status = "OK"
      BY <2>2, CallUpdates DEF Updates, CallRecord
    <2>4. CASE \E t \in Request : Enter(t, c)
      BY <1>2, <2>3, <2>4
    <2>5. CASE pc = "idle" /\ ~io /\ SendsFail(stmt.saw_error) /\ Finish("OK", 0) /\ io' = TRUE
      <3>1. Silent
        BY <2>5 DEF IInv, Core, Framed
      <3>2. Dead /\ OnlyClosing
        BY <2>5, <3>1 DEF Dead, Silent, SendsFail, OnlyClosing
      <3> QED BY <1>0, <2>5, <3>2, FinishLate DEF Status
    <2> QED BY <1>9, <2>4, <2>5 DEF Batch, Starting, Request
  <1>10. CASE StmtClose
    <2>1. stmt.kind \in Kind \cup {"none"}
      BY <1>0 DEF StmtRecord
    <2>2. Call("stmt_close", stmt.kind) \in CallRecord
            /\ Call("stmt_close", stmt.kind).status = "OK"
      BY <2>1, CallFacts DEF Operation
    <2> QED BY <1>2, <1>10, <2>2 DEF StmtClose, Request
  <1> QED BY <1>3, <1>4, <1>5, <1>6, <1>7, <1>8, <1>9, <1>10 DEF Application

-----------------------------------------------------------------------------
\* After a reply to PREPARE, BEGIN, COMMIT, ROLLBACK, a savepoint, OPEN or FETCH.
LEMMA PhaseLate ==
    ASSUME IInv, IInv', IInv2, BatchesInTime,
           AfterPrepare \/ AfterBegin \/ AfterTransaction \/ AfterOpenOrFetch
    PROVE  IInv2'
  <1>0. /\ Types /\ call \in CallRecord /\ call.op \in Ops \cup {"none"}
             /\ grp.described \in BOOLEAN
        /\ {"OK", "PROTO_ERROR", "IO_ERROR"} \subseteq Status
    BY DEF IInv, IInv2, Late, Types, ProgressTypes, Status, GroupRecord
  <1>1. /\ pc \in Request /\ pc # "EXECUTE" /\ pc \notin Closing
        /\ grp.end \in {"OK", "PROTO_ERROR", "IO_ERROR"}
    BY DEF AfterPrepare, AfterBegin, AfterTransaction, AfterOpenOrFetch, Request, Closing
  <1>2. /\ call.status = "OK" /\ (~io => Silent)
        /\ grp.end = "OK" => ~io /\ outstanding = 0 /\ OnlyClosing
        /\ grp.end = "PROTO_ERROR" => ~io /\ outstanding = 1
        /\ io /\ "late" \notin Faults => Dead
    BY <1>1, ReplyEnded
  <1>3. ASSUME NEW s \in Status, Return(s), s = "OK" => grp.end = "OK" PROVE IInv2'
    BY <1>0, <1>2, <1>3, ReturnLate
  <1>4. ASSUME grp.end = "OK", NEW t \in Request, NEW c \in CallRecord, Go(t, c),
               c.op \in Ops \cup {"none"}, c.status = "OK"
        PROVE  IInv2'
    BY <1>2, <1>4, GoLate
  <1>5. CASE AfterPrepare
    <2> DEFINE c == [call EXCEPT !.described = grp.described]
    <2>1. c \in CallRecord /\ c.op = call.op /\ c.status = call.status
      BY <1>0, CallUpdates DEF Updates, CallRecord
    <2> HIDE DEF c
    <2>2. \/ Return(grp.end)
          \/ grp.end = "OK" /\ (Go("BEGIN", c) \/ Main(c))
      BY <1>5 DEF AfterPrepare, c
    <2>3. CASE Return(grp.end)
      BY <1>0, <1>1, <1>3, <2>3
    <2>4. CASE grp.end = "OK" /\ Go("BEGIN", c)
      BY <1>0, <1>2, <1>4, <2>1, <2>4 DEF Request
    <2>5. CASE grp.end = "OK" /\ Main(c)
      BY <1>0, <1>2, <2>1, <2>5, MainLate
    <2> QED BY <2>2, <2>3, <2>4, <2>5
  <1>6. CASE AfterBegin
    <2>1. CASE grp.end = "OK"
      <3>1. Return("OK") \/ Go("SAVEPOINT", call) \/ Main(call)
        BY <1>6, <2>1 DEF AfterBegin
      <3>2. CASE Return("OK")
        BY <1>0, <1>3, <2>1, <3>2
      <3>3. CASE Go("SAVEPOINT", call)
        BY <1>0, <1>2, <1>4, <2>1, <3>3 DEF Request
      <3>4. CASE Main(call)
        BY <1>0, <1>2, <2>1, <3>4, MainLate
      <3> QED BY <3>1, <3>2, <3>3, <3>4
    <2>2. CASE grp.end # "OK"
      <3>1. /\ UNCHANGED client
            /\ (call.op = "batch" /\ NextRow(TRUE, Reported)) \/ Fail(grp.end)
        BY <1>6, <2>2 DEF AfterBegin, client
      <3>2. CASE call.op = "batch" /\ NextRow(TRUE, Reported)
        BY <1>1, <1>2, <2>2, <3>2, RowFailed
      <3>3. CASE Fail(grp.end)
        BY <1>1, <2>2, <3>1, <3>3, FailLate
      <3> QED BY <3>1, <3>2, <3>3
    <2> QED BY <2>1, <2>2
  <1>7. CASE AfterTransaction
    <2>1. (Return("OK") /\ grp.end = "OK") \/ Return(grp.end)
      BY <1>7 DEF AfterTransaction
    <2> QED BY <1>0, <1>1, <1>3, <2>1
  <1>8. CASE AfterOpenOrFetch
    <2>1. CASE grp.end = "OK"
      <3>1. \/ \E t \in {"FETCH", "CLOSE"} : Go(t, call)
            \/ Return("OK")
        BY <1>8, <2>1 DEF AfterOpenOrFetch
      <3> QED BY <1>0, <1>2, <1>3, <1>4, <2>1, <3>1 DEF Request
    <2>2. CASE grp.end # "OK"
      BY <1>1, <1>8, <2>2, FailLate DEF AfterOpenOrFetch
    <2> QED BY <2>1, <2>2
  <1> QED BY <1>5, <1>6, <1>7, <1>8

\* After a reply of sqli_stmt_close_cursor_if_open or sqli_stmt_close_release.
LEMMA CloseLate ==
    ASSUME IInv, IInv', IInv2, AfterCursor \/ AfterClose
    PROVE  IInv2'
  <1>0. /\ Types /\ call \in CallRecord /\ call.op \in Ops \cup {"none"} /\ call.status \in Status
        /\ {"OK", "PROTO_ERROR", "IO_ERROR"} \subseteq Status
    BY DEF IInv, IInv2, Late, Types, ProgressTypes, Status, CallRecord
  <1>1. /\ pc \in Request /\ pc # "EXECUTE" /\ pc \in Closing
        /\ grp.end \in {"OK", "PROTO_ERROR", "IO_ERROR"}
    BY DEF AfterCursor, AfterClose, Request, Closing
  <1>2. /\ call.status = "OK" => outstanding = 0 /\ OnlyClosing
        /\ ~io => Silent
        /\ pc = "CURSOR" /\ io => call.status # "OK" \/ grp.end = "IO_ERROR"
    BY <1>1, ReplyEnded
  <1>3. CASE AfterCursor
    <2>1. CASE grp.end = "OK"
      <3>1. Drain("cursor_tail") /\ pc = "CURSOR"
        BY <1>3, <2>1 DEF AfterCursor
      <3> QED BY <1>0, <1>2, <2>1, <3>1, DrainLate DEF Draining
    <2>2. CASE grp.end # "OK"
      <3>1. Return(IF call.status = "OK" THEN grp.end ELSE call.status)
        BY <1>3, <2>2 DEF AfterCursor
      <3> QED BY <1>0, <1>1, <2>2, <3>1, ReturnLate
    <2> QED BY <2>1, <2>2
  <1>4. CASE AfterClose
    <2>1. CASE grp.end = "OK"
      <3>1. \E t \in {"close_tail", "release_tail"} : Drain(t)
        BY <1>4, <2>1 DEF AfterClose
      <3> QED BY <1>0, <1>2, <2>1, <3>1, DrainLate DEF Draining
    <2>2. CASE grp.end # "OK"
      <3>1. Go("RELEASE", call) \/ Return(call.status)
        BY <1>4, <2>2 DEF AfterClose
      <3>2. CASE Go("RELEASE", call)
        BY <1>0, <1>2, <3>2, GoLate DEF Request, Closing
      <3>3. CASE Return(call.status)
        BY <1>0, <1>2, <3>3, ReturnLate
      <3> QED BY <3>1, <3>2, <3>3
    <2> QED BY <2>1, <2>2
  <1> QED BY <1>3, <1>4

\* After the first group of an executed statement.
LEMMA ExecuteLate ==
    ASSUME IInv, IInv', IInv2, BatchesInTime, AfterExecute
    PROVE  IInv2'
  <1>0. Types /\ {"OK", "PROTO_ERROR", "IO_ERROR"} \subseteq Status
    BY DEF IInv, Status
  <1>1. pc = "EXECUTE" /\ pc \in Request /\ pc \notin Closing
          /\ grp.end \in {"OK", "PROTO_ERROR", "IO_ERROR"}
    BY DEF AfterExecute, Request, Closing
  <1>2. /\ call.status = "OK"
        /\ grp.end = "OK" => ~io /\ outstanding = 0 /\ OnlyClosing
    BY <1>1, ReplyEnded
  <1>3. CASE grp.end = "OK"
    <2>1. Drain("execute_tail")
      BY <1>3 DEF AfterExecute
    <2> QED BY <1>0, <1>2, <1>3, <2>1, DrainLate DEF Draining
  <1>4. CASE grp.end # "OK"
    <2>1. \/ call.op = "batch" /\ NextRow(TRUE, Reported) /\ grp.end = "PROTO_ERROR"
          \/ Return(grp.end)
      BY <1>4 DEF AfterExecute
    <2>2. CASE call.op = "batch" /\ NextRow(TRUE, Reported) /\ grp.end = "PROTO_ERROR"
      BY <1>1, <1>2, <1>4, <2>2, RowFailed
    <2>3. CASE Return(grp.end)
      BY <1>0, <1>1, <1>4, <2>3, ReturnLate
    <2> QED BY <2>1, <2>2, <2>3
  <1> QED BY <1>3, <1>4

-----------------------------------------------------------------------------
\* The drains and what follows them.
LEMMA TailLate ==
    ASSUME IInv, IInv', IInv2, Tailing
    PROVE  IInv2'
  <1>0. /\ Types /\ call \in CallRecord /\ call.op \in Ops \cup {"none"} /\ call.status \in Status
        /\ {"OK", "PROTO_ERROR", "IO_ERROR"} \subseteq Status
    BY DEF IInv, IInv2, Late, Types, ProgressTypes, Status, CallRecord
  <1>1. /\ pc \in Draining
        /\ call.status = "OK" => outstanding = 0 /\ OnlyClosing
        /\ pc \in {"resync", "execute_tail"} => call.status = "OK"
    BY DEF Tailing, IInv2, Earned, Draining, Closing
  <1>2. io => \/ pc \in {"close_tail", "release_tail"}
              \/ pc = "cursor_tail" /\ call.status # "OK"
              \/ Dead
    BY <1>1 DEF IInv2, Late, Releasing, Draining, Request
  <1>3. ASSUME NEW s \in Status, Return(s), s = "OK" => call.status = "OK" PROVE IInv2'
    BY <1>0, <1>1, <1>3, ReturnLate
  <1>4. CASE grp' = NoGroup /\ UNCHANGED <<pc, call, client, out, wire, server, outstanding, io, calls>>
    <2>1. /\ UNCHANGED <<pc, call, out, pending, flight, inbox, link, server, outstanding, io>>
          /\ pc \notin Request
      BY <1>1, <1>4 DEF wire, Draining, Request
    <2>2. Queue' /\ (OnlyClosing' <=> OnlyClosing)
      BY <2>1 DEF IInv2, Queue, OnlyClosing
    <2>3. Late'
      BY <2>1 DEF IInv2, Late, Releasing, Dead
    <2>4. Earned'
      BY <2>1, <2>2 DEF IInv2, Earned
    <2> QED BY <2>2, <2>3, <2>4 DEF IInv2
  <1>5. CASE Drain(pc)
    BY <1>0, <1>1, <1>2, <1>5, DrainLate DEF Dead
  <1>6. CASE \E s \in {"PROTO_ERROR", "IO_ERROR"} : Return(s)
    BY <1>0, <1>3, <1>6
  <1>7. ASSUME AfterTail, ~io => Silent PROVE IInv2'
    <2>1. CASE pc = "resync"
      <3>1. Go("PREPARE", call)
        BY <1>7, <2>1 DEF AfterTail
      <3> QED BY <1>0, <1>1, <1>2, <1>7, <2>1, <3>1, GoLate DEF Dead, Request
    <2>2. CASE pc = "execute_tail"
      <3>1. NextRow(FALSE, outstanding) \/ Return("OK")
        BY <1>7, <2>2 DEF AfterTail, Executed
      <3>2. CASE NextRow(FALSE, outstanding)
        BY <1>1, <1>2, <1>7, <2>2, <3>2, NextRowLate
      <3> QED BY <1>0, <1>1, <1>3, <2>2, <3>1, <3>2
    <2>3. CASE pc = "cursor_tail"
      <3>1. CursorClosed
        BY <1>7, <2>3 DEF AfterTail
      <3>2. CASE call.status # "OK"
        BY <1>0, <1>3, <3>1, <3>2 DEF CursorClosed
      <3>3. CASE call.status = "OK"
        <4>1. Go(Starting(call), call)
          BY <3>1, <3>3 DEF CursorClosed
        <4>2. Starting(call) \in Request
          BY DEF Starting, Request
        <4> QED BY <1>0, <1>1, <1>2, <1>7, <2>3, <3>3, <4>1, <4>2, GoLate DEF Dead
      <3> QED BY <3>2, <3>3
    <2>4. CASE pc = "close_tail"
      <3>1. Go("RELEASE", call)
        BY <1>7, <2>4 DEF AfterTail
      <3> QED BY <1>0, <1>1, <1>7, <3>1, GoLate DEF Request, Closing
    <2>5. CASE pc = "release_tail"
      <3>1. Return(call.status)
        BY <1>7, <2>5 DEF AfterTail
      <3> QED BY <1>0, <1>3, <3>1
    <2> QED BY <1>1, <2>1, <2>2, <2>3, <2>4, <2>5 DEF Draining
  <1>8. ASSUME ~io PROVE pending = <<>> /\ grp.end \in {"poll", "open", "OK"}
    BY <1>1, <1>8 DEF IInv, Core, Framed, InTail, Poll, NoGroup
  <1>9. CASE AfterTail /\ grp.end = "poll" /\ Quiet
    BY <1>7, <1>8, <1>9 DEF Quiet, Silent
  <1>10. CASE AfterTail /\ grp.end \in {"PROTO_ERROR", "IO_ERROR"}
    BY <1>7, <1>8, <1>10
  <1> QED BY <1>4, <1>5, <1>6, <1>9, <1>10 DEF Tailing

-----------------------------------------------------------------------------
\* A token is read.
LEMMA ReadLate ==
    ASSUME IInv, IInv', IInv2, ReadToken
    PROVE  IInv2'
  <1>1. /\ UNCHANGED <<pc, call, out, pending, flight, link, server, outstanding, io>>
        /\ pc # "idle" /\ grp.end = "open" /\ inbox # <<>>
    BY DEF ReadToken, Reading
  <1>2. Queue' /\ (OnlyClosing' <=> OnlyClosing)
    BY <1>1 DEF IInv2, Queue, OnlyClosing
  <1>3. Late'
    BY <1>1 DEF IInv2, Late, Releasing, Dead
  <1>4. ~io /\ pc \in Request \ Closing => Credit'
    BY ReadCore DEF IInv, IInv2, Earned
  <1>5. Earned'
    BY <1>1, <1>2, <1>4 DEF IInv2, Earned
  <1> QED BY <1>2, <1>3, <1>5 DEF IInv2

\* A read fails: the connection is closed, or the receive timeout has run out.
LEMMA ReadFailsLate ==
    ASSUME IInv, IInv', IInv2, ReadFails
    PROVE  IInv2'
  <1>1. /\ UNCHANGED <<pc, call, out, pending, flight, inbox, link, server, outstanding>>
        /\ pc # "idle" /\ grp.end = "open" /\ inbox = <<>> /\ io'
        /\ grp'.end = "IO_ERROR" /\ (link = "down" \/ "late" \in Faults)
    <2>1. grp \in GroupRecord
      BY DEF IInv, Types, ProgressTypes
    <2>2. [grp EXCEPT !.end = "IO_ERROR"].end = "IO_ERROR"
      BY <2>1 DEF GroupRecord
    <2> QED BY <2>2 DEF ReadFails, Reading, wire
  <1>2. Queue' /\ (OnlyClosing' <=> OnlyClosing)
    BY <1>1 DEF IInv2, Queue, OnlyClosing
  <1>3. pc \in Request \cup Draining
    BY <1>1 DEF IInv, Types, ProgressTypes
  <1>4. ~io /\ pc \in Draining => Dead
    <2>1. Poll.end = "poll" /\ inbox # Group
      BY <1>1, ReplyFacts DEF Poll, NoGroup
    <2> QED BY <1>1, <2>1 DEF IInv, Core, Framed, InTail, Lost, Silent, Dead
  <1>5. Late'
    <2>1. "late" \in Faults \/ Dead'
      BY <1>1 DEF IInv2, Late, Dead
    <2>2. pc \in Request \/ Releasing \/ (pc = "cursor_tail" /\ call.status # "OK")
          \/ (Dead /\ pc \notin Request)
      BY <1>1, <1>3, <1>4 DEF IInv2, Late, Draining, Request
    <2>3. /\ call'.op \in Ops \cup {"none"}
          /\ link' = "down" => pending' = <<>> /\ flight' = <<>> /\ ~server'.owes
      BY <1>1 DEF IInv2, Late
    <2> QED BY <1>1, <2>1, <2>2, <2>3 DEF Late, Releasing, Dead
  <1>6. Earned'
    BY <1>1, <1>2 DEF IInv2, Earned
  <1> QED BY <1>2, <1>5, <1>6 DEF IInv2

\* A reply arrives in one piece.
LEMMA ArriveLate ==
    ASSUME IInv, IInv', IInv2, Arrive, "split" \notin Faults
    PROVE  IInv2'
  <1>1. /\ UNCHANGED <<pc, call, grp, out, pending, link, server, outstanding, io>>
        /\ flight # <<>>
    BY DEF Arrive
  <1>2. Queue' /\ (OnlyClosing' <=> OnlyClosing)
    BY <1>1 DEF IInv2, Queue, OnlyClosing
  <1>3. Late'
    BY <1>1 DEF IInv2, Late, Releasing, Dead
  <1>4. ~io /\ pc \in Request \ Closing => Credit'
    BY ArriveCore DEF IInv, IInv2, Earned
  <1>5. Earned'
    BY <1>1, <1>2, <1>4 DEF IInv2, Earned
  <1> QED BY <1>2, <1>3, <1>5 DEF IInv2

-----------------------------------------------------------------------------
\* The first invariant after a step without I/O error.
LEMMA PrimedSettled ==
    ASSUME IInv', ~io'
    PROVE  /\ Queue'
           /\ (pc' \in Request /\ pc' \notin Closing) \/ OnlyClosing'
           /\ link' = "down" => pending' = <<>> /\ flight' = <<>> /\ ~server'.owes
  <1>1. Types' /\ Core'
    BY DEF IInv
  <1>2. (Types /\ Core => Settled)'
    BY CoreQueue, PTL
  <1> QED BY <1>1, <1>2 DEF Settled, Closing

\* The server accepts or refuses the oldest request.
LEMMA AnswerLate ==
    ASSUME IInv, IInv', IInv2, Accept \/ Refuse
    PROVE  IInv2'
  <1>1. /\ pending # <<>> /\ pending' = Tail(pending) /\ pending \in Seq(RequestRecord)
        /\ UNCHANGED <<pc, call, grp, out, inbox, link, io>>
        /\ Head(pending).t \in Closing => outstanding' = outstanding
    BY DEF Accept, Refuse, IInv, Types, ProgressTypes, Closing
  <1>2. link = "up" /\ ~Dead /\ ~Dead'
    BY <1>1 DEF IInv, Types, ProgressTypes, IInv2, Late, Dead
  <1>3. Late'
    BY <1>1, <1>2 DEF IInv2, Late, Releasing
  <1>4. CASE ~io
    <2>1. pc \in Request /\ Waiting
      BY <1>1, <1>4, Pending DEF IInv
    <2>2. Head(pending).t = pc
      BY <2>1 DEF Waiting
    <2>3. Queue' /\ (pc \in Closing => OnlyClosing')
      BY <1>1, <1>4, PrimedSettled
    <2>4. pc \in Closing => outstanding' = outstanding
      BY <1>1, <2>2
    <2>5. pc \notin Closing => Credit'
      BY <1>4, <2>1, AcceptCore, RefuseCore DEF IInv, IInv2, Earned
    <2>6. pc # "idle" /\ pc \notin Draining
      BY <2>1 DEF Request, Draining
    <2> QED BY <1>1, <1>3, <1>4, <2>1, <2>3, <2>4, <2>5, <2>6 DEF IInv2, Earned
  <1>5. CASE io
    <2>1. /\ DOMAIN pending = 1 .. Len(pending) /\ Len(pending) \in Nat \ {0}
          /\ DOMAIN pending' = 1 .. Len(pending) - 1
          /\ \A i \in DOMAIN pending' : pending'[i] = pending[i + 1]
               /\ i + 1 \in DOMAIN pending /\ i + 1 > 1
          /\ Head(pending) = pending[1] /\ 1 \in DOMAIN pending
      BY <1>1
    <2>2. OnlyClosing'
      BY <2>1 DEF IInv2, Queue, OnlyClosing
    <2>3. Queue'
      <3>1. \A x \in Closing : x \notin {"OPEN", "EXECUTE"}
        BY DEF Closing
      <3> QED BY <2>2, <3>1 DEF Queue, OnlyClosing, Data
    <2>4. OnlyClosing => outstanding' = outstanding
      BY <1>1, <2>1 DEF OnlyClosing
    <2>5. Earned'
      BY <1>1, <1>5, <2>2, <2>4 DEF IInv2, Earned
    <2> QED BY <1>3, <2>3, <2>5 DEF IInv2
  <1> QED BY <1>4, <1>5

\* It sends the second group it owes.
LEMMA SendOwedLate ==
    ASSUME IInv, IInv', IInv2, SendOwed
    PROVE  IInv2'
  <1>1. /\ UNCHANGED <<pc, call, grp, out, pending, inbox, link, outstanding, io>>
        /\ server.owes /\ server'.tx = server.tx /\ server'.cursors = server.cursors
    BY DEF SendOwed, IInv, Types, ProgressTypes, ServerRecord
  <1>2. Queue' /\ (OnlyClosing' <=> OnlyClosing)
    BY <1>1 DEF IInv2, Queue, OnlyClosing
  <1>3. link # "down"
    BY <1>1 DEF IInv2, Late
  <1>4. Late'
    BY <1>1, <1>3 DEF IInv2, Late, Releasing, Dead
  <1>5. ~io /\ pc \in Request \ Closing => Credit'
    BY SendOwedCore DEF IInv, IInv2, Earned
  <1>6. Earned'
    BY <1>1, <1>2, <1>5 DEF IInv2, Earned
  <1> QED BY <1>2, <1>4, <1>6 DEF IInv2

\* It closes the connection.
LEMMA PeerClosesLate ==
    ASSUME IInv, IInv', IInv2, PeerCloses
    PROVE  IInv2'
  <1>1. /\ UNCHANGED <<pc, call, grp, out, inbox, outstanding, io>>
        /\ pending' = <<>> /\ flight' = <<>> /\ link = "up" /\ link' = "down" /\ ~server'.owes
    BY DEF PeerCloses, IInv, Types, ProgressTypes, ServerRecord
  <1>2. Queue' /\ OnlyClosing'
    BY <1>1 DEF Queue, OnlyClosing
  <1>3. Late'
    BY <1>1 DEF IInv2, Late, Releasing, Dead
  <1>4. ~io /\ pc \in Request \ Closing => Credit'
    BY PeerClosesCore DEF IInv, IInv2, Earned
  <1>5. Earned'
    BY <1>1, <1>2, <1>4 DEF IInv2, Earned
  <1> QED BY <1>2, <1>3, <1>5 DEF IInv2

-----------------------------------------------------------------------------
\* Every step keeps the second invariant.
LEMMA LateStep ==
    ASSUME IInv, IInv2, [Next]_vars, "split" \notin Faults, BatchesInTime
    PROVE  IInv2'
  <1>0. IInv'
    BY StepInv
  <1>1. CASE UNCHANGED vars
    <2>1. /\ UNCHANGED <<pending, flight, inbox, link, pc, call, grp, server, outstanding, io, out>>
          /\ UNCHANGED vars
      BY <1>1 DEF vars, wire
    <2>2. Credit' <=> Credit
      BY <2>1 DEF vars, client, wire, Credit, Waiting, Refused, Answered, Lost, Silent, Sent,
         Unread,
         Answer, Applied, Unapplied, Effect, Granted, MayOwe, OwnerOf, Ends
    <2> QED BY <2>1, <2>2, SameLate
  <1>2. CASE Application
    BY <1>0, <1>2, EntryLate
  <1>3. CASE Library
    BY <1>0, <1>3, ReadLate, PhaseLate, CloseLate, ExecuteLate, TailLate DEF Library
  <1>4. CASE ReadFails \/ Arrive
    BY <1>0, <1>4, ReadFailsLate, ArriveLate
  <1>5. CASE Peer \/ PeerCloses
    BY <1>0, <1>5, AnswerLate, SendOwedLate, PeerClosesLate DEF Peer
  <1> QED BY <1>1, <1>2, <1>3, <1>4, <1>5 DEF Next

\* An opened session satisfies it.
LEMMA LateInit == Init => IInv2
  <1> SUFFICES ASSUME Init PROVE IInv2
    OBVIOUS
  <1>1. Queue /\ OnlyClosing
    BY DEF Init, Queue, OnlyClosing
  <1>2. Late
    BY CallFacts DEF Init, Late
  <1>3. Earned
    BY <1>1, CallFacts DEF Init, Earned, Request
  <1> QED BY <1>1, <1>2, <1>3 DEF IInv2

\* So both hold throughout.
LEMMA LateHolds ==
    ASSUME "split" \notin Faults, BatchesInTime
    PROVE  Spec => []IInv /\ []IInv2
  <1>1. Init => IInv /\ IInv2
    BY InitInv, LateInit
  <1>2. IInv /\ IInv2 /\ [Next]_vars => (IInv /\ IInv2)'
    BY StepInv, LateStep
  <1> QED BY <1>1, <1>2, PTL DEF Spec

\* OkMeansDone (Session.tla): a call that returns SQLI_OK has had every request it sent
\* accepted, whatever was refused, lost or late before; no leftover passed for its answer
\* (sqli_receive_dispatch, sqli_stmt_batch_execute).
THEOREM OkMeansAccepted ==
    ASSUME "split" \notin Faults, BatchesInTime
    PROVE  Spec => []OkMeansDone
  <1>1. IInv2 => OkMeansDone
    BY DEF IInv2, Earned, OkMeansDone
  <1> QED BY <1>1, LateHolds, PTL

\* Together they say that every open cursor is known.
LEMMA KnownNow == IInv /\ IInv2 => CursorKnown
  <1> SUFFICES ASSUME IInv, IInv2 PROVE CursorKnown
    OBVIOUS
  <1>1. ASSUME pc = "idle", ~io, link = "up", "stmt" \in server.cursors PROVE MustClose
    <2>1. Types /\ Core /\ Unapplied /\ call.op # "stmt_close"
      BY <1>1, CallFacts DEF IInv, Core, Framed, Underway
    <2> QED BY <1>1, <2>1, MirroredCursor
  <1>2. ASSUME NEW i \in DOMAIN pending, pending[i].t = "OPEN"
        PROVE  pending[i].owner \notin server.cursors
    BY <1>2 DEF IInv2, Queue
  <1> QED BY <1>1, <1>2 DEF CursorKnown

\* CursorKnown (Session.tla): between calls sqli_stmt_close_cursor_if_open will close
\* every cursor the server has open for the prepared statement, and no OPEN the server
\* is to process finds its cursor open, through commits that keep a cursor (HOLD),
\* rollbacks that do not and CLOSEs that are refused.
THEOREM CursorsKnown ==
    ASSUME "split" \notin Faults, BatchesInTime
    PROVE  Spec => []CursorKnown
  BY KnownNow, LateHolds, PTL

\* WorkInTransaction (Session.tla), an action property: in manual mode the server works
\* on data only inside a transaction (sqli_autobegin), so nothing is committed that the
\* application has yet to commit.
THEOREM DataInTransaction ==
    ASSUME "split" \notin Faults, BatchesInTime
    PROVE  Spec => WorkInTransaction
  <1>1. IInv2 /\ IInv => [pending # <<>> /\ pending' = Tail(pending) /\ link' = "up"
             /\ Head(pending).t \in {"EXECUTE", "OPEN"}
             /\ Head(pending).kind \in {"select", "work"}
             /\ Head(pending).manual
           => server.tx]_vars
    <2> SUFFICES ASSUME IInv2, IInv, pending # <<>>, Head(pending).t \in {"EXECUTE", "OPEN"},
                        Head(pending).kind \in {"select", "work"}, Head(pending).manual
                 PROVE  server.tx
      OBVIOUS
    <2>1. Head(pending) = pending[1] /\ 1 \in DOMAIN pending
      BY DEF IInv, Types, ProgressTypes
    <2> QED BY <2>1 DEF IInv2, Queue, Data
  <1> QED BY <1>1, LateHolds, PTL DEF WorkInTransaction
=============================================================================
