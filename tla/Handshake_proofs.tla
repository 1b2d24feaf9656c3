--------------------------- MODULE Handshake_proofs -------------------------
(***************************************************************************)
(* Proofs about the handshake over the transports, for every number of     *)
(* connections, descriptors, TLS sessions and addresses.                   *)
(*                                                                         *)
(* The invariant speaks of one connection at a time, but for the           *)
(* descriptors and the registry, which the connections share.  Each step   *)
(* is one connection's: its lemma proves the invariant for that connection *)
(* and that the step leaves alone what the others' invariant speaks of.    *)
(***************************************************************************)
EXTENDS Handshake, TLAPS
---------------------------------------------------------------------------
(* The values the variables take.                                          *)

\* Every program point of a connection's call.
CallPhase == IoPhases \cup
    {"idle", "address", "connecting", "tls", "tls_connect", "attach", "conreq", "ready",
     "detach", "discard", "close"}

\* A call in progress.
Call == [pc: CallPhase, unix: BOOLEAN, tls: BOOLEAN, soft: BOOLEAN,
         left: Nat, prompts: Nat, after: {"CLOSED", "ERROR"}]

\* The error structure of a connection object.
Error == [has: BOOLEAN, status: {"OK", "ERR", "AUTH_FAIL", "PROTO_ERROR"}, network: BOOLEAN,
          code: {"none", "network", "serialization", "data", "other"}]

\* How far the server has come with a connection.
Server == [assoc: {"none", "accepted", "rejected", "refused"},
           auth: {"none", "required", "accepted", "refused"},
           db: BOOLEAN, unread: {"none", "sent", "buffer"}, late: BOOLEAN]

\* conn->state.
ConnState == {"CLOSED", "CONNECTING", "HANDSHAKE", "AUTH", "INFO", "DBOPEN", "READY",
    "ERROR"}

\* The type invariant the proofs rest on: TypeOK of Handshake.tla, with the values
\* of the variables of the handshake.
Types ==
    /\ TypeOK
    /\ state \in [Conn -> ConnState]
    /\ discarded \in [Conn -> BOOLEAN]
    /\ call \in [Conn -> Call]
    /\ err \in [Conn -> Error]
    /\ srv \in [Conn -> Server]
    /\ connects \in [Conn -> Nat]

---------------------------------------------------------------------------
(* The inductive invariant.                                                *)

\* Groups of program points.
Resting(c) == At(c, "idle") /\ state[c] = "READY"
InHand(c) == call[c].pc \in {"tls_connect", "attach"}
Unattached(c) == call[c].pc \in {"connecting", "tls", "tls_connect", "attach", "close"}
Attached(c) == Resting(c) \/ call[c].pc \in IoPhases \cup {"conreq", "ready"}
Ending(c) == call[c].pc \in {"detach", "discard", "close"}

\* A connection object and the kernel agree on who owns a descriptor.
Descriptors == \A c \in Conn, f \in Fds : kernel[f] = c <=> sock[c] = f

\* The registry names sessions that were not freed, each under one descriptor: the
\* session of the descriptor's owner, or one that was left behind.  Only a failing
\* mutex leaves anything behind.
Registered ==
    /\ \A f \in Fds : registry[f] # Nil =>
         ssl[registry[f]] = Lost \/ (kernel[f] # Nil /\ ssl[registry[f]] = kernel[f])
    /\ \A f, g \in Fds : registry[f] # Nil /\ registry[f] = registry[g] => f = g
    /\ "sync" \notin Faults => (\A f \in Fds : kernel[f] # Lost) /\ (\A s \in Ssl : ssl[s] # Lost)

\* A connection object has a descriptor exactly while it should; the lifecycle
\* word and the state follow the call.
Holding(c) ==
    /\ At(c, "address") => sock[c] = Nil
    /\ call[c].pc \notin {"idle", "address"} => sock[c] # Nil
    /\ Resting(c) => sock[c] # Nil
    /\ At(c, "idle") /\ sock[c] # Nil => state[c] = "READY" \/ discarded[c]
    /\ At(c, "idle") /\ discarded[c] /\ sock[c] # Nil => "sync" \in Faults
    /\ discarded[c] => call[c].pc \in {"idle", "discard", "close"} /\ state[c] = "ERROR"
    /\ At(c, "discard") => discarded[c]
    /\ discarded[c] /\ At(c, "close") => call[c].after = "ERROR"
    /\ call[c].pc \in {"ready", "work"} => state[c] = "READY"

\* What the registry has for a connection's descriptor, if anything, was left behind.
Stale(c) == registry[sock[c]] # Nil => ssl[registry[sock[c]]] = Lost

\* A TLS session is in the hands of the connect that made it, or it is the one the
\* registry has for its maker's descriptor.
Securing(c) ==
    /\ \A s \in Ssl : ssl[s] = c =>
         IF InHand(c) THEN SessionsOf(c) = {s}
         ELSE sock[c] # Nil /\ registry[sock[c]] = s
    /\ Unattached(c) => Stale(c)
    /\ Attached(c) /\ call[c].tls => registry[sock[c]] # Nil /\ ssl[registry[sock[c]]] = c
    /\ Attached(c) /\ ~call[c].tls => Stale(c)
    /\ call[c].pc \in {"tls", "tls_connect", "attach"} => call[c].tls

\* What a read or write found in the registry is still there.
Moving(c) ==
    /\ io[c].stage # "none" => call[c].pc \in IoPhases
    /\ Using(c) => io[c].ssl = registry[sock[c]]

\* How far the server is, at each point of sqli_connect.
Progressing(c) ==
    /\ Resting(c) \/ call[c].pc \in {"pam", "info", "info_more", "dbopen",
                                     "dbopen_more", "ready", "work"} =>
         srv[c].assoc = "accepted"
    /\ Resting(c) \/ call[c].pc \in {"info", "info_more", "dbopen", "dbopen_more",
                                     "ready", "work"} =>
         srv[c].auth \in {"none", "accepted"}
    /\ At(c, "dbopen") => srv[c].late \/ srv[c].unread # "sent"
    /\ At(c, "dbopen_more") => srv[c].late \/ srv[c].db
    /\ Resting(c) \/ call[c].pc \in {"ready", "work"} =>
         srv[c].late \/ (srv[c].db /\ srv[c].unread # "sent")

\* The server has turned the connection down, and not with svcError = 0.
Refused(c) == srv[c].assoc = "refused" \/ srv[c].auth = "refused"

\* A retry is advised only where nothing was refused, and the caller's credentials
\* are blamed only where they were.
Sound(c) ==
    /\ Retryable(err[c]) => ~Refused(c)
    /\ Classify(err[c]) = "AUTH" => Refused(c) /\ ~RejectedSoftly(c)

\* A refusal ends the call at once, with an error that says so or says nothing,
\* and an established connection has no error.
Judging(c) ==
    /\ Refused(c) => At(c, "idle") \/ Ending(c)
    /\ At(c, "exit") => call[c].after = "CLOSED"
    /\ At(c, "discard") => call[c].after = "ERROR"
    /\ Resting(c) \/ At(c, "work") => err[c] = NoError
    /\ Ending(c) /\ call[c].after = "ERROR" => Sound(c)
    /\ At(c, "idle") /\ state[c] = "ERROR" => Sound(c)

\* What holds of one connection, and the invariant of them all.
Local(c) == Holding(c) /\ Securing(c) /\ Moving(c) /\ Progressing(c) /\ Judging(c)

IInv == Types /\ Descriptors /\ Registered /\ \A c \in Conn : Local(c)

\* What a step of one connection's thread leaves alone.
Frame(c) ==
    \A d \in Conn \ {c} :
        /\ call'[d] = call[d] /\ state'[d] = state[d] /\ discarded'[d] = discarded[d]
        /\ err'[d] = err[d] /\ srv'[d] = srv[d] /\ sock'[d] = sock[d] /\ io'[d] = io[d]
        /\ sock[d] # Nil => registry'[sock[d]] = registry[sock[d]]
        /\ sock[d] # Nil /\ Stale(d) => Stale(d)'
        /\ \A s \in Ssl : ssl'[s] = d <=> ssl[s] = d

\* What a step must establish for its own connection.
Kept(c) ==
    Types' /\ Descriptors' /\ Registered' /\ Frame(c) /\ Local(c)'

---------------------------------------------------------------------------
(* Records and their updates                                               *)

\* An update of one field of a call keeps it a call.
LEMMA CallUpdates ==
    ASSUME NEW r \in Call
    PROVE  /\ \A pc \in CallPhase : [r EXCEPT !.pc = pc] \in Call
           /\ \A b \in BOOLEAN : [r EXCEPT !.unix = b] \in Call
           /\ \A b \in BOOLEAN : [r EXCEPT !.tls = b] \in Call
           /\ [r EXCEPT !.soft = TRUE] \in Call
           /\ \A k \in Nat : [r EXCEPT !.left = k] \in Call
           /\ \A k \in Nat : [r EXCEPT !.prompts = k] \in Call
           /\ \A a \in {"CLOSED", "ERROR"} : [r EXCEPT !.after = a] \in Call
  <1>1. \A pc \in CallPhase : [r EXCEPT !.pc = pc] \in Call
    BY DEF Call
  <1>2. \A b \in BOOLEAN : [r EXCEPT !.unix = b] \in Call
    BY Zenon DEF Call
  <1>3. \A b \in BOOLEAN : [r EXCEPT !.tls = b] \in Call
    BY Zenon DEF Call
  <1>4. [r EXCEPT !.soft = TRUE] \in Call
    BY Zenon DEF Call
  <1>5. \A k \in Nat : [r EXCEPT !.left = k] \in Call
    BY DEF Call
  <1>6. \A k \in Nat : [r EXCEPT !.prompts = k] \in Call
    BY DEF Call
  <1>7. \A a \in {"CLOSED", "ERROR"} : [r EXCEPT !.after = a] \in Call
    BY DEF Call
  <1> QED BY <1>1, <1>2, <1>3, <1>4, <1>5, <1>6, <1>7

\* So do the updates of several fields that the steps make.
LEMMA CallRecords ==
    /\ NoCall \in Call
    /\ \A b \in BOOLEAN : [NoCall EXCEPT !.tls = b] \in Call
    /\ \A u, t \in BOOLEAN, k \in Nat :
         [NoCall EXCEPT !.pc = "address", !.unix = u, !.tls = t, !.left = k] \in Call
    /\ \A r \in Call :
         /\ \A k \in Nat : [r EXCEPT !.pc = "address", !.left = k] \in Call
         /\ [r EXCEPT !.pc = "protocols", !.soft = TRUE] \in Call
         /\ \A pc \in CallPhase, a \in {"CLOSED", "ERROR"} :
                 [r EXCEPT !.pc = pc, !.after = a] \in Call
         /\ \A pc \in CallPhase : [r EXCEPT !.pc = pc, !.left = 0, !.prompts = 0] \in Call
         /\ \A pc \in CallPhase, a \in {"CLOSED", "ERROR"} :
                 [r EXCEPT !.pc = pc, !.prompts = 0, !.after = a] \in Call
  <1>1. NoCall \in Call
    BY DEF Call, CallPhase, IoPhases, NoCall
  <1>2. \A p \in {"address", "protocols"} : p \in CallPhase
    BY DEF CallPhase, IoPhases
  <1>3. \A b \in BOOLEAN : [NoCall EXCEPT !.tls = b] \in Call
    BY <1>1, CallUpdates
  <1>4. ASSUME NEW u \in BOOLEAN, NEW t \in BOOLEAN, NEW k \in Nat
        PROVE [NoCall EXCEPT !.pc = "address", !.unix = u, !.tls = t, !.left = k] \in Call
    <2>1. [NoCall EXCEPT !.pc = "address"] \in Call
      BY <1>1, <1>2, CallUpdates
    <2>2. [NoCall EXCEPT !.pc = "address", !.unix = u] \in Call
      BY <2>1, CallUpdates, Zenon
    <2>3. [NoCall EXCEPT !.pc = "address", !.unix = u, !.tls = t] \in Call
      BY <2>2, CallUpdates, Zenon
    <2> QED BY <2>3, CallUpdates, Zenon
  <1>5. ASSUME NEW r \in Call
        PROVE
           /\ \A k \in Nat : [r EXCEPT !.pc = "address", !.left = k] \in Call
           /\ [r EXCEPT !.pc = "protocols", !.soft = TRUE] \in Call
           /\ \A pc \in CallPhase, a \in {"CLOSED", "ERROR"} :
                   [r EXCEPT !.pc = pc, !.after = a] \in Call
           /\ \A pc \in CallPhase : [r EXCEPT !.pc = pc, !.left = 0, !.prompts = 0] \in Call
           /\ \A pc \in CallPhase, a \in {"CLOSED", "ERROR"} :
                   [r EXCEPT !.pc = pc, !.prompts = 0, !.after = a] \in Call
     <2>1. \A pc \in CallPhase : [r EXCEPT !.pc = pc] \in Call
       BY CallUpdates
     <2>2. 0 \in Nat
       OBVIOUS
     <2>3. ASSUME NEW pc \in CallPhase
           PROVE  [r EXCEPT !.pc = pc, !.left = 0, !.prompts = 0] \in Call
       <3>1. [r EXCEPT !.pc = pc, !.left = 0] \in Call
         BY <2>1, <2>2, CallUpdates, Zenon
       <3> QED BY <2>2, <3>1, CallUpdates, Zenon
     <2>4. ASSUME NEW pc \in CallPhase, NEW a \in {"CLOSED", "ERROR"}
           PROVE  [r EXCEPT !.pc = pc, !.prompts = 0, !.after = a] \in Call
       <3>1. [r EXCEPT !.pc = pc, !.prompts = 0] \in Call
         BY <2>1, <2>2, CallUpdates, Zenon
       <3> QED BY <3>1, CallUpdates, Zenon
     <2> QED BY <2>1, <2>3, <2>4, <1>2, CallUpdates, Zenon
  <1> QED BY <1>1, <1>3, <1>4, <1>5

\* What set_error, the service error and a server error leave is an error.
LEMMA ErrorRecords ==
    /\ NoError \in Error /\ ServiceError \in Error
    /\ \A b \in BOOLEAN : SetError(b) \in Error
    /\ \A code \in {"network", "serialization", "data", "other"} :
            ServerError(code) \in Error
  <1>1. NoError \in Error
    BY DEF NoError, Error
  <1>2. \A b \in BOOLEAN : SetError(b) \in Error
    BY Zenon DEF SetError, Error
  <1>3. SetError(FALSE) \in Error
    BY <1>2
  <1>4. \A r \in Error : [r EXCEPT !.status = "AUTH_FAIL"] \in Error
    BY DEF Error
  <1>5. \A r \in Error, code \in {"network", "serialization", "data", "other"} :
          [r EXCEPT !.status = "PROTO_ERROR", !.code = code] \in Error
    BY DEF Error
  <1> QED BY <1>2, <1>1, <1>3, <1>4, <1>5 DEF ServiceError, ServerError

\* What sqli_error_classify and the retry advice say of each of them, and that
\* storing an error again as a soft one changes nothing.
LEMMA ErrorClasses ==
    /\ Classify(NoError) # "AUTH" /\ ~Retryable(NoError)
    /\ Classify(SetError(TRUE)) # "AUTH"
    /\ Classify(SetError(FALSE)) # "AUTH" /\ ~Retryable(SetError(FALSE))
        /\ ~SetError(FALSE).network
    /\ Classify(ServiceError) = "AUTH" /\ ~Retryable(ServiceError) /\ ~ServiceError.network
    /\ \A code \in {"network", "serialization", "data", "other"} :
         Classify(ServerError(code)) # "AUTH"
    /\ SetError(SetError(TRUE).network) = SetError(TRUE)
    /\ SetError(SetError(FALSE).network) = SetError(FALSE)
  <1>1. SetError(TRUE).network = TRUE /\ SetError(FALSE).network = FALSE
    BY DEF SetError
  <1>2. SetError(SetError(TRUE).network) = SetError(TRUE)
        /\ SetError(SetError(FALSE).network) = SetError(FALSE)
    BY <1>1, Zenon
  <1> QED BY <1>2 DEF Retryable, Classify, NoError, SetError, ServiceError,
       ServerError

\* The server's progress is updated one field at a time, or two.
LEMMA ServerUpdates ==
    /\ NewServer \in Server
    /\ \A r \in Server :
       /\ \A a \in {"accepted", "rejected", "refused"} : [r EXCEPT !.assoc = a] \in Server
       /\ \A a \in {"none", "required", "accepted", "refused"} :
            /\ [r EXCEPT !.auth = a] \in Server
            /\ [r EXCEPT !.assoc = "accepted", !.auth = a] \in Server
       /\ \A u \in {"none", "sent", "buffer"} : [r EXCEPT !.unread = u] \in Server
       /\ \A b \in BOOLEAN : [r EXCEPT !.late = b] \in Server
       /\ \A b \in BOOLEAN, u \in {"none", "sent", "buffer"} :
               [r EXCEPT !.db = b, !.unread = u] \in Server
       /\ [NewServer EXCEPT !.assoc = r.assoc, !.auth = r.auth] \in Server
  <1>1. NewServer \in Server
    BY DEF NewServer, Server
  <1>2. \A r \in Server :
         /\ \A a \in {"accepted", "rejected", "refused"} : [r EXCEPT !.assoc = a] \in Server
         /\ \A a \in {"none", "required", "accepted", "refused"} :
                 [r EXCEPT !.auth = a] \in Server
         /\ \A u \in {"none", "sent", "buffer"} : [r EXCEPT !.unread = u] \in Server
         /\ \A a \in {"none", "accepted", "rejected", "refused"}, b \in {"none", "required",
             "accepted", "refused"} : [r EXCEPT !.assoc = a, !.auth = b] \in Server
    BY DEF Server
  <1>3. \A r \in Server, b \in BOOLEAN :
          [r EXCEPT !.db = b] \in Server /\ [r EXCEPT !.late = b] \in Server
    BY Zenon DEF Server
  <1>4. \A r \in Server : r.assoc \in {"none", "accepted", "rejected", "refused"}
        /\ r.auth \in {"none", "required", "accepted", "refused"}
    BY DEF Server
  <1>5. \A r \in Server : [NewServer EXCEPT !.assoc = r.assoc, !.auth = r.auth] \in Server
    BY <1>1, <1>2, <1>4
  <1>6. ASSUME NEW r \in Server, NEW b \in BOOLEAN, NEW u \in {"none", "sent", "buffer"}
        PROVE  [r EXCEPT !.db = b, !.unread = u] \in Server
    <2>1. [r EXCEPT !.db = b] \in Server
      BY <1>3
    <2> QED BY <2>1, <1>2, Zenon
  <1> QED BY <1>1, <1>2, <1>3, <1>5, <1>6, Zenon

\* A peek that misses something makes the server late.
LEMMA MissedFacts ==
    ASSUME srv \in [Conn -> Server], NEW c \in Conn, Missed(c)
    PROVE  /\ srv' \in [Conn -> Server] /\ \A d \in Conn \ {c} : srv'[d] = srv[d]
           /\ srv'[c].assoc = srv[c].assoc /\ srv'[c].auth = srv[c].auth
           /\ srv'[c].unread = srv[c].unread
           /\ srv[c].late => srv'[c].late
           /\ srv[c].db => srv'[c].db
           /\ srv[c].unread = "sent" => srv'[c].late
  <1> DEFINE late == srv[c].late \/ srv[c].unread = "sent"
  <1>1. srv' = [srv EXCEPT ![c] = [srv[c] EXCEPT !.late = late]]
    BY DEF Missed
  <1>2. late \in BOOLEAN
    BY Zenon
  <1>3. [srv[c] EXCEPT !.late = late] \in Server
    BY <1>2, ServerUpdates, Zenon
  <1>4. srv'[c] = [srv[c] EXCEPT !.late = late] /\ \A d \in Conn \ {c} : srv'[d] = srv[d]
    BY <1>1
  <1>5. srv[c] \in Server
    OBVIOUS
  <1>6. /\ srv'[c].assoc = srv[c].assoc /\ srv'[c].auth = srv[c].auth
        /\ srv'[c].unread = srv[c].unread /\ srv'[c].db = srv[c].db
    BY <1>4, <1>5 DEF Server
  <1>7. srv'[c].late = late
    BY <1>4, <1>5, Zenon DEF Server
  <1> QED BY <1>1, <1>3, <1>4, <1>6, <1>7, Zenon

---------------------------------------------------------------------------
(* Steps that advance the call, and steps that fail it                     *)

\* What a step that advances connection c's call to phase does.
Advanced(c, phase) ==
    /\ Types' /\ Descriptors' /\ Registered' /\ Frame(c)
    /\ sock' = sock /\ registry' = registry /\ ssl' = ssl /\ discarded' = discarded
        /\ err' = err
    /\ call'[c].pc = phase /\ call'[c].after = call[c].after
    /\ call'[c].tls <=> call[c].tls
    /\ state'[c] = StateIn(phase, state[c])
    /\ io'[c] = IF phase \in IoPhases THEN Starting ELSE NoIo

\* Advance does that, whatever the server does to connection c meanwhile.
LEMMA AdvanceFacts ==
    ASSUME IInv, NEW c \in Conn, NEW phase \in CallPhase, Advance(c, phase),
           srv' \in [Conn -> Server], \A d \in Conn \ {c} : srv'[d] = srv[d]
    PROVE  Advanced(c, phase)
  <1>1. Types /\ Descriptors /\ Registered
    BY DEF IInv
  <1>2. Starting \in [stage: {"none", "look", "use"}, ssl: Ssl \cup {Nil}]
        /\ NoIo \in [stage: {"none", "look", "use"}, ssl: Ssl \cup {Nil}]
     BY DEF NoIo, Starting
  <1>3. StateIn(phase, state[c]) \in ConnState
    BY <1>1 DEF Types, ConnState, StateIn
  <1>4. call' \in [Conn -> Call]
    BY <1>1, CallRecords DEF Types, Advance, Enter
  <1>5. io' \in [Conn -> [stage: {"none", "look", "use"}, ssl: Ssl \cup {Nil}]]
    BY <1>1, <1>2 DEF Types, TypeOK, Advance, Enter
  <1>6. state' \in [Conn -> ConnState]
    BY <1>1, <1>3 DEF Types, Advance, Enter
  <1>7. Types'
    BY <1>1, <1>4, <1>5, <1>6 DEF Types, TypeOK, Advance
  <1>8. Descriptors' /\ Registered'
    BY <1>1, SMTT(10) DEF Descriptors, Registered, Advance
  <1>9. Frame(c)
    BY <1>1, SMTT(10) DEF Advance, Enter, Frame, Stale, TypeOK, Types
  <1>10. call' = [call EXCEPT ![c] = [call[c] EXCEPT !.pc = phase, !.left = 0, !.prompts = 0]]
    BY DEF Advance, Enter
  <1>11. call[c] \in Call
    BY <1>1 DEF Types
  <1>12. call'[c] = [call[c] EXCEPT !.pc = phase, !.left = 0, !.prompts = 0]
    BY <1>1, <1>10 DEF Types
  <1>13. call'[c].pc = phase /\ call'[c].after = call[c].after
         /\ (call'[c].tls <=> call[c].tls)
    BY <1>11, <1>12 DEF Call
  <1>14. state'[c] = StateIn(phase, state[c])
         /\ io'[c] = IF phase \in IoPhases THEN Starting ELSE NoIo
    BY <1>1 DEF Types, TypeOK, Advance, Enter
  <1> QED BY <1>7, <1>8, <1>9, <1>13, <1>14 DEF Advanced, Advance

\* What a step that fails connection c's call with error e does.
Failed(c, e) ==
    /\ Types' /\ Descriptors' /\ Registered' /\ Frame(c)
    /\ sock' = sock /\ registry' = registry /\ ssl' = ssl /\ discarded' = discarded
    /\ call'[c].pc = "detach" /\ state'[c] = state[c] /\ io'[c] = NoIo
    /\ err'[c] \in {e, SetError(TRUE), SetError(FALSE)}
    /\ ~e.network => err'[c] \in {e, SetError(FALSE)}

\* Fail does that.
LEMMA FailFacts ==
    ASSUME IInv, NEW c \in Conn, NEW e \in Error, Fail(c, e),
           srv' \in [Conn -> Server], \A d \in Conn \ {c} : srv'[d] = srv[d]
    PROVE  Failed(c, e)
  <1>1. Types /\ Descriptors /\ Registered
    BY DEF IInv
  <1>2. NoIo \in [stage: {"none", "look", "use"}, ssl: Ssl \cup {Nil}]
    BY DEF NoIo
  <1>3. e.network \in BOOLEAN
    BY DEF Error
  <1>4. SetError(e.network) \in Error
    BY <1>3, ErrorRecords
  <1>5. "detach" \in CallPhase
    BY DEF CallPhase
  <1>6. call' = [call EXCEPT ![c] = [call[c] EXCEPT !.pc = "detach", !.prompts = 0, !.after = "ERROR"]]
    BY DEF Fail, Out
  <1>7. call[c] \in Call
    BY <1>1 DEF Types
  <1>8. [call[c] EXCEPT !.pc = "detach", !.prompts = 0, !.after = "ERROR"] \in Call
    BY <1>5, <1>7, CallRecords
  <1>9. call' \in [Conn -> Call]
    BY <1>1, <1>6, <1>8 DEF Types
  <1>10. err' \in [Conn -> Error]
    BY <1>1, <1>4, SMTT(10) DEF Types, Fail, Out
  <1>11. Types'
    BY <1>1, <1>2, <1>9, <1>10, SMTT(10) DEF Types, TypeOK, Fail, Out
  <1>12. Descriptors' /\ Registered'
    BY <1>1, SMTT(10) DEF Descriptors, Registered, Fail
  <1>13. Frame(c)
    BY <1>1, SMTT(10) DEF Fail, Frame, Out, Stale, TypeOK, Types
  <1>14. call'[c].pc = "detach"
    BY <1>1, <1>6, <1>7 DEF Types, Call
  <1>15. err'[c] = IF call[c].soft THEN SetError(e.network) ELSE e
    BY <1>1 DEF Fail, Out, Types
  <1>16. SetError(e.network) \in {SetError(TRUE), SetError(FALSE)} /\ (~e.network
         => SetError(e.network) = SetError(FALSE))
    <2>1. CASE e.network = TRUE
      BY <2>1, Zenon
    <2>2. CASE e.network = FALSE
      BY <2>2, Zenon
    <2> QED BY <1>3, <2>1, <2>2, Zenon
  <1> QED BY <1>1, <1>11, <1>12, <1>13, <1>14, <1>15, <1>16 DEF Failed, Fail, Out,
       Types, TypeOK

\* A failed call is judged well if its error blames the credentials only after a
\* refusal, and after a refusal advises no retry.
LEMMA FailJudged ==
    ASSUME NEW c \in Conn, NEW e \in Error, Failed(c, e),
           Classify(e) = "AUTH" => Refused(c)' /\ ~RejectedSoftly(c)',
           Refused(c)' => ~Retryable(e) /\ ~e.network
    PROVE  Judging(c)'
  <1>1. call'[c].pc = "detach"
    BY DEF Failed
  <1>2. err'[c] \in {e, SetError(TRUE), SetError(FALSE)} /\ (~e.network
        => err'[c] \in {e, SetError(FALSE)})
    BY DEF Failed
  <1>3. Sound(c)'
    <2>1. Retryable(err[c])' => ~Refused(c)'
      BY <1>2, ErrorClasses DEF Retryable
    <2>2. Classify(err[c])' = "AUTH" => Refused(c)' /\ ~RejectedSoftly(c)'
      BY <1>2, ErrorClasses
    <2> QED BY <2>1, <2>2 DEF RejectedSoftly, Sound
  <1> QED BY <1>1, <1>3 DEF Judging, At, Ending, Resting

---------------------------------------------------------------------------
(* One connection's step, for all connections                              *)

\* A step that establishes the invariant for its own connection, and leaves alone
\* what the others' invariant speaks of, keeps it for all.
LEMMA OthersKept ==
    ASSUME IInv, NEW c \in Conn, Kept(c)
    PROVE IInv'
  <1>1. ASSUME NEW d \in Conn \ {c} PROVE Local(d)'
    <2>1. Local(d) /\ Holding(d)
      BY DEF IInv, Local
    <2>2. Frame(c)
      BY DEF Kept
    <2>3. Holding(d)'
      BY <2>1, <2>2, SMTT(10) DEF At, Frame, Holding, Resting, Stale
    <2>4. Securing(d)'
      <3>1. Securing(d)
        BY <2>1 DEF Local
      <3>2. \A s \in Ssl : ssl[s] = d => IF InHand(d) THEN SessionsOf(d) = {s}
            ELSE sock[d] # Nil /\ registry[sock[d]] = s
        BY <3>1 DEF At, Securing, Stale
      <3>3. SessionsOf(d)' = SessionsOf(d)
        BY <2>2 DEF Frame, SessionsOf, Stale
      <3>4. \A s \in Ssl : (ssl[s] = d => IF InHand(d) THEN SessionsOf(d) = {s}
            ELSE sock[d] # Nil /\ registry[sock[d]] = s)'
        BY <2>1, <2>2, <3>2, <3>3, SMTT(10) DEF Frame, InHand, Stale
      <3>5. Unattached(d)' => Stale(d)'
        BY <2>1, <2>2, <3>1 DEF Frame, Holding, Securing, Unattached
      <3>6. Attached(d)' => Attached(d) /\ sock[d] # Nil
        BY <2>1, <2>2 DEF At, Attached, Frame, Holding, IoPhases, Resting
      <3>7. (Attached(d) /\ call[d].tls => registry[sock[d]] # Nil /\ ssl[registry[sock[d]]] = d)'
        <4>1. Types
          BY DEF IInv
        <4>2. sock[d] # Nil => sock[d] \in Fds /\ registry[sock[d]] \in Ssl \cup {Nil}
          BY <4>1 DEF Types, TypeOK
        <4> QED BY <2>2, <3>1, <3>6, <4>2 DEF Frame, Securing
      <3>8. (Attached(d) /\ ~call[d].tls => Stale(d))'
        BY <2>2, <3>1, <3>6 DEF Frame, Securing
      <3>9. (call[d].pc \in {"tls", "tls_connect", "attach"} => call[d].tls)'
        BY <2>2, <3>1 DEF Frame, Securing
      <3> QED BY <3>4, <3>5, <3>7, <3>8, <3>9 DEF Securing
    <2>5. Moving(d)'
      BY <2>1, <2>2, SMTT(10) DEF Frame, Holding, IoPhases, Local, Moving, Stale,
         Using
    <2>6. Progressing(d)'
      BY <2>1, <2>2, SMTT(10) DEF At, Frame, Local, Progressing, Resting, Stale
    <2>7. Judging(d)'
      BY <2>1, <2>2, SMTT(10) DEF At, Ending, Frame, Judging, Local, Refused,
         RejectedSoftly, Resting, Sound, Stale
    <2> QED BY <2>3, <2>4, <2>5, <2>6, <2>7 DEF Local
  <1> QED BY <1>1 DEF IInv, Kept

\* The checks of sqli_connect and what it resets before anything is opened.
LEMMA ConnectKept ==
  ASSUME IInv, NEW c \in Conn, Connect(c)
  PROVE  IInv'
  <1>1. Types /\ Descriptors /\ Registered
    /\ Holding(c) /\ Securing(c) /\ Moving(c) /\ Progressing(c) /\ Judging(c)
    BY DEF IInv, Local
  <1>2. ASSUME At(c, "idle"), ~discarded[c], state[c] = "CLOSED",
               connects' = [connects EXCEPT ![c] = @ + 1],
          srv' = [srv EXCEPT ![c] = NewServer], NEW t \in Transports, NEW tls \in BOOLEAN,
          call' = [call EXCEPT ![c] =
                               [NoCall EXCEPT !.pc = "address", !.unix = (t = "unix"),
                                   !.tls = tls,
                                              !.left = IF t = "unix" THEN 1
                                                  ELSE Addresses]],
          state' = [state EXCEPT ![c] = "CONNECTING"],
              err' = [err EXCEPT ![c] = NoError], UNCHANGED <<transport, discarded>>
    PROVE  Kept(c)
    <2>1. state' \in [Conn -> ConnState]
      BY <1>1, <1>2 DEF ConnState, Types
    <2>2. call' \in [Conn -> Call]
      <3>1. [NoCall EXCEPT !.pc = "address", !.unix = (t = "unix"), !.tls = tls,
            !.left = IF t = "unix" THEN 1 ELSE Addresses] \in Call
        <4>1. (t = "unix") \in BOOLEAN
          OBVIOUS
        <4>2. (IF t = "unix" THEN 1 ELSE Addresses) \in Nat
          BY HandshakeAssumption
        <4> QED BY <4>1, <4>2, CallRecords, Zenon
      <3>2. call' = [call EXCEPT ![c] = [NoCall EXCEPT !.pc = "address",
            !.unix = (t = "unix"), !.tls = tls, !.left = IF t = "unix" THEN 1
            ELSE Addresses]]
        BY <1>2
      <3> QED BY <1>1, <3>1, <3>2 DEF Types
    <2>3. err' \in [Conn -> Error]
      <3>1. NoError \in Error
        BY ErrorRecords
      <3>2. err' = [err EXCEPT ![c] = NoError]
        BY <1>2
      <3> QED BY <1>1, <3>1, <3>2 DEF Types
    <2>4. srv' \in [Conn -> Server]
      <3>1. NewServer \in Server
        BY ServerUpdates
      <3>2. srv' = [srv EXCEPT ![c] = NewServer]
        BY <1>2
      <3> QED BY <1>1, <3>1, <3>2 DEF Types
    <2>5. Types'
      BY <1>1, <1>2, <2>1, <2>2, <2>3, <2>4 DEF TypeOK, Types, transport
    <2>6. Descriptors'
      BY <1>1, <1>2 DEF Descriptors, transport
    <2>7. Registered'
      BY <1>1, <1>2 DEF Registered, transport
    <2>8. Frame(c)
      BY <1>2 DEF Frame, Stale, transport
    <2>9. Holding(c)'
      BY <1>1, <1>2 DEF At, Holding, Resting, transport
    <2>10. Securing(c)'
      BY <1>1, <1>2 DEF At, Attached, InHand, IoPhases, Resting, Securing, Stale,
         Unattached, transport
    <2>11. Moving(c)'
      BY <1>1, <1>2 DEF Holding, IoPhases, Moving, Using, transport
    <2>12. Progressing(c)'
      BY <1>1, <1>2 DEF At, Progressing, Resting, Types
    <2>13. Judging(c)'
      BY <1>1, <1>2 DEF At, Judging, NewServer, NoCall, Refused, Types
    <2> QED BY <2>5, <2>6, <2>7, <2>8, <2>9, <2>10, <2>11, <2>12, <2>13 DEF Kept,
         Local
  <1>3. ASSUME At(c, "idle"), ~discarded[c], state[c] = "CLOSED",
               connects' = [connects EXCEPT ![c] = @ + 1],
          srv' = [srv EXCEPT ![c] = NewServer], Out(c, SetError(FALSE), FALSE),
              UNCHANGED <<transport, discarded>>
    PROVE  Kept(c)
    <2>1. state' \in [Conn -> ConnState]
      BY <1>1, <1>3 DEF ConnState, Out, Types
    <2>2. call' \in [Conn -> Call]
      <3>1. NoCall \in Call
        BY CallRecords
      <3>2. call' = [call EXCEPT ![c] = NoCall]
        BY <1>3 DEF Out
      <3> QED BY <1>1, <3>1, <3>2 DEF Types
    <2>3. err' \in [Conn -> Error]
      <3>1. SetError(FALSE) \in Error
        BY ErrorRecords
      <3>2. err' = [err EXCEPT ![c] = IF call[c].soft THEN SetError(SetError(FALSE).network)
            ELSE SetError(FALSE)]
        BY <1>3 DEF Out
      <3>3. SetError(SetError(FALSE).network) = SetError(FALSE)
        BY ErrorClasses
      <3>4. err' = [err EXCEPT ![c] = SetError(FALSE)]
        BY <3>2, <3>3, Zenon
      <3> QED BY <1>1, <3>1, <3>4 DEF Types
    <2>4. srv' \in [Conn -> Server]
      <3>1. NewServer \in Server
        BY ServerUpdates
      <3>2. srv' = [srv EXCEPT ![c] = NewServer]
        BY <1>3
      <3> QED BY <1>1, <3>1, <3>2 DEF Types
    <2>5. Types'
      BY <1>1, <1>3, <2>1, <2>2, <2>3, <2>4 DEF TypeOK, Types, transport
    <2>6. Descriptors'
      BY <1>1, <1>3 DEF Descriptors, transport
    <2>7. Registered'
      BY <1>1, <1>3 DEF Registered, transport
    <2>8. Frame(c)
      BY <1>3 DEF Frame, Out, Stale, transport
    <2>9. Holding(c)'
      BY <1>1, <1>3 DEF At, Holding, NoCall, Out, Resting, transport
    <2>10. Securing(c)'
      BY <1>1, <1>3 DEF At, Attached, InHand, IoPhases, NoCall, Out, Resting,
         Securing, Stale, Unattached, transport
    <2>11. Moving(c)'
      BY <1>1, <1>3 DEF Holding, IoPhases, Moving, Using, transport
    <2>12. Progressing(c)'
      BY <1>3, <2>5 DEF At, NoCall, Out, Progressing, Resting, Types
    <2>13. Judging(c)'
      <3>1. err' = [err EXCEPT ![c] = IF call[c].soft THEN SetError(SetError(FALSE).network)
            ELSE SetError(FALSE)]
        BY <1>3 DEF Out
      <3>2. err'[c] = SetError(FALSE)
        <4>1. SetError(SetError(FALSE).network) = SetError(FALSE)
          BY ErrorClasses
        <4>2. err' = [err EXCEPT ![c] = SetError(FALSE)]
          BY <3>1, <4>1, Zenon
        <4> QED BY <1>1, <4>2 DEF Types
      <3>3. srv'[c] = NewServer
        BY <1>1, <1>3 DEF Types
      <3>4. ~Refused(c)'
        BY <3>3 DEF NewServer, Refused
      <3>5. Classify(err'[c]) # "AUTH"
        BY <3>2, ErrorClasses
      <3>6. Sound(c)'
        BY <3>4, <3>5 DEF RejectedSoftly, Sound
      <3>7. call'[c].pc = "idle" /\ state'[c] = "ERROR"
        BY <1>1, <1>3 DEF NoCall, Out, Types
      <3> QED BY <3>6, <3>7 DEF At, Judging, Resting
    <2> QED BY <2>5, <2>6, <2>7, <2>8, <2>9, <2>10, <2>11, <2>12, <2>13 DEF Kept,
         Local
  <1> QED BY <1>2, <1>3, OthersKept, Zenon DEF Connect

\* socket() for the next address (sqli_tcp_connect, sqli_unix_connect).
LEMMA OpenSocketKept ==
  ASSUME IInv, NEW c \in Conn, OpenSocket(c)
  PROVE  IInv'
  <1>1. Types /\ Descriptors /\ Registered
    /\ Holding(c) /\ Securing(c) /\ Moving(c) /\ Progressing(c) /\ Judging(c)
    BY DEF IInv, Local
  <1>2. call' \in [Conn -> Call]
    <2>1. [call[c] EXCEPT !.pc = "connecting"] \in Call
      BY <1>1, CallUpdates DEF CallPhase, Types
    <2>2. call' = [call EXCEPT ![c] = [call[c] EXCEPT !.pc = "connecting"]]
      BY DEF OpenSocket
    <2> QED BY <1>1, <2>1, <2>2 DEF Types
  <1>3. Types'
    BY <1>1, <1>2 DEF OpenSocket, Socket, TypeOK, Types
  <1>4. Descriptors'
    BY <1>1, TransportAssumption DEF Descriptors, Holding, OpenSocket, Socket, TypeOK,
       Types
  <1>5. Registered'
    BY <1>1, TransportAssumption DEF OpenSocket, Registered, Socket, TypeOK, Types
  <1>6. Frame(c)
    BY DEF Frame, OpenSocket, Socket, Stale
  <1>7. Holding(c)'
    BY <1>1, TransportAssumption DEF At, Holding, OpenSocket, Socket, TypeOK, Types
  <1>8. Securing(c)'
    BY <1>1 DEF At, Attached, Holding, InHand, IoPhases, OpenSocket, Registered,
       Resting, Securing, Socket, Stale, TypeOK, Types
  <1>9. Moving(c)'
    BY <1>1 DEF Holding, IoPhases, Moving, OpenSocket, Socket, Using
  <1>10. Progressing(c)'
    BY DEF At, OpenSocket, Progressing, Resting
  <1>11. Judging(c)'
    BY <1>1 DEF At, Ending, Judging, OpenSocket, Refused, Resting
  <1> QED BY <1>3, <1>4, <1>5, <1>6, <1>7, <1>8, <1>9, <1>10, <1>11, OthersKept DEF
       Kept, Local

\* An address that cannot be connected to: the next one, or the end of the call.
LEMMA AddressFailsKept ==
  ASSUME IInv, NEW c \in Conn, AddressFails(c)
  PROVE  IInv'
  <1>1. Types /\ Descriptors /\ Registered
    /\ Holding(c) /\ Securing(c) /\ Moving(c) /\ Progressing(c) /\ Judging(c)
    BY DEF IInv, Local
  <1>2. ASSUME At(c, "connecting"), Unsocket(c), call[c].left > 1,
          call' = [call EXCEPT ![c] = [call[c] EXCEPT !.pc = "address",
              !.left = call[c].left - 1]],
          UNCHANGED <<state, err, discarded, srv, connects>>
    PROVE  Kept(c)
    <2>1. kernel' \in [Fds -> Conn \cup {Lost, Nil}]
      BY <1>1, <1>2 DEF At, Holding, TypeOK, Types, Unsocket
    <2>2. call' \in [Conn -> Call]
      <3>1. [call[c] EXCEPT !.pc = "address", !.left = call[c].left - 1] \in Call
        <4>1. call[c] \in Call /\ call[c].left - 1 \in Nat
          BY <1>1, <1>2 DEF Call, Types
        <4> QED BY <4>1, CallRecords, Zenon
      <3>2. call' = [call EXCEPT ![c] = [call[c] EXCEPT !.pc = "address",
            !.left = call[c].left - 1]]
        BY <1>2
      <3> QED BY <1>1, <3>1, <3>2 DEF Types
    <2>3. Types'
      BY <1>1, <1>2, <2>1, <2>2 DEF TypeOK, Types, Unsocket
    <2>4. Descriptors'
      BY <1>1, <1>2, TransportAssumption DEF Descriptors, TypeOK, Types, Unsocket
    <2>5. Registered'
      BY <1>1, <1>2, TransportAssumption DEF At, Registered, Securing, Stale, TypeOK,
         Types, Unattached, Unsocket
    <2>6. Frame(c)
      BY <1>2 DEF Frame, Stale, Unsocket
    <2>7. Holding(c)'
      BY <1>1, <1>2 DEF At, Holding, Resting, TypeOK, Types, Unsocket
    <2>8. Securing(c)'
      BY <1>1, <1>2, TransportAssumption DEF At, Attached, InHand, IoPhases, Resting,
         Securing, Stale, Types, Unattached, Unsocket
    <2>9. Moving(c)'
      BY <1>1, <1>2 DEF At, IoPhases, Moving, Unsocket, Using
    <2>10. Progressing(c)'
      BY <1>2 DEF At, Progressing, Resting
    <2>11. Judging(c)'
      BY <1>1, <1>2 DEF At, Ending, Judging, Refused, Resting
    <2> QED BY <2>3, <2>4, <2>5, <2>6, <2>7, <2>8, <2>9, <2>10, <2>11 DEF Kept, Local
  <1>3. ASSUME At(c, "connecting"), Unsocket(c), Out(c, SetError(TRUE), FALSE),
               UNCHANGED <<discarded, srv, connects>>
    PROVE  Kept(c)
    <2>1. kernel' \in [Fds -> Conn \cup {Lost, Nil}]
      BY <1>1, <1>3 DEF At, Holding, TypeOK, Types, Unsocket
    <2>2. sock' \in [Conn -> Fds \cup {Nil}]
      BY <1>1, <1>3 DEF TypeOK, Types, Unsocket
    <2>3. state' \in [Conn -> ConnState]
      BY <1>1, <1>3 DEF ConnState, Out, Types
    <2>4. call' \in [Conn -> Call]
      <3>1. NoCall \in Call
        BY CallRecords
      <3>2. call' = [call EXCEPT ![c] = NoCall]
        BY <1>3 DEF Out
      <3> QED BY <1>1, <3>1, <3>2 DEF Types
    <2>5. err' \in [Conn -> Error]
      <3>1. SetError(TRUE) \in Error
        BY ErrorRecords
      <3>2. err' = [err EXCEPT ![c] = IF call[c].soft THEN SetError(SetError(TRUE).network)
            ELSE SetError(TRUE)]
        BY <1>3 DEF Out
      <3>3. SetError(SetError(TRUE).network) = SetError(TRUE)
        BY ErrorClasses
      <3>4. err' = [err EXCEPT ![c] = SetError(TRUE)]
        BY <3>2, <3>3, Zenon
      <3> QED BY <1>1, <3>1, <3>4 DEF Types
    <2>6. Types'
      BY <1>1, <1>3, <2>1, <2>2, <2>3, <2>4, <2>5 DEF TypeOK, Types, Unsocket
    <2>7. Descriptors'
      BY <1>1, <1>3, TransportAssumption DEF Descriptors, TypeOK, Types, Unsocket
    <2>8. Registered'
      BY <1>1, <1>3, TransportAssumption DEF At, Registered, Securing, Stale, TypeOK,
         Types, Unattached, Unsocket
    <2>9. Frame(c)
      BY <1>3 DEF Frame, Out, Stale, Unsocket
    <2>10. Holding(c)'
      BY <1>3, <2>6 DEF At, Holding, NoCall, Out, Resting, TypeOK, Types, Unsocket
    <2>11. Securing(c)'
      BY <1>1, <1>3, TransportAssumption DEF At, Attached, InHand, IoPhases, NoCall,
         Out, Resting, Securing, Stale, Types, Unattached, Unsocket
    <2>12. Moving(c)'
      BY <1>1, <1>3 DEF At, IoPhases, Moving, Unsocket, Using
    <2>13. Progressing(c)'
      BY <1>1, <1>3 DEF At, NoCall, Out, Progressing, Resting, Types
    <2>14. Judging(c)'
      <3>1. err' = [err EXCEPT ![c] = IF call[c].soft THEN SetError(SetError(TRUE).network)
            ELSE SetError(TRUE)]
        BY <1>3 DEF Out
      <3>2. err'[c] = SetError(TRUE)
        <4>1. SetError(SetError(TRUE).network) = SetError(TRUE)
          BY ErrorClasses
        <4>2. err' = [err EXCEPT ![c] = SetError(TRUE)]
          BY <3>1, <4>1, Zenon
        <4> QED BY <1>1, <4>2 DEF Types
      <3>3. srv' = srv /\ call[c].pc \in {"connecting", "tls_connect", "attach"}
        BY <1>3 DEF At
      <3>4. ~Refused(c)'
        BY <1>1, <3>3 DEF At, Ending, Judging, Refused
      <3>5. Classify(err'[c]) # "AUTH"
        BY <3>2, ErrorClasses
      <3>6. Sound(c)'
        BY <3>4, <3>5 DEF RejectedSoftly, Sound
      <3>7. call'[c].pc = "idle" /\ state'[c] = "ERROR"
        BY <1>1, <1>3 DEF NoCall, Out, Types
      <3> QED BY <3>6, <3>7 DEF At, Judging, Resting
    <2> QED BY <2>6, <2>7, <2>8, <2>9, <2>10, <2>11, <2>12, <2>13, <2>14 DEF Kept,
         Local
  <1> QED BY <1>2, <1>3, OthersKept DEF AddressFails

\* A connected socket goes on to TLS or to the first exchange.
LEMMA SocketConnectedKept ==
  ASSUME IInv, NEW c \in Conn, SocketConnected(c)
  PROVE  IInv'
  <1>1. Types /\ Descriptors /\ Registered
    /\ Holding(c) /\ Securing(c) /\ Moving(c) /\ Progressing(c) /\ Judging(c)
    BY DEF IInv, Local
  <1>2. ASSUME At(c, "connecting"), call[c].tls, Advance(c, "tls"), UNCHANGED srv
    PROVE  Kept(c)
    <2>1. srv' \in [Conn -> Server] /\ \A d \in Conn \ {c} : srv'[d] = srv[d]
      BY <1>1, <1>2 DEF Types
    <2>2. "tls" \in CallPhase
      BY DEF CallPhase
    <2>3. Advanced(c, "tls")
      BY <1>2, <2>1, <2>2, AdvanceFacts
    <2>4. Holding(c)'
      BY <1>1, <1>2, <2>3 DEF Advanced, At, Holding
    <2>5. Securing(c)'
      BY <1>1, <1>2, <2>3 DEF Advanced, At, Attached, InHand, IoPhases, Resting,
         Securing, Stale, Unattached
    <2>6. Moving(c)'
      BY <2>3 DEF Advanced, IoPhases, Moving, NoIo, Using
    <2>7. Progressing(c)'
      BY <2>3 DEF Advanced, At, Progressing, Resting
    <2>8. Judging(c)'
      BY <1>1, <1>2, <2>3 DEF Advanced, At, Ending, Judging, Refused, Resting
    <2> QED BY <2>3, <2>4, <2>5, <2>6, <2>7, <2>8 DEF Advanced, Kept, Local
  <1>3. ASSUME At(c, "connecting"), ~call[c].tls, Advance(c, FirstPhase(c)), UNCHANGED srv
    PROVE  Kept(c)
    <2>1. srv' \in [Conn -> Server] /\ \A d \in Conn \ {c} : srv'[d] = srv[d]
      BY <1>1, <1>3 DEF Types
    <2>2. FirstPhase(c) \in CallPhase
      BY DEF CallPhase, FirstPhase, IoPhases
    <2>3. Advanced(c, FirstPhase(c))
      BY <1>3, <2>1, <2>2, AdvanceFacts
    <2>4. Holding(c)'
      BY <1>1, <1>3, <2>3 DEF Advanced, At, FirstPhase, Holding
    <2>5. Securing(c)'
      BY <1>1, <1>3, <2>3 DEF Advanced, At, FirstPhase, InHand, Securing, Stale,
         Unattached
    <2>6. Moving(c)'
      BY <2>3 DEF Advanced, Moving, NoIo, Starting, Using
    <2>7. Progressing(c)'
      BY <2>3 DEF Advanced, At, FirstPhase, Progressing, Resting
    <2>8. Judging(c)'
      BY <1>1, <1>3, <2>3 DEF Advanced, At, Ending, FirstPhase, Judging, Refused,
         Resting
    <2> QED BY <2>3, <2>4, <2>5, <2>6, <2>7, <2>8 DEF Advanced, Kept, Local
  <1> QED BY <1>2, <1>3, OthersKept DEF SocketConnected

\* sqli_tls_connect fails before it has a session.
LEMMA SslUnavailableKept ==
  ASSUME IInv, NEW c \in Conn, SslUnavailable(c)
  PROVE  IInv'
  <1>1. Types /\ Descriptors /\ Registered
    /\ Holding(c) /\ Securing(c) /\ Moving(c) /\ Progressing(c) /\ Judging(c)
    BY DEF IInv, Local
  <1>2. srv' \in [Conn -> Server] /\ \A d \in Conn \ {c} : srv'[d] = srv[d]
    BY <1>1 DEF SslUnavailable, Types
  <1>3. SetError(FALSE) \in Error
    BY ErrorRecords
  <1>4. Failed(c, SetError(FALSE))
    BY <1>2, <1>3, FailFacts DEF SslUnavailable
  <1>5. Holding(c)'
    BY <1>1, <1>4 DEF At, Failed, Holding, SslUnavailable
  <1>6. Securing(c)'
    BY <1>1, <1>4 DEF At, Attached, Failed, InHand, IoPhases, Resting, Securing,
       SslUnavailable, Stale, Unattached
  <1>7. Moving(c)'
    BY <1>4 DEF Failed, Moving, NoIo, Using
  <1>8. Progressing(c)'
    BY <1>4 DEF At, Failed, Progressing, Resting
  <1>9. Judging(c)'
    <2>1. Classify(SetError(FALSE)) = "AUTH" => Refused(c)' /\ ~RejectedSoftly(c)'
      BY ErrorClasses
    <2>2. Refused(c)' => ~Retryable(SetError(FALSE)) /\ ~SetError(FALSE).network
      BY ErrorClasses
    <2> QED BY <1>3, <1>4, <2>1, <2>2, FailJudged
  <1> QED BY <1>4, <1>5, <1>6, <1>7, <1>8, <1>9, OthersKept DEF Failed, Kept, Local

\* SSL_new of sqli_tls_connect.
LEMMA SslCreateKept ==
  ASSUME IInv, NEW c \in Conn, SslCreate(c)
  PROVE  IInv'
  <1>1. Types /\ Descriptors /\ Registered
    /\ Holding(c) /\ Securing(c) /\ Moving(c) /\ Progressing(c) /\ Judging(c)
    BY DEF IInv, Local
  <1>2. call' \in [Conn -> Call]
    <2>1. [call[c] EXCEPT !.pc = "tls_connect"] \in Call
      BY <1>1, CallUpdates DEF CallPhase, Types
    <2>2. call' = [call EXCEPT ![c] = [call[c] EXCEPT !.pc = "tls_connect"]]
      BY DEF SslCreate
    <2> QED BY <1>1, <2>1, <2>2 DEF Types
  <1>3. Types'
    BY <1>1, <1>2 DEF NewSession, SslCreate, TypeOK, Types
  <1>4. Descriptors'
    BY <1>1 DEF Descriptors, NewSession, SslCreate
  <1>5. Registered'
    BY <1>1, TransportAssumption DEF NewSession, Registered, SslCreate, TypeOK, Types
  <1>6. Frame(c)
    BY TransportAssumption DEF Frame, NewSession, SslCreate, Stale
  <1>7. Holding(c)'
    BY <1>1 DEF At, Holding, NewSession, SslCreate
  <1>8. Securing(c)'
    BY <1>1, TransportAssumption DEF At, Attached, InHand, IoPhases, NewSession,
       Resting, Securing, SessionsOf, SslCreate, Stale, Types, Unattached
  <1>9. Moving(c)'
    BY <1>1 DEF At, IoPhases, Moving, NewSession, SslCreate, Using
  <1>10. Progressing(c)'
    BY DEF At, Progressing, Resting, SslCreate
  <1>11. Judging(c)'
    BY <1>1 DEF At, Ending, Judging, Refused, Resting, SslCreate
  <1> QED BY <1>3, <1>4, <1>5, <1>6, <1>7, <1>8, <1>9, <1>10, <1>11, OthersKept DEF
       Kept, Local

\* sqli_tls_connect fails with a session in hand, and frees it.
LEMMA SslFailsKept ==
  ASSUME IInv, NEW c \in Conn, SslFails(c)
  PROVE  IInv'
  <1>1. Types /\ Descriptors /\ Registered
    /\ Holding(c) /\ Securing(c) /\ Moving(c) /\ Progressing(c) /\ Judging(c)
    BY DEF IInv, Local
  <1>2. state' \in [Conn -> ConnState]
    BY <1>1 DEF Out, SslFails, Types
  <1>3. call' \in [Conn -> Call]
    <2>1. [call[c] EXCEPT !.pc = "detach", !.prompts = 0, !.after = "ERROR"] \in Call
      BY <1>1, CallRecords DEF CallPhase, Types
    <2>2. call' = [call EXCEPT ![c] = [call[c] EXCEPT !.pc = "detach", !.prompts = 0, !.after = "ERROR"]]
      BY DEF Out, SslFails
    <2> QED BY <1>1, <2>1, <2>2 DEF Types
  <1>4. err' \in [Conn -> Error]
    <2>1. SetError(FALSE) \in Error
      BY ErrorRecords
    <2>2. err' = [err EXCEPT ![c] = IF call[c].soft THEN SetError(SetError(FALSE).network)
          ELSE SetError(FALSE)]
      BY DEF Out, SslFails
    <2>3. SetError(SetError(FALSE).network) = SetError(FALSE)
      BY ErrorClasses
    <2>4. err' = [err EXCEPT ![c] = SetError(FALSE)]
      BY <2>2, <2>3, Zenon
    <2> QED BY <1>1, <2>1, <2>4 DEF Types
  <1>5. Types'
    BY <1>1, <1>2, <1>3, <1>4 DEF FreeSession, SslFails, TypeOK, Types
  <1>6. Descriptors'
    BY <1>1 DEF Descriptors, FreeSession, SslFails
  <1>7. Registered'
    BY <1>1, TransportAssumption DEF Descriptors, FreeSession, Registered, Securing,
       SslFails, Stale, TypeOK, Types, Unattached
  <1>8. Frame(c)
    BY <1>1, TransportAssumption DEF Frame, FreeSession, Out, SslFails, Stale, TypeOK,
       Types
  <1>9. Holding(c)'
    BY <1>1 DEF At, FreeSession, Holding, Out, SslFails
  <1>10. Securing(c)'
    BY <1>1, TransportAssumption DEF At, Attached, FreeSession, Holding, IoPhases, Out,
       Resting, Securing, SslFails, Stale, TypeOK, Types, Unattached
  <1>11. Moving(c)'
    BY <1>1 DEF FreeSession, IoPhases, Moving, SslFails, Using
  <1>12. Progressing(c)'
    BY DEF At, Out, Progressing, Resting, SslFails
  <1>13. Judging(c)'
    <2>1. err' = [err EXCEPT ![c] = IF call[c].soft THEN SetError(SetError(FALSE).network)
          ELSE SetError(FALSE)]
      BY DEF Out, SslFails
    <2>2. err'[c] = SetError(FALSE)
      <3>1. SetError(SetError(FALSE).network) = SetError(FALSE)
        BY ErrorClasses
      <3>2. err' = [err EXCEPT ![c] = SetError(FALSE)]
        BY <2>1, <3>1, Zenon
      <3> QED BY <1>1, <3>2 DEF Types
    <2>3. srv' = srv /\ call[c].pc \in {"connecting", "tls_connect", "attach"}
      BY DEF SslFails
    <2>4. ~Refused(c)'
      BY <1>1, <2>3 DEF At, Ending, Judging, Refused
    <2>5. Classify(err'[c]) # "AUTH"
      BY <2>2, ErrorClasses
    <2>6. Sound(c)'
      BY <2>4, <2>5 DEF RejectedSoftly, Sound
    <2>7. call'[c].pc = "detach"
      <3>1. call' = [call EXCEPT ![c] = [call[c] EXCEPT !.pc = "detach", !.prompts = 0, !.after = "ERROR"]]
        BY DEF Out, SslFails
      <3> QED BY <1>1, <3>1 DEF Types
    <2> QED BY <2>4, <2>6, <2>7 DEF At, Judging, Resting
  <1> QED BY <1>5, <1>6, <1>7, <1>8, <1>9, <1>10, <1>11, <1>12, <1>13, OthersKept DEF
       Kept, Local

\* SSL_connect succeeded.
LEMMA SslConnectedKept ==
  ASSUME IInv, NEW c \in Conn, SslConnected(c)
  PROVE  IInv'
  <1>1. Types /\ Descriptors /\ Registered
    /\ Holding(c) /\ Securing(c) /\ Moving(c) /\ Progressing(c) /\ Judging(c)
    BY DEF IInv, Local
  <1>2. srv' \in [Conn -> Server] /\ \A d \in Conn \ {c} : srv'[d] = srv[d]
    BY <1>1 DEF SslConnected, Types
  <1>3. "attach" \in CallPhase
    BY DEF CallPhase
  <1>4. Advanced(c, "attach")
    BY <1>2, <1>3, AdvanceFacts DEF SslConnected
  <1>5. Holding(c)'
    BY <1>1, <1>4 DEF Advanced, At, Holding, SslConnected
  <1>6. Securing(c)'
    BY <1>1, <1>4 DEF Advanced, At, Attached, InHand, IoPhases, Resting, Securing,
       SessionsOf, SslConnected, Stale, Unattached
  <1>7. Moving(c)'
    BY <1>4 DEF Advanced, IoPhases, Moving, NoIo, Using
  <1>8. Progressing(c)'
    BY <1>4 DEF Advanced, At, Progressing, Resting
  <1>9. Judging(c)'
    BY <1>1, <1>4 DEF Advanced, At, Ending, Judging, Refused, Resting, SslConnected
  <1> QED BY <1>4, <1>5, <1>6, <1>7, <1>8, <1>9, OthersKept DEF Advanced, Kept, Local

\* sqli_tcp_tls_attach enters the session in the registry.
LEMMA AttachTlsKept ==
  ASSUME IInv, NEW c \in Conn, AttachTls(c)
  PROVE  IInv'
  <1>1. Types /\ Descriptors /\ Registered
    /\ Holding(c) /\ Securing(c) /\ Moving(c) /\ Progressing(c) /\ Judging(c)
    BY DEF IInv, Local
  <1>2. registry' \in [Fds -> Ssl \cup {Nil}]
    BY <1>1 DEF At, Attach, AttachTls, Holding, SessionsOf, TypeOK, Types
  <1>3. io' \in [Conn -> [stage: {"none", "look", "use"}, ssl: Ssl \cup {Nil}]]
    BY <1>1 DEF AttachTls, Enter, NoIo, Starting, TypeOK, Types
  <1>4. state' \in [Conn -> ConnState]
    BY <1>1 DEF AttachTls, ConnState, Enter, StateIn, Types
  <1>5. call' \in [Conn -> Call]
    <2>1. [call[c] EXCEPT !.pc = FirstPhase(c), !.left = 0, !.prompts = 0] \in Call
      <3>1. call[c] \in Call /\ FirstPhase(c) \in CallPhase
        BY <1>1 DEF CallPhase, FirstPhase, IoPhases, Types
      <3> QED BY <3>1, CallRecords
    <2>2. call' = [call EXCEPT ![c] = [call[c] EXCEPT !.pc = FirstPhase(c), !.left = 0, !.prompts = 0]]
      BY DEF AttachTls, Enter
    <2> QED BY <1>1, <2>1, <2>2 DEF Types
  <1>6. Types'
    BY <1>1, <1>2, <1>3, <1>4, <1>5 DEF Attach, AttachTls, TypeOK, Types
  <1>7. Descriptors'
    BY <1>1 DEF Attach, AttachTls, Descriptors
  <1>8. Registered'
    <2>1. PICK s \in SessionsOf(c) :
            /\ registry' = [registry EXCEPT ![sock[c]] = s]
            /\ ssl' = [x \in Ssl |-> IF x = registry[sock[c]] THEN Nil ELSE ssl[x]]
      BY DEF Attach, AttachTls
    <2>2. sock[c] \in Fds /\ kernel[sock[c]] = c /\ kernel' = kernel
      BY <1>1 DEF At, Attach, AttachTls, Descriptors, Holding, TypeOK, Types
    <2>3. Stale(c) /\ ssl[s] = c /\ s \in Ssl
      BY <1>1, <2>1 DEF At, AttachTls, Securing, SessionsOf, Unattached
    <2>4. \A g \in Fds : registry[g] # s
      BY <1>1, <2>2, <2>3, TransportAssumption DEF Descriptors, Registered, Stale
    <2>5. ssl'[s] = c
      BY <2>1, <2>2, <2>3, <2>4
    <2>6. ASSUME NEW f \in Fds, registry'[f] # Nil
          PROVE  ssl'[registry'[f]] = Lost \/ (kernel'[f] # Nil /\ ssl'[registry'[f]] = kernel'[f])
      <3>1. CASE f = sock[c]
        BY <1>1, <2>1, <2>2, <2>5, <3>1, TransportAssumption DEF TypeOK, Types
      <3>2. CASE f # sock[c]
        <4>1. registry'[f] = registry[f] /\ registry[f] # registry[sock[c]]
          BY <1>1, <2>1, <2>2, <2>6, <3>2 DEF Registered, TypeOK, Types
        <4>2. ssl'[registry[f]] = ssl[registry[f]]
          BY <1>1, <2>1, <2>6, <4>1 DEF TypeOK, Types
        <4> QED BY <1>1, <2>2, <2>6, <4>1, <4>2 DEF Registered
      <3> QED BY <3>1, <3>2
    <2>7. \A f, g \in Fds : registry'[f] # Nil /\ registry'[f] = registry'[g] => f = g
      BY <1>1, <2>1, <2>2, <2>4 DEF Registered, TypeOK, Types
    <2>8. "sync" \notin Faults =>
            (\A f \in Fds : kernel'[f] # Lost) /\ (\A x \in Ssl : ssl'[x] # Lost)
      BY <1>1, <2>1, <2>2, TransportAssumption DEF Registered
    <2> QED BY <2>6, <2>7, <2>8 DEF Registered
  <1>9. Frame(c)
    <2>1. PICK s \in SessionsOf(c) :
            /\ registry' = [registry EXCEPT ![sock[c]] = s]
            /\ ssl' = [x \in Ssl |-> IF x = registry[sock[c]] THEN Nil ELSE ssl[x]]
      BY DEF Attach, AttachTls
    <2>2. sock[c] \in Fds /\ kernel[sock[c]] = c /\ Stale(c)
      BY <1>1 DEF At, AttachTls, Descriptors, Holding, Securing, TypeOK, Types, Unattached
    <2> SUFFICES ASSUME NEW d \in Conn \ {c}
                 PROVE  /\ sock[d] # Nil => registry'[sock[d]] = registry[sock[d]]
                        /\ sock[d] # Nil /\ Stale(d) => Stale(d)'
                        /\ \A x \in Ssl : ssl'[x] = d <=> ssl[x] = d
      BY <1>1 DEF Attach, AttachTls, Enter, Frame, TypeOK, Types
    <2>3. sock[d] # Nil => sock[d] \in Fds /\ sock[d] # sock[c] /\ kernel[sock[d]] = d
      BY <1>1, <2>2 DEF Descriptors, TypeOK, Types
    <2>4. sock[d] # Nil => registry'[sock[d]] = registry[sock[d]]
      BY <1>1, <2>1, <2>2, <2>3 DEF TypeOK, Types
    <2>5. sock[d] # Nil /\ registry[sock[d]] # Nil => registry[sock[d]] # registry[sock[c]]
      BY <1>1, <2>2, <2>3 DEF Registered
    <2>6. sock' = sock
      BY DEF Attach, AttachTls
    <2>7. sock[d] # Nil /\ Stale(d) => Stale(d)'
      BY <1>1, <2>1, <2>3, <2>4, <2>5, <2>6 DEF Stale, TypeOK, Types
    <2>8. \A x \in Ssl : ssl'[x] = d <=> ssl[x] = d
      BY <2>1, <2>2, TransportAssumption DEF Stale
    <2> QED BY <2>4, <2>7, <2>8
  <1>10. Holding(c)'
    BY <1>1 DEF At, Attach, AttachTls, Enter, FirstPhase, Holding
  <1>11. Securing(c)'
    BY <1>1, <1>6, TransportAssumption DEF At, Attach, AttachTls, Enter, FirstPhase,
       Securing, SessionsOf, Stale, TypeOK, Types, Unattached
  <1>12. Moving(c)'
    BY <1>6 DEF AttachTls, Enter, Moving, NoIo, Starting, TypeOK, Types, Using
  <1>13. Progressing(c)'
    BY DEF At, AttachTls, Enter, FirstPhase, Progressing, Resting
  <1>14. Judging(c)'
    BY <1>1 DEF At, AttachTls, Ending, Enter, FirstPhase, Judging, Refused, Resting
  <1> QED BY <1>6, <1>7, <1>8, <1>9, <1>10, <1>11, <1>12, <1>13, <1>14, OthersKept DEF
       Kept, Local

\* find_tls_entry, under the mutex.
LEMMA LookUpKept ==
  ASSUME IInv, NEW c \in Conn, LookUp(c)
  PROVE  IInv'
  <1>1. Types /\ Descriptors /\ Registered
    /\ Holding(c) /\ Securing(c) /\ Moving(c) /\ Progressing(c) /\ Judging(c)
    BY DEF IInv, Local
  <1>2. io' \in [Conn -> [stage: {"none", "look", "use"}, ssl: Ssl \cup {Nil}]]
    BY <1>1 DEF Holding, IoPhases, LookUp, Lookup, Moving, TypeOK, Types
  <1>3. Types'
    BY <1>1, <1>2 DEF LookUp, Lookup, TypeOK, Types
  <1>4. Descriptors'
    BY <1>1 DEF Descriptors, LookUp, Lookup
  <1>5. Registered'
    BY <1>1 DEF LookUp, Lookup, Registered
  <1>6. Frame(c)
    BY DEF Frame, LookUp, Lookup, Stale
  <1>7. Holding(c)'
    BY <1>1 DEF At, Holding, IoPhases, LookUp, Lookup, Moving
  <1>8. Securing(c)'
    BY <1>1 DEF At, Attached, InHand, IoPhases, LookUp, Lookup, Moving, Resting,
       Securing, SessionsOf, Stale, Unattached
  <1>9. Moving(c)'
    BY <1>1 DEF LookUp, Lookup, Moving, Using
  <1>10. Progressing(c)'
    BY <1>1 DEF At, LookUp, Progressing, Resting
  <1>11. Judging(c)'
    BY <1>1 DEF At, Ending, Judging, LookUp, Refused, RejectedSoftly, Resting, Sound
  <1> QED BY <1>3, <1>4, <1>5, <1>6, <1>7, <1>8, <1>9, <1>10, <1>11, OthersKept DEF
       Kept, Local

\* A part of the data moved, or the call has to wait.
LEMMA MovePartKept ==
  ASSUME IInv, NEW c \in Conn, MovePart(c)
  PROVE  IInv'
  <1>1. Types /\ Descriptors /\ Registered
    /\ Holding(c) /\ Securing(c) /\ Moving(c) /\ Progressing(c) /\ Judging(c)
    BY DEF IInv, Local
  <1>2. io' \in [Conn -> [stage: {"none", "look", "use"}, ssl: Ssl \cup {Nil}]]
    BY <1>1 DEF MovePart, NoIo, Partial, Starting, TypeOK, Types
  <1>3. Types'
    BY <1>1, <1>2 DEF MovePart, Partial, TypeOK, Types
  <1>4. Descriptors'
    BY <1>1 DEF Descriptors, MovePart, Partial
  <1>5. Registered'
    BY <1>1 DEF MovePart, Partial, Registered
  <1>6. Frame(c)
    BY DEF Frame, MovePart, Partial, Stale
  <1>7. Holding(c)'
    BY <1>1 DEF At, Holding, IoPhases, MovePart, Moving, Partial
  <1>8. Securing(c)'
    BY <1>1 DEF At, Attached, InHand, IoPhases, MovePart, Moving, Partial, Resting,
       Securing, SessionsOf, Stale, Unattached, Using
  <1>9. Moving(c)'
    BY <1>1 DEF MovePart, Moving, Partial, Starting, Using
  <1>10. Progressing(c)'
    BY <1>1 DEF At, MovePart, Progressing, Resting
  <1>11. Judging(c)'
    BY <1>1 DEF At, Ending, Judging, MovePart, Refused, RejectedSoftly, Resting, Sound
  <1> QED BY <1>3, <1>4, <1>5, <1>6, <1>7, <1>8, <1>9, <1>10, <1>11, OthersKept DEF
       Kept, Local

\* A read or write of the handshake fails.
LEMMA BrokenKept ==
  ASSUME IInv, NEW c \in Conn, Broken(c)
  PROVE  IInv'
  <1>1. Types /\ Descriptors /\ Registered
    /\ Holding(c) /\ Securing(c) /\ Moving(c) /\ Progressing(c) /\ Judging(c)
    BY DEF IInv, Local
  <1>2. ASSUME NEW e \in {NoError, SetError(TRUE), SetError(FALSE)}, Using(c),
               call[c].pc \in IoPhases \ {"info_more", "exit", "work"}, Fail(c, e),
               UNCHANGED srv
    PROVE  Kept(c)
    <2>1. srv' \in [Conn -> Server] /\ \A d \in Conn \ {c} : srv'[d] = srv[d]
      BY <1>1, <1>2 DEF Types
    <2>2. e \in Error
      BY ErrorRecords
    <2>3. Failed(c, e)
      BY <1>2, <2>1, <2>2, FailFacts
    <2>4. Holding(c)'
      BY <1>1, <1>2, <2>3 DEF At, Failed, Holding, IoPhases
    <2>5. Securing(c)'
      BY <1>1, <1>2, <2>3 DEF At, Attached, Failed, InHand, IoPhases, Resting,
         Securing, Stale, Unattached
    <2>6. Moving(c)'
      BY <2>3 DEF Failed, Moving, NoIo, Using
    <2>7. Progressing(c)'
      BY <2>3 DEF At, Failed, Progressing, Resting
    <2>8. Judging(c)'
      <3>1. Classify(e) = "AUTH" => Refused(c)' /\ ~RejectedSoftly(c)'
        BY ErrorClasses
      <3>2. Refused(c)' => ~Retryable(e) /\ ~e.network
        BY <1>1, <1>2 DEF At, Ending, IoPhases, Judging, Refused
      <3> QED BY <2>2, <2>3, <3>1, <3>2, FailJudged
    <2> QED BY <2>3, <2>4, <2>5, <2>6, <2>7, <2>8 DEF Failed, Kept, Local
  <1> QED BY <1>2, OthersKept DEF Broken, BrokenError

\* Failures nobody looks at: in SQ_EXIT, at work.
LEMMA BrokenQuietlyKept ==
  ASSUME IInv, NEW c \in Conn, BrokenQuietly(c)
  PROVE  IInv'
  <1>1. Types /\ Descriptors /\ Registered
    /\ Holding(c) /\ Securing(c) /\ Moving(c) /\ Progressing(c) /\ Judging(c)
    BY DEF IInv, Local
  <1>2. ASSUME At(c, "exit"), Advance(c, "detach"), UNCHANGED srv
    PROVE  Kept(c)
    <2>1. srv' \in [Conn -> Server] /\ \A d \in Conn \ {c} : srv'[d] = srv[d]
      BY <1>1, <1>2 DEF Types
    <2>2. "detach" \in CallPhase
      BY DEF CallPhase
    <2>3. Advanced(c, "detach")
      BY <1>2, <2>1, <2>2, AdvanceFacts
    <2>4. Holding(c)'
      BY <1>1, <1>2, <2>3 DEF Advanced, At, Holding
    <2>5. Securing(c)'
      BY <1>1, <1>2, <2>3 DEF Advanced, At, Attached, InHand, IoPhases, Securing,
         Stale, Unattached
    <2>6. Moving(c)'
      BY <2>3 DEF Advanced, IoPhases, Moving, NoIo, Using
    <2>7. Progressing(c)'
      BY <2>3 DEF Advanced, At, Progressing, Resting
    <2>8. Judging(c)'
      BY <1>1, <1>2, <2>3 DEF Advanced, At, Ending, Judging, Resting
    <2> QED BY <2>3, <2>4, <2>5, <2>6, <2>7, <2>8 DEF Advanced, Kept, Local
  <1>3. ASSUME At(c, "work"), Advance(c, "idle"), UNCHANGED srv
    PROVE  Kept(c)
    <2>1. srv' \in [Conn -> Server] /\ \A d \in Conn \ {c} : srv'[d] = srv[d]
      BY <1>1, <1>3 DEF Types
    <2>2. "idle" \in CallPhase
      BY DEF CallPhase
    <2>3. Advanced(c, "idle")
      BY <1>3, <2>1, <2>2, AdvanceFacts
    <2>4. Holding(c)'
      BY <1>1, <1>3, <2>3 DEF Advanced, At, Holding, StateIn
    <2>5. Securing(c)'
      BY <1>1, <1>3, <2>3 DEF Advanced, At, Attached, InHand, IoPhases, Securing,
         Stale, Unattached
    <2>6. Moving(c)'
      BY <2>3 DEF Advanced, IoPhases, Moving, NoIo, Using
    <2>7. Progressing(c)'
      BY <1>1, <1>3 DEF At, Progressing
    <2>8. Judging(c)'
      BY <1>1, <1>3, <2>3, ErrorClasses DEF Advanced, At, Judging, RejectedSoftly,
         Sound
    <2> QED BY <2>3, <2>4, <2>5, <2>6, <2>7, <2>8 DEF Advanced, Kept, Local
  <1> QED BY <1>2, <1>3, OthersKept DEF BrokenQuietly

\* The greeting behind a Unix socket.
LEMMA GreetingKept ==
  ASSUME IInv, NEW c \in Conn, Greeting(c)
  PROVE  IInv'
  <1>1. Types /\ Descriptors /\ Registered
    /\ Holding(c) /\ Securing(c) /\ Moving(c) /\ Progressing(c) /\ Judging(c)
    BY DEF IInv, Local
  <1>2. srv' \in [Conn -> Server] /\ \A d \in Conn \ {c} : srv'[d] = srv[d]
    BY <1>1 DEF Greeting, Types
  <1>3. "conreq" \in CallPhase
    BY DEF CallPhase
  <1>4. Advanced(c, "conreq")
    BY <1>2, <1>3, AdvanceFacts DEF Greeting
  <1>5. Holding(c)'
    BY <1>1, <1>4 DEF Advanced, At, Greeting, Holding, Received
  <1>6. Securing(c)'
    BY <1>1, <1>4 DEF Advanced, At, Attached, Greeting, InHand, Moving, Received,
       Securing, Stale, Unattached, Using
  <1>7. Moving(c)'
    BY <1>4 DEF Advanced, IoPhases, Moving, NoIo, Using
  <1>8. Progressing(c)'
    BY <1>4 DEF Advanced, At, Progressing, Resting
  <1>9. Judging(c)'
    BY <1>1, <1>4 DEF Advanced, At, Ending, Greeting, Judging, Received, Refused,
       Resting
  <1> QED BY <1>4, <1>5, <1>6, <1>7, <1>8, <1>9, OthersKept DEF Advanced, Kept, Local

\* The connection request, which may not fit its buffers.
LEMMA RequestKept ==
  ASSUME IInv, NEW c \in Conn, Request(c)
  PROVE  IInv'
  <1>1. Types /\ Descriptors /\ Registered
    /\ Holding(c) /\ Securing(c) /\ Moving(c) /\ Progressing(c) /\ Judging(c)
    BY DEF IInv, Local
  <1>2. ASSUME At(c, "conreq"), Advance(c, "conacc"), UNCHANGED srv
    PROVE  Kept(c)
    <2>1. srv' \in [Conn -> Server] /\ \A d \in Conn \ {c} : srv'[d] = srv[d]
      BY <1>1, <1>2 DEF Types
    <2>2. "conacc" \in CallPhase
      BY DEF CallPhase, IoPhases
    <2>3. Advanced(c, "conacc")
      BY <1>2, <2>1, <2>2, AdvanceFacts
    <2>4. Holding(c)'
      BY <1>1, <1>2, <2>3 DEF Advanced, At, Holding
    <2>5. Securing(c)'
      BY <1>1, <1>2, <2>3 DEF Advanced, At, Attached, InHand, Securing, Stale,
         Unattached
    <2>6. Moving(c)'
      BY <2>3 DEF Advanced, Moving, NoIo, Starting, Using
    <2>7. Progressing(c)'
      BY <2>3 DEF Advanced, At, Progressing, Resting
    <2>8. Judging(c)'
      BY <1>1, <2>3 DEF Advanced, At, Ending, Judging, Refused, Request, Resting
    <2> QED BY <2>3, <2>4, <2>5, <2>6, <2>7, <2>8 DEF Advanced, Kept, Local
  <1>3. ASSUME At(c, "conreq"), Fail(c, SetError(FALSE)), UNCHANGED srv
    PROVE  Kept(c)
    <2>1. srv' \in [Conn -> Server] /\ \A d \in Conn \ {c} : srv'[d] = srv[d]
      BY <1>1, <1>3 DEF Types
    <2>2. SetError(FALSE) \in Error
      BY ErrorRecords
    <2>3. Failed(c, SetError(FALSE))
      BY <1>3, <2>1, <2>2, FailFacts
    <2>4. Holding(c)'
      BY <1>1, <1>3, <2>3 DEF At, Failed, Holding
    <2>5. Securing(c)'
      BY <1>1, <1>3, <2>3 DEF At, Attached, Failed, InHand, IoPhases, Resting,
         Securing, Stale, Unattached
    <2>6. Moving(c)'
      BY <2>3 DEF Failed, Moving, NoIo, Using
    <2>7. Progressing(c)'
      BY <2>3 DEF At, Failed, Progressing, Resting
    <2>8. Judging(c)'
      <3>1. Classify(SetError(FALSE)) = "AUTH" => Refused(c)' /\ ~RejectedSoftly(c)'
        BY ErrorClasses
      <3>2. Refused(c)' => ~Retryable(SetError(FALSE)) /\ ~SetError(FALSE).network
        BY ErrorClasses
      <3> QED BY <2>2, <2>3, <3>1, <3>2, FailJudged
    <2> QED BY <2>3, <2>4, <2>5, <2>6, <2>7, <2>8 DEF Failed, Kept, Local
  <1> QED BY <1>2, <1>3, OthersKept DEF Request

\* The answer to the request: accepted, rejected softly, refused, or none of
\* them.
LEMMA AssociatedKept ==
  ASSUME IInv, NEW c \in Conn, Associated(c)
  PROVE  IInv'
  <1>1. Types /\ Descriptors /\ Registered
    /\ Holding(c) /\ Securing(c) /\ Moving(c) /\ Progressing(c) /\ Judging(c)
    BY DEF IInv, Local
  <1>2. ASSUME Received(c, "conacc"), Advance(c, "protocols"),
               srv' = [srv EXCEPT ![c] = [srv[c] EXCEPT !.assoc = "accepted"]]
    PROVE  Kept(c)
    <2>1. srv' \in [Conn -> Server] /\ \A d \in Conn \ {c} : srv'[d] = srv[d]
      <3>1. [srv[c] EXCEPT !.assoc = "accepted"] \in Server
        BY <1>1, ServerUpdates DEF Types
      <3> QED BY <1>1, <1>2, <3>1 DEF Types
    <2>2. "protocols" \in CallPhase
      BY DEF CallPhase, IoPhases
    <2>3. Advanced(c, "protocols")
      BY <1>2, <2>1, <2>2, AdvanceFacts
    <2>4. Holding(c)'
      BY <1>1, <1>2, <2>3 DEF Advanced, At, Holding, Received
    <2>5. Securing(c)'
      BY <1>1, <1>2, <2>3 DEF Advanced, At, Attached, InHand, Moving, Received,
         Securing, Stale, Unattached, Using
    <2>6. Moving(c)'
      BY <2>3 DEF Advanced, IoPhases, Moving, Starting, Using
    <2>7. Progressing(c)'
      BY <1>2, <2>1, <2>3 DEF Advanced, At, Progressing, Resting
    <2>8. Judging(c)'
      BY <1>1, <1>2, <2>3 DEF Advanced, At, Ending, Judging, Received, Refused,
         Resting
    <2> QED BY <2>3, <2>4, <2>5, <2>6, <2>7, <2>8 DEF Advanced, Kept, Local
  <1>3. ASSUME Received(c, "conacc"), ~call[c].unix,
              call' = [call EXCEPT ![c] = [call[c] EXCEPT !.pc = "protocols",
                  !.soft = TRUE]],
              io' = [io EXCEPT ![c] = Starting],
              srv' = [srv EXCEPT ![c] = [srv[c] EXCEPT !.assoc = "rejected"]],
              UNCHANGED <<kernel, ssl, registry, sock, state, discarded, err, connects>>
    PROVE  Kept(c)
    <2>1. io' \in [Conn -> [stage: {"none", "look", "use"}, ssl: Ssl \cup {Nil}]]
      BY <1>1, <1>3 DEF NoIo, Starting, TypeOK, Types
    <2>2. call' \in [Conn -> Call]
      <3>1. [call[c] EXCEPT !.pc = "protocols", !.soft = TRUE] \in Call
        BY <1>1, CallRecords DEF Types
      <3>2. call' = [call EXCEPT ![c] = [call[c] EXCEPT !.pc = "protocols", !.soft = TRUE]]
        BY <1>3
      <3> QED BY <1>1, <3>1, <3>2 DEF Types
    <2>3. srv' \in [Conn -> Server]
      <3>1. [srv[c] EXCEPT !.assoc = "rejected"] \in Server
        BY <1>1, ServerUpdates DEF Types
      <3>2. srv' = [srv EXCEPT ![c] = [srv[c] EXCEPT !.assoc = "rejected"]]
        BY <1>3
      <3> QED BY <1>1, <3>1, <3>2 DEF Types
    <2>4. Types'
      BY <1>1, <1>3, <2>1, <2>2, <2>3 DEF TypeOK, Types
    <2>5. Descriptors'
      BY <1>1, <1>3 DEF Descriptors
    <2>6. Registered'
      BY <1>1, <1>3 DEF Registered
    <2>7. Frame(c)
      BY <1>3 DEF Frame, Stale
    <2>8. Holding(c)'
      BY <1>1, <1>3 DEF At, Holding, Received
    <2>9. Securing(c)'
      BY <1>1, <1>3 DEF At, Attached, InHand, Moving, Received, Securing, Stale,
         Unattached, Using
    <2>10. Moving(c)'
      BY <1>1, <1>3 DEF IoPhases, Moving, Starting, Types, Using
    <2>11. Progressing(c)'
      BY <1>3, <2>4 DEF At, Progressing, Resting, Types
    <2>12. Judging(c)'
      BY <1>1, <1>3 DEF At, Ending, Judging, Received, Refused, Resting
    <2> QED BY <2>4, <2>5, <2>6, <2>7, <2>8, <2>9, <2>10, <2>11, <2>12 DEF Kept, Local
  <1>4. ASSUME Received(c, "conacc"), Fail(c, ServiceError),
               srv' = [srv EXCEPT ![c] = [srv[c] EXCEPT !.assoc = "refused"]]
    PROVE  Kept(c)
    <2>1. srv' \in [Conn -> Server] /\ \A d \in Conn \ {c} : srv'[d] = srv[d]
      <3>1. [srv[c] EXCEPT !.assoc = "refused"] \in Server
        BY <1>1, ServerUpdates DEF Types
      <3> QED BY <1>1, <1>4, <3>1 DEF Types
    <2>2. ServiceError \in Error
      BY ErrorRecords
    <2>3. Failed(c, ServiceError)
      BY <1>4, <2>1, <2>2, FailFacts
    <2>4. Holding(c)'
      BY <1>1, <1>4, <2>3 DEF At, Failed, Holding, Received
    <2>5. Securing(c)'
      BY <1>1, <1>4, <2>3 DEF At, Attached, Failed, InHand, IoPhases, Received,
         Resting, Securing, Stale, Unattached
    <2>6. Moving(c)'
      BY <2>3 DEF Failed, Moving, NoIo, Using
    <2>7. Progressing(c)'
      BY <2>3 DEF At, Failed, Progressing, Resting
    <2>8. Judging(c)'
      <3>1. Classify(ServiceError) = "AUTH" => Refused(c)' /\ ~RejectedSoftly(c)'
        BY <1>4, <2>1 DEF Refused, RejectedSoftly
      <3>2. Refused(c)' => ~Retryable(ServiceError) /\ ~ServiceError.network
        BY ErrorClasses
      <3> QED BY <2>2, <2>3, <3>1, <3>2, FailJudged
    <2> QED BY <2>3, <2>4, <2>5, <2>6, <2>7, <2>8 DEF Failed, Kept, Local
  <1>5. ASSUME Received(c, "conacc"), Fail(c, SetError(FALSE)), UNCHANGED srv
    PROVE  Kept(c)
    <2>1. srv' \in [Conn -> Server] /\ \A d \in Conn \ {c} : srv'[d] = srv[d]
      BY <1>1, <1>5 DEF Types
    <2>2. SetError(FALSE) \in Error
      BY ErrorRecords
    <2>3. Failed(c, SetError(FALSE))
      BY <1>5, <2>1, <2>2, FailFacts
    <2>4. Holding(c)'
      BY <1>1, <1>5, <2>3 DEF At, Failed, Holding, Received
    <2>5. Securing(c)'
      BY <1>1, <1>5, <2>3 DEF At, Attached, Failed, InHand, IoPhases, Received,
         Resting, Securing, Stale, Unattached
    <2>6. Moving(c)'
      BY <2>3 DEF Failed, Moving, NoIo, Using
    <2>7. Progressing(c)'
      BY <2>3 DEF At, Failed, Progressing, Resting
    <2>8. Judging(c)'
      <3>1. Classify(SetError(FALSE)) = "AUTH" => Refused(c)' /\ ~RejectedSoftly(c)'
        BY ErrorClasses
      <3>2. Refused(c)' => ~Retryable(SetError(FALSE)) /\ ~SetError(FALSE).network
        BY ErrorClasses
      <3> QED BY <2>2, <2>3, <3>1, <3>2, FailJudged
    <2> QED BY <2>3, <2>4, <2>5, <2>6, <2>7, <2>8 DEF Failed, Kept, Local
  <1> QED BY <1>2, <1>3, <1>4, <1>5, OthersKept DEF Associated

\* do_sq_protocols: with PAM, without, or neither.
LEMMA ProtocolsKept ==
  ASSUME IInv, NEW c \in Conn, Protocols(c)
  PROVE  IInv'
  <1>1. Types /\ Descriptors /\ Registered
    /\ Holding(c) /\ Securing(c) /\ Moving(c) /\ Progressing(c) /\ Judging(c)
    BY DEF IInv, Local
  <1>2. ASSUME Received(c, "protocols"), Advance(c, "pam"),
               srv' = [srv EXCEPT ![c] = [srv[c] EXCEPT !.assoc = "accepted", !.auth = "required"]]
    PROVE  Kept(c)
    <2>1. srv' \in [Conn -> Server] /\ \A d \in Conn \ {c} : srv'[d] = srv[d]
      <3>1. [srv[c] EXCEPT !.assoc = "accepted", !.auth = "required"] \in Server
        BY <1>1, ServerUpdates DEF Types
      <3> QED BY <1>1, <1>2, <3>1 DEF Types
    <2>2. "pam" \in CallPhase
      BY DEF CallPhase, IoPhases
    <2>3. Advanced(c, "pam")
      BY <1>2, <2>1, <2>2, AdvanceFacts
    <2>4. Holding(c)'
      BY <1>1, <1>2, <2>3 DEF Advanced, At, Holding, Received
    <2>5. Securing(c)'
      BY <1>1, <1>2, <2>3 DEF Advanced, At, Attached, InHand, Moving, Received,
         Securing, Stale, Unattached, Using
    <2>6. Moving(c)'
      BY <2>3 DEF Advanced, Moving, NoIo, Starting, Using
    <2>7. Progressing(c)'
      BY <1>1, <1>2, <2>1, <2>3 DEF Advanced, At, Progressing, Received, Resting, Types
    <2>8. Judging(c)'
      BY <1>1, <1>2, <2>3 DEF Advanced, At, Ending, Judging, Received, Refused,
         Resting
    <2> QED BY <2>3, <2>4, <2>5, <2>6, <2>7, <2>8 DEF Advanced, Kept, Local
  <1>3. ASSUME Received(c, "protocols"), Advance(c, "info"),
               srv' = [srv EXCEPT ![c] = [srv[c] EXCEPT !.assoc = "accepted", !.auth = "none"]]
    PROVE  Kept(c)
    <2>1. srv' \in [Conn -> Server] /\ \A d \in Conn \ {c} : srv'[d] = srv[d]
      <3>1. [srv[c] EXCEPT !.assoc = "accepted", !.auth = "none"] \in Server
        BY <1>1, ServerUpdates DEF Types
      <3> QED BY <1>1, <1>3, <3>1 DEF Types
    <2>2. "info" \in CallPhase
      BY DEF CallPhase, IoPhases
    <2>3. Advanced(c, "info")
      BY <1>3, <2>1, <2>2, AdvanceFacts
    <2>4. Holding(c)'
      BY <1>1, <1>3, <2>3 DEF Advanced, At, Holding, Received
    <2>5. Securing(c)'
      BY <1>1, <1>3, <2>3 DEF Advanced, At, Attached, InHand, Moving, Received,
         Securing, Stale, Unattached, Using
    <2>6. Moving(c)'
      BY <2>3 DEF Advanced, Moving, NoIo, Starting, Using
    <2>7. Progressing(c)'
      BY <1>1, <1>3, <2>1, <2>3 DEF Advanced, At, Progressing, Received, Resting, Types
    <2>8. Judging(c)'
      BY <1>1, <1>3, <2>3 DEF Advanced, At, Ending, Judging, Received, Refused,
         Resting
    <2> QED BY <2>3, <2>4, <2>5, <2>6, <2>7, <2>8 DEF Advanced, Kept, Local
  <1>4. ASSUME Received(c, "protocols"), Fail(c, SetError(FALSE)), UNCHANGED srv
    PROVE  Kept(c)
    <2>1. srv' \in [Conn -> Server] /\ \A d \in Conn \ {c} : srv'[d] = srv[d]
      BY <1>1, <1>4 DEF Types
    <2>2. SetError(FALSE) \in Error
      BY ErrorRecords
    <2>3. Failed(c, SetError(FALSE))
      BY <1>4, <2>1, <2>2, FailFacts
    <2>4. Holding(c)'
      BY <1>1, <1>4, <2>3 DEF At, Failed, Holding, Received
    <2>5. Securing(c)'
      BY <1>1, <1>4, <2>3 DEF At, Attached, Failed, InHand, IoPhases, Received,
         Resting, Securing, Stale, Unattached
    <2>6. Moving(c)'
      BY <2>3 DEF Failed, Moving, NoIo, Using
    <2>7. Progressing(c)'
      BY <2>3 DEF At, Failed, Progressing, Resting
    <2>8. Judging(c)'
      <3>1. Classify(SetError(FALSE)) = "AUTH" => Refused(c)' /\ ~RejectedSoftly(c)'
        BY ErrorClasses
      <3>2. Refused(c)' => ~Retryable(SetError(FALSE)) /\ ~SetError(FALSE).network
        BY ErrorClasses
      <3> QED BY <2>2, <2>3, <3>1, <3>2, FailJudged
    <2> QED BY <2>3, <2>4, <2>5, <2>6, <2>7, <2>8 DEF Failed, Kept, Local
  <1> QED BY <1>2, <1>3, <1>4, OthersKept DEF Protocols

\* One challenge of do_pam_handshake.
LEMMA ChallengeKept ==
  ASSUME IInv, NEW c \in Conn, Challenge(c)
  PROVE  IInv'
  <1>1. Types /\ Descriptors /\ Registered
    /\ Holding(c) /\ Securing(c) /\ Moving(c) /\ Progressing(c) /\ Judging(c)
    BY DEF IInv, Local
  <1>2. io' \in [Conn -> [stage: {"none", "look", "use"}, ssl: Ssl \cup {Nil}]]
    BY <1>1 DEF Challenge, NoIo, Starting, TypeOK, Types
  <1>3. call' \in [Conn -> Call]
    <2>1. [call[c] EXCEPT !.prompts = call[c].prompts + 1] \in Call
      <3>1. call[c] \in Call /\ call[c].prompts + 1 \in Nat
        BY <1>1 DEF Call, Types
      <3> QED BY <3>1, CallUpdates, Zenon
    <2>2. call' = [call EXCEPT ![c] = [call[c] EXCEPT !.prompts = call[c].prompts + 1]]
      BY DEF Challenge
    <2> QED BY <1>1, <2>1, <2>2 DEF Types
  <1>4. Types'
    BY <1>1, <1>2, <1>3 DEF Challenge, TypeOK, Types
  <1>5. Descriptors'
    BY <1>1 DEF Challenge, Descriptors
  <1>6. Registered'
    BY <1>1 DEF Challenge, Registered
  <1>7. Frame(c)
    BY DEF Challenge, Frame, Stale
  <1>8. Holding(c)'
    BY <1>1 DEF At, Challenge, Holding, Resting
  <1>9. Securing(c)'
    BY <1>1 DEF At, Attached, Challenge, InHand, Resting, Securing, SessionsOf, Stale,
       Unattached
  <1>10. Moving(c)'
    BY <1>1 DEF Challenge, Moving, Received, Starting, Using
  <1>11. Progressing(c)'
    BY <1>1 DEF At, Challenge, Progressing, Resting
  <1>12. Judging(c)'
    BY <1>1 DEF At, Challenge, Ending, Judging, Received, Refused, Resting
  <1> QED BY <1>4, <1>5, <1>6, <1>7, <1>8, <1>9, <1>10, <1>11, <1>12, OthersKept DEF
       Kept, Local

\* The end of do_pam_handshake, the good one.
LEMMA PamAcceptedKept ==
  ASSUME IInv, NEW c \in Conn, PamAccepted(c)
  PROVE  IInv'
  <1>1. Types /\ Descriptors /\ Registered
    /\ Holding(c) /\ Securing(c) /\ Moving(c) /\ Progressing(c) /\ Judging(c)
    BY DEF IInv, Local
  <1>2. srv' \in [Conn -> Server] /\ \A d \in Conn \ {c} : srv'[d] = srv[d]
    <2>1. [srv[c] EXCEPT !.auth = "accepted"] \in Server
      BY <1>1, ServerUpdates DEF Types
    <2> QED BY <1>1, <2>1 DEF PamAccepted, Types
  <1>3. "info" \in CallPhase
    BY DEF CallPhase, IoPhases
  <1>4. Advanced(c, "info")
    BY <1>2, <1>3, AdvanceFacts DEF PamAccepted
  <1>5. Holding(c)'
    BY <1>1, <1>4 DEF Advanced, At, Holding, PamAccepted, Received
  <1>6. Securing(c)'
    BY <1>1, <1>4 DEF Advanced, At, Attached, InHand, Moving, PamAccepted, Received,
       Securing, Stale, Unattached, Using
  <1>7. Moving(c)'
    BY <1>4 DEF Advanced, Moving, NoIo, Starting, Using
  <1>8. Progressing(c)'
    BY <1>1, <1>2, <1>4 DEF Advanced, At, PamAccepted, Progressing, Received, Resting
  <1>9. Judging(c)'
    BY <1>1, <1>4 DEF Advanced, At, Ending, Judging, PamAccepted, Received, Refused,
       Resting
  <1> QED BY <1>4, <1>5, <1>6, <1>7, <1>8, <1>9, OthersKept DEF Advanced, Kept, Local

\* The end of do_pam_handshake, the bad one.
LEMMA PamRejectedKept ==
  ASSUME IInv, NEW c \in Conn, PamRejected(c)
  PROVE  IInv'
  <1>1. Types /\ Descriptors /\ Registered
    /\ Holding(c) /\ Securing(c) /\ Moving(c) /\ Progressing(c) /\ Judging(c)
    BY DEF IInv, Local
  <1>2. ASSUME Received(c, "pam"), Fail(c, SetError(FALSE)),
               srv' = [srv EXCEPT ![c] = [srv[c] EXCEPT !.auth = "refused"]]
    PROVE  Kept(c)
    <2>1. srv' \in [Conn -> Server] /\ \A d \in Conn \ {c} : srv'[d] = srv[d]
      <3>1. [srv[c] EXCEPT !.auth = "refused"] \in Server
        BY <1>1, ServerUpdates DEF Types
      <3> QED BY <1>1, <1>2, <3>1 DEF Types
    <2>2. SetError(FALSE) \in Error
      BY ErrorRecords
    <2>3. Failed(c, SetError(FALSE))
      BY <1>2, <2>1, <2>2, FailFacts
    <2>4. Holding(c)'
      BY <1>1, <1>2, <2>3 DEF At, Failed, Holding, Received
    <2>5. Securing(c)'
      BY <1>1, <1>2, <2>3 DEF At, Attached, Failed, InHand, IoPhases, Received,
         Resting, Securing, Stale, Unattached
    <2>6. Moving(c)'
      BY <2>3 DEF Failed, Moving, NoIo, Using
    <2>7. Progressing(c)'
      BY <2>3 DEF At, Failed, Progressing, Resting
    <2>8. Judging(c)'
      <3>1. Classify(SetError(FALSE)) = "AUTH" => Refused(c)' /\ ~RejectedSoftly(c)'
        BY ErrorClasses
      <3>2. Refused(c)' => ~Retryable(SetError(FALSE)) /\ ~SetError(FALSE).network
        BY ErrorClasses
      <3> QED BY <2>2, <2>3, <3>1, <3>2, FailJudged
    <2> QED BY <2>3, <2>4, <2>5, <2>6, <2>7, <2>8 DEF Failed, Kept, Local
  <1>3. ASSUME Received(c, "pam"), Fail(c, SetError(FALSE)), UNCHANGED srv
    PROVE  Kept(c)
    <2>1. srv' \in [Conn -> Server] /\ \A d \in Conn \ {c} : srv'[d] = srv[d]
      BY <1>1, <1>3 DEF Types
    <2>2. SetError(FALSE) \in Error
      BY ErrorRecords
    <2>3. Failed(c, SetError(FALSE))
      BY <1>3, <2>1, <2>2, FailFacts
    <2>4. Holding(c)'
      BY <1>1, <1>3, <2>3 DEF At, Failed, Holding, Received
    <2>5. Securing(c)'
      BY <1>1, <1>3, <2>3 DEF At, Attached, Failed, InHand, IoPhases, Received,
         Resting, Securing, Stale, Unattached
    <2>6. Moving(c)'
      BY <2>3 DEF Failed, Moving, NoIo, Using
    <2>7. Progressing(c)'
      BY <2>3 DEF At, Failed, Progressing, Resting
    <2>8. Judging(c)'
      <3>1. Classify(SetError(FALSE)) = "AUTH" => Refused(c)' /\ ~RejectedSoftly(c)'
        BY ErrorClasses
      <3>2. Refused(c)' => ~Retryable(SetError(FALSE)) /\ ~SetError(FALSE).network
        BY ErrorClasses
      <3> QED BY <2>2, <2>3, <3>1, <3>2, FailJudged
    <2> QED BY <2>3, <2>4, <2>5, <2>6, <2>7, <2>8 DEF Failed, Kept, Local
  <1> QED BY <1>2, <1>3, OthersKept DEF PamRejected

\* The answer to SQ_INFO.
LEMMA InfoReplyKept ==
  ASSUME IInv, NEW c \in Conn, InfoReply(c)
  PROVE  IInv'
  <1>1. Types /\ Descriptors /\ Registered
    /\ Holding(c) /\ Securing(c) /\ Moving(c) /\ Progressing(c) /\ Judging(c)
    BY DEF IInv, Local
  <1>2. ASSUME Received(c, "info"), Advance(c, "info_more"), NEW more \in {"none",
               "sent"}, srv' = [srv EXCEPT ![c] = [srv[c] EXCEPT !.unread = more]]
    PROVE  Kept(c)
    <2>1. srv' \in [Conn -> Server] /\ \A d \in Conn \ {c} : srv'[d] = srv[d]
      <3>1. [srv[c] EXCEPT !.unread = more] \in Server
        BY <1>1, ServerUpdates DEF Types
      <3> QED BY <1>1, <1>2, <3>1 DEF Types
    <2>2. "info_more" \in CallPhase
      BY DEF CallPhase, IoPhases
    <2>3. Advanced(c, "info_more")
      BY <1>2, <2>1, <2>2, AdvanceFacts
    <2>4. Holding(c)'
      BY <1>1, <1>2, <2>3 DEF Advanced, At, Holding, Received
    <2>5. Securing(c)'
      BY <1>1, <1>2, <2>3 DEF Advanced, At, Attached, InHand, Moving, Received,
         Securing, Stale, Unattached, Using
    <2>6. Moving(c)'
      BY <2>3 DEF Advanced, IoPhases, Moving, Starting, Using
    <2>7. Progressing(c)'
      BY <1>1, <1>2, <2>3 DEF Advanced, At, Progressing, Received, Resting
    <2>8. Judging(c)'
      BY <1>1, <1>2, <2>3 DEF Advanced, At, Ending, Judging, Received, Refused,
         Resting
    <2> QED BY <2>3, <2>4, <2>5, <2>6, <2>7, <2>8 DEF Advanced, Kept, Local
  <1>3. ASSUME Received(c, "info"), Fail(c, SetError(FALSE)), UNCHANGED srv
    PROVE  Kept(c)
    <2>1. srv' \in [Conn -> Server] /\ \A d \in Conn \ {c} : srv'[d] = srv[d]
      BY <1>1, <1>3 DEF Types
    <2>2. SetError(FALSE) \in Error
      BY ErrorRecords
    <2>3. Failed(c, SetError(FALSE))
      BY <1>3, <2>1, <2>2, FailFacts
    <2>4. Holding(c)'
      BY <1>1, <1>3, <2>3 DEF At, Failed, Holding, Received
    <2>5. Securing(c)'
      BY <1>1, <1>3, <2>3 DEF At, Attached, Failed, InHand, IoPhases, Received,
         Resting, Securing, Stale, Unattached
    <2>6. Moving(c)'
      BY <2>3 DEF Failed, Moving, NoIo, Using
    <2>7. Progressing(c)'
      BY <2>3 DEF At, Failed, Progressing, Resting
    <2>8. Judging(c)'
      <3>1. Classify(SetError(FALSE)) = "AUTH" => Refused(c)' /\ ~RejectedSoftly(c)'
        BY ErrorClasses
      <3>2. Refused(c)' => ~Retryable(SetError(FALSE)) /\ ~SetError(FALSE).network
        BY ErrorClasses
      <3> QED BY <2>2, <2>3, <3>1, <3>2, FailJudged
    <2> QED BY <2>3, <2>4, <2>5, <2>6, <2>7, <2>8 DEF Failed, Kept, Local
  <1> QED BY <1>2, <1>3, OthersKept DEF InfoReply

\* The surplus behind the answer to SQ_INFO.
LEMMA InfoMoreKept ==
  ASSUME IInv, NEW c \in Conn, InfoMore(c)
  PROVE  IInv'
  <1>1. Types /\ Descriptors /\ Registered
    /\ Holding(c) /\ Securing(c) /\ Moving(c) /\ Progressing(c) /\ Judging(c)
    BY DEF IInv, Local
  <1>2. ASSUME Received(c, "info_more"), Advance(c, "dbopen"), 
               srv' = [srv EXCEPT ![c] = [srv[c] EXCEPT !.unread = "none"]]
    PROVE  Kept(c)
    <2>1. srv' \in [Conn -> Server] /\ \A d \in Conn \ {c} : srv'[d] = srv[d]
      <3>1. [srv[c] EXCEPT !.unread = "none"] \in Server
        BY <1>1, ServerUpdates DEF Types
      <3> QED BY <1>1, <1>2, <3>1 DEF Types
    <2>2. "dbopen" \in CallPhase
      BY DEF CallPhase, IoPhases
    <2>3. Advanced(c, "dbopen")
      BY <1>2, <2>1, <2>2, AdvanceFacts
    <2>4. Holding(c)'
      BY <1>1, <1>2, <2>3 DEF Advanced, At, Holding, Received
    <2>5. Securing(c)'
      BY <1>1, <1>2, <2>3 DEF Advanced, At, Attached, InHand, Moving, Received,
         Securing, Stale, Unattached, Using
    <2>6. Moving(c)'
      BY <2>3 DEF Advanced, IoPhases, Moving, Starting, Using
    <2>7. Progressing(c)'
      BY <1>1, <1>2, <2>1, <2>3 DEF Advanced, At, Progressing, Received, Resting, Types
    <2>8. Judging(c)'
      BY <1>1, <1>2, <2>1, <2>3 DEF Advanced, At, Ending, Judging, Received, Refused, Resting, Types
    <2> QED BY <2>3, <2>4, <2>5, <2>6, <2>7, <2>8 DEF Advanced, Kept, Local
  <1>3. ASSUME Received(c, "info_more"), Advance(c, "dbopen"), Missed(c)
    PROVE  Kept(c)
    <2>1. srv' \in [Conn -> Server] /\ \A d \in Conn \ {c} : srv'[d] = srv[d]
      BY <1>1, <1>3, MissedFacts DEF Types
    <2>2. "dbopen" \in CallPhase
      BY DEF CallPhase, IoPhases
    <2>3. Advanced(c, "dbopen")
      BY <1>3, <2>1, <2>2, AdvanceFacts
    <2>4. Holding(c)'
      BY <1>1, <1>3, <2>3 DEF Advanced, At, Holding, Received
    <2>5. Securing(c)'
      BY <1>1, <1>3, <2>3 DEF Advanced, At, Attached, InHand, Moving, Received,
         Securing, Stale, Unattached, Using
    <2>6. Moving(c)'
      BY <2>3 DEF Advanced, IoPhases, Moving, Starting, Using
    <2>7. Progressing(c)'
      BY <1>1, <1>3, <2>3, MissedFacts DEF Advanced, At, Progressing, Received, Resting, Types
    <2>8. Judging(c)'
      BY <1>1, <1>3, <2>3, MissedFacts DEF Advanced, At, Ending, Judging, Received,
         Refused, Resting, Types
    <2> QED BY <2>3, <2>4, <2>5, <2>6, <2>7, <2>8 DEF Advanced, Kept, Local
  <1> QED BY <1>2, <1>3, OthersKept DEF InfoMore

\* The answer to SQ_DBOPEN.
LEMMA DbopenReplyKept ==
  ASSUME IInv, NEW c \in Conn, DbopenReply(c)
  PROVE  IInv'
  <1>1. Types /\ Descriptors /\ Registered
    /\ Holding(c) /\ Securing(c) /\ Moving(c) /\ Progressing(c) /\ Judging(c)
    BY DEF IInv, Local
  <1>2. ASSUME Received(c, "dbopen"), Advance(c, "dbopen_more"), NEW more \in {"none",
               "sent", "buffer"},
               srv' = [srv EXCEPT ![c] = [srv[c] EXCEPT !.db = TRUE, !.unread = more]]
    PROVE  Kept(c)
    <2>1. srv' \in [Conn -> Server] /\ \A d \in Conn \ {c} : srv'[d] = srv[d]
      <3>1. [srv[c] EXCEPT !.db = TRUE, !.unread = more] \in Server
        BY <1>1, ServerUpdates, Zenon DEF Types
      <3> QED BY <1>1, <1>2, <3>1 DEF Types
    <2>2. "dbopen_more" \in CallPhase
      BY DEF CallPhase, IoPhases
    <2>3. Advanced(c, "dbopen_more")
      BY <1>2, <2>1, <2>2, AdvanceFacts
    <2>4. Holding(c)'
      BY <1>1, <1>2, <2>3 DEF Advanced, At, Holding, Received
    <2>5. Securing(c)'
      BY <1>1, <1>2, <2>3 DEF Advanced, At, Attached, InHand, Moving, Received,
         Securing, Stale, Unattached, Using
    <2>6. Moving(c)'
      BY <2>3 DEF Advanced, IoPhases, Moving, Starting, Using
    <2>7. Progressing(c)'
      BY <1>1, <1>2, <2>1, <2>3 DEF Advanced, At, Progressing, Received, Resting, Types
    <2>8. Judging(c)'
      BY <1>1, <1>2, <2>3 DEF Advanced, At, Ending, Judging, Received, Refused,
         Resting
    <2> QED BY <2>3, <2>4, <2>5, <2>6, <2>7, <2>8 DEF Advanced, Kept, Local
  <1>3. ASSUME Received(c, "dbopen"), Advance(c, "dbopen_more"), NEW opened \in BOOLEAN,
               NEW more \in {"sent", "buffer"}, srv[c].unread = "sent",
               srv' = [srv EXCEPT ![c] = [srv[c] EXCEPT !.db = opened, !.unread = more]]
    PROVE  Kept(c)
    <2>1. srv' \in [Conn -> Server] /\ \A d \in Conn \ {c} : srv'[d] = srv[d]
      <3>1. [srv[c] EXCEPT !.db = opened, !.unread = more] \in Server
        BY <1>1, ServerUpdates, Zenon DEF Types
      <3> QED BY <1>1, <1>3, <3>1 DEF Types
    <2>2. "dbopen_more" \in CallPhase
      BY DEF CallPhase, IoPhases
    <2>3. Advanced(c, "dbopen_more")
      BY <1>3, <2>1, <2>2, AdvanceFacts
    <2>4. Holding(c)'
      BY <1>1, <1>3, <2>3 DEF Advanced, At, Holding, Received
    <2>5. Securing(c)'
      BY <1>1, <1>3, <2>3 DEF Advanced, At, Attached, InHand, Moving, Received,
         Securing, Stale, Unattached, Using
    <2>6. Moving(c)'
      BY <2>3 DEF Advanced, IoPhases, Moving, Starting, Using
    <2>7. Progressing(c)'
      BY <1>1, <1>3, <2>1, <2>3 DEF Advanced, At, Progressing, Received, Resting, Types
    <2>8. Judging(c)'
      BY <1>1, <1>3, <2>3 DEF Advanced, At, Ending, Judging, Received, Refused,
         Resting
    <2> QED BY <2>3, <2>4, <2>5, <2>6, <2>7, <2>8 DEF Advanced, Kept, Local
  <1>4. ASSUME Received(c, "dbopen"), NEW code \in {"network", "serialization",
               "data", "other"}, Fail(c, ServerError(code)), UNCHANGED srv
    PROVE  Kept(c)
    <2>1. srv' \in [Conn -> Server] /\ \A d \in Conn \ {c} : srv'[d] = srv[d]
      BY <1>1, <1>4 DEF Types
    <2>2. ServerError(code) \in Error
      BY ErrorRecords
    <2>3. Failed(c, ServerError(code))
      BY <1>4, <2>1, <2>2, FailFacts
    <2>4. Holding(c)'
      BY <1>1, <1>4, <2>3 DEF At, Failed, Holding, Received
    <2>5. Securing(c)'
      BY <1>1, <1>4, <2>3 DEF At, Attached, Failed, InHand, IoPhases, Received,
         Resting, Securing, Stale, Unattached
    <2>6. Moving(c)'
      BY <2>3 DEF Failed, Moving, NoIo, Using
    <2>7. Progressing(c)'
      BY <2>3 DEF At, Failed, Progressing, Resting
    <2>8. Judging(c)'
      <3>1. Classify(ServerError(code)) = "AUTH" => Refused(c)' /\ ~RejectedSoftly(c)'
        BY ErrorClasses
      <3>2. Refused(c)' => ~Retryable(ServerError(code)) /\ ~ServerError(code).network
        BY <1>1, <1>4 DEF At, Ending, Judging, Received, Refused
      <3> QED BY <2>2, <2>3, <3>1, <3>2, FailJudged
    <2> QED BY <2>3, <2>4, <2>5, <2>6, <2>7, <2>8 DEF Failed, Kept, Local
  <1>5. ASSUME Received(c, "dbopen"), Fail(c, SetError(FALSE)), UNCHANGED srv
    PROVE  Kept(c)
    <2>1. srv' \in [Conn -> Server] /\ \A d \in Conn \ {c} : srv'[d] = srv[d]
      BY <1>1, <1>5 DEF Types
    <2>2. SetError(FALSE) \in Error
      BY ErrorRecords
    <2>3. Failed(c, SetError(FALSE))
      BY <1>5, <2>1, <2>2, FailFacts
    <2>4. Holding(c)'
      BY <1>1, <1>5, <2>3 DEF At, Failed, Holding, Received
    <2>5. Securing(c)'
      BY <1>1, <1>5, <2>3 DEF At, Attached, Failed, InHand, IoPhases, Received,
         Resting, Securing, Stale, Unattached
    <2>6. Moving(c)'
      BY <2>3 DEF Failed, Moving, NoIo, Using
    <2>7. Progressing(c)'
      BY <2>3 DEF At, Failed, Progressing, Resting
    <2>8. Judging(c)'
      <3>1. Classify(SetError(FALSE)) = "AUTH" => Refused(c)' /\ ~RejectedSoftly(c)'
        BY ErrorClasses
      <3>2. Refused(c)' => ~Retryable(SetError(FALSE)) /\ ~SetError(FALSE).network
        BY ErrorClasses
      <3> QED BY <2>2, <2>3, <3>1, <3>2, FailJudged
    <2> QED BY <2>3, <2>4, <2>5, <2>6, <2>7, <2>8 DEF Failed, Kept, Local
  <1> QED BY <1>2, <1>3, <1>4, <1>5, OthersKept DEF DbopenReply, Mistaken, Opened

\* What waits behind the answer to SQ_DBOPEN.
LEMMA DbopenMoreKept ==
  ASSUME IInv, NEW c \in Conn, DbopenMore(c)
  PROVE  IInv'
  <1>1. Types /\ Descriptors /\ Registered
    /\ Holding(c) /\ Securing(c) /\ Moving(c) /\ Progressing(c) /\ Judging(c)
    BY DEF IInv, Local
  <1>2. ASSUME Received(c, "dbopen_more"), Advance(c, "ready"),
               NEW more \in {"none", "sent", "buffer"}, srv[c].late \/ more = "none",
               srv[c].db, srv' = [srv EXCEPT ![c] = [srv[c] EXCEPT !.unread = more]]
    PROVE  Kept(c)
    <2>1. srv' \in [Conn -> Server] /\ \A d \in Conn \ {c} : srv'[d] = srv[d]
      <3>1. [srv[c] EXCEPT !.unread = more] \in Server
        BY <1>1, ServerUpdates DEF Types
      <3> QED BY <1>1, <1>2, <3>1 DEF Types
    <2>2. "ready" \in CallPhase
      BY DEF CallPhase
    <2>3. Advanced(c, "ready")
      BY <1>2, <2>1, <2>2, AdvanceFacts
    <2>4. Holding(c)'
      BY <1>1, <1>2, <2>3 DEF Advanced, At, Holding, Received, StateIn
    <2>5. Securing(c)'
      BY <1>1, <1>2, <2>3 DEF Advanced, At, Attached, InHand, Moving, Received,
         Securing, Stale, Unattached, Using
    <2>6. Moving(c)'
      BY <2>3 DEF Advanced, IoPhases, Moving, NoIo, Using
    <2>7. Progressing(c)'
      BY <1>1, <1>2, <2>1 DEF At, Progressing, Received, Types
    <2>8. Judging(c)'
      BY <1>1, <1>2, <2>3 DEF Advanced, At, Ending, Judging, Received, Refused,
         Resting
    <2> QED BY <2>3, <2>4, <2>5, <2>6, <2>7, <2>8 DEF Advanced, Kept, Local
  <1>3. ASSUME Received(c, "dbopen_more"), NEW code \in {"network", "serialization",
               "data", "other"}, Fail(c, ServerError(code)), UNCHANGED srv
    PROVE  Kept(c)
    <2>1. srv' \in [Conn -> Server] /\ \A d \in Conn \ {c} : srv'[d] = srv[d]
      BY <1>1, <1>3 DEF Types
    <2>2. ServerError(code) \in Error
      BY ErrorRecords
    <2>3. Failed(c, ServerError(code))
      BY <1>3, <2>1, <2>2, FailFacts
    <2>4. Holding(c)'
      BY <1>1, <1>3, <2>3 DEF At, Failed, Holding, Received
    <2>5. Securing(c)'
      BY <1>1, <1>3, <2>3 DEF At, Attached, Failed, InHand, IoPhases, Received,
         Resting, Securing, Stale, Unattached
    <2>6. Moving(c)'
      BY <2>3 DEF Failed, Moving, NoIo, Using
    <2>7. Progressing(c)'
      BY <2>3 DEF At, Failed, Progressing, Resting
    <2>8. Judging(c)'
      <3>1. Classify(ServerError(code)) = "AUTH" => Refused(c)' /\ ~RejectedSoftly(c)'
        BY ErrorClasses
      <3>2. Refused(c)' => ~Retryable(ServerError(code)) /\ ~ServerError(code).network
        BY <1>1, <1>3 DEF At, Ending, Judging, Received, Refused
      <3> QED BY <2>2, <2>3, <3>1, <3>2, FailJudged
    <2> QED BY <2>3, <2>4, <2>5, <2>6, <2>7, <2>8 DEF Failed, Kept, Local
  <1>4. ASSUME Received(c, "dbopen_more"), Advance(c, "ready"), Missed(c)
    PROVE  Kept(c)
    <2>1. srv' \in [Conn -> Server] /\ \A d \in Conn \ {c} : srv'[d] = srv[d]
      BY <1>1, <1>4, MissedFacts DEF Types
    <2>2. "ready" \in CallPhase
      BY DEF CallPhase
    <2>3. Advanced(c, "ready")
      BY <1>4, <2>1, <2>2, AdvanceFacts
    <2>4. Holding(c)'
      BY <1>1, <1>4, <2>3 DEF Advanced, At, Holding, Received, StateIn
    <2>5. Securing(c)'
      BY <1>1, <1>4, <2>3 DEF Advanced, At, Attached, InHand, Moving, Received,
         Securing, Stale, Unattached, Using
    <2>6. Moving(c)'
      BY <2>3 DEF Advanced, IoPhases, Moving, NoIo, Using
    <2>7. Progressing(c)'
      BY <1>1, <1>4, MissedFacts DEF At, Progressing, Received, Types
    <2>8. Judging(c)'
      BY <1>1, <1>4, <2>3, MissedFacts DEF Advanced, At, Ending, Judging, Received,
         Refused, Resting, Types
    <2> QED BY <2>3, <2>4, <2>5, <2>6, <2>7, <2>8 DEF Advanced, Kept, Local
  <1> QED BY <1>2, <1>3, <1>4, OthersKept DEF DbopenMore, MoreRead

\* The end of sqli_connect, the good one.
LEMMA ReadyKept ==
  ASSUME IInv, NEW c \in Conn, Ready(c)
  PROVE  IInv'
  <1>1. Types /\ Descriptors /\ Registered
    /\ Holding(c) /\ Securing(c) /\ Moving(c) /\ Progressing(c) /\ Judging(c)
    BY DEF IInv, Local
  <1>2. call' \in [Conn -> Call]
    <2>1. [NoCall EXCEPT !.tls = call[c].tls] \in Call
      <3>1. call[c].tls \in BOOLEAN
        BY <1>1 DEF Call, Types
      <3> QED BY <3>1, CallRecords, Zenon
    <2>2. call' = [call EXCEPT ![c] = [NoCall EXCEPT !.tls = call[c].tls]]
      BY DEF Ready
    <2> QED BY <1>1, <2>1, <2>2 DEF Types
  <1>3. err' \in [Conn -> Error]
    <2>1. NoError \in Error
      BY ErrorRecords
    <2>2. err' = [err EXCEPT ![c] = NoError]
      BY DEF Ready
    <2> QED BY <1>1, <2>1, <2>2 DEF Types
  <1>4. Types'
    BY <1>1, <1>2, <1>3 DEF Ready, TypeOK, Types, transport
  <1>5. Descriptors'
    BY <1>1 DEF Descriptors, Ready, transport
  <1>6. Registered'
    BY <1>1 DEF Ready, Registered, transport
  <1>7. Frame(c)
    BY DEF Frame, Ready, Stale, transport
  <1>8. Holding(c)'
    BY <1>1 DEF At, Holding, NoCall, Ready, transport
  <1>9. Securing(c)'
    BY <1>1 DEF At, Attached, InHand, NoCall, Ready, Securing, Stale, Unattached,
       transport
  <1>10. Moving(c)'
    BY <1>1 DEF At, IoPhases, Moving, Ready, Using, transport
  <1>11. Progressing(c)'
    BY <1>1 DEF At, Progressing, Ready
  <1>12. Judging(c)'
    BY <1>1 DEF At, Holding, Judging, NoCall, Ready, Types
  <1> QED BY <1>4, <1>5, <1>6, <1>7, <1>8, <1>9, <1>10, <1>11, <1>12, OthersKept DEF
       Kept, Local

\* A call on a ready connection begins.
LEMMA WorkKept ==
  ASSUME IInv, NEW c \in Conn, Work(c)
  PROVE  IInv'
  <1>1. Types /\ Descriptors /\ Registered
    /\ Holding(c) /\ Securing(c) /\ Moving(c) /\ Progressing(c) /\ Judging(c)
    BY DEF IInv, Local
  <1>2. srv' \in [Conn -> Server] /\ \A d \in Conn \ {c} : srv'[d] = srv[d]
    BY <1>1 DEF Types, Work
  <1>3. "work" \in CallPhase
    BY DEF CallPhase, IoPhases
  <1>4. Advanced(c, "work")
    BY <1>2, <1>3, AdvanceFacts DEF Work
  <1>5. Holding(c)'
    BY <1>1, <1>4 DEF Advanced, At, Holding, Resting, StateIn, Work
  <1>6. Securing(c)'
    BY <1>1, <1>4 DEF Advanced, At, Attached, InHand, Resting, Securing, Stale,
       Unattached, Work
  <1>7. Moving(c)'
    BY <1>4 DEF Advanced, Moving, NoIo, Starting, Using
  <1>8. Progressing(c)'
    BY <1>1 DEF At, Progressing, Resting, Work
  <1>9. Judging(c)'
    BY <1>1, <1>4, ErrorClasses DEF Advanced, At, Judging, Progressing, Refused,
       RejectedSoftly, Resting, Sound, Work
  <1> QED BY <1>4, <1>5, <1>6, <1>7, <1>8, <1>9, OthersKept DEF Advanced, Kept, Local

\* A call on a ready connection ends.
LEMMA WorkedKept ==
  ASSUME IInv, NEW c \in Conn, Worked(c)
  PROVE  IInv'
  <1>1. Types /\ Descriptors /\ Registered
    /\ Holding(c) /\ Securing(c) /\ Moving(c) /\ Progressing(c) /\ Judging(c)
    BY DEF IInv, Local
  <1>2. srv' \in [Conn -> Server] /\ \A d \in Conn \ {c} : srv'[d] = srv[d]
    BY <1>1 DEF Types, Worked
  <1>3. "idle" \in CallPhase
    BY DEF CallPhase
  <1>4. Advanced(c, "idle")
    BY <1>2, <1>3, AdvanceFacts DEF Worked
  <1>5. Holding(c)'
    BY <1>1, <1>4 DEF Advanced, At, Holding, Received, StateIn, Worked
  <1>6. Securing(c)'
    BY <1>1, <1>4 DEF Advanced, At, Attached, InHand, Moving, Received, Securing,
       Stale, Unattached, Using, Worked
  <1>7. Moving(c)'
    BY <1>4 DEF Advanced, IoPhases, Moving, NoIo, Using
  <1>8. Progressing(c)'
    BY <1>1 DEF At, Progressing, Received, Worked
  <1>9. Judging(c)'
    BY <1>1, <1>4, ErrorClasses DEF Advanced, At, Judging, Received, RejectedSoftly,
       Sound, Worked
  <1> QED BY <1>4, <1>5, <1>6, <1>7, <1>8, <1>9, OthersKept DEF Advanced, Kept, Local

\* sqli_close, with a socket to say goodbye on or without.
LEMMA CloseKept ==
  ASSUME IInv, NEW c \in Conn, Close(c)
  PROVE  IInv'
  <1>1. Types /\ Descriptors /\ Registered
    /\ Holding(c) /\ Securing(c) /\ Moving(c) /\ Progressing(c) /\ Judging(c)
    BY DEF IInv, Local
  <1>2. ASSUME At(c, "idle"), ~discarded[c], sock[c] # Nil,
               err' = [err EXCEPT ![c] = NoError],
          call' = [call EXCEPT ![c] = [call[c] EXCEPT !.pc = "exit", !.after = "CLOSED"]],
          io' = [io EXCEPT ![c] = Starting],
          UNCHANGED <<kernel, ssl, registry, sock, state, discarded, srv, connects>>
    PROVE  Kept(c)
    <2>1. io' \in [Conn -> [stage: {"none", "look", "use"}, ssl: Ssl \cup {Nil}]]
      BY <1>1, <1>2 DEF NoIo, Starting, TypeOK, Types
    <2>2. call' \in [Conn -> Call]
      <3>1. [call[c] EXCEPT !.pc = "exit", !.after = "CLOSED"] \in Call
        BY <1>1, CallRecords DEF CallPhase, IoPhases, Types
      <3>2. call' = [call EXCEPT ![c] = [call[c] EXCEPT !.pc = "exit", !.after = "CLOSED"]]
        BY <1>2
      <3> QED BY <1>1, <3>1, <3>2 DEF Types
    <2>3. err' \in [Conn -> Error]
      <3>1. NoError \in Error
        BY ErrorRecords
      <3>2. err' = [err EXCEPT ![c] = NoError]
        BY <1>2
      <3> QED BY <1>1, <3>1, <3>2 DEF Types
    <2>4. Types'
      BY <1>1, <1>2, <2>1, <2>2, <2>3 DEF TypeOK, Types
    <2>5. Descriptors'
      BY <1>1, <1>2 DEF Descriptors
    <2>6. Registered'
      BY <1>1, <1>2 DEF Registered
    <2>7. Frame(c)
      BY <1>2 DEF Frame, Stale
    <2>8. Holding(c)'
      BY <1>1, <1>2 DEF At, Holding
    <2>9. Securing(c)'
      BY <1>1, <1>2 DEF At, Attached, Holding, InHand, Resting, Securing, Stale,
         Unattached
    <2>10. Moving(c)'
      BY <1>1, <1>2 DEF IoPhases, Moving, Starting, Types, Using
    <2>11. Progressing(c)'
      BY <1>1, <1>2 DEF At, Progressing, Resting
    <2>12. Judging(c)'
      BY <1>1, <1>2 DEF At, Holding, Judging, Progressing, Refused, Resting, Types
    <2> QED BY <2>4, <2>5, <2>6, <2>7, <2>8, <2>9, <2>10, <2>11, <2>12 DEF Kept, Local
  <1>3. ASSUME At(c, "idle"), ~discarded[c], sock[c] = Nil,
               state' = [state EXCEPT ![c] = "CLOSED"],
               err' = [err EXCEPT ![c] = NoError],
          UNCHANGED <<kernel, ssl, registry, sock, discarded, call, io, srv, connects>>
    PROVE  Kept(c)
    <2>1. state' \in [Conn -> ConnState]
      BY <1>1, <1>3 DEF ConnState, Types
    <2>2. err' \in [Conn -> Error]
      <3>1. NoError \in Error
        BY ErrorRecords
      <3>2. err' = [err EXCEPT ![c] = NoError]
        BY <1>3
      <3> QED BY <1>1, <3>1, <3>2 DEF Types
    <2>3. Types'
      BY <1>1, <1>3, <2>1, <2>2 DEF TypeOK, Types
    <2>4. Descriptors'
      BY <1>1, <1>3 DEF Descriptors
    <2>5. Registered'
      BY <1>1, <1>3 DEF Registered
    <2>6. Frame(c)
      BY <1>3 DEF Frame, Stale
    <2>7. Holding(c)'
      BY <1>1, <1>3 DEF At, Holding, Resting
    <2>8. Securing(c)'
      BY <1>1, <1>3 DEF At, Attached, InHand, Resting, Securing, Stale, Unattached
    <2>9. Moving(c)'
      BY <1>1, <1>3 DEF Moving, Using
    <2>10. Progressing(c)'
      BY <1>1, <1>3 DEF At, Progressing, Resting
    <2>11. Judging(c)'
      BY <1>3, <2>3, ErrorClasses DEF At, Judging, RejectedSoftly, Sound, Types
    <2> QED BY <2>3, <2>4, <2>5, <2>6, <2>7, <2>8, <2>9, <2>10, <2>11 DEF Kept, Local
  <1> QED BY <1>2, <1>3, OthersKept DEF Close

\* The answer to SQ_EXIT.
LEMMA ExitKept ==
  ASSUME IInv, NEW c \in Conn, Exit(c)
  PROVE  IInv'
  <1>1. Types /\ Descriptors /\ Registered
    /\ Holding(c) /\ Securing(c) /\ Moving(c) /\ Progressing(c) /\ Judging(c)
    BY DEF IInv, Local
  <1>2. srv' \in [Conn -> Server] /\ \A d \in Conn \ {c} : srv'[d] = srv[d]
    BY <1>1 DEF Exit, Types
  <1>3. "detach" \in CallPhase
    BY DEF CallPhase
  <1>4. Advanced(c, "detach")
    BY <1>2, <1>3, AdvanceFacts DEF Exit
  <1>5. Holding(c)'
    BY <1>1, <1>4 DEF Advanced, At, Exit, Holding, Received
  <1>6. Securing(c)'
    BY <1>1, <1>4 DEF Advanced, At, Attached, Exit, InHand, Moving, Received,
       Securing, Stale, Unattached, Using
  <1>7. Moving(c)'
    BY <1>4 DEF Advanced, IoPhases, Moving, NoIo, Using
  <1>8. Progressing(c)'
    BY <1>4 DEF Advanced, At, Progressing, Resting
  <1>9. Judging(c)'
    BY <1>1, <1>4 DEF Advanced, At, Ending, Exit, Judging, Received, Resting
  <1> QED BY <1>4, <1>5, <1>6, <1>7, <1>8, <1>9, OthersKept DEF Advanced, Kept, Local

\* sqli_conn_discard disqualifies a connection.
LEMMA DiscardKept ==
  ASSUME IInv, NEW c \in Conn, Discard(c)
  PROVE  IInv'
  <1>1. Types /\ Descriptors /\ Registered
    /\ Holding(c) /\ Securing(c) /\ Moving(c) /\ Progressing(c) /\ Judging(c)
    BY DEF IInv, Local
  <1>2. state' \in [Conn -> ConnState]
    BY <1>1 DEF ConnState, Discard, Types
  <1>3. call' \in [Conn -> Call]
    <2>1. [call[c] EXCEPT !.pc = "discard", !.after = "ERROR"] \in Call
      BY <1>1, CallRecords DEF CallPhase, Types
    <2>2. call' = [call EXCEPT ![c] = [call[c] EXCEPT !.pc = "discard", !.after = "ERROR"]]
      BY DEF Discard
    <2> QED BY <1>1, <2>1, <2>2 DEF Types
  <1>4. Types'
    BY <1>1, <1>2, <1>3 DEF Discard, TypeOK, Types, transport
  <1>5. Descriptors'
    BY <1>1 DEF Descriptors, Discard, transport
  <1>6. Registered'
    BY <1>1 DEF Discard, Registered, transport
  <1>7. Frame(c)
    BY DEF Discard, Frame, Stale, transport
  <1>8. Holding(c)'
    BY <1>1 DEF At, Discard, Holding, Resting, Types, transport
  <1>9. Securing(c)'
    BY <1>1 DEF At, Attached, Discard, Holding, InHand, IoPhases, Resting, Securing,
       Stale, Unattached, transport
  <1>10. Moving(c)'
    BY <1>1 DEF At, Discard, IoPhases, Moving, Using, transport
  <1>11. Progressing(c)'
    BY <1>1 DEF At, Discard, Progressing, Resting
  <1>12. Judging(c)'
    BY <1>1, ErrorClasses DEF At, Discard, Ending, Holding, Judging, Refused,
       RejectedSoftly, Resting, Sound
  <1> QED BY <1>4, <1>5, <1>6, <1>7, <1>8, <1>9, <1>10, <1>11, <1>12, OthersKept DEF
       Kept, Local

\* What the first step of closing does to the descriptors and the registry, whether it
\* detaches the session or leaves it behind: connection c has no session any more, and
\* the other connections keep theirs.
Detached(c) ==
    /\ TypeOK' /\ Descriptors' /\ Registered' /\ sock' = sock /\ io' = io
    /\ Stale(c)' /\ \A s \in Ssl : ssl'[s] # c
    /\ \A d \in Conn \ {c} :
         /\ sock[d] # Nil => registry'[sock[d]] = registry[sock[d]]
         /\ sock[d] # Nil /\ Stale(d) => Stale(d)'
         /\ \A s \in Ssl : ssl'[s] = d <=> ssl[s] = d

\* tls_detach frees the session and unlinks its entry.
LEMMA DetachFacts ==
    ASSUME IInv, NEW c \in Conn, call[c].pc \in {"detach", "discard"}, CloseStep(c, 1)
    PROVE  Detached(c)
  <1>1. Types /\ Descriptors /\ Registered /\ Holding(c) /\ Securing(c)
    BY DEF IInv, Local
  <1>2. sock[c] \in Fds /\ kernel[sock[c]] = c
    BY <1>1 DEF Descriptors, Holding, TypeOK, Types
  <1>3. /\ registry' = [registry EXCEPT ![sock[c]] = Nil]
        /\ ssl' = [x \in Ssl |-> IF x = registry[sock[c]] THEN Nil ELSE ssl[x]]
        /\ kernel' = kernel /\ sock' = sock /\ io' = io
    BY DEF CloseStep, Detach
  <1>4. TypeOK'
    BY <1>1, <1>3 DEF TypeOK, Types
  <1>5. Descriptors'
    BY <1>1, <1>3 DEF Descriptors
  <1>6. Registered'
    <2>1. ASSUME NEW f \in Fds, registry'[f] # Nil
          PROVE  ssl'[registry'[f]] = Lost \/ (kernel'[f] # Nil /\ ssl'[registry'[f]] = kernel'[f])
      <3>1. registry'[f] = registry[f] /\ registry[f] # registry[sock[c]] /\ registry[f] \in Ssl
        BY <1>1, <1>2, <1>3, <2>1 DEF Registered, TypeOK, Types
      <3> QED BY <1>1, <1>3, <2>1, <3>1 DEF Registered
    <2>2. \A f, g \in Fds : registry'[f] # Nil /\ registry'[f] = registry'[g] => f = g
      BY <1>1, <1>3 DEF Registered, TypeOK, Types
    <2>3. "sync" \notin Faults =>
            (\A f \in Fds : kernel'[f] # Lost) /\ (\A x \in Ssl : ssl'[x] # Lost)
      BY <1>1, <1>3, TransportAssumption DEF Registered
    <2> QED BY <2>1, <2>2, <2>3 DEF Registered
  <1>7. Stale(c)' /\ \A s \in Ssl : ssl'[s] # c
    BY <1>1, <1>2, <1>3, TransportAssumption DEF InHand, Securing, Stale, TypeOK, Types
  <1>8. ASSUME NEW d \in Conn \ {c}
        PROVE  /\ sock[d] # Nil => registry'[sock[d]] = registry[sock[d]]
               /\ sock[d] # Nil /\ Stale(d) => Stale(d)'
               /\ \A s \in Ssl : ssl'[s] = d <=> ssl[s] = d
    <2>1. sock[d] # Nil => sock[d] \in Fds /\ sock[d] # sock[c]
      BY <1>1, <1>2 DEF Descriptors, TypeOK, Types
    <2>2. sock[d] # Nil => registry'[sock[d]] = registry[sock[d]]
      BY <1>1, <1>2, <1>3, <2>1 DEF TypeOK, Types
    <2>3. sock[d] # Nil /\ registry[sock[d]] # Nil => registry[sock[d]] # registry[sock[c]]
      BY <1>1, <1>2, <2>1 DEF Registered
    <2>4. sock[d] # Nil /\ Stale(d) => Stale(d)'
      BY <1>1, <1>3, <2>1, <2>2, <2>3 DEF Stale, TypeOK, Types
    <2>5. \A s \in Ssl : ssl'[s] = d <=> ssl[s] = d
      <3>1. registry[sock[c]] # Nil => ssl[registry[sock[c]]] # d
        BY <1>1, <1>2, TransportAssumption DEF Registered
      <3> QED BY <1>3, <3>1, TransportAssumption
    <2> QED BY <2>2, <2>4, <2>5
  <1> QED BY <1>3, <1>4, <1>5, <1>6, <1>7, <1>8 DEF Detached

\* Where the mutex cannot be locked, the session stays registered as nobody's.
LEMMA DetachFailsFacts ==
    ASSUME IInv, NEW c \in Conn, call[c].pc = "detach", "sync" \in Faults, DetachFails(c)
    PROVE  Detached(c)
  <1>1. Types /\ Descriptors /\ Registered /\ Holding(c) /\ Securing(c)
    BY DEF IInv, Local
  <1>2. sock[c] \in Fds /\ kernel[sock[c]] = c
    BY <1>1 DEF Descriptors, Holding, TypeOK, Types
  <1>3. /\ ssl' = [x \in Ssl |-> IF x = registry[sock[c]] THEN Lost ELSE ssl[x]]
        /\ registry' = registry /\ kernel' = kernel /\ sock' = sock /\ io' = io
    BY DEF DetachFails
  <1>4. TypeOK'
    BY <1>1, <1>3 DEF TypeOK, Types
  <1>5. Descriptors'
    BY <1>1, <1>3 DEF Descriptors
  <1>6. Registered'
    BY <1>1, <1>3 DEF Registered, TypeOK, Types
  <1>7. Stale(c)' /\ \A s \in Ssl : ssl'[s] # c
    BY <1>1, <1>2, <1>3, TransportAssumption DEF InHand, Securing, Stale, TypeOK, Types
  <1>8. ASSUME NEW d \in Conn \ {c}
        PROVE  /\ sock[d] # Nil => registry'[sock[d]] = registry[sock[d]]
               /\ sock[d] # Nil /\ Stale(d) => Stale(d)'
               /\ \A s \in Ssl : ssl'[s] = d <=> ssl[s] = d
    <2>1. registry[sock[c]] # Nil => ssl[registry[sock[c]]] # d
      BY <1>1, <1>2, TransportAssumption DEF Registered
    <2>2. \A s \in Ssl : ssl'[s] = d <=> ssl[s] = d
      BY <1>3, <2>1, TransportAssumption
    <2>3. sock[d] # Nil /\ Stale(d) => Stale(d)'
      BY <1>1, <1>3 DEF Stale, TypeOK, Types
    <2> QED BY <1>3, <2>2, <2>3
  <1> QED BY <1>3, <1>4, <1>5, <1>6, <1>7, <1>8 DEF Detached

\* The registry's mutex fails sqli_tcp_discard, before or after the session was
\* freed.
LEMMA DiscardFailsKept ==
  ASSUME IInv, NEW c \in Conn, DiscardFails(c)
  PROVE  IInv'
  <1>1. Types /\ Descriptors /\ Registered
    /\ Holding(c) /\ Securing(c) /\ Moving(c) /\ Progressing(c) /\ Judging(c)
    BY DEF IInv, Local
  <1>2. ASSUME At(c, "discard"), "sync" \in Faults, UNCHANGED transport,
               call' = [call EXCEPT ![c] = [call[c] EXCEPT !.pc = "idle"]],
          UNCHANGED <<state, discarded, err, srv, connects>>
    PROVE  Kept(c)
    <2>1. call' \in [Conn -> Call]
      <3>1. [call[c] EXCEPT !.pc = "idle"] \in Call
        BY <1>1, CallUpdates DEF CallPhase, Types
      <3>2. call' = [call EXCEPT ![c] = [call[c] EXCEPT !.pc = "idle"]]
        BY <1>2
      <3> QED BY <1>1, <3>1, <3>2 DEF Types
    <2>2. Types'
      BY <1>1, <1>2, <2>1 DEF TypeOK, Types, transport
    <2>3. Descriptors'
      BY <1>1, <1>2 DEF Descriptors, transport
    <2>4. Registered'
      BY <1>1, <1>2 DEF Registered, transport
    <2>5. Frame(c)
      BY <1>2 DEF Frame, Stale, transport
    <2>6. Holding(c)'
      BY <1>1, <1>2, <2>2 DEF At, Holding, Resting, Types, transport
    <2>7. Securing(c)'
      BY <1>1, <1>2 DEF At, Attached, Holding, InHand, IoPhases, Resting, Securing,
         Stale, Unattached, transport
    <2>8. Moving(c)'
      BY <1>1, <1>2 DEF Holding, IoPhases, Moving, Using, transport
    <2>9. Progressing(c)'
      BY <1>1, <1>2 DEF At, Holding, Progressing, Resting
    <2>10. Judging(c)'
      BY <1>1, <1>2 DEF At, Ending, Holding, Judging, Refused, RejectedSoftly,
         Resting, Sound
    <2> QED BY <2>2, <2>3, <2>4, <2>5, <2>6, <2>7, <2>8, <2>9, <2>10 DEF Kept, Local
  <1>3. ASSUME At(c, "discard"), "sync" \in Faults, CloseStep(c, 1),
               call' = [call EXCEPT ![c] = [call[c] EXCEPT !.pc = "idle"]],
          UNCHANGED <<state, discarded, err, srv, connects>>
    PROVE  Kept(c)
    <2>1. call' \in [Conn -> Call]
      <3>1. [call[c] EXCEPT !.pc = "idle"] \in Call
        BY <1>1, CallUpdates DEF CallPhase, Types
      <3>2. call' = [call EXCEPT ![c] = [call[c] EXCEPT !.pc = "idle"]]
        BY <1>3
      <3> QED BY <1>1, <3>1, <3>2 DEF Types
    <2>2. Detached(c)
      BY <1>3, DetachFacts DEF At
    <2>3. Types'
      BY <1>1, <1>3, <2>1, <2>2 DEF Detached, Types
    <2>4. Descriptors' /\ Registered'
      BY <2>2 DEF Detached
    <2>5. Frame(c)
      BY <1>1, <1>3, <2>2 DEF Detached, Frame, Types
    <2>6. Holding(c)'
      BY <1>1, <1>3, <2>2, <2>3 DEF At, Detached, Holding, Resting, Types
    <2>7. Securing(c)'
      BY <1>1, <1>3, <2>2, <2>3 DEF At, Attached, Detached, Holding, InHand, IoPhases,
         Resting, Securing, Types, Unattached
    <2>8. Moving(c)'
      BY <1>1, <1>3, <2>2 DEF At, Detached, IoPhases, Moving, Using
    <2>9. Progressing(c)'
      BY <1>1, <1>3 DEF At, Holding, Progressing, Resting
    <2>10. Judging(c)'
      BY <1>1, <1>3 DEF At, Ending, Holding, Judging, Refused, RejectedSoftly,
         Resting, Sound
    <2> QED BY <2>2, <2>3, <2>4, <2>5, <2>6, <2>7, <2>8, <2>9, <2>10 DEF Kept, Local
  <1> QED BY <1>2, <1>3, OthersKept DEF DiscardFails

\* tls_detach, the first step of sqli_tcp_close and sqli_tcp_discard.
LEMMA DetachSessionKept ==
  ASSUME IInv, NEW c \in Conn, DetachSession(c)
  PROVE  IInv'
  <1>1. Types /\ Descriptors /\ Registered
    /\ Holding(c) /\ Securing(c) /\ Moving(c) /\ Progressing(c) /\ Judging(c)
    BY DEF IInv, Local
  <1>2. Detached(c)
    BY DetachFacts, DetachFailsFacts DEF At, DetachSession
  <1>5. call' \in [Conn -> Call]
    <2>1. [call[c] EXCEPT !.pc = "close"] \in Call
      BY <1>1, CallUpdates DEF CallPhase, Types
    <2>2. call' = [call EXCEPT ![c] = [call[c] EXCEPT !.pc = "close"]]
      BY DEF DetachSession
    <2> QED BY <1>1, <2>1, <2>2 DEF Types
  <1>6. Types'
    BY <1>1, <1>2, <1>5 DEF Detached, DetachSession, Types
  <1>7. call'[c].pc = "close" /\ call'[c].after = call[c].after
    BY <1>1 DEF Call, DetachSession, Types
  <1>8. Descriptors' /\ Registered'
    BY <1>2 DEF Detached
  <1>9. Frame(c)
    BY <1>1, <1>2 DEF Detached, DetachSession, Frame, Types
  <1>10. Holding(c)'
    BY <1>1, <1>2, <1>7 DEF At, Detached, DetachSession, Holding, Judging, Resting
  <1>11. Securing(c)'
    BY <1>2, <1>7 DEF At, Attached, Detached, IoPhases, Resting, Securing
  <1>12. Moving(c)'
    BY <1>1, <1>2 DEF Detached, DetachSession, IoPhases, Moving, Using
  <1>13. Progressing(c)'
    BY DEF At, DetachSession, Progressing, Resting
  <1>14. Judging(c)'
    BY <1>1 DEF At, DetachSession, Ending, Judging, Refused, RejectedSoftly, Resting,
       Sound
  <1> QED BY <1>6, <1>8, <1>9, <1>10, <1>11, <1>12, <1>13, <1>14, OthersKept DEF Kept,
       Local

\* close(), their second step; the connection object forgets the descriptor.
LEMMA CloseSocketKept ==
  ASSUME IInv, NEW c \in Conn, CloseSocket(c)
  PROVE  IInv'
  <1>1. Types /\ Descriptors /\ Registered
    /\ Holding(c) /\ Securing(c) /\ Moving(c) /\ Progressing(c) /\ Judging(c)
    BY DEF IInv, Local
  <1>2. kernel' \in [Fds -> Conn \cup {Lost, Nil}]
    BY <1>1 DEF CloseFd, CloseSocket, CloseStep, TypeOK, Types
  <1>3. ssl' \in [Ssl -> Conn \cup {Lost, Nil}]
    BY <1>1 DEF CloseFd, CloseSocket, CloseStep, TypeOK, Types
  <1>4. registry' \in [Fds -> Ssl \cup {Nil}]
    BY <1>1 DEF CloseFd, CloseSocket, CloseStep, TypeOK, Types
  <1>5. state' \in [Conn -> ConnState]
    BY <1>1 DEF Call, CloseSocket, ConnState, Types
  <1>6. call' \in [Conn -> Call]
    <2>1. NoCall \in Call
      BY CallRecords
    <2>2. call' = [call EXCEPT ![c] = NoCall]
      BY DEF CloseSocket
    <2> QED BY <1>1, <2>1, <2>2 DEF Types
  <1>7. srv' \in [Conn -> Server]
    <2>1. [NewServer EXCEPT !.assoc = srv[c].assoc, !.auth = srv[c].auth] \in Server
      BY <1>1, ServerUpdates DEF Types
    <2>2. srv' = [srv EXCEPT ![c] = [NewServer EXCEPT !.assoc = srv[c].assoc,
          !.auth = srv[c].auth]]
      BY DEF CloseSocket
    <2> QED BY <1>1, <2>1, <2>2 DEF Types
  <1>8. Types'
    BY <1>1, <1>2, <1>3, <1>4, <1>5, <1>6, <1>7 DEF CloseSocket, CloseStep, TypeOK,
       Types
  <1>9. Descriptors'
    BY <1>1, TransportAssumption DEF CloseFd, CloseSocket, CloseStep, Descriptors,
       TypeOK, Types
  <1>10. Registered'
    BY <1>1, TransportAssumption DEF At, CloseFd, CloseSocket, CloseStep, Registered,
       Securing, Stale, TypeOK, Types, Unattached
  <1>11. Frame(c)
    BY DEF CloseFd, CloseSocket, CloseStep, Frame, Stale
  <1>12. Holding(c)'
    BY <1>1 DEF At, Call, CloseSocket, CloseStep, Holding, NoCall, Resting, TypeOK,
       Types
  <1>13. Securing(c)'
    BY <1>1, TransportAssumption DEF At, Attached, Call, CloseFd, CloseSocket,
       CloseStep, Holding, InHand, IoPhases, NoCall, Resting, Securing, Stale, Types,
       Unattached
  <1>14. Moving(c)'
    BY <1>1 DEF At, CloseSocket, CloseStep, IoPhases, Moving, Using
  <1>15. Progressing(c)'
    BY <1>1 DEF At, Call, CloseSocket, Holding, NoCall, Progressing, Resting, Types
  <1>16. Judging(c)'
    BY <1>1 DEF At, Call, CloseSocket, Ending, Judging, NoCall, Refused,
       RejectedSoftly, Resting, Sound, Types
  <1> QED BY <1>8, <1>9, <1>10, <1>11, <1>12, <1>13, <1>14, <1>15, <1>16, OthersKept
       DEF Kept, Local

\* A discarded connection object is destroyed and another one created.
LEMMA ReplaceKept ==
  ASSUME IInv, NEW c \in Conn, Replace(c)
  PROVE  IInv'
  <1>1. Types /\ Descriptors /\ Registered
    /\ Holding(c) /\ Securing(c) /\ Moving(c) /\ Progressing(c) /\ Judging(c)
    BY DEF IInv, Local
  <1>2. state' \in [Conn -> ConnState]
    BY <1>1 DEF ConnState, Replace, Types
  <1>3. err' \in [Conn -> Error]
    <2>1. NoError \in Error
      BY ErrorRecords
    <2>2. err' = [err EXCEPT ![c] = NoError]
      BY DEF Replace
    <2> QED BY <1>1, <2>1, <2>2 DEF Types
  <1>4. /\ kernel' = [f \in Fds |-> IF kernel[f] = c THEN Lost ELSE kernel[f]]
        /\ ssl' = [s \in Ssl |-> IF ssl[s] = c THEN Lost ELSE ssl[s]]
        /\ sock' = [sock EXCEPT ![c] = Nil] /\ registry' = registry /\ io' = io
    BY DEF Abandon, Replace
  <1>5. Types'
    BY <1>1, <1>2, <1>3, <1>4 DEF Replace, TypeOK, Types
  <1>6. Descriptors'
    BY <1>1, <1>4, TransportAssumption DEF Descriptors, TypeOK, Types
  <1>7. Registered'
    <2>1. ASSUME NEW f \in Fds, registry'[f] # Nil
          PROVE  ssl'[registry'[f]] = Lost \/ (kernel'[f] # Nil /\ ssl'[registry'[f]] = kernel'[f])
      BY <1>1, <1>4, <2>1 DEF Registered, TypeOK, Types
    <2>2. \A f, g \in Fds : registry'[f] # Nil /\ registry'[f] = registry'[g] => f = g
      BY <1>1, <1>4 DEF Registered
    <2>3. ASSUME "sync" \notin Faults
          PROVE  (\A f \in Fds : kernel'[f] # Lost) /\ (\A s \in Ssl : ssl'[s] # Lost)
      <3>1. sock[c] = Nil
        BY <1>1, <2>3 DEF Holding, Replace
      <3>2. \A f \in Fds : kernel[f] # c
        BY <1>1, <3>1, TransportAssumption DEF Descriptors
      <3>3. \A s \in Ssl : ssl[s] # c
        BY <1>1, <3>1 DEF At, InHand, Replace, Securing
      <3> QED BY <1>1, <1>4, <2>3, <3>2, <3>3 DEF Registered
    <2> QED BY <2>1, <2>2, <2>3 DEF Registered
  <1>8. Frame(c)
    <2>1. \A d \in Conn \ {c}, s \in Ssl : ssl'[s] = d <=> ssl[s] = d
      BY <1>4, TransportAssumption
    <2>2. \A d \in Conn \ {c} : sock[d] # Nil /\ Stale(d) => Stale(d)'
      BY <1>1, <1>4 DEF Stale, TypeOK, Types
    <2> QED BY <1>1, <1>4, <2>1, <2>2 DEF Frame, Replace, TypeOK, Types
  <1>9. Holding(c)'
    BY <1>1, <1>4, <1>5 DEF At, Holding, Replace, Resting, TypeOK, Types
  <1>10. Securing(c)' /\ Moving(c)'
    BY <1>1, <1>4, <1>5, TransportAssumption DEF At, Attached, IoPhases, Moving, Replace,
       Resting, Securing, Types, Unattached, Using
  <1>11. Progressing(c)'
    BY <1>1, <1>5 DEF At, Progressing, Replace, Resting, Types
  <1>12. Judging(c)'
    BY <1>1, <1>5, ErrorClasses DEF At, Judging, RejectedSoftly, Replace, Resting, Sound,
       Types
  <1> QED BY <1>5, <1>6, <1>7, <1>8, <1>9, <1>10, <1>11, <1>12, OthersKept DEF
       Kept, Local

---------------------------------------------------------------------------
(* The invariant                                                           *)

\* The invariant holds at the start.
LEMMA InitIInv == Init => IInv
  <1> SUFFICES ASSUME Init PROVE IInv
    OBVIOUS
  <1>1. NoIo \in [stage: {"none", "look", "use"}, ssl: Ssl \cup {Nil}]
    BY DEF NoIo
  <1>2. Types
    BY <1>1, CallRecords, ErrorRecords, ServerUpdates DEF Types, TypeOK, Init,
       TransportInit, ConnState
  <1>3. Descriptors /\ Registered
    BY TransportAssumption DEF Init, TransportInit, Descriptors, Registered
  <1>4. ASSUME NEW c \in Conn PROVE Local(c)
    <2>1. /\ call[c].pc = "idle" /\ state[c] = "CLOSED" /\ ~discarded[c] /\ sock[c] = Nil
          /\ io[c] = NoIo /\ srv[c] = NewServer /\ \A s \in Ssl : ssl[s] # c
      BY TransportAssumption DEF Init, TransportInit, NoCall
    <2>2. Holding(c) /\ Securing(c) /\ Moving(c)
      BY <2>1 DEF At, Attached, Holding, IoPhases, Moving, NoIo, Resting, Securing,
         Stale, Unattached, Using
    <2>3. Progressing(c) /\ Judging(c)
      BY <2>1 DEF Progressing, Judging, Resting, Ending, At, Refused, NewServer
    <2> QED BY <2>2, <2>3 DEF Local
  <1> QED BY <1>2, <1>3, <1>4 DEF IInv

\* A step that changes nothing keeps it.
LEMMA StutterKept == ASSUME IInv, UNCHANGED vars PROVE IInv'
  <1>1. Types'
    BY DEF IInv, Types, TypeOK, vars, transport
  <1>2. Descriptors' /\ Registered'
    BY DEF IInv, Descriptors, Registered, vars, transport
  <1>3. ASSUME NEW c \in Conn PROVE Local(c)'
    <2>1. Local(c)
      BY DEF IInv
    <2>2. Holding(c)' /\ Moving(c)'
      BY <2>1 DEF Local, Holding, Moving, Resting, At, Using, vars, transport
    <2>3. Securing(c)'
      BY <2>1 DEF At, Attached, InHand, Local, Resting, Securing, SessionsOf, Stale,
         Unattached, transport, vars
    <2>4. Progressing(c)' /\ Judging(c)'
      BY <2>1 DEF At, Ending, Judging, Local, Progressing, Refused, RejectedSoftly,
         Resting, Sound, transport, vars
    <2> QED BY <2>2, <2>3, <2>4 DEF Local
  <1> QED BY <1>1, <1>2, <1>3 DEF IInv

\* Every step of every connection keeps the invariant.
LEMMA NextIInv == IInv /\ [Next]_vars => IInv'
  <1> SUFFICES ASSUME IInv, [Next]_vars PROVE IInv'
    OBVIOUS
  <1>1. ASSUME NEW c \in Conn, Step(c) PROVE IInv'
    BY <1>1, ConnectKept, OpenSocketKept, AddressFailsKept, SocketConnectedKept,
       SslUnavailableKept, SslCreateKept, SslFailsKept, SslConnectedKept,
       AttachTlsKept, LookUpKept, MovePartKept, BrokenKept, BrokenQuietlyKept,
       GreetingKept, RequestKept, AssociatedKept, ProtocolsKept, ChallengeKept,
       PamAcceptedKept, PamRejectedKept, InfoReplyKept, InfoMoreKept, DbopenReplyKept,
       DbopenMoreKept, ReadyKept, WorkKept, WorkedKept, CloseKept, ExitKept,
       DiscardKept, DiscardFailsKept, DetachSessionKept, CloseSocketKept, ReplaceKept
       DEF Step
  <1>2. CASE UNCHANGED vars
    BY <1>2, StutterKept
  <1> QED BY <1>1, <1>2 DEF Next

\* A read or write in progress uses its connection's own descriptor and session, or one
\* that was left behind: the descriptor cannot change hands before the call that looked
\* it up has finished.
LEMMA OwnSessionHolds == IInv => OwnSession
  <1> SUFFICES ASSUME IInv, NEW c \in Conn, Using(c)
               PROVE  /\ kernel[sock[c]] = c
                      /\ IF call[c].tls THEN io[c].ssl \in SessionsOf(c)
                         ELSE io[c].ssl = Nil \/ LeftBehind(io[c].ssl)
    BY DEF OwnSession
  <1>1. Types /\ Descriptors /\ Registered /\ Holding(c) /\ Securing(c) /\ Moving(c)
    BY DEF IInv, Local
  <1>2. call[c].pc \in IoPhases /\ io[c].ssl = registry[sock[c]]
    BY <1>1 DEF Moving, Using
  <1>3. sock[c] \in Fds /\ kernel[sock[c]] = c /\ registry[sock[c]] \in Ssl \cup {Nil}
    BY <1>1, <1>2 DEF Types, TypeOK, Descriptors, Holding, IoPhases
  <1>4. CASE call[c].tls
    BY <1>1, <1>2, <1>3, <1>4 DEF Attached, Securing, SessionsOf
  <1>5. CASE ~call[c].tls
    BY <1>1, <1>2, <1>3, <1>5 DEF Attached, LeftBehind, Securing, Stale
  <1> QED BY <1>3, <1>4, <1>5

\* A connection at rest owns a descriptor exactly when it is established or could not
\* be closed, and sessions only with it.
LEMMA NothingLeftHolds == IInv => NothingLeft
  <1> SUFFICES ASSUME IInv PROVE NothingLeft
    OBVIOUS
  <1>1. Types /\ Descriptors /\ Registered
    BY DEF IInv
  <1>2. ASSUME NEW c \in Conn, At(c, "idle")
        PROVE  /\ state[c] = "READY" => sock[c] # Nil
               /\ sock[c] # Nil => state[c] = "READY" \/ discarded[c]
               /\ \A f \in Fds : kernel[f] = c <=> sock[c] = f
               /\ sock[c] = Nil => SessionsOf(c) = {}
    <2>1. Holding(c) /\ Securing(c)
      BY DEF IInv, Local
    <2>2. sock[c] = Nil => SessionsOf(c) = {}
      BY <1>2, <2>1 DEF Securing, SessionsOf, InHand, At
    <2> QED BY <1>1, <1>2, <2>1, <2>2 DEF Descriptors, Holding, Resting
  <1>3. \A f \in Fds : registry[f] # Nil =>
          (kernel[f] # Nil /\ ssl[registry[f]] = kernel[f]) \/ LeftBehind(registry[f])
    BY <1>1 DEF LeftBehind, Registered, TypeOK, Types
  <1>4. "sync" \notin Faults => (\A f \in Fds : kernel[f] # Lost) /\ (\A s \in Ssl : ~LeftBehind(s))
    BY <1>1 DEF LeftBehind, Registered
  <1> QED BY <1>2, <1>3, <1>4 DEF NothingLeft

\* An established connection was accepted by the server.
LEMMA ReadyTruthfulHolds == IInv => ReadyTruthful
  BY DEF IInv, Local, Progressing, Resting, ReadyTruthful, At

\* The error of a failed connect is judged as the invariant says.
LEMMA AdviceSoundHolds == IInv => AdviceSound
  BY DEF AdviceSound, IInv, Judging, Local, Refused, RejectedSoftly, Sound

---------------------------------------------------------------------------
(* The theorems                                                            *)

\* Type correctness.
THEOREM TypesHold == Spec => []Types
  <1>1. IInv => Types
    BY DEF IInv
  <1> QED BY <1>1, InitIInv, NextIInv, PTL DEF Spec

\* Whatever other connections open, close, fail to detach and reuse between the lookup
\* and the read or write that follows it, a connection moves its bytes over its own
\* descriptor and its own TLS session, but for one without TLS whose descriptor another
\* closed without detaching its session (sqli_tcp_read, sqli_tcp_write).
THEOREM OwnSessionAlways == Spec => []OwnSession
  BY InitIInv, NextIInv, OwnSessionHolds, PTL DEF Spec

\* No path through connect, close or discard leaves a socket, a TLS session or an entry
\* of the registry behind that an object still owns or that was freed; sockets and
\* sessions nobody owns are left only where the registry's mutex can fail, by
\* sqli_tcp_close and sqli_destroy, and nowhere else.
THEOREM NothingLeftAlways == Spec => []NothingLeft
  BY InitIInv, NextIInv, NothingLeftHolds, PTL DEF Spec

\* sqli_connect reports success only for a connection whose association and
\* authentication the server has accepted; unless a group of tokens arrived after
\* sqli_connect looked for it, the database is open and no reply of the handshake is
\* left in the socket (sqli_connect).
THEOREM ReadyTruthfulAlways == Spec => []ReadyTruthful
  BY InitIInv, NextIInv, ReadyTruthfulHolds, PTL DEF Spec

\* A failed connect advises a retry only if the server refused nothing or rejected with
\* svcError = 0, and blames the credentials only if the server refused
\* (sqli_error_classify, sqli_retry_recommend).
THEOREM AdviceSoundAlways == Spec => []AdviceSound
  BY InitIInv, NextIInv, AdviceSoundHolds, PTL DEF Spec
=============================================================================
