------------------------------ MODULE Handshake ------------------------------
(***************************************************************************)
(* sqli_connect, sqli_close and sqli_conn_discard of sqli_handshake.c and  *)
(* sqli_conn.c over Transport: several connections of one process, each    *)
(* in a thread of its own, against a server that may accept, refuse or     *)
(* break off at any step.  A failed connect leaves through one label that  *)
(* closes the socket; what it leaves in error_info decides the retry       *)
(* advice.                                                                 *)
(***************************************************************************)
EXTENDS Transport

CONSTANTS Addresses,    \* addresses a host name resolves to
          Transports,   \* subset of {"tcp", "unix"}
          MaxConnects,  \* calls of sqli_connect per connection object
          MaxPrompts,   \* challenges of one PAM conversation
          Faults        \* subset of {"sync"}: the mutex of the TLS registry may fail

ASSUME HandshakeAssumption ==
    /\ Addresses \in Nat \ {0} /\ MaxConnects \in Nat /\ MaxPrompts \in Nat
    /\ Transports \subseteq {"tcp", "unix"} /\ Faults \subseteq {"sync"}

VARIABLES state,     \* conn->state
          discarded, \* SQLI_CONN_DISCARDED in conn->lifecycle
          call,      \* program point and locals of the call in progress
          err,       \* conn->error_info
          srv,       \* the server's view of the session
          connects   \* calls of sqli_connect so far

vars == <<transport, state, discarded, call, err, srv, connects>>

---------------------------------------------------------------------------
(* error_info and the advice drawn from it.                                *)

NoError == [has |-> FALSE, status |-> "OK", network |-> FALSE, code |-> "none"]

\* set_error: the status becomes SQLI_ERR and the codes are cleared; network:
\* the context or the message is one that classification knows.
SetError(network) == [has |-> TRUE, status |-> "ERR", network |-> network, code |-> "none"]

\* set_connect_service_error.
ServiceError == [SetError(FALSE) EXCEPT !.status = "AUTH_FAIL"]

\* set_error_info_from_sqerr, by the kind of SQLCODE.
ServerError(code) == [SetError(FALSE) EXCEPT !.status = "PROTO_ERROR", !.code = code]

\* sqli_error_classify, in the order of its tests.
Classify(e) ==
    CASE ~e.has -> "NONE"
      [] e.has /\ e.status = "AUTH_FAIL" -> "AUTH"
      [] e.has /\ e.status \in {"TIMEOUT", "IO_ERROR"} -> "NETWORK"
      [] e.has /\ e.status = "ERR" /\ e.network -> "NETWORK"
      [] e.has /\ e.status = "ERR" /\ ~e.network -> "UNKNOWN"
      [] e.has /\ e.code = "network" -> "NETWORK"
      [] e.has /\ e.code = "serialization" -> "SERVER"
      [] e.has /\ e.code = "data" -> "DATA"
      [] OTHER -> "PROTOCOL"

\* Its second answer.
Retryable(e) ==
    Classify(e) = "NETWORK" \/ (Classify(e) = "SERVER" /\ e.code = "serialization")

---------------------------------------------------------------------------
(* Calls and their phases.                                                 *)

\* An exchange is one phase: what is sent and what is read in answer go through
\* the registry call by call.
IoPhases == {"greeting", "conacc", "protocols", "pam", "info", "info_more", "dbopen",
             "dbopen_more", "exit", "work"}

NoCall == [pc |-> "idle", unix |-> FALSE, tls |-> FALSE, soft |-> FALSE,
           left |-> 0, prompts |-> 0, after |-> "CLOSED"]

NewServer ==
    [assoc |-> "none", auth |-> "none", db |-> FALSE, unread |-> "none", late |-> FALSE]

Init ==
    /\ TransportInit
    /\ state = [c \in Conn |-> "CLOSED"]
    /\ discarded = [c \in Conn |-> FALSE]
    /\ call = [c \in Conn |-> NoCall]
    /\ err = [c \in Conn |-> NoError]
    /\ srv = [c \in Conn |-> NewServer]
    /\ connects = [c \in Conn |-> 0]

\* conn->state as the phases set it.
StateIn(phase, before) ==
    CASE phase \in {"greeting", "conreq"} -> "HANDSHAKE"
      [] phase = "pam" -> "AUTH"
      [] phase = "info" -> "INFO"
      [] phase = "dbopen" -> "DBOPEN"
      [] phase = "ready" -> "READY"
      [] OTHER -> before

\* The call goes on with its next phase, what it counted in this one behind it; a
\* phase that reads or writes begins with a look at the registry.
Enter(c, phase) ==
    /\ call' = [call EXCEPT ![c] = [@ EXCEPT !.pc = phase, !.left = 0, !.prompts = 0]]
    /\ state' = [state EXCEPT ![c] = StateIn(phase, @)]
    /\ io' = [io EXCEPT ![c] = IF phase \in IoPhases THEN Starting ELSE NoIo]

Advance(c, phase) ==
    Enter(c, phase) /\ UNCHANGED <<kernel, ssl, registry, sock, discarded, err, connects>>

\* The label out of sqli_connect on failure: after a soft CONREJ the message is
\* put behind a new one; the socket is closed if there is one.
Out(c, e, open) ==
    /\ err' = [err EXCEPT ![c] = IF call[c].soft THEN SetError(e.network) ELSE e]
    /\ call' = [call EXCEPT ![c] =
                  IF open THEN [@ EXCEPT !.pc = "detach", !.prompts = 0, !.after = "ERROR"]
                  ELSE NoCall]
    /\ state' = [state EXCEPT ![c] = IF open THEN @ ELSE "ERROR"]

Fail(c, e) ==
    /\ Out(c, e, TRUE)
    /\ io' = [io EXCEPT ![c] = NoIo]
    /\ UNCHANGED <<kernel, ssl, registry, sock, discarded, connects>>

At(c, phase) == call[c].pc = phase

---------------------------------------------------------------------------
(* sqli_connect: the socket and its TLS session.                           *)

\* The checks and the copies of the parameters; one that is too long ends the
\* call before anything was opened.
Connect(c) ==
    /\ At(c, "idle") /\ ~discarded[c] /\ state[c] = "CLOSED" /\ connects[c] < MaxConnects
    /\ connects' = [connects EXCEPT ![c] = @ + 1]
    /\ srv' = [srv EXCEPT ![c] = NewServer]
    /\ \/ \E t \in Transports, tls \in BOOLEAN :
             /\ call' = [call EXCEPT ![c] =
                           [NoCall EXCEPT !.pc = "address", !.unix = (t = "unix"), !.tls = tls,
                                          !.left = IF t = "unix" THEN 1 ELSE Addresses]]
             /\ state' = [state EXCEPT ![c] = "CONNECTING"]
             /\ err' = [err EXCEPT ![c] = NoError]
       \/ Out(c, SetError(FALSE), FALSE)
    /\ UNCHANGED <<transport, discarded>>

\* sqli_tcp_connect and sqli_unix_connect: one address after the other.
OpenSocket(c) ==
    /\ At(c, "address")
    /\ Socket(c)
    /\ call' = [call EXCEPT ![c] = [@ EXCEPT !.pc = "connecting"]]
    /\ UNCHANGED <<state, discarded, err, srv, connects>>

AddressFails(c) ==
    /\ At(c, "connecting")
    /\ Unsocket(c)
    /\ IF call[c].left > 1
       THEN /\ call' = [call EXCEPT ![c] = [@ EXCEPT !.pc = "address",
                                                !.left = call[c].left - 1]]
            /\ UNCHANGED <<state, err>>
       ELSE Out(c, SetError(TRUE), FALSE)
    /\ UNCHANGED <<discarded, srv, connects>>

FirstPhase(c) == IF call[c].unix THEN "greeting" ELSE "conreq"

SocketConnected(c) ==
    /\ At(c, "connecting")
    /\ Advance(c, IF call[c].tls THEN "tls" ELSE FirstPhase(c))
    /\ UNCHANGED srv

\* sqli_tls_connect before there is a session: context, CA files, SSL_new.
SslUnavailable(c) == At(c, "tls") /\ Fail(c, SetError(FALSE)) /\ UNCHANGED srv

SslCreate(c) ==
    /\ At(c, "tls")
    /\ NewSession(c)
    /\ call' = [call EXCEPT ![c] = [@ EXCEPT !.pc = "tls_connect"]]
    /\ UNCHANGED <<state, discarded, err, srv, connects>>

\* Mutant: SSL_connect fails without SSL_free.
SslFailsUnfreed(c) ==
    /\ call[c].pc \in {"tls_connect", "attach"}
    /\ Out(c, SetError(FALSE), TRUE)
    /\ UNCHANGED <<transport, discarded, srv, connects>>

\* SSL_set_fd, SSL_set1_host, SSL_connect or the entry of the registry fails.
SslFails(c) ==
    /\ call[c].pc \in {"tls_connect", "attach"}
    /\ FreeSession(c)
    /\ Out(c, SetError(FALSE), TRUE)
    /\ UNCHANGED <<discarded, srv, connects>>

SslConnected(c) == At(c, "tls_connect") /\ Advance(c, "attach") /\ UNCHANGED srv

AttachTls(c) ==
    /\ At(c, "attach")
    /\ Attach(c)
    /\ Enter(c, FirstPhase(c))
    /\ UNCHANGED <<discarded, err, srv, connects>>

---------------------------------------------------------------------------
(* sqli_connect: the exchanges.                                            *)

\* What sqli_connect or do_sq_protocols do when a read or write fails: most
\* messages name a failed read or send, which counts as a network error; reads
\* of the PAM conversation leave no message, the dispatcher's are not known.
BrokenError(phase) ==
    CASE phase = "pam" -> {NoError, SetError(TRUE)}
      [] phase \in {"dbopen_more"} -> {SetError(FALSE)}
      [] phase = "dbopen" -> {SetError(FALSE), SetError(TRUE)}
      [] OTHER -> {SetError(TRUE)}

LookUp(c) == Lookup(c) /\ UNCHANGED <<state, discarded, call, err, srv, connects>>

MovePart(c) == Partial(c) /\ UNCHANGED <<state, discarded, call, err, srv, connects>>

\* The peer closes or resets, SO_RCVTIMEO or SO_SNDTIMEO passes, or the session
\* was detached.
Broken(c) ==
    /\ Using(c)
    /\ call[c].pc \in IoPhases \ {"info_more", "exit", "work"}
    /\ \E e \in BrokenError(call[c].pc) : Fail(c, e)
    /\ UNCHANGED srv

\* Failures nobody looks at: the end of a session, and work on a connection,
\* which stays ready.
BrokenQuietly(c) ==
    /\ Using(c)
    /\ \/ At(c, "exit") /\ Advance(c, "detach")
       \/ At(c, "work") /\ Advance(c, "idle")
    /\ UNCHANGED srv

Received(c, phase) == At(c, phase) /\ Using(c)

\* The greeting of a server behind a Unix socket.
Greeting(c) == Received(c, "greeting") /\ Advance(c, "conreq") /\ UNCHANGED srv

\* Of the two forms of the request only the preamble of a Unix socket can fail
\* to fit its buffers: a host name, directory or program path that is too long.
Request(c) ==
    /\ At(c, "conreq")
    /\ \/ Advance(c, "conacc")
       \/ call[c].unix /\ Fail(c, SetError(FALSE))
    /\ UNCHANGED srv

\* SL header and body: an association accepted or refused (svcError), rejected
\* with svcError = 0 (TCP only), which the client reads as if it were accepted,
\* or a reply that is neither: redirection, another type, an empty body.
Associated(c) ==
    /\ Received(c, "conacc")
    /\ \/ Advance(c, "protocols") /\ srv' = [srv EXCEPT ![c].assoc = "accepted"]
       \/ /\ ~call[c].unix
          /\ call' = [call EXCEPT ![c] = [@ EXCEPT !.pc = "protocols", !.soft = TRUE]]
          /\ io' = [io EXCEPT ![c] = Starting]
          /\ srv' = [srv EXCEPT ![c].assoc = "rejected"]
          /\ UNCHANGED <<kernel, ssl, registry, sock, state, discarded, err, connects>>
       \/ Fail(c, ServiceError) /\ srv' = [srv EXCEPT ![c].assoc = "refused"]
       \/ Fail(c, SetError(FALSE)) /\ UNCHANGED srv

\* do_sq_protocols: the capabilities, and the SQ_EOT behind them.  A server that
\* answers at all has an association, whether or not it rejected it before.
Protocols(c) ==
    /\ Received(c, "protocols")
    /\ \/ \E pam \in BOOLEAN :
             /\ Advance(c, IF pam THEN "pam" ELSE "info")
             /\ srv' = [srv EXCEPT ![c] = [@ EXCEPT !.assoc = "accepted",
                                                   !.auth = IF pam THEN "required" ELSE "none"]]
       \/ Fail(c, SetError(FALSE)) /\ UNCHANGED srv

\* do_pam_handshake: challenges that ask for the password or only inform,
\* acceptance, rejection (reported by set_error), or something else.
Challenge(c) ==
    /\ Received(c, "pam")
    /\ call[c].prompts < MaxPrompts
    /\ call' = [call EXCEPT ![c].prompts = @ + 1]
    /\ io' = [io EXCEPT ![c] = Starting]
    /\ UNCHANGED <<kernel, ssl, registry, sock, state, discarded, err, srv, connects>>

PamAccepted(c) ==
    /\ Received(c, "pam")
    /\ Advance(c, "info")
    /\ srv' = [srv EXCEPT ![c].auth = "accepted"]

\* Mutant: a rejection is reported like a broken connection.
PamRejectedAsNetwork(c) ==
    /\ Received(c, "pam")
    /\ Fail(c, SetError(TRUE))
    /\ srv' = [srv EXCEPT ![c].auth = "refused"]

PamRejected(c) ==
    /\ Received(c, "pam")
    /\ Fail(c, SetError(FALSE))
    /\ \/ srv' = [srv EXCEPT ![c].auth = "refused"]
       \/ UNCHANGED srv

\* SQ_INFO is answered with SQ_EOT, perhaps with more behind it; a server that
\* waits for PAM answers with SQ_EXIT.
InfoReply(c) ==
    /\ Received(c, "info")
    /\ \/ /\ srv[c].auth # "required"
          /\ Advance(c, "info_more")
          /\ \E more \in {"none", "sent"} : srv' = [srv EXCEPT ![c].unread = more]
       \/ Fail(c, SetError(FALSE)) /\ UNCHANGED srv

\* sqli_tcp_peek does not wait: it misses what is still under way.
Missed(c) ==
    srv' = [srv EXCEPT ![c].late = @ \/ srv[c].unread = "sent"]

\* A peek, and one read if it found something.
InfoMore(c) ==
    /\ Received(c, "info_more")
    /\ Advance(c, "dbopen")
    /\ srv' = [srv EXCEPT ![c].unread = "none"] \/ Missed(c)

\* SQ_DBOPEN: done, perhaps with another group of tokens behind the first: one
\* that comes in a packet of its own is in the socket or on its way to it, one
\* that came in the same packet was buffered with the first, where sqli_tcp_peek
\* does not look.
Opened(c) ==
    /\ Advance(c, "dbopen_more")
    /\ \E more \in {"none", "sent", "buffer"} :
         srv' = [srv EXCEPT ![c] = [@ EXCEPT !.db = TRUE, !.unread = more]]

\* What follows the answer to SQ_INFO and was missed there comes first and may
\* read like the answer to SQ_DBOPEN, whose own is then the group behind it.
Mistaken(c) ==
    /\ srv[c].unread = "sent"
    /\ Advance(c, "dbopen_more")
    /\ \E opened \in BOOLEAN, more \in {"sent", "buffer"} :
         srv' = [srv EXCEPT ![c] = [@ EXCEPT !.db = opened, !.unread = more]]

\* Or refused; or the end.
DbopenReply(c) ==
    /\ Received(c, "dbopen")
    /\ \/ Opened(c) \/ Mistaken(c)
       \/ /\ \E code \in {"network", "serialization", "data", "other"} : Fail(c, ServerError(code))
          /\ UNCHANGED srv
       \/ Fail(c, SetError(FALSE)) /\ UNCHANGED srv

\* Mutant: nothing is read after the first group.
DbopenMoreIgnored(c) ==
    /\ Received(c, "dbopen_more")
    /\ Advance(c, "ready")
    /\ UNCHANGED srv

\* The second dispatch: a group that refuses ends the connect.  It has another
\* one behind it if it is the answer to SQ_DBOPEN itself.
MoreRead(c) ==
    /\ srv[c].unread = "sent"
    /\ \/ /\ srv[c].db /\ Advance(c, "ready")
          /\ \E more \in IF srv[c].late THEN {"none", "sent", "buffer"} ELSE {"none"} :
               srv' = [srv EXCEPT ![c].unread = more]
       \/ /\ \E code \in {"network", "serialization", "data", "other"} : Fail(c, ServerError(code))
          /\ UNCHANGED srv

\* A peek, and a second dispatch if it found something.
DbopenMore(c) ==
    /\ Received(c, "dbopen_more")
    /\ MoreRead(c) \/ (Advance(c, "ready") /\ Missed(c))

\* The connection is ready: clear_error, SQLI_OK.
Ready(c) ==
    /\ At(c, "ready")
    /\ call' = [call EXCEPT ![c] = [NoCall EXCEPT !.tls = call[c].tls]]
    /\ err' = [err EXCEPT ![c] = NoError]
    /\ UNCHANGED <<transport, state, discarded, srv, connects>>

---------------------------------------------------------------------------
(* Use and end of a connection.                                            *)

Work(c) ==
    /\ At(c, "idle") /\ state[c] = "READY"
    /\ Advance(c, "work")
    /\ UNCHANGED srv

Worked(c) == Received(c, "work") /\ Advance(c, "idle") /\ UNCHANGED srv

\* sqli_close, which a discarded connection hands to sqli_conn_discard.
Close(c) ==
    /\ At(c, "idle") /\ ~discarded[c] /\ state[c] # "CLOSED"
    /\ IF sock[c] # Nil
       THEN /\ call' = [call EXCEPT ![c] = [@ EXCEPT !.pc = "exit", !.after = "CLOSED"]]
            /\ io' = [io EXCEPT ![c] = Starting]
            /\ UNCHANGED state
       ELSE /\ state' = [state EXCEPT ![c] = "CLOSED"]
            /\ UNCHANGED <<call, io>>
    /\ err' = [err EXCEPT ![c] = NoError]
    /\ UNCHANGED <<kernel, ssl, registry, sock, discarded, srv, connects>>

\* SQ_XACTSTAT is skipped, anything else ends the wait.
Exit(c) == Received(c, "exit") /\ Advance(c, "detach") /\ UNCHANGED srv

\* sqli_conn_discard: of a connection whose operation was cancelled, again by
\* sqli_close and sqli_destroy if it failed.
Discard(c) ==
    /\ At(c, "idle")
    /\ IF discarded[c] THEN sock[c] # Nil ELSE state[c] = "READY"
    /\ discarded' = [discarded EXCEPT ![c] = TRUE]
    /\ state' = [state EXCEPT ![c] = "ERROR"]
    /\ call' = [call EXCEPT ![c] = [@ EXCEPT !.pc = "discard", !.after = "ERROR"]]
    /\ UNCHANGED <<transport, err, srv, connects>>

\* The registry's mutex cannot be locked, or not unlocked after the session was
\* freed: the descriptor stays with its owner.
DiscardFails(c) ==
    /\ "sync" \in Faults
    /\ At(c, "discard")
    /\ UNCHANGED transport \/ CloseStep(c, 1)
    /\ call' = [call EXCEPT ![c].pc = "idle"]
    /\ UNCHANGED <<state, discarded, err, srv, connects>>

\* sqli_tcp_close and sqli_tcp_discard in two steps.  A close goes on when the
\* session cannot be detached; that the mutex cannot be unlocked it only logs.
DetachSession(c) ==
    /\ call[c].pc \in {"detach", "discard"}
    /\ \/ CloseStep(c, 1)
       \/ "sync" \in Faults /\ At(c, "detach") /\ DetachFails(c)
    /\ call' = [call EXCEPT ![c] = [@ EXCEPT !.pc = "close"]]
    /\ UNCHANGED <<state, discarded, err, srv, connects>>

CloseSocket(c) ==
    /\ At(c, "close")
    /\ CloseStep(c, 2)
    /\ call' = [call EXCEPT ![c] = NoCall]
    /\ state' = [state EXCEPT ![c] = call[c].after]
    /\ srv' = [srv EXCEPT ![c] = [NewServer EXCEPT !.assoc = srv[c].assoc, !.auth = srv[c].auth]]
    /\ UNCHANGED <<discarded, err, connects>>

\* sqli_destroy of a discarded connection, whose own attempt to dispose of it is
\* a Discard, and sqli_create of its successor: the object is freed also when the
\* attempt failed.
Replace(c) ==
    /\ At(c, "idle") /\ discarded[c]
    /\ Abandon(c)
    /\ discarded' = [discarded EXCEPT ![c] = FALSE]
    /\ state' = [state EXCEPT ![c] = "CLOSED"]
    /\ err' = [err EXCEPT ![c] = NoError]
    /\ UNCHANGED <<call, srv, connects>>

Step(c) ==
    \/ Connect(c) \/ OpenSocket(c) \/ AddressFails(c) \/ SocketConnected(c)
    \/ SslUnavailable(c) \/ SslCreate(c) \/ SslFails(c) \/ SslConnected(c) \/ AttachTls(c)
    \/ LookUp(c) \/ MovePart(c) \/ Broken(c) \/ BrokenQuietly(c)
    \/ Greeting(c) \/ Request(c) \/ Associated(c) \/ Protocols(c)
    \/ Challenge(c) \/ PamAccepted(c) \/ PamRejected(c)
    \/ InfoReply(c) \/ InfoMore(c) \/ DbopenReply(c) \/ DbopenMore(c) \/ Ready(c)
    \/ Work(c) \/ Worked(c) \/ Close(c) \/ Exit(c)
    \/ Discard(c) \/ DiscardFails(c) \/ DetachSession(c) \/ CloseSocket(c) \/ Replace(c)

Next == \E c \in Conn : Step(c)

Spec == Init /\ [][Next]_vars

---------------------------------------------------------------------------
(* Properties.                                                             *)

\* A session that is still registered although its connection closed the
\* descriptor, or was freed, without detaching it.
LeftBehind(s) == s \in Ssl /\ ssl[s] = Lost

\* A read or write goes through the TLS session its own connection made, or
\* through none if it made none: never through one that was freed or that
\* another connection registered under a reused descriptor (g_tls_entries).
\* The exception is a defect: where sqli_tcp_close could not detach a session it
\* closes the descriptor all the same (sqli_tcp_posix.c:220-228, sqli_tls.c:87),
\* and the next connection with that number and without TLS of its own reads and
\* writes through the session left behind.
OwnSession ==
    \A c \in Conn : Using(c) =>
        /\ kernel[sock[c]] = c
        /\ IF call[c].tls THEN io[c].ssl \in SessionsOf(c)
           ELSE io[c].ssl = Nil \/ LeftBehind(io[c].ssl)

\* Whatever step of connecting, closing or discarding fails, nothing is left
\* behind that its connection still owns: at rest a connection has a socket only
\* if it is ready or its disposal failed, and then the kernel's; without one it
\* has no session; and the registry names sessions that were not freed, each the
\* session of its descriptor's owner or one left behind.  Left behind are
\* sockets and sessions by a failing mutex only, for two defects: a session where
\* sqli_tcp_close could not detach it, and both where sqli_destroy frees a
\* connection whose disposal failed (sqli_conn.c:383, sqli_handshake.c:1214-1217).
NothingLeft ==
    /\ \A c \in Conn : At(c, "idle") =>
         /\ state[c] = "READY" => sock[c] # Nil
         /\ sock[c] # Nil => state[c] = "READY" \/ discarded[c]
         /\ \A f \in Fds : kernel[f] = c <=> sock[c] = f
         /\ sock[c] = Nil => SessionsOf(c) = {}
    /\ \A f \in Fds : registry[f] # Nil =>
         \/ kernel[f] # Nil /\ ssl[registry[f]] = kernel[f]
         \/ LeftBehind(registry[f])
    /\ "sync" \notin Faults =>
         (\A f \in Fds : kernel[f] # Lost) /\ (\A s \in Ssl : ~LeftBehind(s))

\* SQLI_OK from sqli_connect means a session that is complete and in step: the
\* association stands, PAM was passed if the server has it, the database is open
\* and every reply of the handshake was read that had arrived when sqli_connect
\* looked.  Two kinds it does not see, and the next call takes them for its own
\* answer (sqli_handshake.c:1136, against the comment at 1118): a group that came
\* in the same packet as the first ("buffer"), and one that arrives after the
\* look (late), behind which even the database may turn out not to be open.
ReadyTruthful ==
    \A c \in Conn : At(c, "ready") \/ (At(c, "idle") /\ state[c] = "READY") =>
        /\ srv[c].assoc = "accepted" /\ srv[c].auth \in {"none", "accepted"}
        /\ srv[c].late \/ (srv[c].db /\ srv[c].unread # "sent")

\* A rejection with svcError = 0 after which the server hung up.  The code calls
\* it "the actual rejection" (sqli_handshake.c:1175-1182) but puts the message of
\* the failed read behind its own, so that it classifies as a network error: a
\* defect.
RejectedSoftly(c) == srv[c].assoc = "rejected"

\* What a failed connect leaves for sqli_retry_recommend is sound: a login the
\* server refused is not advised to be tried again, but for the rejections with
\* svcError = 0, and only a refusal counts as one (SQLI_ERROR_CLASS_AUTH).
AdviceSound ==
    \A c \in Conn : At(c, "idle") /\ state[c] = "ERROR" =>
        LET refused == srv[c].assoc \in {"refused", "rejected"} \/ srv[c].auth = "refused" IN
        /\ Retryable(err[c]) => ~refused \/ RejectedSoftly(c)
        /\ Classify(err[c]) = "AUTH" => refused /\ ~RejectedSoftly(c)
=============================================================================
