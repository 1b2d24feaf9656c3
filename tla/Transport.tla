------------------------------ MODULE Transport ------------------------------
(***************************************************************************)
(* Sockets and TLS sessions as sqli_tcp_posix.c and sqli_tls.c keep them.  *)
(* The kernel hands out the lowest free descriptor; a process-wide list    *)
(* under g_tls_mutex maps descriptors to TLS sessions.  Reads and writes   *)
(* look the session up under the mutex and use it after the unlock, so     *)
(* what they found must still be theirs when they use it.                  *)
(*                                                                         *)
(* The operations below belong to the thread of connection c; Handshake    *)
(* says when each of them happens.                                         *)
(***************************************************************************)
EXTENDS Naturals

CONSTANTS Conn,     \* connections, each used by a thread of its own
          Fds,      \* the descriptor numbers the kernel has for them
          Ssl,      \* places an SSL object can be allocated at
          Lost,     \* the owner of what no connection object names any more
          Nil

ASSUME TransportAssumption ==
    /\ Fds \subseteq Nat
    /\ Nil \notin Conn \cup Fds \cup Ssl /\ Lost \notin Conn \cup {Nil}

VARIABLES kernel,   \* kernel[f]: the connection whose socket f is, Lost, or Nil
          ssl,      \* ssl[s]: the connection session s was made for, Lost, or Nil: free
          registry, \* g_tls_entries, a map from descriptors to sessions
          sock,     \* socket_fd of each connection object, or Nil
          io        \* the read, write or peek in progress in each thread

transport == <<kernel, ssl, registry, sock, io>>

TypeOK ==
    /\ kernel \in [Fds -> Conn \cup {Lost, Nil}]
    /\ ssl \in [Ssl -> Conn \cup {Lost, Nil}]
    /\ registry \in [Fds -> Ssl \cup {Nil}]
    /\ sock \in [Conn -> Fds \cup {Nil}]
    /\ io \in [Conn -> [stage: {"none", "look", "use"}, ssl: Ssl \cup {Nil}]]

NoIo == [stage |-> "none", ssl |-> Nil]
Starting == [NoIo EXCEPT !.stage = "look"]

TransportInit ==
    /\ kernel = [f \in Fds |-> Nil]
    /\ ssl = [s \in Ssl |-> Nil]
    /\ registry = [f \in Fds |-> Nil]
    /\ sock = [c \in Conn |-> Nil]
    /\ io = [c \in Conn |-> NoIo]

SessionsOf(c) == {s \in Ssl : ssl[s] = c}

---------------------------------------------------------------------------
(* Opening.                                                                *)

\* socket: the lowest descriptor that is free.
Socket(c) ==
    \E f \in Fds :
        /\ kernel[f] = Nil /\ \A g \in Fds : g < f => kernel[g] # Nil
        /\ kernel' = [kernel EXCEPT ![f] = c]
        /\ sock' = [sock EXCEPT ![c] = f]
        /\ UNCHANGED <<ssl, registry, io>>

\* close of a socket that never connected; the registry is not looked at.
Unsocket(c) ==
    /\ kernel' = [kernel EXCEPT ![sock[c]] = Nil]
    /\ sock' = [sock EXCEPT ![c] = Nil]
    /\ UNCHANGED <<ssl, registry, io>>

\* SSL_new and SSL_set_fd.
NewSession(c) ==
    \E s \in Ssl :
        /\ ssl[s] = Nil
        /\ ssl' = [ssl EXCEPT ![s] = c]
        /\ UNCHANGED <<kernel, registry, sock, io>>

\* SSL_free on a session that was not attached.
FreeSession(c) ==
    /\ ssl' = [s \in Ssl |-> IF ssl[s] = c THEN Nil ELSE ssl[s]]
    /\ UNCHANGED <<kernel, registry, sock, io>>

\* sqli_tcp_tls_attach: an entry that is already there for the descriptor is
\* taken over and the session it held is freed.
Attach(c) ==
    \E s \in SessionsOf(c) :
        LET f == sock[c] IN
        /\ registry' = [registry EXCEPT ![f] = s]
        /\ ssl' = [x \in Ssl |-> IF x = registry[f] THEN Nil ELSE ssl[x]]
        /\ UNCHANGED <<kernel, sock>>

---------------------------------------------------------------------------
(* Reads, writes and peeks.                                                *)

\* find_tls_entry under the mutex, once per turn of the loop.  That an earlier
\* turn saw a session and this one none ("tls context detached") fails the call
\* like any other error, which Handshake allows at every use.
Lookup(c) ==
    /\ io[c].stage = "look"
    /\ io' = [io EXCEPT ![c] = [stage |-> "use", ssl |-> registry[sock[c]]]]
    /\ UNCHANGED <<kernel, ssl, registry, sock>>

\* SSL_read, SSL_write, read or send moved part of the data or has to wait, or
\* the exchange goes on with its next call.
Partial(c) ==
    /\ io[c].stage = "use"
    /\ io' = [io EXCEPT ![c] = Starting]
    /\ UNCHANGED <<kernel, ssl, registry, sock>>

Using(c) == io[c].stage = "use"

---------------------------------------------------------------------------
(* Closing.                                                                *)

\* tls_detach: the entry is unlinked and its session freed under the mutex.
Detach(c) ==
    LET s == registry[sock[c]] IN
    /\ registry' = [registry EXCEPT ![sock[c]] = Nil]
    /\ ssl' = [x \in Ssl |-> IF x = s THEN Nil ELSE ssl[x]]
    /\ UNCHANGED kernel

\* sqli_tcp_tls_detach when tls_detach cannot lock the mutex: that is logged, and
\* the entry stays with its session although the descriptor will be closed.
DetachFails(c) ==
    LET s == registry[sock[c]] IN
    /\ ssl' = [x \in Ssl |-> IF x = s THEN Lost ELSE ssl[x]]
    /\ UNCHANGED <<kernel, registry, sock, io>>

CloseFd(c) ==
    /\ kernel' = [kernel EXCEPT ![sock[c]] = Nil]
    /\ UNCHANGED <<ssl, registry>>

\* Mutant: the descriptor is free before its session is.
CloseStepReversed(c, step) ==
    /\ IF step = 1 THEN CloseFd(c) ELSE Detach(c)
    /\ sock' = IF step = 1 THEN sock ELSE [sock EXCEPT ![c] = Nil]
    /\ UNCHANGED io

\* The two steps of sqli_tcp_close and sqli_tcp_discard: other threads may open
\* and close descriptors in between.  The caller then forgets the descriptor.
CloseStep(c, step) ==
    /\ IF step = 1 THEN Detach(c) ELSE CloseFd(c)
    /\ sock' = IF step = 1 THEN sock ELSE [sock EXCEPT ![c] = Nil]
    /\ UNCHANGED io

\* The connection object is freed: whatever socket and session it still had are
\* nobody's, and stay.
Abandon(c) ==
    /\ kernel' = [f \in Fds |-> IF kernel[f] = c THEN Lost ELSE kernel[f]]
    /\ ssl' = [s \in Ssl |-> IF ssl[s] = c THEN Lost ELSE ssl[s]]
    /\ sock' = [sock EXCEPT ![c] = Nil]
    /\ UNCHANGED <<registry, io>>
=============================================================================
