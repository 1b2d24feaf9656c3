------------------------------- MODULE Conn -------------------------------
(***************************************************************************)
(* The connection object of libsqli (struct sqli_conn) as far as the pool  *)
(* and the cancellation handle see it: the atomic lifecycle word, the      *)
(* state machine's current state, whether the transport is still open and  *)
(* whether the memory of the object is allocated.                          *)
(*                                                                         *)
(* The operators are the functions of sqli_conn.c and sqli_handshake.c as  *)
(* relations on one record: every operator returns the SET of records the  *)
(* function can leave behind, because transport disposal can fail.         *)
(***************************************************************************)

\* The three bits of conn->lifecycle.
PINNED    == "PINNED"
DISCARDED == "DISCARDED"
RELEASED  == "RELEASED"
Bits      == {PINNED, DISCARDED, RELEASED}

\* live: the object is allocated; open: socket_fd >= 0.
ConnRecord == [live: BOOLEAN, life: SUBSET Bits,
               state: {"READY", "CLOSED", "ERROR"}, open: BOOLEAN]

\* Memory that holds no connection object.
FreeMemory == [live |-> FALSE, life |-> {}, state |-> "CLOSED", open |-> FALSE]

\* sqli_create followed by a successful sqli_connect.
Connected == [live |-> TRUE, life |-> {}, state |-> "READY", open |-> TRUE]

\* The test of sqli_pool_acquire_timeout and of ensure_slot_connected.
Usable(c) == DISCARDED \notin c.life /\ c.state = "READY" /\ c.open

---------------------------------------------------------------------------
\* sqli_tcp_discard: ERR is a TLS registry failure (the descriptor is kept),
\* IO_ERROR a failed shutdown or close (the descriptor is gone all the same).
DiscardStatus(c) == IF c.open THEN {"OK", "IO_ERROR", "ERR"} ELSE {"OK"}

\* sqli_conn_discard when the transport reports status.
Discarded(c, status) ==
    [c EXCEPT !.life = @ \cup {DISCARDED}, !.state = "ERROR",
              !.open = @ /\ status = "ERR"]

\* sqli_close: refused while pinned; abortive for a discarded connection;
\* otherwise the graceful SQ_EXIT exchange, whose errors are ignored.
Closed(c) ==
    IF PINNED \in c.life THEN {c}
    ELSE IF DISCARDED \in c.life
         THEN {Discarded(c, status) : status \in DiscardStatus(c)}
         ELSE {[c EXCEPT !.state = "CLOSED", !.open = FALSE]}

\* sqli_destroy: refused (and the object leaked) while pinned, else close and
\* free. "open" of a freed record is a descriptor nobody can close any more.
Destroyed(c) ==
    IF PINNED \in c.life THEN {c}
    ELSE {[FreeMemory EXCEPT !.open = d.open] : d \in Closed(c)}

===========================================================================
