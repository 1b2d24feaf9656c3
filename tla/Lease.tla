------------------------------- MODULE Lease -------------------------------
(***************************************************************************)
(* What a connection pool promises its callers: a loan is exclusive in its *)
(* slot and in its connection, it ends only when the borrower returns it,  *)
(* and the pool closes only when nothing is on loan, after which nothing   *)
(* is ever lent again.                                                     *)
(***************************************************************************)
CONSTANTS Thread, Slot, Addr, Nil

VARIABLES loan,    \* loan[t]: the slot and connection lent to t, or None
          closed   \* destruction has begun

None == [slot |-> Nil, conn |-> Nil]

Init == loan = [t \in Thread |-> None] /\ closed = FALSE

Borrow(t, s, c) ==
    /\ ~closed
    /\ loan[t] = None
    /\ \A u \in Thread : loan[u] # None => loan[u].slot # s /\ loan[u].conn # c
    /\ loan' = [loan EXCEPT ![t] = [slot |-> s, conn |-> c]]
    /\ UNCHANGED closed

Return(t) ==
    /\ loan[t] # None
    /\ loan' = [loan EXCEPT ![t] = None]
    /\ UNCHANGED closed

Close ==
    /\ \A t \in Thread : loan[t] = None
    /\ closed' = TRUE
    /\ UNCHANGED loan

Next ==
    \/ \E t \in Thread : Return(t) \/ \E s \in Slot, c \in Addr : Borrow(t, s, c)
    \/ Close

Spec == Init /\ [][Next]_<<loan, closed>>
===========================================================================
