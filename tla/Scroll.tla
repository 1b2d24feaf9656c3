------------------------------- MODULE Scroll -------------------------------
(***************************************************************************)
(* What a positioned result promises its reader: a position between before *)
(* the first row (0) and after the last row (size + 1), and operations     *)
(* that either deliver exactly the row at their target or deliver none.    *)
(* An operation that fails leaves the reader after the last row or         *)
(* nowhere (-1), from where only moves relative to an end make sense.      *)
(***************************************************************************)
EXTENDS Integers

CONSTANT Args   \* arguments of absolute and relative moves

VARIABLES
    size,   \* rows of the result
    pos,    \* -1, 0, a row, or size + 1
    seen    \* the last operation and the row it delivered, 0 for none

vars == <<size, pos, seen>>

Nowhere    == -1
Positioned == pos \in 1 .. size

Init == size \in Nat /\ pos = 0 /\ seen = [op |-> "none", arg |-> 0, row |-> 0]

Report(op, arg, row) == seen' = [op |-> op, arg |-> arg, row |-> row] /\ UNCHANGED size

\* The operation moves to its target, or falls off either end.
Reach(op, arg, target) ==
    /\ pos' = IF target < 0 THEN 0 ELSE IF target > size THEN size + 1 ELSE target
    /\ Report(op, arg, IF target \in 1 .. size THEN target ELSE 0)

Fail(op, arg)   == pos' \in {Nowhere, size + 1} /\ Report(op, arg, 0)
Refuse(op, arg) == pos' = pos /\ Report(op, arg, 0)

Fetch == (pos # Nowhere /\ Reach("fetch", 0, pos + 1)) \/ Fail("fetch", 0)

Previous ==
    \/ pos # Nowhere /\ Reach("previous", 0, pos - 1)
    \/ pos = Nowhere /\ Reach("previous", 0, size)
    \/ Fail("previous", 0)

First == (size > 0 /\ Reach("first", 0, 1)) \/ Fail("first", 0)
Last  == (size > 0 /\ Reach("last", 0, size)) \/ Fail("last", 0)

Absolute(k) ==
    \/ k <= 0 /\ Refuse("absolute", k)
    \/ k >= 1 /\ Reach("absolute", k, k)
    \/ Fail("absolute", k)

\* From the far end a relative move has no starting point.
Relative(d) ==
    \/ Positioned /\ Reach("relative", d, pos + d)
    \/ ~Positioned /\ Refuse("relative", d)
    \/ d > 0 /\ pos \in {Nowhere, 0} /\ Reach("relative", d, d)
    \/ Fail("relative", d)

Next ==
    \/ Fetch \/ Previous \/ First \/ Last
    \/ \E k \in Args : Absolute(k) \/ Relative(k)

Spec == Init /\ [][Next]_vars
=============================================================================
