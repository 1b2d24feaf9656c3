------------------------------ MODULE MCResult ------------------------------
EXTENDS ResultCursor

\* One forward-only cursor closed by commit and one scrollable cursor held.
Forward    == {[scroll |-> FALSE, hold |-> FALSE]}
Scrolling  == {[scroll |-> TRUE, hold |-> TRUE]}
BothKinds  == Forward \cup Scrolling

AllTargets == 0 .. MaxRows + 1
AllOffsets == -MaxRows .. MaxRows
=============================================================================
