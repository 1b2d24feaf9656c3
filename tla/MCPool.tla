------------------------------ MODULE MCPool ------------------------------
(* Small instances of the connection pool for TLC.                         *)
EXTENDS Pool, TLC

Symmetry == Permutations(Thread) \cup Permutations(Addr)
===========================================================================
