--------------------------- MODULE MCPoolCancel ---------------------------
(* A small instance of the pool with cancellable executions for TLC.       *)
EXTENDS PoolCancel, TLC

Symmetry == Permutations(Thread) \cup Permutations(Op) \cup Permutations(Addr)
===========================================================================
