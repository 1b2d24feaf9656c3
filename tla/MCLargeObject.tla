--------------------------- MODULE MCLargeObject ---------------------------
(* Inputs of LargeObject for TLC. *)
EXTENDS LargeObject

MCOffsets == {-1, 1}
=============================================================================
