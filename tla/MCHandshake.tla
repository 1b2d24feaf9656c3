----------------------------- MODULE MCHandshake -----------------------------
(* Handshake for TLC: connections and places of SSL objects are alike.        *)
EXTENDS Handshake, TLC

Symmetry == Permutations(Conn) \cup Permutations(Ssl)
=============================================================================
