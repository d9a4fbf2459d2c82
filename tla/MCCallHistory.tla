---------------------------- MODULE MCCallHistory ----------------------------
(* Instances of CallHistory for TLC. *)
EXTENDS CallHistory, TLC

Symmetry == Permutations(Conns) \cup Permutations(Dials)
=============================================================================
