---------------------------- MODULE MCContactStore ----------------------------
(* Instances of ContactStore for TLC. *)
EXTENDS ContactStore, TLC

Symmetry == Permutations(Onions) \cup Permutations(Keys)
=============================================================================
