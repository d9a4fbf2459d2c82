---------------------------- MODULE MCCallManager ----------------------------
(* Instances of CallManager for TLC. *)
EXTENDS CallManager, TLC

(* Sockets and dials are interchangeable; used by the safety runs only. *)
Symmetry == Permutations(Conns) \cup Permutations(Dials)
=============================================================================
