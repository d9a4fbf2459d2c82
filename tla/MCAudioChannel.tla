---------------------------- MODULE MCAudioChannel ----------------------------
(* An instance of AudioChannel for TLC; session keys are interchangeable. *)
EXTENDS AudioChannel, TLC

Symmetry == Permutations(Keys)

(* Of sessions that were mixed up nothing is claimed: once all are, the    *)
(* instance is not followed any further.                                   *)
SomeUnmixed == shared # Keys
=============================================================================
