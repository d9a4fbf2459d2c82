--------------------------- MODULE MCLocalIdentity ---------------------------
(* An instance of LocalIdentity for TLC: keys and passphrases are alike.   *)
EXTENDS LocalIdentity, TLC

Symmetry == Permutations(Services) \cup Permutations(Identities)
                                   \cup Permutations(Passphrases)
=============================================================================
