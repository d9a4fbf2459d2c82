---------------------------- MODULE MCPeerIdentity ----------------------------
(* An instance of PeerIdentity for TLC: two identities, each at an onion   *)
(* and with an ephemeral key of its own.                                   *)
EXTENDS PeerIdentity, TLC

CONSTANTS o1, o2, k1, k2, e1, e2

Address   == k1 :> o1 @@ k2 :> o2
Ephemeral == k1 :> e1 @@ k2 :> e2

(* Exchanging the two identities with all that is theirs. *)
Symmetry ==
    {f \in Permutations(Onions \cup Keys \cup Ephemerals) :
        /\ \A k \in Keys : f[k] \in Keys
        /\ \A k \in Keys : /\ f[Address[k]] = Address[f[k]]
                          /\ f[Ephemeral[k]] = Ephemeral[f[k]]}
=============================================================================
