----------------------------- MODULE PeerIdentity -----------------------------
(***************************************************************************)
(* What a handshake does to the pinned contacts: building it, the network  *)
(* that may delay or damage it, _verify_peer_identity, and the store       *)
(* (torcall/core/call_manager.py on top of core/identity.py).  The         *)
(* handshake is decoded, its signature checked, the address to pin under   *)
(* chosen, and the identity handed to ContactStore, all on the GUI thread  *)
(* and so in one step.                                                     *)
(*                                                                         *)
(* Peers may run any version of the program: one without identities, one   *)
(* without nonces, one that does not know its own address.                 *)
(***************************************************************************)
EXTENDS ContactStore, Integers

CONSTANTS
    MaxSkew,     \* _HANDSHAKE_MAX_SKEW_S
    OnionLen,    \* bytes of an advertised address
    Oddities,    \* strings that are no v3 onion address
    Ephemerals,  \* ephemeral key pairs
    AddressOf,   \* the onion each identity is served at
    EphemeralOf, \* the ephemeral key each identity calls with
    Times        \* the clock, from the first handshake on

INSTANCE Handshake

ASSUME OddityAssumption == Oddities \cap Addresses = {}
ASSUME EphemeralsAssumption == None \notin Ephemerals
ASSUME OwnersAssumption ==
    /\ AddressOf \in [Keys -> Onions]
    /\ EphemeralOf \in [Keys -> Ephemerals]
ASSUME FormatAssumption ==
    MaxSkew \in Nat /\ OnionLen \in Nat /\ OnionLen < 65536
ASSUME TimesAssumption == Times \subseteq Int /\ None \notin Times
ASSUME NoneIsNoAddress == None \notin Addresses \cup Oddities
ASSUME NoneIsNoSignature ==
    \A k \in Keys, t \in Times \cup {None}, o \in Onions \cup {None} :
        SignHandshake(k, EphemeralOf[k], t, o) # None

VARIABLE last   \* history: what is true of the handshake verified last

peerVars == <<vars, last>>

(* _build_handshake for an identity that knows its own address or not yet, *)
(* and what versions without nonces or without identities send instead.    *)
BuildHandshake(k, nonce, onion) ==
    EncodeHandshake(EphemeralOf[k], k,
                    SignHandshake(k, EphemeralOf[k], nonce, onion), nonce, onion)

Signed ==
    UNION {{BuildHandshake(k, t, o) :
               t \in Times \cup {None}, o \in {AddressOf[k], None}} : k \in Keys}

Built == Signed \cup {EncodeHandshake(e, None, None, None, None) : e \in Ephemerals}

(* One field of the payload is not what was sent, or its end is missing. *)
DamagedFields(f) ==
    {[f EXCEPT !.eph = e]   : e \in Ephemerals} \cup
    {[f EXCEPT !.nonce = t] : t \in Times} \cup
    {[f EXCEPT !.id = k]    : k \in Keys} \cup
    {[f EXCEPT !.onion = o] : o \in Onions \cup Oddities}

Damaged ==
    UNION {{Payload(p.len, f) : f \in DamagedFields(p.fields)} \cup
           {Payload(p.len - 1, p.fields)} : p \in Built}

-----------------------------------------------------------------------------
(* The address to pin under: the one we dialled if we dialled an onion,    *)
(* else the one the peer advertises if it is an onion, else the socket's.  *)
PinAddress(at, onion) ==
    IF at \in Onions THEN at
    ELSE IF onion \in Onions THEN onion
    ELSE at

(* What _verify_peer_identity makes of payload p from address at at time   *)
(* now, up to the store.                                                   *)
Judge(p, at, now) ==
    LET h == DecodeHandshake(p) IN
    CASE h = Malformed -> [verdict |-> "malformed"]
      [] h # Malformed /\ None \in {h.id, h.sig} ->
            [verdict |-> "unsigned", eph |-> h.eph]
      [] h # Malformed /\ None \notin {h.id, h.sig} ->
            IF VerifyHandshake(h.id, h.eph, h.sig, h.nonce, h.onion, now)
            THEN [verdict |-> "verified", eph |-> h.eph, key |-> h.id,
                  nonce |-> h.nonce, pin |-> PinAddress(at, h.onion)]
            ELSE [verdict |-> "invalid"]

(* A verified identity is vouched for if its owner signed this ephemeral   *)
(* key, in time if the signature is dated, and for the address it is to be *)
(* pinned under, unless the call went to or came from that address.        *)
Vouched(j, at, now) ==
    \E p \in Signed :
        LET s == p.fields IN
        /\ s.id = j.key /\ s.eph = j.eph /\ s.nonce = j.nonce
        /\ j.nonce # None => now - j.nonce \in (-MaxSkew)..MaxSkew
        /\ j.pin # at => s.onion = j.pin

(* A handshake as its maker built it, no older than the window. *)
Genuine(p, now) ==
    /\ p \in Built
    /\ p.fields.nonce # None => now - p.fields.nonce \in (-MaxSkew)..MaxSkew

(* Every handshake that may arrive, with the address it comes from (the    *)
(* onion we dialled or a loopback socket), and what the store sees of it.  *)
Verification(p, at, now) ==
    LET j == Judge(p, at, now)
        verified == j.verdict = "verified"
    IN [verdict |-> j.verdict,
        key     |-> IF verified THEN j.key ELSE None,
        pin     |-> IF verified THEN j.pin ELSE None,
        vouched |-> verified => Vouched(j, at, now),
        genuine |-> Genuine(p, now)]

Verifications ==
    {Verification(p, at, now) :
        p \in Built \cup Damaged, at \in Addresses, now \in Times}

Outcome(v) == [verdict |-> v.verdict, vouched |-> v.vouched, genuine |-> v.genuine]
Nothing    == [verdict |-> "none", vouched |-> TRUE, genuine |-> FALSE]

PeerInit == Init /\ last = Nothing

(* _verify_peer_identity *)
VerifyPeerIdentity(v) ==
    /\ running
    /\ IF v.verdict = "verified" THEN Check(v.pin, v.key) ELSE UNCHANGED vars
    /\ last' = Outcome(v)

(* Between calls: restarts and the contacts dialog. *)
Manage ==
    /\ \/ \E p \in Passphrases \cup {None} : Start(p)
       \/ Quit
       \/ \E a \in Addresses : Remove(a) \/ \E n \in Names \cup {None} : SetName(a, n)
    /\ UNCHANGED last

PeerNext == (\E v \in Verifications : VerifyPeerIdentity(v)) \/ Manage

PeerSpec == PeerInit /\ [][PeerNext]_peerVars
-----------------------------------------------------------------------------
(* The signature binds identity, ephemeral key, nonce and address to each  *)
(* other: whatever arrives, an identity is compared or pinned only if its  *)
(* owner signed this call's ephemeral key, recently, and for that address. *)
OnlyVouched == last.vouched

(* Every version's handshake is understood: one that arrives whole and in  *)
(* time is neither malformed nor badly signed.                             *)
GenuineIsUnderstood == last.genuine => last.verdict \in {"unsigned", "verified"}
=============================================================================
