--------------------------- MODULE PeerIdentityProofs ---------------------------
(***************************************************************************)
(* PeerIdentity for any identities, addresses, clocks and windows: the     *)
(* handshake's encoding, what its signature binds, and that it uses the    *)
(* contact store as the store expects.                                     *)
(***************************************************************************)
EXTENDS PeerIdentity, ContactStoreProofs

USE DEF LegacyLen, FullLen, V2Len, V3MinLen

-----------------------------------------------------------------------------
(* What is left of a payload on its way: a signature in it is one that an  *)
(* identity made over its own ephemeral key, and the longest form has a    *)
(* nonce.                                                                  *)
Sig(k, t, o) == SignHandshake(k, EphemeralOf[k], t, o)

OwnSignature(s) ==
    \E k \in Keys, t \in Times \cup {None} : \E a \in {AddressOf[k], None} :
        s = Sig(k, t, a)

Arrivable(p) ==
    /\ p.len \in Int
    /\ p.fields = Fields(p.fields.eph, p.fields.id, p.fields.sig,
                         p.fields.nonce, p.fields.onion)
    /\ p.fields.id \in Keys \cup {None}
    /\ p.fields.sig # None => OwnSignature(p.fields.sig)
    /\ p.len >= V3MinLen + OnionLen => p.fields.nonce # None

LEMMA SignerFacts ==
    ASSUME NEW k \in Keys, NEW t \in Times \cup {None}, NEW o \in {AddressOf[k], None}
    PROVE  /\ o \in Onions \cup {None}
           /\ None \notin {k, Sig(k, t, o)}
           /\ t # None => t \in Times
  <1>1. o \in Onions \cup {None} /\ k # None
    BY OwnersAssumption, NoneAssumption DEF OwnersAssumption, NoneAssumption
  <1>2. QED
    BY <1>1, NoneIsNoSignature DEF NoneIsNoSignature, Sig

(* The three signed forms, each as it is encoded. *)
LEMMA Forms ==
    \A k \in Keys, t \in Times \cup {None} : \A o \in {AddressOf[k], None} :
        /\ t = None => BuildHandshake(k, t, o)
              = Payload(FullLen, Fields(EphemeralOf[k], k, Sig(k, t, o), None, None))
        /\ t # None /\ o = None => BuildHandshake(k, t, o)
              = Payload(V2Len, Fields(EphemeralOf[k], k, Sig(k, t, o), t, None))
        /\ t # None /\ o # None => BuildHandshake(k, t, o)
              = Payload(V3MinLen + OnionLen, Fields(EphemeralOf[k], k, Sig(k, t, o), t, o))
  BY SignerFacts DEF BuildHandshake, EncodeHandshake, Sig

LEMMA LengthFacts == OnionLen \in Nat /\ V3MinLen + OnionLen \in Nat
  BY FormatAssumption DEF FormatAssumption

(* What is built is decoded to the same fields. *)
LEMMA FormFacts ==
    ASSUME NEW k \in Keys, NEW t \in Times \cup {None}, NEW o \in {AddressOf[k], None},
           NEW p, p = BuildHandshake(k, t, o)
    PROVE  /\ p.fields.id = k /\ p.fields.eph = EphemeralOf[k]
           /\ p.fields.sig = Sig(k, t, o) /\ p.fields.nonce = t
           /\ t # None => p.fields.onion = o
           /\ DecodeHandshake(p) = p.fields /\ p.fields # Malformed
  <1>1. CASE t = None
    <2>1. p = Payload(FullLen, Fields(EphemeralOf[k], k, Sig(k, t, o), None, None))
      BY <1>1, Forms
    <2>2. p.fields = Fields(EphemeralOf[k], k, Sig(k, t, o), None, None) /\ p.len = FullLen
      BY <2>1 DEF Payload
    <2>3. DecodeHandshake(p) = p.fields
      BY <2>2, LengthFacts DEF DecodeHandshake, Fields
    <2>4. QED
      BY <1>1, <2>2, <2>3 DEF Fields, Malformed
  <1>2. CASE t # None /\ o = None
    <2>1. p = Payload(V2Len, Fields(EphemeralOf[k], k, Sig(k, t, o), t, None))
      BY <1>2, Forms
    <2>2. p.fields = Fields(EphemeralOf[k], k, Sig(k, t, o), t, None) /\ p.len = V2Len
      BY <2>1 DEF Payload
    <2>3. DecodeHandshake(p) = p.fields
      BY <2>2, LengthFacts DEF DecodeHandshake, Fields
    <2>4. QED
      BY <1>2, <2>2, <2>3 DEF Fields, Malformed
  <1>3. CASE t # None /\ o # None
    <2>1. p = Payload(V3MinLen + OnionLen, Fields(EphemeralOf[k], k, Sig(k, t, o), t, o))
      BY <1>3, Forms
    <2>2. /\ p.fields = Fields(EphemeralOf[k], k, Sig(k, t, o), t, o)
          /\ p.len = V3MinLen + OnionLen
      BY <2>1 DEF Payload
    <2>3. DecodeHandshake(p) = p.fields
      <3>1. OnionLen \in Nat
        BY LengthFacts
      <3>2. /\ p.len \notin {LegacyLen, FullLen, V2Len}
            /\ p.len >= V3MinLen + OnionLen
        BY <2>2, <3>1
      <3>3. QED
        BY <3>2 DEF DecodeHandshake
    <2>4. QED
      BY <1>3, <2>2, <2>3 DEF Fields, Malformed
  <1>4. QED
    BY <1>1, <1>2, <1>3

LEMMA LegacyForm ==
    ASSUME NEW e
    PROVE  EncodeHandshake(e, None, None, None, None)
              = Payload(LegacyLen, Fields(e, None, None, None, None))
  BY DEF EncodeHandshake

LEMMA BuiltArrivable == \A p \in Built : Arrivable(p)
  <1>1. ASSUME NEW e \in Ephemerals
        PROVE  Arrivable(EncodeHandshake(e, None, None, None, None))
    BY LegacyForm, LengthFacts DEF Arrivable, Payload, Fields
  <1>2. ASSUME NEW k \in Keys, NEW t \in Times \cup {None},
               NEW o \in {AddressOf[k], None}
        PROVE  Arrivable(BuildHandshake(k, t, o))
    <2>1. OwnSignature(Sig(k, t, o))
      BY DEF OwnSignature
    <2>2. CASE t = None
      <3>1. BuildHandshake(k, t, o)
               = Payload(FullLen, Fields(EphemeralOf[k], k, Sig(k, t, o), None, None))
        BY <2>2, Forms
      <3>2. QED
        BY <2>1, <2>2, <3>1, LengthFacts DEF Arrivable, Payload, Fields
    <2>3. CASE t # None /\ o = None
      <3>1. BuildHandshake(k, t, o)
               = Payload(V2Len, Fields(EphemeralOf[k], k, Sig(k, t, o), t, None))
        BY <2>3, Forms
      <3>2. QED
        BY <2>1, <2>3, <3>1, LengthFacts DEF Arrivable, Payload, Fields
    <2>4. CASE t # None /\ o # None
      <3>1. BuildHandshake(k, t, o)
               = Payload(V3MinLen + OnionLen, Fields(EphemeralOf[k], k, Sig(k, t, o), t, o))
        BY <2>4, Forms
      <3>2. QED
        BY <2>1, <2>4, <3>1, LengthFacts DEF Arrivable, Payload, Fields
    <2>5. QED
      BY <2>2, <2>3, <2>4
  <1>3. QED
    BY <1>1, <1>2 DEF Built, Signed

LEMMA DamagedArrivable == \A p \in Damaged : Arrivable(p)
  <1>1. SUFFICES ASSUME NEW b \in Built,
                        NEW p \in {Payload(b.len, f) : f \in DamagedFields(b.fields)}
                                  \cup {Payload(b.len - 1, b.fields)}
                 PROVE  Arrivable(p)
    BY DEF Damaged
  <1>2. Arrivable(b)
    BY BuiltArrivable
  <1>3. CASE p = Payload(b.len - 1, b.fields)
    <2>1. p.len = b.len - 1 /\ p.fields = b.fields
      BY ONLY <1>3 DEF Payload
    <2>2. b.len \in Int /\ p.len \in Int
      BY ONLY <1>2, <2>1 DEF Arrivable
    <2>3. p.len >= V3MinLen + OnionLen => b.len >= V3MinLen + OnionLen
      <3>1. V3MinLen + OnionLen \in Int
        BY LengthFacts
      <3>2. \A m, n \in Int : m - 1 >= n => m >= n
        OBVIOUS
      <3>3. QED
        BY ONLY <2>1, <2>2, <3>1, <3>2
    <2>4. p.fields.nonce # None <=> b.fields.nonce # None
      BY ONLY <2>1
    <2>5. p.len >= V3MinLen + OnionLen => p.fields.nonce # None
      BY ONLY <1>2, <2>3, <2>4 DEF Arrivable
    <2>6. /\ p.fields = Fields(p.fields.eph, p.fields.id, p.fields.sig,
                               p.fields.nonce, p.fields.onion)
          /\ p.fields.id \in Keys \cup {None}
          /\ p.fields.sig # None => OwnSignature(p.fields.sig)
      BY ONLY <1>2, <2>1 DEF Arrivable
    <2>7. QED
      BY ONLY <2>2, <2>5, <2>6 DEF Arrivable
  <1>4. ASSUME NEW f \in DamagedFields(b.fields), p = Payload(b.len, f)
        PROVE  Arrivable(p)
    <2>1. /\ f.id = b.fields.id \/ f.id \in Keys
          /\ f.sig = b.fields.sig
          /\ f.nonce = b.fields.nonce \/ f.nonce \in Times
          /\ f = Fields(f.eph, f.id, f.sig, f.nonce, f.onion)
      BY <1>2 DEF DamagedFields, Arrivable, Fields
    <2>2. QED
      BY <1>2, <1>4, <2>1, TimesAssumption DEF Arrivable, Payload, TimesAssumption
  <1>5. QED
    BY <1>1, <1>3, <1>4

-----------------------------------------------------------------------------
(* What a verified handshake proves.  PickSigner names the identity that   *)
(* signed it, and when, and for which address.                             *)
LEMMA Binding ==
    ASSUME NEW p, Arrivable(p), NEW at \in Addresses, NEW now,
           Judge(p, at, now).verdict = "verified"
    PROVE  /\ Judge(p, at, now).key \in Keys
           /\ Judge(p, at, now).pin \in Addresses
           /\ Vouched(Judge(p, at, now), at, now)
  <1> DEFINE j == Judge(p, at, now)
             h == DecodeHandshake(p)
  <1>1. /\ h # Malformed /\ None \notin {h.id, h.sig}
        /\ VerifyHandshake(h.id, h.eph, h.sig, h.nonce, h.onion, now)
        /\ j = [verdict |-> "verified", eph |-> h.eph, key |-> h.id,
                nonce |-> h.nonce, pin |-> PinAddress(at, h.onion)]
    <2> HIDE DEF h
    <2>1. CASE h = Malformed
      BY <2>1 DEF Judge, h
    <2>2. CASE h # Malformed /\ None \in {h.id, h.sig}
      BY <2>2 DEF Judge, h
    <2>3. CASE h # Malformed /\ None \notin {h.id, h.sig}
      BY <2>3 DEF Judge, h
    <2>4. QED
      BY <2>1, <2>2, <2>3
  <1>2. /\ h.id = p.fields.id /\ h.sig = p.fields.sig
        /\ h.onion # None => h.nonce # None
    <2>0. p.len \in Int /\ OnionLen \in Nat
      BY FormatAssumption DEF Arrivable, FormatAssumption
    <2>1. CASE p.len = LegacyLen
      <3>1. h = Fields(p.fields.eph, None, None, None, None)
        BY <2>0, <2>1 DEF DecodeHandshake
      <3>2. QED
        BY <1>1, <3>1 DEF Fields
    <2>2. CASE p.len = FullLen
      <3>1. h = Fields(p.fields.eph, p.fields.id, p.fields.sig, None, None)
        BY <2>0, <2>2 DEF DecodeHandshake
      <3>2. QED
        BY <3>1 DEF Fields
    <2>3. CASE p.len = V2Len
      <3>1. h = Fields(p.fields.eph, p.fields.id, p.fields.sig, p.fields.nonce, None)
        BY <2>0, <2>3 DEF DecodeHandshake
      <3>2. QED
        BY <3>1 DEF Fields
    <2>4. CASE p.len \notin {LegacyLen, FullLen, V2Len}
      <3>1. h = p.fields /\ p.len >= V3MinLen + OnionLen
        BY <1>1, <2>4 DEF DecodeHandshake
      <3>2. QED
        BY <3>1 DEF Arrivable
    <2>5. QED
      BY <2>1, <2>2, <2>3, <2>4
  <1> HIDE DEF h, j
  <1>3. PICK k \in Keys, t \in Times \cup {None} : \E a \in {AddressOf[k], None} :
            h.sig = Sig(k, t, a)
    BY <1>1, <1>2 DEF Arrivable, OwnSignature
  <1>4. PICK o \in {AddressOf[k], None} : h.sig = Sig(k, t, o)
    BY <1>3
  <1>5. /\ h.id = k /\ h.eph = EphemeralOf[k] /\ h.nonce = t
        /\ h.nonce # None => h.onion = o
    BY <1>1, <1>4 DEF VerifyHandshake, Sig, SignHandshake, Covered
  <1>6. /\ BuildHandshake(k, t, o).fields.id = k
        /\ BuildHandshake(k, t, o).fields.eph = EphemeralOf[k]
        /\ BuildHandshake(k, t, o).fields.nonce = t
        /\ t # None => BuildHandshake(k, t, o).fields.onion = o
    BY FormFacts
  <1>7. BuildHandshake(k, t, o) \in Signed
    BY DEF Signed
  <1>8. /\ j.key = k /\ j.eph = EphemeralOf[k] /\ j.nonce = t
        /\ j.pin = PinAddress(at, h.onion)
    BY <1>1, <1>5
  <1>9. j.nonce # None => now - j.nonce \in (-MaxSkew)..MaxSkew
    BY <1>1, <1>5, <1>8 DEF VerifyHandshake, Fresh
  <1>10. j.pin # at => BuildHandshake(k, t, o).fields.onion = j.pin
    <2>1. SUFFICES ASSUME j.pin # at
                   PROVE  BuildHandshake(k, t, o).fields.onion = j.pin
      OBVIOUS
    <2>2. h.onion \in Onions /\ j.pin = h.onion
      BY <1>8, <2>1 DEF PinAddress
    <2>3. h.onion # None
      BY <2>2, NoneIsNoAddress DEF NoneIsNoAddress, Addresses
    <2>4. QED
      BY <1>2, <1>5, <1>6, <2>2, <2>3
  <1>11. Vouched(j, at, now)
    BY <1>6, <1>7, <1>8, <1>9, <1>10 DEF Vouched
  <1>12. j.key \in Keys /\ j.pin \in Addresses
    BY <1>8 DEF PinAddress, Addresses
  <1>13. QED
    BY <1>11, <1>12 DEF j

(* A handshake as it was built is decoded to what it was built from, and   *)
(* its signature is good while it is fresh.                                *)
LEMMA Understood ==
    ASSUME NEW p, NEW at, NEW now, Genuine(p, now)
    PROVE  Judge(p, at, now).verdict \in {"unsigned", "verified"}
  <1>1. CASE \E e \in Ephemerals : p = EncodeHandshake(e, None, None, None, None)
    <2>1. PICK e \in Ephemerals : p = Payload(LegacyLen, Fields(e, None, None, None, None))
      BY <1>1, LegacyForm
    <2>2. DecodeHandshake(p) = Fields(e, None, None, None, None)
      BY <2>1 DEF DecodeHandshake, Payload, Fields
    <2>3. DecodeHandshake(p) # Malformed /\ None \in {DecodeHandshake(p).id}
      BY <2>2 DEF Malformed, Fields
    <2>4. QED
      BY <2>3 DEF Judge
  <1>2. ASSUME NEW k \in Keys, NEW t \in Times \cup {None},
               NEW o \in {AddressOf[k], None}, p = BuildHandshake(k, t, o)
        PROVE  Judge(p, at, now).verdict = "verified"
    <2> DEFINE h == DecodeHandshake(p)
    <2>1. /\ h.id = k /\ h.eph = EphemeralOf[k] /\ h.sig = Sig(k, t, o)
          /\ h.nonce = t /\ (t # None => h.onion = o)
          /\ h # Malformed /\ p.fields.nonce = t
      BY <1>2, FormFacts
    <2> HIDE DEF h
    <2>2. None \notin {h.id, h.sig}
      BY <2>1, SignerFacts
    <2>3. VerifyHandshake(h.id, h.eph, h.sig, h.nonce, h.onion, now)
      <3>1. t # None => Fresh(t, now)
        BY <2>1 DEF Genuine, Fresh
      <3>2. QED
        BY <2>1, <3>1 DEF VerifyHandshake, Sig, SignHandshake, Covered
    <2>4. QED
      BY <2>1, <2>2, <2>3 DEF Judge, h
  <1>3. QED
    BY <1>1, <1>2 DEF Genuine, Built, Signed

-----------------------------------------------------------------------------
LEMMA EveryVerification ==
    ASSUME NEW v \in Verifications
    PROVE  /\ v.verdict = "verified" => v.key \in Keys /\ v.pin \in Addresses
           /\ v.vouched
           /\ v.genuine => v.verdict \in {"unsigned", "verified"}
  <1>1. PICK p \in Built \cup Damaged, at \in Addresses, now \in Times :
            v = Verification(p, at, now)
    BY DEF Verifications
  <1>2. Arrivable(p)
    BY <1>1, BuiltArrivable, DamagedArrivable
  <1>3. /\ v.verdict = Judge(p, at, now).verdict
        /\ v.vouched = (v.verdict = "verified" => Vouched(Judge(p, at, now), at, now))
        /\ v.genuine = Genuine(p, now)
        /\ v.verdict = "verified" => /\ v.key = Judge(p, at, now).key
                                     /\ v.pin = Judge(p, at, now).pin
    BY <1>1 DEF Verification
  <1>4. QED
    BY <1>2, <1>3, Binding, Understood

(* _verify_peer_identity hands ContactStore.check an identity and an       *)
(* address as the store expects them, and between handshakes only restarts *)
(* and the contacts dialog touch it: whatever handshakes arrive,           *)
(* PeerIdentity implements ContactStore.                                   *)
THEOREM HandshakesUseTheStore == PeerSpec => Spec
  <1>1. PeerInit => Init
    BY DEF PeerInit
  <1>2. ASSUME PeerNext PROVE [Next]_vars
    <2>1. ASSUME NEW v \in Verifications, VerifyPeerIdentity(v) PROVE [Next]_vars
      BY <2>1, EveryVerification DEF VerifyPeerIdentity, Next
    <2>2. ASSUME Manage PROVE [Next]_vars
      BY <2>2 DEF Manage, Next
    <2>3. QED
      BY <1>2, <2>1, <2>2 DEF PeerNext
  <1>3. [PeerNext]_peerVars => [Next]_vars
    BY <1>2 DEF peerVars, vars
  <1>4. QED
    BY <1>1, <1>3, PTL DEF PeerSpec, Spec

(* "A contact's identity is pinned on first contact": over any handshakes, *)
(* whole, late, damaged or cut, and any number of restarts, while the file *)
(* could be read and written the keys pinned are those first seen.         *)
THEOREM PinsSurviveHandshakes == PeerSpec => []PinsKept
  BY HandshakesUseTheStore, PinsSurvive, PTL

(* ContactStore keeps a name with the identity it was given to, whichever  *)
(* handshakes bring that identity back under other addresses.              *)
THEOREM NamesSurviveHandshakes == PeerSpec => []NameFollowsIdentity
  BY HandshakesUseTheStore, NamesSurvive, PTL

(* remove(): an identity whose removal was saved stays out of memory and   *)
(* file until a handshake of its own is verified again.                    *)
THEOREM RemovalSurvivesHandshakes == PeerSpec => []ForgottenStaysForgotten
  BY HandshakesUseTheStore, RemovalIsFinal, PTL

(* verify_handshake and what _verify_peer_identity does with it: an        *)
(* identity reaches the store only if its owner signed this ephemeral key, *)
(* recently, and for the address it is pinned under.                       *)
THEOREM OnlyVouchedReachTheStore == PeerSpec => []OnlyVouched
  <1>1. PeerInit => OnlyVouched
    BY DEF PeerInit, Nothing, OnlyVouched
  <1>2. OnlyVouched /\ [PeerNext]_peerVars => OnlyVouched'
    <2>1. ASSUME NEW v \in Verifications, VerifyPeerIdentity(v) PROVE OnlyVouched'
      BY <2>1, EveryVerification DEF VerifyPeerIdentity, Outcome, OnlyVouched
    <2>2. QED
      BY <2>1 DEF PeerNext, Manage, peerVars, OnlyVouched
  <1>3. QED
    BY <1>1, <1>2, PTL DEF PeerSpec

(* encode_handshake, decode_handshake and the signature's coverage fit for *)
(* every version: a handshake that arrives whole and in time is neither    *)
(* malformed nor badly signed.                                             *)
THEOREM EveryVersionIsUnderstood == PeerSpec => []GenuineIsUnderstood
  <1>1. PeerInit => GenuineIsUnderstood
    BY DEF PeerInit, Nothing, GenuineIsUnderstood
  <1>2. GenuineIsUnderstood /\ [PeerNext]_peerVars => GenuineIsUnderstood'
    <2>1. ASSUME NEW v \in Verifications, VerifyPeerIdentity(v)
          PROVE  GenuineIsUnderstood'
      BY <2>1, EveryVerification DEF VerifyPeerIdentity, Outcome, GenuineIsUnderstood
    <2>2. QED
      BY <2>1 DEF PeerNext, Manage, peerVars, GenuineIsUnderstood
  <1>3. QED
    BY <1>1, <1>2, PTL DEF PeerSpec
=============================================================================
