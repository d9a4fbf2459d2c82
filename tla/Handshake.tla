------------------------------ MODULE Handshake ------------------------------
(***************************************************************************)
(* The payload of CALL_REQUEST and CALL_ACCEPT (encode_handshake and       *)
(* decode_handshake in torcall/network/protocol.py).  Four forms are told  *)
(* apart by length alone: 32 bytes (legacy), 128 (v1), 144 (v2), and 146   *)
(* plus the length of an address (v3).  A payload is its length and the    *)
(* fields found at the fixed offsets; None is a field that is not there.   *)
(***************************************************************************)
EXTENDS Crypto

CONSTANT OnionLen   \* bytes of an advertised address

ASSUME OnionLenAssumption == OnionLen \in Nat /\ OnionLen < 65536

LegacyLen == 32    \* _X25519_LEN
FullLen   == 128   \* _HANDSHAKE_FULL_LEN
V2Len     == 144   \* _HANDSHAKE_V2_LEN
V3MinLen  == 146   \* _HANDSHAKE_V3_MIN_LEN

Fields(eph, id, sig, nonce, onion) ==
    [eph |-> eph, id |-> id, sig |-> sig, nonce |-> nonce, onion |-> onion]

Payload(len, fields) == [len |-> len, fields |-> fields]

(* encode_handshake *)
EncodeHandshake(eph, id, sig, nonce, onion) ==
    IF None \in {id, sig}
    THEN Payload(LegacyLen, Fields(eph, None, None, None, None))
    ELSE IF nonce = None
    THEN Payload(FullLen, Fields(eph, id, sig, None, None))
    ELSE IF onion = None
    THEN Payload(V2Len, Fields(eph, id, sig, nonce, None))
    ELSE Payload(V3MinLen + OnionLen, Fields(eph, id, sig, nonce, onion))

Malformed == [malformed |-> TRUE]

(* decode_handshake; Malformed where it raises ValueError.  The form       *)
(* decides which fields are looked at; a v3 payload shorter than its own   *)
(* length field says is malformed.                                         *)
DecodeHandshake(p) ==
    LET f == p.fields IN
    CASE p.len = LegacyLen -> Fields(f.eph, None, None, None, None)
      [] p.len = FullLen   -> Fields(f.eph, f.id, f.sig, None, None)
      [] p.len = V2Len     -> Fields(f.eph, f.id, f.sig, f.nonce, None)
      [] p.len >= V3MinLen + OnionLen -> f
      [] OTHER             -> Malformed
=============================================================================
