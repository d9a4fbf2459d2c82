-------------------------------- MODULE Crypto --------------------------------
(***************************************************************************)
(* The functions of torcall/core/crypto.py, over ideal primitives: a hash  *)
(* or a key derivation is injective, a signature is the key that made it   *)
(* and what it covers, X25519 gives both sides the same secret.            *)
(*                                                                         *)
(* An ephemeral key pair is a number, its public half in byte order.  An   *)
(* identity key pair is one value for both halves.  A handshake nonce is   *)
(* the time it was made at; its eight random bytes only make it unique.    *)
(***************************************************************************)
EXTENDS Integers, Sequences

CONSTANTS
    None,     \* Python's None
    MaxSkew   \* _HANDSHAKE_MAX_SKEW_S

ASSUME SkewAssumption == MaxSkew \in Nat

(* _ecdh *)
Ecdh(mine, theirs) == {mine, theirs}

(* derive_session_keys: one half of the derived key for each direction. *)
DeriveSessionKeysUndirected(mine, theirs, isCaller) ==
    LET secret == Ecdh(mine, theirs)
    IN [send |-> <<secret, "to callee">>, recv |-> <<secret, "to caller">>]

DeriveSessionKeys(mine, theirs, isCaller) ==
    LET secret == Ecdh(mine, theirs)
        out    == IF isCaller THEN "to callee" ELSE "to caller"
        in     == IF isCaller THEN "to caller" ELSE "to callee"
    IN [send |-> <<secret, out>>, recv |-> <<secret, in>>]

(* compute_sas: the words stand for the two public keys in byte order. *)
ComputeSasUnsorted(a, b) == <<a, b>>

ComputeSas(a, b) == IF a <= b THEN <<a, b>> ELSE <<b, a>>

-----------------------------------------------------------------------------
(* handshake_nonce_is_fresh *)
Fresh(nonce, now) == now - nonce \in (-MaxSkew)..MaxSkew

(* What a handshake signature covers, under the context of its form: v1    *)
(* the ephemeral key, v2 the nonce too, v3 the sender's address as well.   *)
CoveredKeyOnly(eph, nonce, onion) ==
    [eph |-> eph, nonce |-> nonce, onion |-> None]

CoveredAddress(eph, nonce, onion) ==
    [eph |-> eph, nonce |-> nonce, onion |-> onion]

Covered(eph, nonce, onion) ==
    [eph |-> eph, nonce |-> nonce,
     onion |-> IF nonce = None THEN None ELSE onion]

(* sign_handshake *)
SignHandshake(id, eph, nonce, onion) ==
    [by |-> id, over |-> Covered(eph, nonce, onion)]

(* verify_handshake *)
VerifyHandshakeAnyTime(id, eph, sig, nonce, onion, now) ==
    sig = [by |-> id, over |-> Covered(eph, nonce, onion)]

VerifyHandshake(id, eph, sig, nonce, onion, now) ==
    /\ nonce # None => Fresh(nonce, now)
    /\ sig = [by |-> id, over |-> Covered(eph, nonce, onion)]

-----------------------------------------------------------------------------
(* pad_frame: a two-byte length, the frame, zeros up to a whole block;     *)
(* None where the code raises ValueError.                                  *)
Byte     == 0..255
MaxFrame == 65535
Zeros(n) == [i \in 1..n |-> 0]

Prefixed(data) == <<Len(data) \div 256, Len(data) % 256>> \o data

PadFrame(data, block) ==
    LET body == Prefixed(data)
        rest == Len(body) % block
    IN IF Len(data) > MaxFrame THEN None
       ELSE IF rest = 0 THEN body ELSE body \o Zeros(block - rest)

(* unpad_frame *)
UnpadFrame(padded) ==
    IF Len(padded) < 2 THEN None
    ELSE LET n == padded[1] * 256 + padded[2]
         IN IF 2 + n > Len(padded) THEN None ELSE SubSeq(padded, 3, 2 + n)
=============================================================================
