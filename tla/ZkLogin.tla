------------------------------ MODULE ZkLogin -------------------------------
(***************************************************************************)
(* The zkLogin functions of lib.rs: the nonce of an ephemeral key, the     *)
(* claims of an OpenID token, the address seed, the address and the        *)
(* signature. They keep no state.                                          *)
(*                                                                         *)
(* Hashes are symbols that hold what they hash. The issuer and the seed    *)
(* are sequences of bytes 0..U8Max, as their concatenation is hashed;      *)
(* other strings are what they are compared as.                            *)
(***************************************************************************)
EXTENDS Utils

CONSTANTS
  U8Max,       \* the largest u8: 255 in the code
  SeedLength,  \* the bytes of an address seed: 32 in the code
  MaxHeader,   \* the longest header of a token: 248 in the code
  MaxSigned,   \* the longest header and payload with the dot: 1600 in the code
  MaxAud,      \* the longest audience: 145 in the code
  FieldNumbers, \* the strings that fastcrypto reads as a number of its field
  AddressSeed  \* fastcrypto's gen_address_seed: the number that a salt, a
               \* claim and an audience hash to

ASSUME U8MaxAssumption == U8Max \in Nat \ {0}

(* A seed is not longer than a u8 can say. *)
ASSUME SeedLengthAssumption == SeedLength \in 1..U8Max

ASSUME LimitsAssumption == {MaxHeader, MaxSigned, MaxAud} \subseteq Nat

U8 == 0..U8Max

AsU8(n) == n % (U8Max + 1)

-----------------------------------------------------------------------------

Ed25519Flag == 0
Secp256r1Flag == 2

(* Mutant: the flag of the other kind of key. *)
build_nonce_key_secp256r1(epk_bytes) == <<Secp256r1Flag>> \o epk_bytes

build_nonce_key(epk_bytes) == <<Ed25519Flag>> \o epk_bytes

(* fastcrypto's Poseidon hash of an extended key, an epoch and randomness, *)
(* which must be a number.                                                 *)
get_nonce(extended_key, max_epoch, randomness) ==
  IF randomness \in FieldNumbers
  THEN Ok(<<"nonce", extended_key, max_epoch, randomness>>)
  ELSE Err("FastCryptoError")

NonceError(nonce) == IF nonce.ok THEN nonce ELSE Err("ValueError")

(* Mutant: the nonce is of the epoch and the randomness only. *)
compute_nonce_without_key(epk_bytes, max_epoch, randomness) ==
  NonceError(get_nonce(build_nonce_key(<<>>), max_epoch, randomness))

compute_nonce(epk_bytes, max_epoch, randomness) ==
  NonceError(get_nonce(build_nonce_key(epk_bytes), max_epoch, randomness))

-----------------------------------------------------------------------------
(* A token: the number of its parts, the lengths of the encoded header and *)
(* payload, whether the payload decodes, and its claims. A claim is <<>>   *)
(* if it is missing or no string, and <<value>> otherwise; aud has a kind  *)
(* and the values of a string (one) or of an array.                        *)

(* Mutant: of several audiences, the last one is taken. *)
extract_jwt_claims_last_aud(jwt) ==
  IF jwt.parts # 3 \/ jwt.nonce = <<>> \/ jwt.aud.values = <<>> THEN Err("ValueError")
  ELSE Ok([iss |-> jwt.iss[1], sub |-> jwt.sub[1],
           aud |-> Last(jwt.aud.values)[1], nonce |-> jwt.nonce[1]])

extract_jwt_claims(jwt) ==
  LET aud == IF jwt.aud.kind \in {"string", "array"} /\ jwt.aud.values # <<>>
             THEN jwt.aud.values[1]
             ELSE <<>>
  IN  IF \/ jwt.parts # 3
         \/ jwt.header > MaxHeader
         \/ jwt.header + 1 + jwt.payload > MaxSigned
         \/ ~jwt.decodes
         \/ jwt.iss = <<>> \/ Len(jwt.iss[1]) > U8Max
         \/ jwt.sub = <<>>
         \/ aud = <<>>
         \/ jwt.nonce = <<>>
         \/ Len(aud[1]) > MaxAud
      THEN Err("ValueError")
      ELSE Ok([iss |-> jwt.iss[1], sub |-> jwt.sub[1],
               aud |-> aud[1], nonce |-> jwt.nonce[1]])

-----------------------------------------------------------------------------

(* What is left of a number after 0, 1, 2, ... bytes are divided off. *)
Quotients(n) ==
  LET quotient[k \in 0..SeedLength] ==
        IF k = 0 THEN n ELSE quotient[k - 1] \div (U8Max + 1)
  IN  quotient

(* BigUint::to_bytes_be: as few bytes as the number needs, at least one. *)
to_bytes_be(n) ==
  LET length == CHOOSE k \in 1..SeedLength :
                  /\ Quotients(n)[k] = 0
                  /\ \A j \in 1..(k - 1) : Quotients(n)[j] # 0
  IN  [i \in 1..length |-> Quotients(n)[length - i] % (U8Max + 1)]

(* The numbers are of a field whose elements fit in SeedLength bytes. No   *)
(* two claims are known that hash to the same number.                      *)
ASSUME AddressSeedAssumption ==
  /\ \A claim \in DOMAIN AddressSeed :
       AddressSeed[claim] \in Nat /\ Quotients(AddressSeed[claim])[SeedLength] = 0
  /\ \A a, b \in DOMAIN AddressSeed : AddressSeed[a] = AddressSeed[b] => a = b

from_bytes_be(bytes) == FoldLeft(LAMBDA n, b : n * (U8Max + 1) + b, 0, bytes)

Zeros(n) == [i \in 1..n |-> 0]

(* Mutant: the padding goes to the end. *)
compute_address_seed_padded_right(key_claim_name, key_claim_value, audience, user_salt) ==
  LET seed_bytes ==
        to_bytes_be(AddressSeed[user_salt, key_claim_name, key_claim_value, audience])
  IN  Ok(seed_bytes \o Zeros(SeedLength - Len(seed_bytes)))

compute_address_seed(key_claim_name, key_claim_value, audience, user_salt) ==
  LET claim == <<user_salt, key_claim_name, key_claim_value, audience>>
      seed_bytes == to_bytes_be(AddressSeed[claim])
  IN  IF claim \notin DOMAIN AddressSeed THEN Err("ValueError")
      ELSE Ok(Zeros(SeedLength - Len(seed_bytes)) \o seed_bytes)

(* The position of the first byte that is not zero, or the last position. *)
FirstKept(seed) ==
  CHOOSE i \in DOMAIN seed :
    /\ \A j \in 1..(i - 1) : seed[j] = 0
    /\ seed[i] # 0 \/ i = Len(seed)

(* Mutant: zeros are stripped wherever they are. *)
strip_seed_leading_zeros_everywhere(seed) == SelectSeq(seed, LAMBDA b : b # 0)

strip_seed_leading_zeros(seed) == SubSeq(seed, FirstKept(seed), Len(seed))

(* Mutant: the length of the issuer is not hashed. *)
hash_zklogin_address_unsized(iss, seed_bytes) == <<"address", iss \o seed_bytes>>

(* Blake2b of the flag of zkLogin, the length of the issuer as u8, the     *)
(* issuer and the seed.                                                    *)
hash_zklogin_address(iss, seed_bytes) ==
  <<"address", <<5, AsU8(Len(iss))>> \o iss \o seed_bytes>>

compute_zklogin_address(iss, address_seed, legacy) ==
  IF Len(address_seed) # SeedLength THEN Err("ValueError")
  ELSE Ok(hash_zklogin_address(iss, IF legacy THEN address_seed
                                    ELSE strip_seed_leading_zeros(address_seed)))

(* fastcrypto's reading of the JSON of a proof, which may be no JSON of    *)
(* one; the number of the seed is put with what the proof says.            *)
ZkLoginInputs(proof_json, address_seed) ==
  IF proof_json.parses
  THEN Ok([proof |-> proof_json.proof, address_seed |-> address_seed])
  ELSE Err("FastCryptoError")

(* The parts of a ZkLoginAuthenticator. *)
build_zklogin_signature(proof_json, ephemeral_sig, address_seed, max_epoch) ==
  LET inputs == ZkLoginInputs(proof_json, from_bytes_be(address_seed))
  IN  IF inputs.ok
      THEN Ok([inputs |-> inputs.val, max_epoch |-> max_epoch, ephemeral_sig |-> ephemeral_sig])
      ELSE Err("ValueError")
=============================================================================
