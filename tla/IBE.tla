-------------------------------- MODULE IBE ---------------------------------
(***************************************************************************)
(* The Boneh-Franklin identity based encryption of seal/ibe.rs.            *)
(*                                                                         *)
(* A group element is modelled by its discrete logarithm to the generator  *)
(* of its group, an integer: adding elements adds, multiplying an element  *)
(* by a scalar multiplies, and the pairing multiplies the logarithms of    *)
(* its arguments, which is what bilinear means. The order of the groups is *)
(* a 255 bit prime; products of the small logarithms used here never wrap  *)
(* around it.                                                              *)
(***************************************************************************)
EXTENDS Utils

CONSTANTS
  Scalar,   \* the scalars that are drawn as encryption randomness
  FullId,   \* the identities: package id and inner id
  H1        \* hash_to_g1: the logarithm of the point an identity hashes to

ASSUME ScalarAssumption == Scalar \subseteq Nat \ {0}

(* No two identities are known that hash to the same point.                *)
ASSUME H1Assumption ==
  /\ H1 \in [FullId -> Nat \ {0}]
  /\ \A a, b \in FullId : H1[a] = H1[b] => a = b

Generator == 1

Pairing(p, q) == p * q

hash_to_g1(id) == H1[id]

public_key_from_master_key(master_key) == Generator * master_key

extract(master_key, id) == hash_to_g1(id) * master_key

(* Mutant: any element that is not zero passes. *)
verify_user_secret_key_nonzero(user_secret_key, id, public_key) ==
  Pairing(user_secret_key, Generator) # 0

verify_user_secret_key(user_secret_key, id, public_key) ==
  Pairing(user_secret_key, Generator) = Pairing(hash_to_g1(id), public_key)

into_key_pair(master_key) ==
  [master_key |-> master_key, public_key |-> public_key_from_master_key(master_key)]

(* Mutant: an element of the encryption may be zero. *)
verify_encrypted_signature_zero(encrypted_sig, ephemeral_vk, partial_pk, id) ==
  Pairing(encrypted_sig[2], Generator) =
    Pairing(encrypted_sig[1], ephemeral_vk) + Pairing(hash_to_g1(id), partial_pk)

(* An ElGamal encryption <<c1, c2>> of a user secret key is checked without *)
(* decrypting it.                                                           *)
verify_encrypted_signature(encrypted_sig, ephemeral_vk, partial_pk, id) ==
  /\ 0 \notin {encrypted_sig[1], encrypted_sig[2], ephemeral_vk, partial_pk}
  /\ Pairing(encrypted_sig[2], Generator) =
       Pairing(encrypted_sig[1], ephemeral_vk) + Pairing(hash_to_g1(id), partial_pk)

(* Mutant: the identity is not hashed. *)
kdf_any_identity(input, nonce, gid, info) == Opaque(<<"H2", input, nonce, info[1], info[2]>>)

(* SHA3 of its arguments under the tag H2. info is the object id of the    *)
(* key server and the index of its share.                                  *)
kdf(input, nonce, gid, info) == Opaque(<<"H2", input, nonce, gid, info[1], info[2]>>)

-----------------------------------------------------------------------------

encrypt_batched_deterministic(randomness, plaintexts, public_keys, id, infos) ==
  LET gid == hash_to_g1(id)
      gid_r == gid * randomness
      nonce == Generator * randomness
  IN  IF Len(plaintexts) # Len(public_keys) \/ Len(plaintexts) # Len(infos)
      THEN Err("InvalidInput")
      ELSE Ok([nonce |-> nonce,
               ciphertexts |->
                 [k \in DOMAIN plaintexts |->
                    xor(kdf(Pairing(gid_r, public_keys[k]), nonce, gid, infos[k]),
                        plaintexts[k])]])

(* Mutant: the index of the share is counted from 0. *)
decrypt_from_zero(nonce, ciphertext, secret_key, id, info) ==
  xor(ciphertext, kdf(Pairing(secret_key, nonce), nonce, hash_to_g1(id),
                      <<info[1], info[2] - 1>>))

decrypt(nonce, ciphertext, secret_key, id, info) ==
  xor(ciphertext, kdf(Pairing(secret_key, nonce), nonce, hash_to_g1(id), info))

decrypt_deterministic(randomness, ciphertext, public_key, id, info) ==
  LET gid == hash_to_g1(id)
      nonce == Generator * randomness
  IN  xor(ciphertext, kdf(Pairing(gid * randomness, public_key), nonce, gid, info))

verify_nonce(randomness, nonce) == Generator * randomness = nonce

-----------------------------------------------------------------------------

to_byte_array(scalar) == Opaque(<<"scalar", scalar>>)

(* Bytes that are no scalar's encoding are out of range in the code, or    *)
(* are a scalar that no call has drawn: verify_nonce, which every caller   *)
(* applies next, refuses that one. Both are an error here.                 *)
from_byte_array(bytes) ==
  IF \E s \in Scalar : bytes = to_byte_array(s)
  THEN Ok(CHOOSE s \in Scalar : bytes = to_byte_array(s))
  ELSE Err("InvalidInput")

encrypt_randomness(randomness, key) == xor(key, to_byte_array(randomness))

decrypt_randomness(encrypted_randomness, derived_key) ==
  from_byte_array(xor(derived_key, encrypted_randomness))
=============================================================================
