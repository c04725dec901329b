-------------------------------- MODULE Core --------------------------------
(***************************************************************************)
(* Threshold encryption and decryption of seal/core.rs, composed of the    *)
(* secret sharing (TSS), the identity based encryption (IBE) and the data  *)
(* encapsulation (DEM).                                                    *)
(*                                                                         *)
(* seed names what one call of seal_encrypt draws from the random number   *)
(* generator: the base key, the coefficients of the sharing and the        *)
(* encryption randomness, which is the scalar seed itself.                 *)
(***************************************************************************)
EXTENDS TSS, IBE, DEM

CONSTANT U8Max   \* the largest u8: 255 in the code

ASSUME U8MaxAssumption == U8Max \in 1..255

(* Mutant: off by one, the largest u8 wraps around. *)
AsU8_off_by_one(n) == n % U8Max

AsU8(n) == n % (U8Max + 1)

create_full_id(package_id, id) == <<package_id, id>>

(* Mutants: the threshold, or the purpose, is not hashed. *)
derive_key_any_threshold(purpose, base_key, encrypted_shares, threshold, key_servers) ==
  Opaque(<<"H3", base_key, purpose, encrypted_shares, key_servers>>)

derive_key_any_purpose(purpose, base_key, encrypted_shares, threshold, key_servers) ==
  Opaque(<<"H3", base_key, threshold, encrypted_shares, key_servers>>)

(* The hash of the two lists is over fixed size items, and the lists have  *)
(* the same length.                                                        *)
derive_key(purpose, base_key, encrypted_shares, threshold, key_servers) ==
  Opaque(<<"H3", base_key, purpose, threshold, encrypted_shares, key_servers>>)

ServerIds(services) == [k \in DOMAIN services |-> services[k][1]]

-----------------------------------------------------------------------------

BaseKey(seed) == Opaque(<<"base_key", seed>>)

Coefficients(seed, n) == [j \in 1..n |-> Opaque(<<"coefficient", seed, j>>)]

(* The part of seal_encrypt that follows the encryption of the shares:     *)
(* bind the randomness and the payload to the base key, the shares, the    *)
(* threshold and the servers. A request is the arguments of the call.      *)
Assemble(seed, request, services, nonce, encrypted_shares) ==
  LET key(purpose) == derive_key(purpose, BaseKey(seed), encrypted_shares,
                                 request.threshold, request.key_servers)
  IN  [version |-> 0,
       package_id |-> request.package_id,
       id |-> request.id,
       services |-> services,
       threshold |-> request.threshold,
       nonce |-> nonce,
       encrypted_shares |-> encrypted_shares,
       encrypted_randomness |-> encrypt_randomness(seed, key("EncryptedRandomness")),
       ciphertext |-> DemEncrypt(request.input, key("DEM"))]

(* The sharing of a fresh base key and its batch encryption, what          *)
(* seal_encrypt does before it assembles the object.                       *)
SharesOf(seed, request, number_of_shares) ==
  LET full_id == create_full_id(request.package_id, request.id)
      services(indices) == [k \in DOMAIN indices |-> <<request.key_servers[k], indices[k]>>]
      shared == split(BaseKey(seed), Coefficients(seed, request.threshold - 1),
                      request.threshold, number_of_shares)
  IN  AndThen(shared, LAMBDA sharing :
        IF Len(request.public_keys) # number_of_shares THEN Err("InvalidInput")
        ELSE AndThen(
               encrypt_batched_deterministic(seed, sharing.shares, request.public_keys,
                                             full_id, services(sharing.indices)),
               LAMBDA batch : Ok([services |-> services(sharing.indices),
                                  nonce |-> batch.nonce,
                                  encrypted_shares |-> batch.ciphertexts])))

seal_encrypt(seed, request) ==
  LET number_of_shares == AsU8(Len(request.key_servers))
  IN  IF request.threshold > number_of_shares \/ request.threshold = 0
      THEN Err("InvalidInput")
      ELSE AndThen(SharesOf(seed, request, number_of_shares), LAMBDA shares :
             Ok(Assemble(seed, request, shares.services, shares.nonce,
                         shares.encrypted_shares)))

-----------------------------------------------------------------------------

(* The randomness that a base key recovers, checked against the nonce: the *)
(* first half of decrypt_all_shares_and_verify_nonce, and what             *)
(* combine_and_verify_nonce does with the base key it combines.            *)
VerifiedRandomness(eo, base_key) ==
  LET key == derive_key("EncryptedRandomness", base_key, eo.encrypted_shares,
                        eo.threshold, ServerIds(eo.services))
  IN  AndThen(decrypt_randomness(eo.encrypted_randomness, key), LAMBDA randomness :
        IF verify_nonce(randomness, eo.nonce) THEN Ok(randomness)
        ELSE Err("Invalid randomness"))

(* Mutant: the base key is not checked against the nonce. *)
combine_without_nonce(eo, shares) == combine(shares)

combine_and_verify_nonce(eo, shares) ==
  AndThen(combine(shares), LAMBDA base_key :
    AndThen(VerifiedRandomness(eo, base_key), LAMBDA randomness : Ok(base_key)))

(* All shares of the object, decrypted with the encryption randomness. The *)
(* zips stop at the shortest list.                                         *)
decrypt_all_shares_and_verify_nonce(eo, full_id, public_keys, base_key) ==
  LET zipped == {k \in DOMAIN public_keys :
                   k \in DOMAIN eo.encrypted_shares /\ k \in DOMAIN eo.services}
      share(randomness, k) ==
        <<eo.services[k][2],
          decrypt_deterministic(randomness, eo.encrypted_shares[k], public_keys[k],
                                full_id, eo.services[k])>>
  IN  AndThen(VerifiedRandomness(eo, base_key), LAMBDA randomness :
        IF Len(public_keys) # Len(eo.encrypted_shares) THEN Err("InvalidInput")
        ELSE Ok({share(randomness, k) : k \in zipped}))

(* Mutant: the other shares are not looked at. *)
combine_without_consistency(eo, shares, full_id, public_keys) ==
  combine_and_verify_nonce(eo, shares)

combine_and_check_share_consistency(eo, shares, full_id, public_keys) ==
  AndThen(tss_interpolate(shares), LAMBDA polynomial :
    AndThen(
      decrypt_all_shares_and_verify_nonce(eo, full_id, public_keys, EvaluateAt(polynomial, 0)),
      LAMBDA all_shares :
        IF \E s \in all_shares : EvaluateAt(polynomial, s[1]) # s[2]
        THEN Err("Inconsistent shares")
        ELSE Ok(EvaluateAt(polynomial, 0))))

(* The places of an object whose server there is a key for.                *)
HeldPlaces(eo, user_secret_keys) ==
  {k \in DOMAIN eo.services : eo.services[k][1] \in DOMAIN user_secret_keys}

(* Mutant: one place less is enough. *)
HoldsEnough_off_by_one(eo, user_secret_keys) ==
  Cardinality(HeldPlaces(eo, user_secret_keys)) + 1 >= eo.threshold

HoldsEnough(eo, user_secret_keys) ==
  Cardinality(HeldPlaces(eo, user_secret_keys)) >= eo.threshold

(* A set of places as a sequence. *)
InOrder(places) ==
  CHOOSE s \in [1..Cardinality(places) -> places] :
    \A i, j \in DOMAIN s : i < j => s[i] < s[j]

(* user_secret_keys maps the object ids of key servers to keys;            *)
(* public_keys is <<>> (None) or <<list>> (Some).                          *)
seal_decrypt(eo, user_secret_keys, public_keys) ==
  LET full_id == create_full_id(eo.package_id, eo.id)
      positions == InOrder(HeldPlaces(eo, user_secret_keys))
      share(k) ==
        LET service == eo.services[k]
        IN  <<service[2], decrypt(eo.nonce, eo.encrypted_shares[k],
                                  user_secret_keys[service[1]], full_id, service)>>
      shares == [j \in DOMAIN positions |-> share(positions[j])]
      combined == IF public_keys = <<>>
                  THEN combine_and_verify_nonce(eo, shares)
                  ELSE combine_and_check_share_consistency(eo, shares, full_id, public_keys[1])
      dem_key(base_key) == derive_key("DEM", base_key, eo.encrypted_shares,
                                      eo.threshold, ServerIds(eo.services))
  IN  IF eo.version # 0 THEN Err("InvalidInput")
      ELSE IF Len(eo.encrypted_shares) # Len(eo.services) THEN Err("InvalidInput")
      ELSE IF ~HoldsEnough(eo, user_secret_keys) THEN Err("InvalidInput")
      ELSE AndThen(combined, LAMBDA base_key : DemDecrypt(eo.ciphertext, dem_key(base_key)))
=============================================================================
