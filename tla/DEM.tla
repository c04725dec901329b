-------------------------------- MODULE DEM ---------------------------------
(***************************************************************************)
(* The data encapsulation of seal/dem.rs. A message is a sequence of bytes *)
(* in the sense of module Utils, each an array at one position; the same   *)
(* for a blob. An optional aad is <<>> (None) or <<aad>> (Some).           *)
(***************************************************************************)
EXTENDS Utils

CONSTANT KEY_SIZE   \* the bytes of a key, a digest and a block: 32 in the code

ASSUME KeySizeAssumption == KEY_SIZE \in Nat \ {0}

unwrap_or_empty(aad) == IF aad = <<>> THEN <<>> ELSE aad[1]

-----------------------------------------------------------------------------
(* Hmac256Ctr *)

hmac(purpose, key, data) == Opaque(<<purpose, key, data>>)

(* Byte j (from 0) of the block hmac("HMAC-CTR-ENC", key, i). *)
PrfByte(key, i, j) == Opaque(<<"HMAC-CTR-ENC", key, i, j>>)

(* The chunks of KEY_SIZE bytes are numbered from 0, and the i-th is xored *)
(* with the i-th block; the last chunk may be shorter and takes the first  *)
(* bytes of its block.                                                     *)
encrypt_in_ctr_mode(key, msg) ==
  [k \in DOMAIN msg |->
     xor(msg[k], PrfByte(key, (k - 1) \div KEY_SIZE, (k - 1) % KEY_SIZE))]

(* Mutant: without the length. *)
compute_mac_unsized(key, aad, ciphertext) ==
  hmac("HMAC-CTR-MAC", key, <<aad \o ciphertext>>)

(* The length of the aad, the aad and the ciphertext, concatenated. *)
compute_mac(key, aad, ciphertext) ==
  hmac("HMAC-CTR-MAC", key, <<Len(aad), aad \o ciphertext>>)

Hmac256CtrEncrypt(msg, aad, key) ==
  LET ciphertext == encrypt_in_ctr_mode(key, msg)
  IN  [blob |-> ciphertext, mac |-> compute_mac(key, aad, ciphertext)]

(* Mutant: the MAC is not checked. *)
Hmac256CtrDecrypt_unchecked(ciphertext, mac, aad, key) ==
  Ok(encrypt_in_ctr_mode(key, ciphertext))

Hmac256CtrDecrypt(ciphertext, mac, aad, key) ==
  IF mac # compute_mac(key, aad, ciphertext)
  THEN Err("Invalid MAC")
  ELSE Ok(encrypt_in_ctr_mode(key, ciphertext))

-----------------------------------------------------------------------------
(* Aes256Gcm: the cipher of the fastcrypto crate with the fixed IV, as     *)
(* authenticated encryption: a key stream and a tag over aad and           *)
(* ciphertext, appended to the ciphertext.                                 *)

GcmTag(key, aad, ciphertext) == Opaque(<<"GCM-TAG", key, aad, ciphertext>>)

GcmStream(key, text) == [k \in DOMAIN text |-> xor(text[k], Opaque(<<"GCM", key, k>>))]

Aes256GcmEncrypt(msg, aad, key) ==
  LET ciphertext == GcmStream(key, msg)
  IN  Append(ciphertext, GcmTag(key, aad, ciphertext))

Aes256GcmDecrypt(blob, aad, key) ==
  IF blob = <<>> \/ Last(blob) # GcmTag(key, aad, Front(blob))
  THEN Err("InvalidInput")
  ELSE Ok(GcmStream(key, Front(blob)))

-----------------------------------------------------------------------------
(* EncryptionInput::encrypt and Ciphertext::decrypt. Plain has no data; a  *)
(* mac is there for Hmac256Ctr only.                                       *)

DemEncrypt(input, key) ==
  LET aad == unwrap_or_empty(input.aad)
      sealed == Hmac256CtrEncrypt(input.data, aad, key)
  IN  CASE input.mode = "Aes256Gcm" ->
             [mode |-> "Aes256Gcm", blob |-> Aes256GcmEncrypt(input.data, aad, key),
              aad |-> input.aad, mac |-> {}]
        [] input.mode = "Hmac256Ctr" ->
             [mode |-> "Hmac256Ctr", blob |-> sealed.blob,
              aad |-> input.aad, mac |-> sealed.mac]
        [] OTHER -> [mode |-> "Plain", blob |-> <<>>, aad |-> <<>>, mac |-> {}]

DemDecrypt(ciphertext, key) ==
  LET aad == unwrap_or_empty(ciphertext.aad)
  IN  CASE ciphertext.mode = "Aes256Gcm" -> Aes256GcmDecrypt(ciphertext.blob, aad, key)
        [] ciphertext.mode = "Hmac256Ctr" ->
             Hmac256CtrDecrypt(ciphertext.blob, ciphertext.mac, aad, key)
        [] OTHER -> Ok(<<key>>)
=============================================================================
