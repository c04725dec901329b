-------------------------------- MODULE Seal --------------------------------
(***************************************************************************)
(* SEAL as a Python caller uses it (seal/bindings.rs over seal/core.rs):   *)
(* encryptors seal messages, the objects are stored and may be damaged     *)
(* there, and decryptors open them with the user secret keys they hold.    *)
(*                                                                         *)
(* The library keeps no state between calls. The state is what its callers *)
(* keep: the objects, and a record of the calls with their outcomes, which *)
(* the properties speak of.                                                *)
(***************************************************************************)
EXTENDS Core

CONSTANTS
  MasterKey,        \* the master key of every key server
  Text,             \* the bytes that messages and aads consist of
  Requests,         \* the arguments of the seal_encrypt calls
  Holdings,         \* user_secret_keys: lists of pairs <<object id, key>>
  PublicKeyLists,   \* public_keys: <<>> (None) or <<list>> (Some)
  MaxEncryptions,   \* bound: calls of seal_encrypt
  MaxDamages,       \* bound: damages to stored objects
  MaxDecryptions    \* bound: different calls of seal_decrypt

ASSUME MasterKeyAssumption == \A s \in DOMAIN MasterKey : MasterKey[s] \in Nat \ {0}

(* A message is there before it is encrypted: no byte of it is made from   *)
(* an authentication tag of the cipher.                                    *)
ASSUME TextAssumption ==
  \A t \in Text : \A bit \in t : bit[1][1] # "GCM-TAG"

(* An aad is <<>> (None) or <<aad>> (Some); a Plain request has no data.   *)
ASSUME RequestAssumption ==
  \A request \in Requests :
    /\ request.key_servers \in Seq(DOMAIN MasterKey)
    /\ request.public_keys \in Seq(Nat)
    /\ request.threshold \in Nat
    /\ request.input.mode \in {"Aes256Gcm", "Hmac256Ctr", "Plain"}
    /\ request.input.data \in Seq(Text)
    /\ \/ request.input.aad = <<>>
       \/ Len(request.input.aad) = 1 /\ request.input.aad[1] \in Seq(Text)

(* The identities that an object may name after damages.                   *)
ASSUME IdentityAssumption ==
  \A request \in Requests :
    {request.package_id, "other package"} \X {request.id, "other id"} \subseteq FullId

ASSUME HoldingsAssumption ==
  \A usks \in Holdings : usks \in Seq((DOMAIN MasterKey) \X Nat)

ASSUME PublicKeyListsAssumption ==
  \A list \in PublicKeyLists :
    \/ list = <<>>
    \/ list = <<list[1]>> /\ list[1] \in Seq(Nat)

ASSUME BoundsAssumption ==
  MaxEncryptions \in Nat /\ MaxDamages \in Nat /\ MaxDecryptions \in Nat
ASSUME DrawsAssumption == 1..MaxEncryptions \subseteq Scalar

VARIABLES
  sealed,    \* the calls of seal_encrypt; the n-th draws the n-th seed
  objects,   \* the stored objects, each with the seed that it was sealed with
  damages,   \* the number of damages so far
  opened     \* the calls of seal_decrypt and their results

vars == <<sealed, objects, damages, opened>>

-----------------------------------------------------------------------------
(* The Python functions. *)

(* Mutant: the number of servers is not checked. *)
py_seal_encrypt_unchecked(seed, request) ==
  AndThen(seal_encrypt(seed, request), LAMBDA eo : Ok([eo |-> eo, exposed_key |-> <<>>]))

(* The key is handed out in Plain mode only. *)
py_seal_encrypt(seed, request) ==
  LET dem_key(eo) == derive_key("DEM", BaseKey(seed), eo.encrypted_shares,
                                request.threshold, request.key_servers)
      exposed_key(eo) == IF request.input.mode = "Plain" THEN <<dem_key(eo)>> ELSE <<>>
  IN  IF Len(request.key_servers) > U8Max THEN Err("ValueError")
      ELSE AndThen(seal_encrypt(seed, request), LAMBDA eo :
             Ok([eo |-> eo, exposed_key |-> exposed_key(eo)]))

(* Mutant: the first pair of a key wins. *)
HashMap_first_wins(pairs) ==
  [s \in {pairs[k][1] : k \in DOMAIN pairs} |->
     pairs[Min({k \in DOMAIN pairs : pairs[k][1] = s})][2]]

(* HashMap from an iterator of pairs: the last pair of a key wins. *)
HashMap(pairs) ==
  [s \in {pairs[k][1] : k \in DOMAIN pairs} |->
     pairs[Max({k \in DOMAIN pairs : pairs[k][1] = s})][2]]

py_seal_decrypt(eo, user_secret_keys, public_keys) ==
  seal_decrypt(eo, HashMap(user_secret_keys), public_keys)

(* The tests' seal_encrypt_and_modify_first_share: an encryptor whose      *)
(* first encrypted share is damaged, in an object that is otherwise well   *)
(* formed.                                                                 *)
ModifyFirst(encrypted_shares) ==
  [encrypted_shares EXCEPT ![1] = xor(@, Opaque(<<"modified">>))]

encrypt_and_modify_first_share(seed, request) ==
  AndThen(SharesOf(seed, request, AsU8(Len(request.key_servers))), LAMBDA shares :
    Ok([eo |-> Assemble(seed, request, shares.services, shares.nonce,
                        ModifyFirst(shares.encrypted_shares)),
        exposed_key |-> <<>>]))

(* An encryptor that shares the base key for threshold t, which is not the *)
(* threshold that it writes into the object and derives the keys from.     *)
encrypt_shared_for(t, seed, request) ==
  AndThen(SharesOf(seed, [request EXCEPT !.threshold = t], AsU8(Len(request.key_servers))),
          LAMBDA shares :
            Ok([eo |-> Assemble(seed, request, shares.services, shares.nonce,
                                shares.encrypted_shares),
                exposed_key |-> <<>>]))

-----------------------------------------------------------------------------
(* What becomes of an object outside the library: one of its fields is     *)
(* damaged, such that it still parses, by someone who has no key.          *)

Noise == Opaque(<<"noise">>)

(* The first byte of the ciphertext goes over to the aad: what is there    *)
(* stays the same if the two are read as one.                              *)
MoveByteToAad(c) ==
  [c EXCEPT !.aad = <<Append(unwrap_or_empty(@), c.blob[1])>>, !.blob = Tail(@)]

Variant(mode, blob, aad, mac) == [mode |-> mode, blob |-> blob, aad |-> aad, mac |-> mac]

(* Another variant of the enum, with the blob and the aad that are there   *)
(* or with others.                                                         *)
OtherVariants(c) ==
  {Variant("Plain", <<>>, <<>>, {})}
  \cup {Variant("Aes256Gcm", blob, c.aad, {}) : blob \in {c.blob, <<Noise>>}}
  \cup {Variant("Hmac256Ctr", blob, c.aad, Noise) : blob \in {c.blob, <<Noise>>}}

(* The same variant with one of its parts altered. *)
DamagedParts(c) ==
  {[c EXCEPT !.aad = aad] :
     aad \in {<<>>, <<<<>>>>, <<Append(unwrap_or_empty(c.aad), Noise)>>}}
  \cup {[c EXCEPT !.blob = Append(@, Noise)]}
  \cup (IF c.mode = "Hmac256Ctr" THEN {[c EXCEPT !.mac = xor(@, Noise)]} ELSE {})
  \cup (IF c.mode = "Hmac256Ctr" /\ c.blob # <<>> THEN {MoveByteToAad(c)} ELSE {})
  \cup (IF c.blob = <<>> THEN {}
        ELSE {[c EXCEPT !.blob[1] = xor(@, Noise)], [c EXCEPT !.blob = Front(@)]})

DamagedCiphertexts(c) ==
  OtherVariants(c) \cup (IF c.mode = "Plain" THEN {} ELSE DamagedParts(c))

DamagedServices(services) ==
  {SubSeq(services, 2, Len(services)), Reverse(services)}
  \cup {[services EXCEPT ![k][2] = i] : k \in DOMAIN services, i \in {0, 1, U8Max}}

DamagedShares(shares) ==
  {Front(shares), Reverse(shares)}
  \cup {[shares EXCEPT ![k] = xor(@, Noise)] : k \in DOMAIN shares}

DamagedObjects(eo) ==
  {[eo EXCEPT !.version = 1],
   [eo EXCEPT !.package_id = "other package"],
   [eo EXCEPT !.id = "other id"],
   [eo EXCEPT !.nonce = @ + 1],
   [eo EXCEPT !.encrypted_randomness = xor(@, Noise)]}
  \cup {[eo EXCEPT !.threshold = t] :
          t \in {0, eo.threshold - 1, eo.threshold + 1} \cap (0..U8Max)}
  \cup {[eo EXCEPT !.services = s] : s \in DamagedServices(eo.services)}
  \cup {[eo EXCEPT !.encrypted_shares = s] : s \in DamagedShares(eo.encrypted_shares)}
  \cup {[eo EXCEPT !.ciphertext = c] : c \in DamagedCiphertexts(eo.ciphertext)}

-----------------------------------------------------------------------------

Init == sealed = <<>> /\ objects = {} /\ damages = 0 /\ opened = {}

NextSeed == Len(sealed) + 1

Record(request, result, honest) ==
  /\ sealed' = Append(sealed, [request |-> request, result |-> result, honest |-> honest])
  /\ objects' = objects \cup (IF result.ok THEN {[eo |-> result.val.eo, seed |-> NextSeed]} ELSE {})
  /\ UNCHANGED <<damages, opened>>

Encrypt(request) ==
  /\ NextSeed <= MaxEncryptions
  /\ Record(request, py_seal_encrypt(NextSeed, request), TRUE)

EncryptModifiedShare(request) ==
  /\ NextSeed <= MaxEncryptions
  /\ Record(request, encrypt_and_modify_first_share(NextSeed, request), FALSE)

EncryptSharedForOther(request) ==
  /\ NextSeed <= MaxEncryptions
  /\ \E t \in {request.threshold - 1, request.threshold + 1} \cap Nat :
       Record(request, encrypt_shared_for(t, NextSeed, request), FALSE)

Damage(object) ==
  /\ damages < MaxDamages
  /\ damages' = damages + 1
  /\ \E eo \in DamagedObjects(object.eo) \ {object.eo} :
       objects' = (objects \ {object}) \cup {[object EXCEPT !.eo = eo]}
  /\ UNCHANGED <<sealed, opened>>

Decrypt(object, user_secret_keys, public_keys) ==
  /\ Cardinality(opened) < MaxDecryptions
  /\ opened' = opened \cup
       {[object           |-> object,
         user_secret_keys |-> user_secret_keys,
         public_keys      |-> public_keys,
         result           |-> py_seal_decrypt(object.eo, user_secret_keys, public_keys)]}
  /\ UNCHANGED <<sealed, objects, damages>>

Next ==
  \/ \E request \in Requests : Encrypt(request)
  \/ \E request \in Requests : EncryptModifiedShare(request)
  \/ \E request \in Requests : EncryptSharedForOther(request)
  \/ \E object \in objects : Damage(object)
  \/ \E object \in objects, usks \in Holdings, pks \in PublicKeyLists :
       Decrypt(object, usks, pks)

Spec == Init /\ [][Next]_vars

-----------------------------------------------------------------------------
(* Terms that the properties are stated in. *)

Request(object) == sealed[object.seed].request

Original(object) == sealed[object.seed].result.val.eo

DemKey(object) ==
  derive_key("DEM", BaseKey(object.seed), Original(object).encrypted_shares,
             Request(object).threshold, Request(object).key_servers)

PublicKeys(servers) ==
  [k \in DOMAIN servers |-> public_key_from_master_key(MasterKey[servers[k]])]

UserSecretKey(object, server) ==
  extract(MasterKey[server], create_full_id(Request(object).package_id, Request(object).id))

(* An object that was made for the public keys of the servers it names.    *)
MadeForItsServers(object) ==
  Request(object).public_keys = PublicKeys(Request(object).key_servers)

(* Such an object that seal_encrypt made, and that is as it was made.      *)
Conforming(object) ==
  /\ sealed[object.seed].honest
  /\ MadeForItsServers(object)
  /\ object.eo = Original(object)

(* The pairs that count in the caller's list of keys: of several pairs for *)
(* one server the last.                                                    *)
LastPairs(call) ==
  LET pairs == call.user_secret_keys
  IN  {pairs[k] : k \in {i \in DOMAIN pairs :
                          \A j \in DOMAIN pairs : j > i => pairs[j][1] # pairs[i][1]}}

(* The places of the object that the caller has a key for, and those whose *)
(* key is the one that the server extracts for the identity.               *)
Held(call) ==
  {k \in DOMAIN call.object.eo.services :
     \E pair \in LastPairs(call) : pair[1] = call.object.eo.services[k][1]}

RightlyHeld(call) ==
  {k \in Held(call) :
     LET server == call.object.eo.services[k][1]
     IN  <<server, UserSecretKey(call.object, server)>> \in LastPairs(call)}

(* The caller checked every key that counts with verify_user_secret_key.   *)
KeysVerified(call) ==
  LET request == Request(call.object)
      full_id == create_full_id(request.package_id, request.id)
  IN  \A pair \in LastPairs(call) :
        verify_user_secret_key(pair[2], full_id,
                               public_key_from_master_key(MasterKey[pair[1]]))

RightPublicKeys(call) ==
  call.public_keys \in {<<>>, <<PublicKeys(Request(call.object).key_servers)>>}

-----------------------------------------------------------------------------

(* Objects, and the calls on them, belong to a successful encryption; that *)
(* one made an encrypted share for each key server that was named, which   *)
(* is what the debug_assert of derive_key (core.rs:304) says; and the      *)
(* counters keep within their bounds.                                      *)
TypeOK ==
  /\ Len(sealed) \in 0..MaxEncryptions
  /\ damages \in 0..MaxDamages
  /\ \A object \in objects \cup {call.object : call \in opened} :
       /\ object.seed \in DOMAIN sealed
       /\ sealed[object.seed].result.ok
  /\ \A seed \in DOMAIN sealed :
       LET call == sealed[seed]
       IN  call.result.ok /\ call.honest =>
             Len(call.result.val.eo.encrypted_shares) = Len(call.request.key_servers)

(* core.rs:102-131 and bindings.rs:132: a request is accepted exactly if   *)
(* the threshold is from 1 to the number of servers, the servers fit the   *)
(* u8 share index, and there is a public key per server; the object then   *)
(* has a share for every server named, numbered from 1.                    *)
AcceptsExactly ==
  \A seed \in DOMAIN sealed :
    LET request == sealed[seed].request
        result == sealed[seed].result
    IN  sealed[seed].honest =>
          /\ result.ok <=>
               /\ request.threshold \in 1..Len(request.key_servers)
               /\ Len(request.key_servers) <= U8Max
               /\ Len(request.public_keys) = Len(request.key_servers)
          /\ result.ok =>
               result.val.eo.services =
                 [k \in DOMAIN request.key_servers |-> <<request.key_servers[k], k>>]

(* Whatever was done to the object and whichever keys it is opened with, a *)
(* successful seal_decrypt returns the message that the encryptor sealed   *)
(* or, if the ciphertext is of the Plain variant now, the derived key      *)
(* (dem.rs:145-156), and never a different message: a ciphertext of        *)
(* another variant opens only if it is of the one that was sealed.         *)
DecryptSound ==
  \A call \in opened :
    call.result.ok =>
      LET mode == call.object.eo.ciphertext.mode
          input == Request(call.object).input
      IN  \/ mode = "Plain" /\ call.result.val = <<DemKey(call.object)>>
          \/ mode # "Plain" /\ mode = input.mode /\ call.result.val = input.data

(* An object opens only as long as everything that its keys are derived    *)
(* from is as it was (core.rs:305-317): the shares, the threshold and the  *)
(* servers that the encryptor named; and so are the nonce and the          *)
(* randomness, which are checked against each other.                       *)
BoundFieldsIntact ==
  \A call \in opened :
    call.result.ok =>
      LET eo == call.object.eo
          original == Original(call.object)
      IN  /\ eo.version = original.version
          /\ eo.threshold = original.threshold
          /\ eo.encrypted_shares = original.encrypted_shares
          /\ ServerIds(eo.services) = Request(call.object).key_servers
          /\ eo.nonce = original.nonce
          /\ eo.encrypted_randomness = original.encrypted_randomness

(* The other fields of an object that opens are as they were as well,      *)
(* although no key is derived from them: the identity and the share        *)
(* indices go into the encryption of the shares, the ciphertext is         *)
(* authenticated. There are four exceptions. Without public keys nothing   *)
(* depends on the share index of a server whose key the caller has not. A  *)
(* server that is listed twice decrypts its shares in either order, so     *)
(* that its two indices may change places if the shares still combine.     *)
(* No key is derived from the variant of the ciphertext (core.rs:297-317), *)
(* so that any object opens as Plain (dem.rs:153); and a missing aad is    *)
(* the same as an empty one (dem.rs:148,151).                              *)
SameCiphertext(c, original) ==
  /\ c.mode = original.mode
  /\ c.blob = original.blob
  /\ c.mac = original.mac
  /\ unwrap_or_empty(c.aad) = unwrap_or_empty(original.aad)

OtherFieldsIntact ==
  \A call \in opened :
    call.result.ok =>
      LET eo == call.object.eo
          original == Original(call.object)
          places == IF call.public_keys = <<>> THEN Held(call) ELSE DOMAIN eo.services
      IN  /\ eo.package_id = original.package_id
          /\ eo.id = original.id
          /\ eo.ciphertext.mode = "Plain" \/ SameCiphertext(eo.ciphertext, original.ciphertext)
          /\ {eo.services[k] : k \in places} = {original.services[k] : k \in places}

(* An object as seal_encrypt made it opens for everyone who holds the keys *)
(* of at least threshold of its places, whichever these are, if each key   *)
(* passes verify_user_secret_key (ibe.rs:75-86) under its server's public  *)
(* key, and the public keys that the caller passes are the right ones.     *)
Availability ==
  \A call \in opened :
    /\ Conforming(call.object)
    /\ Cardinality(Held(call)) >= call.object.eo.threshold
    /\ KeysVerified(call)
    /\ RightPublicKeys(call)
    => call.result.ok

(* Nobody opens an object with keys for fewer of its places than the       *)
(* threshold that it was sealed for: not if its threshold was altered, and *)
(* not if the encryptor shared the base key for fewer.                     *)
EnoughKeys ==
  \A call \in opened :
    call.result.ok => Cardinality(Held(call)) >= Request(call.object).threshold

(* A wrong key is noticed among enough right ones as well: every key that  *)
(* a successful decryption uses is the one that its server extracts, if    *)
(* the encryptor used the public keys of the servers that it named.        *)
KeysRight ==
  \A call \in opened :
    call.result.ok /\ MadeForItsServers(call.object) => RightlyHeld(call) = Held(call)

(* A caller who opens an object with the check of the shares passed the    *)
(* public keys of the servers in the order of the object's list            *)
(* (bindings.rs:169-171): in another order, with one missing or with one   *)
(* too many the shares that they decrypt do not fit (core.rs:328-339).     *)
PublicKeysRight ==
  \A call \in opened :
    /\ call.result.ok
    /\ call.public_keys # <<>>
    /\ MadeForItsServers(call.object)
    => RightPublicKeys(call)

(* What public_keys is for (core.rs:183): if a caller opens an object with *)
(* the check of the shares, then every share of it lies on the polynomial  *)
(* of that caller's shares, and any other caller who has at least as many  *)
(* keys, all of them right, opens it too. An encryptor cannot make an      *)
(* object that opens for the one and not for the other, by damaging shares *)
(* or by sharing for another threshold. Callers with fewer keys are        *)
(* another matter: the polynomial may have a higher degree than the        *)
(* threshold says, which nothing looks at (core.rs:328).                   *)
Consistency ==
  \A call, other \in opened :
    /\ call.result.ok
    /\ call.public_keys # <<>> /\ RightPublicKeys(call)
    /\ other.object = call.object
    /\ Cardinality(Held(other)) >= Cardinality(Held(call))
    /\ KeysVerified(other)
    /\ RightPublicKeys(other)
    => other.result.ok

(* dem.rs:38 and bindings.rs:160-163: the ciphers run with a fixed IV, so  *)
(* no key may serve twice. The keys of different objects differ, none is   *)
(* the key that masks the encryption randomness of an object, and a key    *)
(* that seal_encrypt shows its caller belongs to an object with no payload.*)
SealedObjects == {[eo |-> sealed[n].result.val.eo, seed |-> n] :
                    n \in {m \in DOMAIN sealed : sealed[m].result.ok}}

MaskKey(object) == xor(object.eo.encrypted_randomness, to_byte_array(object.seed))

KeysNeverReused ==
  /\ \A a, b \in SealedObjects :
       /\ DemKey(a) = DemKey(b) => a = b
       /\ DemKey(a) # MaskKey(b)
  /\ \A seed \in DOMAIN sealed :
       LET call == sealed[seed]
       IN  /\ call.result.ok /\ call.result.val.exposed_key # <<>>
           => /\ call.request.input.mode = "Plain"
              /\ call.result.val.eo.ciphertext.blob = <<>>

(* What bindings.rs:169-171 says of a call without public_keys: a          *)
(* corrupted share goes undetected, so a caller with enough keys succeeds  *)
(* although one of them is wrong.                                          *)
CorruptedShareUndetected ==
  \A call \in opened :
    /\ call.public_keys = <<>>
    /\ Conforming(call.object)
    /\ Cardinality(Held(call)) >= call.object.eo.threshold
    /\ RightlyHeld(call) # Held(call)
    => call.result.ok

(* What core.rs:184 says that seal_decrypt returns: the plaintext, or the  *)
(* derived key if Plain mode was used.                                     *)
PlaintextReturned ==
  \A call \in opened :
    LET input == Request(call.object).input
    IN  call.result.ok /\ input.mode # "Plain" => call.result.val = input.data

-----------------------------------------------------------------------------
(* The vault that callers see: what was sealed, and what decryptions       *)
(* returned of it. Damages change nothing of it.                           *)

Puts ==
  [n \in DOMAIN sealed |->
     IF sealed[n].result.ok
     THEN <<[payload   |-> sealed[n].request.input.data,
             key       |-> <<DemKey([seed |-> n])>>,
             threshold |-> sealed[n].request.threshold]>>
     ELSE <<>>]

GetOf(call) ==
  [put    |-> call.object.seed,
   held   |-> Cardinality(Held(call)),
   answer |-> IF call.result.ok THEN <<call.result.val>> ELSE <<>>]

V == INSTANCE Vault WITH puts <- Puts, gets <- {GetOf(call) : call \in opened}

(* Sealing, damaging and opening objects (core.rs:93-272) is putting into  *)
(* the vault and getting from it: nothing comes out but what was put in or *)
(* the key that was made for it, for nobody who has not keys enough,       *)
(* whatever encryptors and callers do and whatever happens to the object   *)
(* in storage.                                                             *)
ImplementsVault == V!Spec
=============================================================================
