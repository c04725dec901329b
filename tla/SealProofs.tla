----------------------------- MODULE SealProofs -----------------------------
(***************************************************************************)
(* Theorems about Seal, for every value of its constants.                  *)
(***************************************************************************)
EXTENDS Seal, CoreProofs

-----------------------------------------------------------------------------
(* What a successful encryption consists of. *)

LEMMA EncryptMakes ==
  ASSUME NEW seed, NEW request \in Requests, py_seal_encrypt(seed, request).ok
  PROVE  LET eo == py_seal_encrypt(seed, request).val.eo
         IN  /\ Assembled(eo, seed, request)
             /\ Len(eo.encrypted_shares) = Len(request.key_servers)
             /\ HonestWrites(eo, request, seed)
<1> DEFINE n == Len(request.key_servers)
           inner == seal_encrypt(seed, request)
<1>1. n <= U8Max /\ inner.ok /\ py_seal_encrypt(seed, request).val.eo = inner.val
  <2> DEFINE key == derive_key("DEM", BaseKey(seed), inner.val.encrypted_shares,
                               request.threshold, request.key_servers)
             exposed == IF request.input.mode = "Plain" THEN <<key>> ELSE <<>>
             value == [eo |-> inner.val, exposed_key |-> exposed]
  <2>1. py_seal_encrypt(seed, request) =
          IF n > U8Max THEN Err("ValueError")
          ELSE IF inner.ok THEN Ok(value) ELSE inner
    BY DEF py_seal_encrypt, AndThen
  <2>2. n \in Nat
    BY RequestAssumption, LenProperties
  <2>3. value.eo = inner.val
    OBVIOUS
  <2> HIDE DEF inner, value, n
  <2> QED
    BY <2>1, <2>2, <2>3, ResultFacts, U8MaxAssumption
<1>2. n \in Nat /\ request.threshold \in Nat
  BY RequestAssumption, LenProperties
<1> QED
  BY <1>1, <1>2, SealEncryptMakes

LEMMA ModifyMakes ==
  ASSUME NEW seed, NEW request, encrypt_and_modify_first_share(seed, request).ok
  PROVE  Assembled(encrypt_and_modify_first_share(seed, request).val.eo, seed, request)
<1> DEFINE shares == SharesOf(seed, request, AsU8(Len(request.key_servers)))
           object == Assemble(seed, request, shares.val.services, shares.val.nonce,
                              ModifyFirst(shares.val.encrypted_shares))
           value == [eo |-> object, exposed_key |-> <<>>]
<1>1. encrypt_and_modify_first_share(seed, request) =
        IF shares.ok THEN Ok(value) ELSE shares
  BY DEF encrypt_and_modify_first_share, AndThen
<1>2. value.eo = object
  OBVIOUS
<1>3. shares.ok => Assembled(object, seed, request)
  BY SharesNonce DEF Assembled
<1> HIDE DEF shares, value
<1> QED
  BY <1>1, <1>2, <1>3, ResultFacts

LEMMA SharedForMakes ==
  ASSUME NEW t, NEW seed, NEW request, encrypt_shared_for(t, seed, request).ok
  PROVE  Assembled(encrypt_shared_for(t, seed, request).val.eo, seed, request)
<1> DEFINE shares == SharesOf(seed, [request EXCEPT !.threshold = t],
                              AsU8(Len(request.key_servers)))
           object == Assemble(seed, request, shares.val.services, shares.val.nonce,
                              shares.val.encrypted_shares)
           value == [eo |-> object, exposed_key |-> <<>>]
<1>1. encrypt_shared_for(t, seed, request) = IF shares.ok THEN Ok(value) ELSE shares
  BY DEF encrypt_shared_for, AndThen
<1>2. value.eo = object
  OBVIOUS
<1>3. shares.ok => Assembled(object, seed, request)
  BY SharesNonce DEF Assembled
<1> HIDE DEF shares, value
<1> QED
  BY <1>1, <1>2, <1>3, ResultFacts

-----------------------------------------------------------------------------
(* Type correctness. *)

StoredObjects == objects \cup {call.object : call \in opened}

(* The n-th call of seal_encrypt, if it succeeded. *)
SealedCall(n) ==
  LET call == sealed[n]
  IN  call.result.ok =>
        /\ call.request \in Requests
        /\ Assembled(call.result.val.eo, n, call.request)
        /\ call.honest =>
             Len(call.result.val.eo.encrypted_shares) = Len(call.request.key_servers)

TypeInv ==
  /\ IsSequence(sealed)
  /\ Len(sealed) <= MaxEncryptions
  /\ damages \in 0..MaxDamages
  /\ \A n \in 1..Len(sealed) : SealedCall(n)
  /\ \A object \in StoredObjects :
       object.seed \in 1..Len(sealed) /\ sealed[object.seed].result.ok

LEMMA TypeInvImpliesTypeOK == TypeInv => TypeOK
BY SequenceFacts DEF TypeInv, TypeOK, StoredObjects, SealedCall

LEMMA TypeInvInit == Init => TypeInv
<1> SUFFICES ASSUME Init PROVE TypeInv
  OBVIOUS
<1>1. IsSequence(sealed) /\ Len(sealed) = 0
  BY EmptySeq DEF Init, IsSequence
<1>2. StoredObjects = {}
  BY DEF Init, StoredObjects
<1> QED
  BY <1>1, <1>2, BoundsAssumption DEF Init, TypeInv

(* A call of seal_encrypt is recorded after the earlier ones, and its      *)
(* object is stored if it succeeded.                                       *)
LEMMA RecordKeepsTypeInv ==
  ASSUME TypeInv, NextSeed <= MaxEncryptions,
         NEW request \in Requests, NEW result, NEW honest \in BOOLEAN,
         result.ok => Assembled(result.val.eo, NextSeed, request),
         result.ok /\ honest =>
           Len(result.val.eo.encrypted_shares) = Len(request.key_servers),
         Record(request, result, honest)
  PROVE  TypeInv'
<1> DEFINE call == [request |-> request, result |-> result, honest |-> honest]
<1>1. IsSequence(sealed) /\ Len(sealed) \in Nat
  BY SequenceFacts DEF TypeInv
<1>2. /\ IsSequence(sealed')
      /\ Len(sealed') = Len(sealed) + 1
      /\ \A n \in 1..Len(sealed) : sealed'[n] = sealed[n]
      /\ sealed'[NextSeed] = call
  BY <1>1, AppendFacts DEF Record, NextSeed
<1>3. Len(sealed') <= MaxEncryptions
  BY <1>2 DEF NextSeed
<1>4. damages' \in 0..MaxDamages
  BY DEF TypeInv, Record
<1>5. ASSUME NEW n \in 1..Len(sealed') PROVE SealedCall(n)'
  <2>1. CASE n = NextSeed
    BY <1>2, <2>1 DEF SealedCall
  <2>2. CASE n \in 1..Len(sealed)
    BY <1>2, <2>2 DEF SealedCall, TypeInv
  <2> QED
    BY <1>1, <1>2, <2>1, <2>2 DEF NextSeed
<1>6. ASSUME NEW object \in StoredObjects'
      PROVE  object.seed \in 1..Len(sealed') /\ sealed'[object.seed].result.ok
  <2>1. CASE object \in StoredObjects
    BY <1>1, <1>2, <2>1 DEF TypeInv
  <2>2. CASE object \notin StoredObjects
    <3>1. result.ok /\ object = [eo |-> result.val.eo, seed |-> NextSeed]
      BY <2>2 DEF Record, StoredObjects
    <3> QED
      BY <1>1, <1>2, <3>1 DEF NextSeed
  <2> QED
    BY <2>1, <2>2
<1> QED
  BY <1>2, <1>3, <1>4, <1>5, <1>6 DEF TypeInv

LEMMA TypeInvNext == TypeInv /\ [Next]_vars => TypeInv'
<1> SUFFICES ASSUME TypeInv, [Next]_vars PROVE TypeInv'
  OBVIOUS
<1>1. CASE \E request \in Requests : Encrypt(request)
  <2> PICK request \in Requests : Encrypt(request)
    BY <1>1
  <2> DEFINE result == py_seal_encrypt(NextSeed, request)
  <2>1. result.ok => /\ Assembled(result.val.eo, NextSeed, request)
                     /\ Len(result.val.eo.encrypted_shares) = Len(request.key_servers)
    BY EncryptMakes
  <2>2. NextSeed <= MaxEncryptions /\ Record(request, result, TRUE)
    BY DEF Encrypt
  <2> HIDE DEF result
  <2> QED
    BY <2>1, <2>2, RecordKeepsTypeInv
<1>2. CASE \E request \in Requests : EncryptModifiedShare(request)
  <2> PICK request \in Requests : EncryptModifiedShare(request)
    BY <1>2
  <2> DEFINE result == encrypt_and_modify_first_share(NextSeed, request)
  <2>1. result.ok => Assembled(result.val.eo, NextSeed, request)
    BY ModifyMakes
  <2>2. NextSeed <= MaxEncryptions /\ Record(request, result, FALSE)
    BY DEF EncryptModifiedShare
  <2> HIDE DEF result
  <2> QED
    BY <2>1, <2>2, RecordKeepsTypeInv
<1>3. CASE \E request \in Requests : EncryptSharedForOther(request)
  <2> PICK request \in Requests : EncryptSharedForOther(request)
    BY <1>3
  <2>1. PICK t : Record(request, encrypt_shared_for(t, NextSeed, request), FALSE)
    BY DEF EncryptSharedForOther
  <2> DEFINE result == encrypt_shared_for(t, NextSeed, request)
  <2>2. result.ok => Assembled(result.val.eo, NextSeed, request)
    BY SharedForMakes
  <2>3. NextSeed <= MaxEncryptions /\ Record(request, result, FALSE)
    BY <2>1 DEF EncryptSharedForOther
  <2> HIDE DEF result
  <2> QED
    BY <2>2, <2>3, RecordKeepsTypeInv
<1>4. CASE \E object \in objects : Damage(object)
  <2> PICK object \in objects : Damage(object)
    BY <1>4
  <2>1. PICK eo : objects' = (objects \ {object}) \cup {[object EXCEPT !.eo = eo]}
    BY DEF Damage
  <2>2. UNCHANGED <<sealed, opened>> /\ damages' \in 0..MaxDamages
    BY BoundsAssumption DEF Damage, TypeInv
  <2>3. [object EXCEPT !.eo = eo].seed = object.seed
    OBVIOUS
  <2>4. \A other \in StoredObjects' :
           other \in StoredObjects \/ other = [object EXCEPT !.eo = eo]
    BY <2>1, <2>2 DEF StoredObjects
  <2>5. object \in StoredObjects
    BY DEF StoredObjects
  <2> QED
    BY <2>2, <2>3, <2>4, <2>5 DEF TypeInv, SealedCall
<1>5. CASE \E object \in objects, usks \in Holdings, pks \in PublicKeyLists :
             Decrypt(object, usks, pks)
  <2> PICK object \in objects, usks \in Holdings, pks \in PublicKeyLists :
             Decrypt(object, usks, pks)
    BY <1>5
  <2>1. UNCHANGED <<sealed, objects, damages>>
    BY DEF Decrypt
  <2>2. StoredObjects' = StoredObjects
    BY <2>1 DEF Decrypt, StoredObjects
  <2> QED
    BY <2>1, <2>2 DEF TypeInv, SealedCall
<1>6. CASE UNCHANGED vars
  BY <1>6 DEF vars, TypeInv, SealedCall, StoredObjects
<1> QED
  BY <1>1, <1>2, <1>3, <1>4, <1>5, <1>6 DEF Next

(* bindings.rs:120-165 and core.rs:102-177: every object belongs to an     *)
(* encryption that succeeded, with one share for each key server named.    *)
THEOREM TypeCorrect == Spec => []TypeOK
<1>1. Spec => []TypeInv
  BY TypeInvInit, TypeInvNext, PTL DEF Spec
<1> QED
  BY <1>1, TypeInvImpliesTypeOK, PTL

-----------------------------------------------------------------------------
(* Which requests are accepted.                                            *)

AcceptedRequest(request) ==
  /\ request.threshold \in 1..Len(request.key_servers)
  /\ Len(request.key_servers) <= U8Max
  /\ Len(request.public_keys) = Len(request.key_servers)

NumberedServices(request) ==
  [k \in DOMAIN request.key_servers |-> <<request.key_servers[k], k>>]

LEMMA EncryptAccepts ==
  ASSUME NEW seed, NEW request \in Requests
  PROVE  LET result == py_seal_encrypt(seed, request)
         IN  /\ result.ok <=> AcceptedRequest(request)
             /\ result.ok => result.val.eo.services = NumberedServices(request)
<1> DEFINE n == AsU8(Len(request.key_servers))
           shares == SharesOf(seed, request, n)
           object == Assemble(seed, request, shares.val.services, shares.val.nonce,
                              shares.val.encrypted_shares)
           inner == seal_encrypt(seed, request)
           key == derive_key("DEM", BaseKey(seed), inner.val.encrypted_shares,
                             request.threshold, request.key_servers)
           exposed == IF request.input.mode = "Plain" THEN <<key>> ELSE <<>>
           value == [eo |-> inner.val, exposed_key |-> exposed]
           fits == Len(request.key_servers) <= U8Max
<1>1. /\ Len(request.key_servers) \in Nat /\ request.threshold \in Nat
      /\ DOMAIN request.key_servers = 1..Len(request.key_servers)
  BY RequestAssumption, LenProperties
<1>2. py_seal_encrypt(seed, request) =
        IF ~fits THEN Err("ValueError") ELSE IF inner.ok THEN Ok(value) ELSE inner
  <2>1. py_seal_encrypt(seed, request) =
          IF Len(request.key_servers) > U8Max THEN Err("ValueError")
          ELSE IF inner.ok THEN Ok(value) ELSE inner
    BY DEF py_seal_encrypt, AndThen
  <2>2. Len(request.key_servers) > U8Max <=> ~fits
    BY <1>1, U8MaxAssumption
  <2> HIDE DEF inner, value
  <2> QED
    BY <2>1, <2>2
<1>3. inner = IF request.threshold > n \/ request.threshold = 0 THEN Err("InvalidInput")
              ELSE IF shares.ok THEN Ok(object) ELSE shares
  BY DEF seal_encrypt, AndThen
<1>4. fits => n = Len(request.key_servers)
  BY <1>1, AsU8Exact
<1>5. value.eo = inner.val /\ object.services = shares.val.services
  BY DEF Assemble
<1>6. fits => (request.threshold > n \/ request.threshold = 0 <=> request.threshold \notin 1..n)
  BY <1>1, <1>4
<1>7. fits =>
        /\ shares.ok => shares.val.services = [k \in 1..n |-> <<request.key_servers[k], k>>]
        /\ shares.ok <=> request.threshold \in 1..n /\ Len(request.public_keys) = n
  <2> HIDE DEF n
  <2> QED
    BY <1>1, <1>4, SharesFacts
<1> HIDE DEF n, shares, object, inner, value
<1>8. fits =>
        /\ inner.ok <=> request.threshold \in 1..n /\ Len(request.public_keys) = n
        /\ inner.ok => inner.val.services = [k \in 1..n |-> <<request.key_servers[k], k>>]
  BY <1>3, <1>5, <1>6, <1>7, ResultFacts
<1> HIDE DEF fits
<1>9. py_seal_encrypt(seed, request).ok <=> fits /\ inner.ok
  BY <1>2, ResultFacts
<1>10. py_seal_encrypt(seed, request).ok =>
         py_seal_encrypt(seed, request).val.eo.services = inner.val.services
  BY <1>2, <1>5, ResultFacts
<1> QED
  BY <1>1, <1>4, <1>8, <1>9, <1>10 DEF AcceptedRequest, NumberedServices, fits

(* What is recorded as honest is a call of seal_encrypt. *)
HonestCall(n) ==
  sealed[n].honest =>
    /\ sealed[n].request \in Requests
    /\ sealed[n].result = py_seal_encrypt(n, sealed[n].request)

HonestInv == TypeInv /\ \A n \in 1..Len(sealed) : HonestCall(n)

LEMMA RecordKeepsHonestInv ==
  ASSUME HonestInv, TypeInv', NEW request \in Requests, NEW result, NEW honest,
         honest => result = py_seal_encrypt(NextSeed, request),
         Record(request, result, honest)
  PROVE  HonestInv'
<1> DEFINE call == [request |-> request, result |-> result, honest |-> honest]
<1>1. IsSequence(sealed) /\ Len(sealed) \in Nat
  BY SequenceFacts DEF HonestInv, TypeInv
<1>2. /\ Len(sealed') = Len(sealed) + 1
      /\ \A n \in 1..Len(sealed) : sealed'[n] = sealed[n]
      /\ sealed'[Len(sealed) + 1] = call
  BY <1>1, AppendFacts DEF Record
<1>3. call.request = request /\ call.result = result /\ call.honest = honest
  OBVIOUS
<1> HIDE DEF call
<1>4. ASSUME NEW n \in 1..Len(sealed') PROVE HonestCall(n)'
  <2>1. CASE n \in 1..Len(sealed)
    BY <1>2, <2>1 DEF HonestInv, HonestCall
  <2>2. CASE n = Len(sealed) + 1
    BY <1>2, <1>3, <2>2 DEF HonestCall, NextSeed
  <2> QED
    BY <1>1, <1>2, <2>1, <2>2
<1> QED
  BY <1>4 DEF HonestInv

LEMMA HonestInvNext == HonestInv /\ [Next]_vars => HonestInv'
<1> SUFFICES ASSUME HonestInv, [Next]_vars PROVE HonestInv'
  OBVIOUS
<1>0. TypeInv'
  BY TypeInvNext DEF HonestInv
<1>1. CASE \E request \in Requests : Encrypt(request)
  <2> PICK request \in Requests : Encrypt(request)
    BY <1>1
  <2>1. Record(request, py_seal_encrypt(NextSeed, request), TRUE)
    BY DEF Encrypt
  <2> QED
    BY <1>0, <2>1, RecordKeepsHonestInv
<1>2. CASE \E request \in Requests : EncryptModifiedShare(request)
  <2> PICK request \in Requests : EncryptModifiedShare(request)
    BY <1>2
  <2>1. PICK result : Record(request, result, FALSE)
    BY DEF EncryptModifiedShare
  <2> QED
    BY <1>0, <2>1, RecordKeepsHonestInv
<1>3. CASE \E request \in Requests : EncryptSharedForOther(request)
  <2> PICK request \in Requests : EncryptSharedForOther(request)
    BY <1>3
  <2>1. PICK result : Record(request, result, FALSE)
    BY DEF EncryptSharedForOther
  <2> QED
    BY <1>0, <2>1, RecordKeepsHonestInv
<1>4. CASE UNCHANGED sealed
  BY <1>0, <1>4 DEF HonestInv, HonestCall
<1> QED
  BY <1>1, <1>2, <1>3, <1>4 DEF Next, Damage, Decrypt, vars

LEMMA HonestInvImpliesAccepts == HonestInv => AcceptsExactly
<1> SUFFICES ASSUME HonestInv, NEW n \in DOMAIN sealed, sealed[n].honest
             PROVE  /\ sealed[n].result.ok <=> AcceptedRequest(sealed[n].request)
                    /\ sealed[n].result.ok =>
                         sealed[n].result.val.eo.services = NumberedServices(sealed[n].request)
  BY DEF AcceptsExactly, AcceptedRequest, NumberedServices
<1>1. n \in 1..Len(sealed)
  BY SequenceFacts DEF HonestInv, TypeInv
<1> QED
  BY <1>1, EncryptAccepts DEF HonestInv, HonestCall

(* core.rs:102-131 and bindings.rs:132: seal_encrypt accepts what it can   *)
(* share, whatever the arguments are, and numbers the shares from 1.       *)
THEOREM AcceptsExactlyHolds == Spec => []AcceptsExactly
<1>1. Init => HonestInv
  <2>1. Init => \A n \in 1..Len(sealed) : HonestCall(n)
    BY EmptySeq DEF Init
  <2> QED
    BY <2>1, TypeInvInit DEF HonestInv
<1>2. Spec => []HonestInv
  BY <1>1, HonestInvNext, PTL DEF Spec
<1> QED
  BY <1>2, HonestInvImpliesAccepts, PTL

-----------------------------------------------------------------------------
(* The base key that opens an object is the one that it was sealed with.   *)

(* Four different bits, combined by exclusive or, are never a single one.  *)
LEMMA XorOfBits ==
  ASSUME NEW h, NEW h0, NEW r, NEW s, NEW noise,
         h # r, h0 # r, h # noise, h0 # noise, r # noise
  PROVE  /\ xor({h}, xor({h0}, {r})) = {s} => h = h0
         /\ xor({h}, xor(xor({h0}, {r}), {noise})) # {s}
BY DEF xor, SymDiff

(* core.rs:384-400: what decrypts, under the key derived from base_key, to *)
(* randomness that fits the nonce.                                         *)
LEMMA VerifiedRandomnessFacts ==
  ASSUME NEW eo, NEW base_key, VerifiedRandomness(eo, base_key).ok
  PROVE  \E s \in Scalar :
           /\ eo.nonce = Generator * s
           /\ xor(derive_key("EncryptedRandomness", base_key, eo.encrypted_shares,
                             eo.threshold, ServerIds(eo.services)),
                  eo.encrypted_randomness) = to_byte_array(s)
<1> DEFINE key == derive_key("EncryptedRandomness", base_key, eo.encrypted_shares,
                             eo.threshold, ServerIds(eo.services))
           randomness == decrypt_randomness(eo.encrypted_randomness, key)
<1>1. VerifiedRandomness(eo, base_key) =
        IF randomness.ok
        THEN IF verify_nonce(randomness.val, eo.nonce) THEN Ok(randomness.val)
             ELSE Err("Invalid randomness")
        ELSE randomness
  BY DEF VerifiedRandomness, AndThen
<1>2. randomness = from_byte_array(xor(key, eo.encrypted_randomness))
  BY DEF decrypt_randomness
<1> HIDE DEF randomness, key
<1>3. randomness.ok /\ verify_nonce(randomness.val, eo.nonce)
  BY <1>1, ResultFacts
<1>4. from_byte_array(xor(key, eo.encrypted_randomness)).ok
  BY <1>2, <1>3
<1>5. /\ randomness.val \in Scalar
      /\ xor(key, eo.encrypted_randomness) = to_byte_array(randomness.val)
  BY <1>2, <1>4, ResultFacts DEF from_byte_array
<1> QED
  BY <1>3, <1>5 DEF key, verify_nonce

(* An object whose randomness is the original's, or the original's with    *)
(* noise, verifies with no base key but the original one, and only if its  *)
(* shares, threshold and servers are the original ones too.                *)
LEMMA BaseKeyBound ==
  ASSUME NEW eo, NEW base_key, NEW seed, NEW request, NEW original,
         Assembled(original, seed, request),
         eo.encrypted_randomness \in {original.encrypted_randomness,
                                      xor(original.encrypted_randomness, Noise)},
         VerifiedRandomness(eo, base_key).ok
  PROVE  /\ base_key = BaseKey(seed)
         /\ eo.encrypted_shares = original.encrypted_shares
         /\ eo.threshold = request.threshold
         /\ ServerIds(eo.services) = request.key_servers
         /\ eo.encrypted_randomness = original.encrypted_randomness
         /\ eo.nonce = original.nonce
<1> DEFINE scalar(s) == <<<<"scalar", s>>, 0>>
           name(k, shares, t, servers) ==
             <<<<"H3", k, "EncryptedRandomness", t, shares, servers>>, 0>>
           h == name(base_key, eo.encrypted_shares, eo.threshold, ServerIds(eo.services))
           h0 == name(BaseKey(seed), original.encrypted_shares, request.threshold,
                      request.key_servers)
           r == scalar(seed)
           noise == <<<<"noise">>, 0>>
<1>1. /\ original.encrypted_randomness = xor({h0}, {r})
      /\ original.nonce = Generator * seed
  <2>1. PICK services, shares :
          original = Assemble(seed, request, services, Generator * seed, shares)
    BY DEF Assembled
  <2> QED
    BY <2>1 DEF Assemble, encrypt_randomness, derive_key, Opaque, to_byte_array
<1>2. PICK s : /\ xor({h}, eo.encrypted_randomness) = {scalar(s)}
              /\ eo.nonce = Generator * s
  BY VerifiedRandomnessFacts DEF derive_key, Opaque, to_byte_array
<1>3. h # r /\ h0 # r /\ h # noise /\ h0 # noise /\ r # noise
  OBVIOUS
<1>4. Noise = {noise}
  BY DEF Noise, Opaque
<1>5. h = h0 =>
        /\ base_key = BaseKey(seed)
        /\ eo.encrypted_shares = original.encrypted_shares
        /\ eo.threshold = request.threshold
        /\ ServerIds(eo.services) = request.key_servers
  OBVIOUS
<1>5a. r = scalar(s) => seed = s
  OBVIOUS
<1> HIDE DEF h, h0, r, noise, name, scalar
<1>6. /\ xor({h}, xor({h0}, {r})) = {scalar(s)} => h = h0
      /\ xor({h}, xor(xor({h0}, {r}), {noise})) # {scalar(s)}
  BY <1>3, XorOfBits, Zenon
<1>7. eo.encrypted_randomness = xor({h0}, {r})
  BY <1>1, <1>2, <1>4, <1>6
<1>8. h = h0
  BY <1>2, <1>6, <1>7
<1>9. xor({h0}, xor({h0}, {r})) = {r}
  BY DEF xor, SymDiff
<1>10. r = scalar(s)
  <2>1. {r} = {scalar(s)}
    BY <1>2, <1>7, <1>8, <1>9, Zenon
  <2> QED
    BY <2>1
<1> QED
  BY <1>1, <1>2, <1>5, <1>5a, <1>7, <1>8, <1>10

(* Whichever way the base key is combined, it passed the nonce check.      *)
LEMMA CombinedKeyVerified ==
  /\ \A eo, shares :
       combine_and_verify_nonce(eo, shares).ok =>
         VerifiedRandomness(eo, combine_and_verify_nonce(eo, shares).val).ok
  /\ \A eo, shares, full_id, public_keys :
       combine_and_check_share_consistency(eo, shares, full_id, public_keys).ok =>
         VerifiedRandomness(
           eo, combine_and_check_share_consistency(eo, shares, full_id, public_keys).val).ok
<1>1. ASSUME NEW eo, NEW shares, combine_and_verify_nonce(eo, shares).ok
      PROVE  VerifiedRandomness(eo, combine_and_verify_nonce(eo, shares).val).ok
  <2> DEFINE base_key == combine(shares)
             randomness == VerifiedRandomness(eo, base_key.val)
  <2>1. combine_and_verify_nonce(eo, shares) =
          IF base_key.ok
          THEN IF randomness.ok THEN Ok(base_key.val) ELSE randomness
          ELSE base_key
    BY DEF combine_and_verify_nonce, AndThen
  <2> HIDE DEF base_key
  <2> QED
    BY <1>1, <2>1, ResultFacts
<1>2. ASSUME NEW eo, NEW shares, NEW full_id, NEW public_keys,
             combine_and_check_share_consistency(eo, shares, full_id, public_keys).ok
      PROVE  VerifiedRandomness(
               eo, combine_and_check_share_consistency(eo, shares, full_id, public_keys).val).ok
  <2> DEFINE polynomial == tss_interpolate(shares)
             base_key == EvaluateAt(polynomial.val, 0)
             all_shares == decrypt_all_shares_and_verify_nonce(eo, full_id, public_keys, base_key)
             inconsistent == \E s \in all_shares.val : EvaluateAt(polynomial.val, s[1]) # s[2]
  <2>1. combine_and_check_share_consistency(eo, shares, full_id, public_keys) =
          IF polynomial.ok
          THEN IF all_shares.ok
               THEN IF inconsistent THEN Err("Inconsistent shares") ELSE Ok(base_key)
               ELSE all_shares
          ELSE polynomial
    BY DEF combine_and_check_share_consistency, AndThen
  <2>2. all_shares.ok => VerifiedRandomness(eo, base_key).ok
    <3> DEFINE randomness == VerifiedRandomness(eo, base_key)
               zipped == {k \in DOMAIN public_keys :
                            k \in DOMAIN eo.encrypted_shares /\ k \in DOMAIN eo.services}
               decrypted ==
                 {<<eo.services[k][2],
                    decrypt_deterministic(randomness.val, eo.encrypted_shares[k],
                                          public_keys[k], full_id, eo.services[k])>> :
                    k \in zipped}
    <3>1. all_shares = IF randomness.ok
                       THEN IF Len(public_keys) # Len(eo.encrypted_shares)
                            THEN Err("InvalidInput")
                            ELSE Ok(decrypted)
                       ELSE randomness
      BY DEF decrypt_all_shares_and_verify_nonce, AndThen
    <3> HIDE DEF randomness, all_shares, decrypted
    <3>2. all_shares.ok => randomness.ok
      BY <3>1
    <3> QED
      BY <3>2 DEF randomness
  <2> HIDE DEF polynomial, base_key, all_shares, inconsistent
  <2> QED
    BY <1>2, <2>1, <2>2, ResultFacts
<1> QED
  BY <1>1, <1>2

(* core.rs:185-272: a successful seal_decrypt is the decryption of the     *)
(* ciphertext under the key derived from a base key that passed the check, *)
(* by a caller with enough keys.                                           *)
LEMMA DecryptUsesVerifiedKey ==
  ASSUME NEW eo, NEW usks, NEW public_keys, seal_decrypt(eo, usks, public_keys).ok
  PROVE  /\ eo.version = 0
         /\ HoldsEnough(eo, usks)
         /\ \E base_key :
              /\ VerifiedRandomness(eo, base_key).ok
              /\ seal_decrypt(eo, usks, public_keys) =
                   DemDecrypt(eo.ciphertext,
                              derive_key("DEM", base_key, eo.encrypted_shares,
                                         eo.threshold, ServerIds(eo.services)))
<1>1. PICK full_id, shares, base_key :
        /\ base_key = IF public_keys = <<>>
                      THEN combine_and_verify_nonce(eo, shares)
                      ELSE combine_and_check_share_consistency(
                             eo, shares, full_id, public_keys[1])
        /\ seal_decrypt(eo, usks, public_keys) =
             IF eo.version # 0 THEN Err("InvalidInput")
             ELSE IF Len(eo.encrypted_shares) # Len(eo.services) THEN Err("InvalidInput")
             ELSE IF ~HoldsEnough(eo, usks) THEN Err("InvalidInput")
             ELSE IF base_key.ok
             THEN DemDecrypt(eo.ciphertext,
                             derive_key("DEM", base_key.val, eo.encrypted_shares,
                                        eo.threshold, ServerIds(eo.services)))
             ELSE base_key
  BY Zenon DEF seal_decrypt, AndThen
<1>2. base_key.ok => VerifiedRandomness(eo, base_key.val).ok
  BY <1>1, CombinedKeyVerified
<1> QED
  BY <1>1, <1>2, ResultFacts

-----------------------------------------------------------------------------
(* What the damages can make of a ciphertext.                              *)

(* Arrays that no authentication tag, or no MAC, has gone into. *)
NoTag(byte) == \A bit \in byte : bit[1][1] # "GCM-TAG"
NoMac(array) == \A bit \in array : bit[1][1] # "HMAC-CTR-MAC"

TagOrNoisy(byte, tag) == byte = tag \/ byte = xor(tag, Noise)

(* No byte holds a tag other than the one given, perhaps with noise. *)
NoOtherTag(blob, tag) == \A k \in 1..Len(blob) : NoTag(blob[k]) \/ TagOrNoisy(blob[k], tag)

(* The tag of a ciphertext. *)
TagOf(original) == original.blob[Len(original.blob)]

(* A tag, or a MAC, is there only if the original is of the variant that   *)
(* has one, and it is the original's then.                                 *)
BlobInv(blob, original) ==
  \A k \in 1..Len(blob) :
    \/ NoTag(blob[k])
    \/ original.mode = "Aes256Gcm" /\ TagOrNoisy(blob[k], TagOf(original))

MacInv(mac, original) ==
  \/ NoMac(mac)
  \/ original.mode = "Hmac256Ctr" /\ TagOrNoisy(mac, original.mac)

CiphertextInv(c, original) ==
  /\ c.mode \in {"Aes256Gcm", "Hmac256Ctr", "Plain"}
  /\ IsSequence(unwrap_or_empty(c.aad))
  /\ IsSequence(c.blob)
  /\ MacInv(c.mac, original)
  /\ c.mode # "Hmac256Ctr" => c.mac = {}
  /\ BlobInv(c.blob, original)

LEMMA NoiseHasNoTag ==
  /\ NoTag(Noise) /\ NoMac(Noise) /\ NoMac({})
  /\ \A byte : NoTag(byte) => NoTag(xor(byte, Noise))
  /\ \A byte : NoMac(byte) => NoMac(xor(byte, Noise))
BY DEF NoTag, NoMac, Noise, Opaque, xor, SymDiff

LEMMA NoiseAgain ==
  ASSUME NEW byte, NEW tag, TagOrNoisy(byte, tag)
  PROVE  TagOrNoisy(xor(byte, Noise), tag)
BY XorTwice DEF TagOrNoisy

LEMMA AadSequences ==
  /\ IsSequence(unwrap_or_empty(<<>>))
  /\ IsSequence(unwrap_or_empty(<<<<>>>>))
  /\ \A aad : IsSequence(aad) => IsSequence(unwrap_or_empty(<<aad>>))
<1>1. IsSequence(<<>>)
  BY EmptySeq DEF IsSequence
<1>2. unwrap_or_empty(<<>>) = <<>> /\ \A aad : unwrap_or_empty(<<aad>>) = aad
  BY DEF unwrap_or_empty
<1> QED
  BY <1>1, <1>2

LEMMA DamagedAad ==
  ASSUME NEW c, NEW original, CiphertextInv(c, original),
         NEW aad, IsSequence(unwrap_or_empty(aad))
  PROVE  CiphertextInv([c EXCEPT !.aad = aad], original)
<1> DEFINE d == [c EXCEPT !.aad = aad]
<1>1. \/ d.aad = aad /\ d.mode = c.mode /\ d.blob = c.blob /\ d.mac = c.mac
      \/ d = c
  OBVIOUS
<1> HIDE DEF d
<1>2. CiphertextInv(d, original)
  BY <1>1 DEF CiphertextInv
<1> QED
  BY <1>2 DEF d

LEMMA DamagedMac ==
  ASSUME NEW c, NEW original, CiphertextInv(c, original), c.mode = "Hmac256Ctr"
  PROVE  CiphertextInv([c EXCEPT !.mac = xor(@, Noise)], original)
<1> DEFINE d == [c EXCEPT !.mac = xor(@, Noise)]
<1>1. d.mac = xor(c.mac, Noise) /\ d.mode = c.mode /\ d.blob = c.blob /\ d.aad = c.aad
  OBVIOUS
<1> HIDE DEF d
<1>2. CiphertextInv(d, original)
  BY <1>1, NoiseAgain, NoiseHasNoTag DEF CiphertextInv, MacInv
<1> QED
  BY <1>2 DEF d

(* Another variant, whose MAC is not one. *)
LEMMA OtherVariant ==
  ASSUME NEW c, NEW original, CiphertextInv(c, original), NEW d \in OtherVariants(c)
  PROVE  CiphertextInv(d, original)
<1>1. PICK mode, blob, aad, mac :
        /\ d = Variant(mode, blob, aad, mac)
        /\ mode \in {"Aes256Gcm", "Hmac256Ctr", "Plain"}
        /\ blob \in {<<>>, c.blob, <<Noise>>}
        /\ aad \in {<<>>, c.aad}
        /\ mac \in {{}, Noise}
        /\ mode # "Hmac256Ctr" => mac = {}
  BY DEF OtherVariants
<1>2. d.mode = mode /\ d.blob = blob /\ d.aad = aad /\ d.mac = mac
  BY <1>1 DEF Variant
<1>3. IsSequence(unwrap_or_empty(aad))
  BY <1>1, AadSequences DEF CiphertextInv
<1>4. MacInv(mac, original)
  BY <1>1, NoiseHasNoTag DEF MacInv
<1>5. IsSequence(blob) /\ BlobInv(blob, original)
  <2>1. CASE blob = <<>>
    BY <2>1, EmptySeq DEF IsSequence, BlobInv
  <2>2. CASE blob = <<Noise>>
    <3> DEFINE noise == Noise
    <3>1. <<noise>> \in Seq({noise}) /\ Len(<<noise>>) = 1 /\ <<noise>>[1] = noise
      <4> HIDE DEF noise
      <4> QED OBVIOUS
    <3>2. NoTag(noise)
      BY NoiseHasNoTag
    <3> HIDE DEF noise
    <3>3. blob = <<noise>>
      BY <2>2 DEF noise
    <3>4. IsSequence(<<noise>>)
      BY <3>1 DEF IsSequence
    <3>5. \A k \in 1..Len(<<noise>>) : NoTag((<<noise>>)[k])
      BY <3>1, <3>2
    <3>6. BlobInv(<<noise>>, original)
      BY <3>5 DEF BlobInv
    <3> QED
      BY <3>3, <3>4, <3>6
  <2>3. CASE blob = c.blob
    BY <2>3 DEF CiphertextInv
  <2> QED
    BY <1>1, <2>1, <2>2, <2>3
<1> QED
  BY <1>1, <1>2, <1>3, <1>4, <1>5 DEF CiphertextInv

(* A damage to the blob alone, which leaves a blob of the same kind. *)
LEMMA DamagedBlob ==
  ASSUME NEW c, NEW original, CiphertextInv(c, original), NEW blob, IsSequence(blob),
         BlobInv(c.blob, original) => BlobInv(blob, original)
  PROVE  CiphertextInv([c EXCEPT !.blob = blob], original)
<1> DEFINE d == [c EXCEPT !.blob = blob]
<1>1. d.blob = blob /\ d.mode = c.mode /\ d.mac = c.mac /\ d.aad = c.aad
  OBVIOUS
<1> HIDE DEF d
<1>2. CiphertextInv(d, original)
  BY <1>1 DEF CiphertextInv
<1> QED
  BY <1>2 DEF d

LEMMA LongerBlob ==
  ASSUME NEW blob, NEW original, IsSequence(blob)
  PROVE  /\ IsSequence(Append(blob, Noise))
         /\ BlobInv(blob, original) => BlobInv(Append(blob, Noise), original)
<1>1. Len(blob) \in Nat
  BY SequenceFacts
<1> QED
  BY <1>1, AppendFacts, NoiseHasNoTag DEF BlobInv

LEMMA NoisyBlob ==
  ASSUME NEW blob, NEW original, IsSequence(blob), blob # <<>>
  PROVE  /\ IsSequence([blob EXCEPT ![1] = xor(@, Noise)])
         /\ BlobInv(blob, original) =>
              BlobInv([blob EXCEPT ![1] = xor(@, Noise)], original)
<1> DEFINE byte == xor(blob[1], Noise)
           noisy == [blob EXCEPT ![1] = byte]
<1>1. PICK S : blob \in Seq(S)
  BY DEF IsSequence
<1>2. blob \in Seq(S \cup {byte})
  BY <1>1, SeqMonotonic
<1>3. 1 \in 1..Len(blob)
  BY <1>1, EmptySeq
<1>4. /\ noisy \in Seq(S \cup {byte})
      /\ Len(noisy) = Len(blob)
      /\ \A k \in 1..Len(blob) : noisy[k] = IF k = 1 THEN byte ELSE blob[k]
  <2> HIDE DEF byte
  <2> QED BY <1>2, <1>3, ExceptSeq
<1>5. IsSequence(noisy)
  BY <1>4 DEF IsSequence
<1>6. ASSUME BlobInv(blob, original) PROVE BlobInv(noisy, original)
  <2>1. NoTag(blob[1]) => NoTag(byte)
    BY NoiseHasNoTag
  <2>2. TagOrNoisy(blob[1], TagOf(original)) => TagOrNoisy(byte, TagOf(original))
    BY NoiseAgain
  <2> HIDE DEF byte, noisy
  <2> QED
    BY <1>3, <1>4, <1>6, <2>1, <2>2 DEF BlobInv
<1> QED
  BY <1>5, <1>6

LEMMA ShorterBlob ==
  ASSUME NEW blob, NEW original, IsSequence(blob), blob # <<>>
  PROVE  /\ IsSequence(Front(blob))
         /\ BlobInv(blob, original) => BlobInv(Front(blob), original)
<1>1. PICK S : blob \in Seq(S)
  BY DEF IsSequence
<1>2. Len(blob) \in Nat \ {0}
  BY <1>1, EmptySeq
<1> DEFINE n == Len(blob) - 1
           front == SubSeq(blob, 1, n)
<1>3. n \in Nat /\ 1..n \subseteq 1..Len(blob)
  BY <1>2
<1>4. \A k \in 1..n : blob[k] \in S
  BY <1>1, <1>3, ElementOfSeq
<1> HIDE DEF n
<1>5. /\ front \in Seq(S)
      /\ Len(front) = IF 1 <= n THEN n - 1 + 1 ELSE 0
      /\ \A k \in 1..(n - 1 + 1) : front[k] = blob[1 + k - 1]
  BY <1>3, <1>4, SubSeqProperties
<1>6. Len(front) = n /\ \A k \in 1..n : front[k] = blob[k]
  BY <1>3, <1>5
<1>7. Front(blob) = front
  BY DEF Front, n
<1> HIDE DEF front
<1> QED
  BY <1>3, <1>5, <1>6, <1>7 DEF IsSequence, BlobInv

(* A sequence without its first element. *)
LEMMA ShorterFromFront ==
  ASSUME NEW blob, NEW original, IsSequence(blob), blob # <<>>
  PROVE  /\ IsSequence(Tail(blob))
         /\ BlobInv(blob, original) => BlobInv(Tail(blob), original)
<1>1. PICK S : blob \in Seq(S)
  BY DEF IsSequence
<1>2. /\ Tail(blob) \in Seq(S)
      /\ Len(Tail(blob)) = Len(blob) - 1
      /\ \A k \in 1..Len(Tail(blob)) : Tail(blob)[k] = blob[k + 1]
  BY <1>1, HeadTailProperties
<1>3. Len(blob) \in Nat \ {0}
  BY <1>1, EmptySeq
<1>4. PICK tail : tail = Tail(blob)
  OBVIOUS
<1>5. \A k \in 1..Len(tail) : tail[k] = blob[k + 1] /\ k + 1 \in 1..Len(blob)
  BY <1>2, <1>3, <1>4
<1> QED
  BY <1>2, <1>4, <1>5 DEF IsSequence, BlobInv

LEMMA MovedByte ==
  ASSUME NEW c, NEW original, CiphertextInv(c, original), c.blob # <<>>
  PROVE  CiphertextInv(MoveByteToAad(c), original)
<1> DEFINE aad == Append(unwrap_or_empty(c.aad), c.blob[1])
           blob == Tail(c.blob)
           d == [c EXCEPT !.aad = <<aad>>, !.blob = blob]
<1>1. IsSequence(aad)
  BY AppendFacts DEF CiphertextInv
<1>2. unwrap_or_empty(<<aad>>) = aad
  BY DEF unwrap_or_empty
<1>3. IsSequence(blob) /\ BlobInv(blob, original)
  BY ShorterFromFront DEF CiphertextInv
<1>4. MoveByteToAad(c) = d
  BY DEF MoveByteToAad
<1>5. \/ d.aad = <<aad>> /\ d.blob = blob /\ d.mode = c.mode /\ d.mac = c.mac
      \/ d = c
  OBVIOUS
<1> HIDE DEF aad, blob, d
<1> QED
  BY <1>1, <1>2, <1>3, <1>4, <1>5 DEF CiphertextInv

LEMMA DamagedPart ==
  ASSUME NEW c, NEW original, CiphertextInv(c, original), NEW d \in DamagedParts(c)
  PROVE  CiphertextInv(d, original)
<1>1. CASE \E aad \in {<<>>, <<<<>>>>, <<Append(unwrap_or_empty(c.aad), Noise)>>} :
             d = [c EXCEPT !.aad = aad]
  <2> PICK aad \in {<<>>, <<<<>>>>, <<Append(unwrap_or_empty(c.aad), Noise)>>} :
        d = [c EXCEPT !.aad = aad]
    BY <1>1
  <2>1. IsSequence(Append(unwrap_or_empty(c.aad), Noise))
    BY AppendFacts DEF CiphertextInv
  <2>2. IsSequence(unwrap_or_empty(aad))
    BY <2>1, AadSequences
  <2> QED
    BY <2>2, DamagedAad
<1>2. CASE c.mode = "Hmac256Ctr" /\ d = [c EXCEPT !.mac = xor(@, Noise)]
  BY <1>2, DamagedMac
<1>3. IsSequence(c.blob)
  BY DEF CiphertextInv
<1>4. CASE d = [c EXCEPT !.blob = Append(@, Noise)]
  BY <1>3, <1>4, LongerBlob, DamagedBlob
<1>5. CASE c.blob # <<>> /\ d = [c EXCEPT !.blob[1] = xor(@, Noise)]
  <2> DEFINE blob == [c.blob EXCEPT ![1] = xor(@, Noise)]
  <2>1. d = [c EXCEPT !.blob = blob]
    BY <1>5
  <2>2. IsSequence(blob) /\ (BlobInv(c.blob, original) => BlobInv(blob, original))
    BY <1>3, <1>5, NoisyBlob
  <2> HIDE DEF blob
  <2> QED
    BY <2>1, <2>2, DamagedBlob
<1>6. CASE c.blob # <<>> /\ d = [c EXCEPT !.blob = Front(@)]
  BY <1>3, <1>6, ShorterBlob, DamagedBlob
<1>7. CASE c.blob # <<>> /\ d = MoveByteToAad(c)
  BY <1>7, MovedByte
<1> QED
  BY <1>1, <1>2, <1>4, <1>5, <1>6, <1>7 DEF DamagedParts

LEMMA DamagedCiphertext ==
  ASSUME NEW c, NEW original, CiphertextInv(c, original),
         NEW d \in DamagedCiphertexts(c)
  PROVE  CiphertextInv(d, original)
<1>1. d \in OtherVariants(c) \/ d \in DamagedParts(c)
  BY DEF DamagedCiphertexts
<1> QED
  BY <1>1, OtherVariant, DamagedPart

-----------------------------------------------------------------------------
(* What decrypts under the key of the encryption is what was encrypted.    *)

(* If two concatenations are equal and their first parts have one length,  *)
(* the parts are equal.                                                    *)
LEMMA ConcatSameLength ==
  ASSUME NEW s, NEW t, NEW u, NEW v,
         IsSequence(s), IsSequence(t), IsSequence(u), IsSequence(v),
         Len(s) = Len(u), s \o t = u \o v
  PROVE  s = u /\ t = v
<1>1. PICK S1, S2, S3, S4 : s \in Seq(S1) /\ t \in Seq(S2) /\ u \in Seq(S3) /\ v \in Seq(S4)
  BY DEF IsSequence
<1> DEFINE S == S1 \cup S2 \cup S3 \cup S4
<1>2. s \in Seq(S) /\ t \in Seq(S) /\ u \in Seq(S) /\ v \in Seq(S)
  BY <1>1, SeqMonotonic
<1> HIDE DEF S
<1>3. PICK st : st = s \o t
  OBVIOUS
<1>4. /\ Len(st) = Len(s) + Len(t)
      /\ \A i \in 1..(Len(s) + Len(t)) : st[i] = IF i <= Len(s) THEN s[i] ELSE t[i - Len(s)]
  BY <1>2, <1>3, ConcatProperties, Zenon
<1>5. /\ Len(st) = Len(u) + Len(v)
      /\ \A i \in 1..(Len(u) + Len(v)) : st[i] = IF i <= Len(u) THEN u[i] ELSE v[i - Len(u)]
  <2>1. st = u \o v
    BY <1>3
  <2> QED
    BY <1>2, <2>1, ConcatProperties, Zenon
<1>6. Len(s) \in Nat /\ Len(t) \in Nat /\ Len(v) \in Nat
  BY <1>2, LenProperties
<1>7. Len(t) = Len(v)
  BY <1>4, <1>5, <1>6
<1>8. ASSUME NEW k \in 1..Len(t) PROVE t[k] = v[k]
  <2>1. PICK j : j = Len(s) + k
    OBVIOUS
  <2>2. j \in 1..(Len(s) + Len(t)) /\ ~(j <= Len(s)) /\ j - Len(s) = k
    BY <1>6, <2>1
  <2>3. st[j] = t[k]
    BY <1>4, <2>2
  <2>4. st[j] = v[k]
    BY <1>5, <1>7, <2>2
  <2> QED
    BY <2>3, <2>4
<1>9. ASSUME NEW k \in 1..Len(s) PROVE s[k] = u[k]
  <2>1. k \in 1..(Len(s) + Len(t)) /\ k <= Len(s)
    BY <1>6
  <2>2. st[k] = s[k]
    BY <1>4, <2>1
  <2>3. st[k] = u[k]
    BY <1>5, <1>7, <2>1
  <2> QED
    BY <2>2, <2>3
<1>10. t = v
  BY <1>2, <1>7, <1>8, SeqEqual
<1>11. s = u
  BY <1>2, <1>9, SeqEqual
<1> QED
  BY <1>10, <1>11

(* A single bit with noise is two bits. *)
LEMMA NoisyBit ==
  ASSUME NEW m, NEW m0, m0 # <<<<"noise">>, 0>>, TagOrNoisy({m}, {m0})
  PROVE  m = m0
<1>1. CASE {m} = {m0}
  BY <1>1
<1>2. CASE {m} = xor({m0}, Noise)
  <2>1. m0 \in xor({m0}, Noise) /\ <<<<"noise">>, 0>> \in xor({m0}, Noise)
    BY DEF Noise, Opaque, xor, SymDiff
  <2> QED
    BY <1>2, <2>1
<1> QED
  BY <1>1, <1>2 DEF TagOrNoisy

HmacVerifies(msg, aad0, key, blob, aad, mac) ==
  /\ IsSequence(msg) /\ IsSequence(aad0) /\ IsSequence(blob) /\ IsSequence(aad)
  /\ TagOrNoisy(mac, Hmac256CtrEncrypt(msg, aad0, key).mac)
  /\ Hmac256CtrDecrypt(blob, mac, aad, key).ok

(* dem.rs:65-78: a MAC that verifies under the key of the encryption is    *)
(* the original one, and then so is the ciphertext.                        *)
LEMMA HmacSound ==
  ASSUME NEW msg, NEW aad0, NEW key, NEW blob, NEW aad, NEW mac,
         HmacVerifies(msg, aad0, key, blob, aad, mac)
  PROVE  /\ Hmac256CtrDecrypt(blob, mac, aad, key).val = msg
         /\ blob = encrypt_in_ctr_mode(key, msg)
         /\ mac = Hmac256CtrEncrypt(msg, aad0, key).mac
         /\ aad = aad0
<1> USE DEF HmacVerifies
<1> DEFINE stream == encrypt_in_ctr_mode(key, msg)
           text == aad \o blob
           text0 == aad0 \o stream
           m == <<<<"HMAC-CTR-MAC", key, <<Len(aad), text>>>>, 0>>
           m0 == <<<<"HMAC-CTR-MAC", key, <<Len(aad0), text0>>>>, 0>>
<1>1. Hmac256CtrDecrypt(blob, mac, aad, key) =
        IF mac # {m} THEN Err("Invalid MAC") ELSE Ok(encrypt_in_ctr_mode(key, blob))
  BY DEF Hmac256CtrDecrypt, compute_mac, hmac, Opaque
<1>2. Hmac256CtrEncrypt(msg, aad0, key).mac = {m0}
  BY DEF Hmac256CtrEncrypt, compute_mac, hmac, Opaque
<1>3. m0 # <<<<"noise">>, 0>>
  OBVIOUS
<1>4. m = m0 => Len(aad) = Len(aad0) /\ text = text0
  <2> HIDE DEF text, text0
  <2> QED OBVIOUS
<1>5. IsSequence(stream)
  BY StreamIsSequence
<1> HIDE DEF m, m0
<1>6. /\ mac = {m}
      /\ Hmac256CtrDecrypt(blob, mac, aad, key).val = encrypt_in_ctr_mode(key, blob)
  BY <1>1, ResultFacts
<1>7. m = m0
  BY <1>2, <1>3, <1>6, NoisyBit
<1>8. blob = stream /\ aad = aad0
  <2>1. IsSequence(blob) /\ IsSequence(aad) /\ IsSequence(aad0) /\ IsSequence(stream)
    BY <1>5
  <2>2. Len(aad) = Len(aad0) /\ aad \o blob = aad0 \o stream
    BY <1>4, <1>7
  <2> HIDE DEF stream, text, text0, HmacVerifies
  <2>3. aad = aad0 /\ blob = stream
    BY <2>1, <2>2, ConcatSameLength, ZenonT(30)
  <2> QED
    BY <2>3
<1>9. mac = Hmac256CtrEncrypt(msg, aad0, key).mac
  <2> HIDE DEF stream, text, text0, HmacVerifies
  <2>1. mac = {m}
    BY <1>6
  <2> QED
    BY <1>2, <1>7, <2>1
<1> QED
  BY <1>6, <1>8, <1>9, CtrTwice

(* What is no MAC verifies under no key. *)
LEMMA MacIsMac ==
  ASSUME NEW key, NEW blob, NEW aad, NEW mac, NoMac(mac)
  PROVE  ~Hmac256CtrDecrypt(blob, mac, aad, key).ok
<1> DEFINE m == <<<<"HMAC-CTR-MAC", key, <<Len(aad), aad \o blob>>>>, 0>>
<1>1. Hmac256CtrDecrypt(blob, mac, aad, key) =
        IF mac # {m} THEN Err("Invalid MAC") ELSE Ok(encrypt_in_ctr_mode(key, blob))
  BY DEF Hmac256CtrDecrypt, compute_mac, hmac, Opaque
<1>2. m[1][1] = "HMAC-CTR-MAC"
  OBVIOUS
<1> HIDE DEF m
<1>3. mac # {m}
  BY <1>2 DEF NoMac
<1> QED
  BY <1>1, <1>3, ResultFacts

(* The last byte of an Aes256Gcm blob is a tag, of the aad and the rest of *)
(* the blob.                                                               *)
LEMMA TagIsTag ==
  ASSUME NEW key, NEW aad, NEW text
  PROVE  /\ ~NoTag(GcmTag(key, aad, text))
         /\ \A aad0, text0 :
              TagOrNoisy(GcmTag(key, aad, text), GcmTag(key, aad0, text0)) =>
                text = text0 /\ aad = aad0
<1> DEFINE m(a, t) == <<<<"GCM-TAG", key, a, t>>, 0>>
<1>1. \A a, t : GcmTag(key, a, t) = {m(a, t)} /\ m(a, t) # <<<<"noise">>, 0>>
  BY DEF GcmTag, Opaque
<1>2. ~NoTag({m(aad, text)})
  BY DEF NoTag
<1>3. \A a, t : m(aad, text) = m(a, t) => text = t /\ aad = a
  OBVIOUS
<1> HIDE DEF m
<1>4. ~NoTag(GcmTag(key, aad, text))
  BY <1>1, <1>2
<1>5. ASSUME NEW aad0, NEW text0,
             TagOrNoisy(GcmTag(key, aad, text), GcmTag(key, aad0, text0))
      PROVE  text = text0 /\ aad = aad0
  <2>1. TagOrNoisy({m(aad, text)}, {m(aad0, text0)}) /\ m(aad0, text0) # <<<<"noise">>, 0>>
    BY <1>1, <1>5
  <2>2. m(aad, text) = m(aad0, text0)
    BY <2>1, NoisyBit
  <2> QED
    BY <1>3, <2>2
<1> QED
  BY <1>4, <1>5

(* A sequence is its front and its last element. *)
LEMMA LastAgain ==
  ASSUME NEW s, IsSequence(s), s # <<>>
  PROVE  s = Append(Front(s), s[Len(s)])
<1>1. PICK S : s \in Seq(S)
  BY DEF IsSequence
<1>2. Len(s) \in Nat /\ Len(s) # 0 /\ \A i \in 1..Len(s) : s[i] \in S
  BY <1>1, EmptySeq
<1>3. /\ Front(s) \in Seq(S) /\ Len(Front(s)) = Len(s) - 1
      /\ \A i \in 1..(Len(s) - 1) : Front(s)[i] = s[i]
  <2>1. 1 \in Int /\ Len(s) - 1 \in Int /\ \A i \in 1..(Len(s) - 1) : s[i] \in S
    BY <1>2
  <2>2. /\ SubSeq(s, 1, Len(s) - 1) \in Seq(S)
        /\ Len(SubSeq(s, 1, Len(s) - 1)) = IF 1 <= Len(s) - 1 THEN (Len(s) - 1) - 1 + 1 ELSE 0
        /\ \A i \in 1..((Len(s) - 1) - 1 + 1) : SubSeq(s, 1, Len(s) - 1)[i] = s[1 + i - 1]
    BY <2>1, SubSeqProperties
  <2>3. (IF 1 <= Len(s) - 1 THEN (Len(s) - 1) - 1 + 1 ELSE 0) = Len(s) - 1
    <3> DEFINE n == Len(s)
    <3>1. n \in Nat /\ n # 0
      BY <1>2
    <3> HIDE DEF n
    <3>2. (IF 1 <= n - 1 THEN (n - 1) - 1 + 1 ELSE 0) = n - 1
      BY <3>1
    <3> QED
      BY <3>2 DEF n
  <2>4. (Len(s) - 1) - 1 + 1 = Len(s) - 1 /\ \A i \in 1..(Len(s) - 1) : 1 + i - 1 = i
    BY <1>2
  <2> QED
    BY <2>2, <2>3, <2>4 DEF Front
<1> DEFINE front == Front(s)
           t == Append(front, s[Len(s)])
<1>4. s[Len(s)] \in S
  BY <1>2
<1> HIDE DEF front
<1>5. /\ t \in Seq(S) /\ Len(t) = Len(front) + 1
      /\ \A i \in 1..Len(front) : t[i] = front[i]
      /\ t[Len(front) + 1] = s[Len(s)]
  BY <1>3, <1>4, AppendProperties DEF front
<1> HIDE DEF t
<1>6. Len(t) = Len(s) /\ Len(front) = Len(s) - 1
  BY <1>2, <1>3, <1>5 DEF front
<1>7. ASSUME NEW i \in 1..Len(s) PROVE s[i] = t[i]
  <2>1. CASE i = Len(s)
    <3>1. Len(front) + 1 = Len(s)
      BY <1>2, <1>6
    <3> QED
      BY <1>5, <2>1, <3>1
  <2>2. CASE i # Len(s)
    <3>1. i \in 1..(Len(s) - 1)
      BY <1>2, <2>2
    <3> QED
      BY <1>3, <1>5, <1>6, <3>1 DEF front
  <2> QED
    BY <2>1, <2>2
<1>8. s = t
  BY <1>1, <1>5, <1>6, <1>7, SeqEqual
<1> QED
  BY <1>8 DEF t, front

(* dem.rs:30-47: a tag that verifies under the key of the encryption is    *)
(* the original one, and then so is the ciphertext.                        *)
LEMMA GcmSound ==
  ASSUME NEW msg, IsSequence(msg), NEW aad0, NEW key,
         NEW blob, IsSequence(blob), NEW aad,
         NoOtherTag(blob, GcmTag(key, aad0, GcmStream(key, msg))),
         Aes256GcmDecrypt(blob, aad, key).ok
  PROVE  /\ Aes256GcmDecrypt(blob, aad, key).val = msg
         /\ blob = Aes256GcmEncrypt(msg, aad0, key)
         /\ aad = aad0
<1> DEFINE stream == GcmStream(key, msg)
           original == Append(stream, GcmTag(key, aad0, stream))
           front == Front(blob)
           tag == GcmTag(key, aad, front)
           tag0 == GcmTag(key, aad0, stream)
<1>1. Aes256GcmDecrypt(blob, aad, key) =
        IF blob = <<>> \/ blob[Len(blob)] # tag THEN Err("InvalidInput")
        ELSE Ok(GcmStream(key, front))
  BY DEF Aes256GcmDecrypt, Last
<1>2. original = Aes256GcmEncrypt(msg, aad0, key)
  BY DEF Aes256GcmEncrypt
<1>4. NoOtherTag(blob, tag0)
  OBVIOUS
<1>5. ~NoTag(tag) /\ (TagOrNoisy(tag, tag0) => front = stream /\ aad = aad0)
  BY TagIsTag
<1> HIDE DEF stream, original, front, tag, tag0
<1>6. /\ blob # <<>> /\ blob[Len(blob)] = tag
      /\ Aes256GcmDecrypt(blob, aad, key).val = GcmStream(key, front)
  BY <1>1, ResultFacts
<1>7. Len(blob) \in 1..Len(blob)
  BY <1>6, EmptySeq DEF IsSequence
<1>8. TagOrNoisy(tag, tag0)
  BY <1>4, <1>5, <1>6, <1>7 DEF NoOtherTag
<1>9. front = stream /\ aad = aad0
  BY <1>5, <1>8
<1>10. blob = Append(front, tag)
  BY <1>6, LastAgain DEF front
<1>11. blob = Aes256GcmEncrypt(msg, aad0, key)
  BY <1>2, <1>9, <1>10 DEF original, tag
<1> QED
  BY <1>6, <1>9, <1>11, GcmTwice DEF stream

(* A blob without a tag verifies under no key. *)
LEMMA NoTagNoDecryption ==
  ASSUME NEW key, NEW aad, NEW blob, IsSequence(blob), \A k \in 1..Len(blob) : NoTag(blob[k])
  PROVE  ~Aes256GcmDecrypt(blob, aad, key).ok
<1>1. Aes256GcmDecrypt(blob, aad, key) =
        IF blob = <<>> \/ blob[Len(blob)] # GcmTag(key, aad, Front(blob)) THEN Err("InvalidInput")
        ELSE Ok(GcmStream(key, Front(blob)))
  BY DEF Aes256GcmDecrypt, Last
<1>2. blob # <<>> => NoTag(blob[Len(blob)])
  BY EmptySeq DEF IsSequence
<1>3. ~NoTag(GcmTag(key, aad, Front(blob)))
  BY TagIsTag
<1> QED
  BY <1>1, <1>2, <1>3, ResultFacts

LEMMA RequestFacts ==
  ASSUME NEW request \in Requests
  PROVE  /\ request.input.mode \in {"Aes256Gcm", "Hmac256Ctr", "Plain"}
         /\ request.input.data \in Seq(Text)
         /\ IsSequence(request.input.data)
         /\ IsSequence(unwrap_or_empty(request.input.aad))
<1>1. CASE request.input.aad = <<>>
  <2>1. unwrap_or_empty(request.input.aad) = <<>> /\ <<>> \in Seq(Text)
    BY <1>1 DEF unwrap_or_empty
  <2> QED
    BY <2>1, RequestAssumption DEF IsSequence
<1>2. CASE request.input.aad # <<>>
  <2>1. unwrap_or_empty(request.input.aad) \in Seq(Text)
    BY <1>2, RequestAssumption DEF unwrap_or_empty
  <2> QED
    BY <2>1, RequestAssumption DEF IsSequence
<1> QED
  BY <1>1, <1>2

(* What a ciphertext that decrypts is, and what it decrypts to. *)
SoundDecryption(c, input, key) ==
  \/ c.mode = "Plain" /\ DemDecrypt(c, key).val = <<key>>
  \/ /\ c.mode # "Plain"
     /\ c.mode = input.mode
     /\ SameCiphertext(c, DemEncrypt(input, key))
     /\ DemDecrypt(c, key).val = input.data

LEMMA DemEncryptMode ==
  ASSUME NEW input, NEW key, input.mode \in {"Aes256Gcm", "Hmac256Ctr", "Plain"}
  PROVE  DemEncrypt(input, key).mode = input.mode
BY DEF DemEncrypt

LEMMA GcmPart ==
  ASSUME NEW request \in Requests, NEW key, NEW c,
         CiphertextInv(c, DemEncrypt(request.input, key)),
         DemDecrypt(c, key).ok, c.mode = "Aes256Gcm"
  PROVE  SoundDecryption(c, request.input, key)
<1> DEFINE input == request.input
           original == DemEncrypt(input, key)
           aad == unwrap_or_empty(c.aad)
           aad0 == unwrap_or_empty(input.aad)
           tag0 == GcmTag(key, aad0, GcmStream(key, input.data))
<1>1. /\ DemDecrypt(c, key) = Aes256GcmDecrypt(c.blob, aad, key)
      /\ IsSequence(c.blob) /\ BlobInv(c.blob, original)
      /\ IsSequence(input.data)
  BY RequestFacts DEF DemDecrypt, CiphertextInv
<1>2. original.mode = input.mode
  BY DemEncryptMode, RequestFacts
<1>3. input.mode = "Aes256Gcm"
  <2> SUFFICES ASSUME input.mode # "Aes256Gcm" PROVE FALSE
    OBVIOUS
  <2> HIDE DEF original, aad, input
  <2>1. \A k \in 1..Len(c.blob) : NoTag(c.blob[k])
    BY <1>1, <1>2 DEF BlobInv
  <2> QED
    BY <1>1, <2>1, NoTagNoDecryption
<1>4. /\ original.aad = input.aad /\ original.mac = {}
      /\ original.blob = Aes256GcmEncrypt(input.data, aad0, key)
  BY <1>3 DEF DemEncrypt
<1>5. TagOf(original) = tag0
  <2> DEFINE stream == GcmStream(key, input.data)
  <2>1. IsSequence(stream)
    BY <1>1, StreamIsSequence
  <2>2. original.blob = Append(stream, tag0)
    BY <1>4 DEF Aes256GcmEncrypt
  <2> HIDE DEF stream, tag0, original
  <2>3. Len(original.blob) = Len(stream) + 1 /\ original.blob[Len(stream) + 1] = tag0
    BY <2>1, <2>2, AppendFacts
  <2> QED
    BY <2>3 DEF TagOf
<1> HIDE DEF original, aad, aad0
<1>6. NoOtherTag(c.blob, tag0)
  <2> HIDE DEF tag0, input
  <2> QED BY <1>1, <1>5 DEF BlobInv, NoOtherTag
<1>7. /\ Aes256GcmDecrypt(c.blob, aad, key).val = input.data
      /\ c.blob = Aes256GcmEncrypt(input.data, aad0, key)
      /\ aad = aad0
  <2> HIDE DEF input
  <2>1. NoOtherTag(c.blob, GcmTag(key, aad0, GcmStream(key, input.data)))
    BY <1>6 DEF tag0
  <2> QED
    BY <1>1, <2>1, GcmSound
<1>8. c.mac = original.mac
  BY <1>4 DEF CiphertextInv
<1> QED
  BY <1>1, <1>2, <1>3, <1>4, <1>7, <1>8
     DEF SoundDecryption, SameCiphertext, original, aad, aad0

LEMMA HmacPart ==
  ASSUME NEW request \in Requests, NEW key, NEW c,
         CiphertextInv(c, DemEncrypt(request.input, key)),
         DemDecrypt(c, key).ok, c.mode = "Hmac256Ctr"
  PROVE  SoundDecryption(c, request.input, key)
<1> DEFINE input == request.input
           original == DemEncrypt(input, key)
           aad == unwrap_or_empty(c.aad)
           aad0 == unwrap_or_empty(input.aad)
<1>1. /\ DemDecrypt(c, key) = Hmac256CtrDecrypt(c.blob, c.mac, aad, key)
      /\ IsSequence(c.blob) /\ IsSequence(aad) /\ MacInv(c.mac, original)
      /\ IsSequence(input.data) /\ IsSequence(aad0)
  BY RequestFacts DEF DemDecrypt, CiphertextInv
<1>2. original.mode = input.mode
  BY DemEncryptMode, RequestFacts
<1>3. input.mode = "Hmac256Ctr" /\ TagOrNoisy(c.mac, original.mac)
  <2>1. ~NoMac(c.mac)
    BY <1>1, MacIsMac
  <2> QED
    BY <1>1, <1>2, <2>1 DEF MacInv
<1>4. /\ original.aad = input.aad
      /\ original.mac = Hmac256CtrEncrypt(input.data, aad0, key).mac
      /\ original.blob = encrypt_in_ctr_mode(key, input.data)
  BY <1>3, DemEncryptFacts
<1> HIDE DEF original, aad, aad0, input
<1>5. HmacVerifies(input.data, aad0, key, c.blob, aad, c.mac)
  BY <1>1, <1>3, <1>4 DEF HmacVerifies
<1>6. /\ Hmac256CtrDecrypt(c.blob, c.mac, aad, key).val = input.data
      /\ c.blob = original.blob /\ c.mac = original.mac /\ aad = aad0
  BY <1>4, <1>5, HmacSound
<1> QED
  BY <1>1, <1>2, <1>3, <1>4, <1>6
     DEF SoundDecryption, SameCiphertext, original, aad, aad0, input

(* dem.rs:128-156: a ciphertext that decrypts, however it was damaged, is  *)
(* the one that was encrypted and decrypts to what was encrypted, unless   *)
(* it is of the Plain variant now.                                         *)
LEMMA DemSound ==
  ASSUME NEW request \in Requests, NEW key, NEW c,
         CiphertextInv(c, DemEncrypt(request.input, key)),
         DemDecrypt(c, key).ok
  PROVE  SoundDecryption(c, request.input, key)
<1>1. CASE c.mode = "Aes256Gcm"
  BY <1>1, GcmPart
<1>2. CASE c.mode = "Hmac256Ctr"
  BY <1>2, HmacPart
<1>3. CASE c.mode = "Plain"
  BY <1>3, ResultFacts DEF SoundDecryption, DemDecrypt
<1> QED
  BY <1>1, <1>2, <1>3 DEF CiphertextInv

(* A text that is xored with a key stream holds no tag. *)
LEMMA StreamHasNoTag ==
  ASSUME NEW msg \in Seq(Text), NEW key
  PROVE  /\ \A k \in 1..Len(msg) : NoTag(GcmStream(key, msg)[k])
         /\ \A k \in 1..Len(msg) : NoTag(encrypt_in_ctr_mode(key, msg)[k])
<1>1. ASSUME NEW k \in 1..Len(msg), NEW prf, NoTag(prf) PROVE NoTag(xor(msg[k], prf))
  <2>1. NoTag(msg[k])
    BY ElementOfSeq, TextAssumption DEF NoTag
  <2> QED
    BY <1>1, <2>1 DEF NoTag, xor, SymDiff
<1>2. DOMAIN msg = 1..Len(msg)
  BY LenProperties
<1>3. ASSUME NEW k \in 1..Len(msg) PROVE NoTag(GcmStream(key, msg)[k])
  <2> DEFINE prf == Opaque(<<"GCM", key, k>>)
  <2>1. GcmStream(key, msg)[k] = xor(msg[k], prf)
    BY <1>2 DEF GcmStream
  <2>2. NoTag(prf)
    BY DEF NoTag, Opaque
  <2> HIDE DEF prf
  <2> QED
    BY <1>1, <2>1, <2>2
<1>4. ASSUME NEW k \in 1..Len(msg) PROVE NoTag(encrypt_in_ctr_mode(key, msg)[k])
  <2> DEFINE prf == PrfByte(key, (k - 1) \div KEY_SIZE, (k - 1) % KEY_SIZE)
  <2>1. encrypt_in_ctr_mode(key, msg)[k] = xor(msg[k], prf)
    BY <1>2 DEF encrypt_in_ctr_mode
  <2>2. NoTag(prf)
    BY DEF NoTag, Opaque, PrfByte
  <2> HIDE DEF prf
  <2> QED
    BY <1>1, <2>1, <2>2
<1> QED
  BY <1>3, <1>4

LEMMA CtrLength ==
  ASSUME NEW msg \in Seq(Text), NEW key
  PROVE  Len(encrypt_in_ctr_mode(key, msg)) = Len(msg)
<1>1. Len(msg) \in Nat /\ DOMAIN msg = 1..Len(msg)
  BY LenProperties
<1>2. DOMAIN encrypt_in_ctr_mode(key, msg) = 1..Len(msg)
  BY <1>1 DEF encrypt_in_ctr_mode
<1> QED
  BY <1>1, <1>2, LenDomain

(* A fresh blob holds no tag but in its last place. *)
LEMMA FreshBlob ==
  ASSUME NEW msg \in Seq(Text), NEW aad, NEW key, NEW c,
         c.mode = "Aes256Gcm", c.blob = Aes256GcmEncrypt(msg, aad, key)
  PROVE  IsSequence(c.blob) /\ BlobInv(c.blob, c)
<1> DEFINE stream == GcmStream(key, msg)
           tag == GcmTag(key, aad, stream)
<1>1. c.blob = Append(stream, tag)
  BY DEF Aes256GcmEncrypt
<1>2. IsSequence(stream) /\ Len(stream) = Len(msg) /\ Len(msg) \in Nat
  BY StreamIsSequence, LenProperties DEF IsSequence
<1>3. \A k \in 1..Len(msg) : NoTag(stream[k])
  BY StreamHasNoTag
<1> HIDE DEF stream, tag
<1>4. /\ IsSequence(c.blob) /\ Len(c.blob) = Len(stream) + 1
      /\ \A k \in 1..Len(stream) : c.blob[k] = stream[k]
      /\ c.blob[Len(stream) + 1] = tag
  BY <1>1, <1>2, AppendFacts
<1>5. TagOf(c) = tag
  BY <1>4 DEF TagOf
<1>6. ASSUME NEW k \in 1..Len(c.blob)
      PROVE  NoTag(c.blob[k]) \/ TagOrNoisy(c.blob[k], TagOf(c))
  <2>1. CASE k \in 1..Len(msg)
    BY <1>2, <1>3, <1>4, <2>1
  <2>2. CASE k \notin 1..Len(msg)
    <3>1. k = Len(stream) + 1
      BY <1>2, <1>4, <2>2
    <3> QED
      BY <1>4, <1>5, <3>1 DEF TagOrNoisy
  <2> QED
    BY <2>1, <2>2
<1> QED
  BY <1>4, <1>6 DEF BlobInv

LEMMA FreshCiphertext ==
  ASSUME NEW request \in Requests, NEW key
  PROVE  CiphertextInv(DemEncrypt(request.input, key), DemEncrypt(request.input, key))
<1> DEFINE input == request.input
           c == DemEncrypt(input, key)
<1>0. /\ input.mode \in {"Aes256Gcm", "Hmac256Ctr", "Plain"} /\ c.mode = input.mode
      /\ IsSequence(unwrap_or_empty(input.aad)) /\ input.data \in Seq(Text)
      /\ IsSequence(input.data)
  BY RequestFacts, DemEncryptMode
<1>1. CASE input.mode = "Aes256Gcm"
  <2>1. c.aad = input.aad /\ c.mac = {}
        /\ c.blob = Aes256GcmEncrypt(input.data, unwrap_or_empty(input.aad), key)
    BY <1>1 DEF DemEncrypt
  <2> HIDE DEF c, input
  <2>2. IsSequence(c.blob) /\ BlobInv(c.blob, c)
    BY <1>0, <1>1, <2>1, FreshBlob
  <2>3. MacInv(c.mac, c)
    BY <2>1, NoiseHasNoTag DEF MacInv
  <2> QED
    BY <1>0, <2>1, <2>2, <2>3 DEF CiphertextInv, c, input
<1>2. CASE input.mode = "Hmac256Ctr"
  <2>1. c.aad = input.aad /\ c.blob = encrypt_in_ctr_mode(key, input.data)
    BY <1>2, DemEncryptFacts
  <2> HIDE DEF c, input
  <2>2. IsSequence(c.blob) /\ BlobInv(c.blob, c)
    BY <1>0, <2>1, StreamIsSequence, StreamHasNoTag, CtrLength DEF BlobInv
  <2>3. MacInv(c.mac, c)
    BY <1>0, <1>2 DEF MacInv, TagOrNoisy
  <2>4. CiphertextInv(c, c)
    BY <1>0, <1>2, <2>1, <2>2, <2>3 DEF CiphertextInv
  <2> QED
    BY <2>4 DEF c, input
<1>3. CASE input.mode = "Plain"
  <2>1. c.aad = <<>> /\ c.blob = <<>> /\ c.mac = {}
    BY <1>3 DEF DemEncrypt
  <2> HIDE DEF c, input
  <2>2. IsSequence(c.blob) /\ BlobInv(c.blob, c)
    BY <2>1, EmptySeq DEF IsSequence, BlobInv
  <2>3. MacInv(c.mac, c)
    BY <2>1, NoiseHasNoTag DEF MacInv
  <2>4. IsSequence(unwrap_or_empty(c.aad))
    BY <2>1, AadSequences
  <2>5. CiphertextInv(c, c)
    BY <1>0, <2>1, <2>2, <2>3, <2>4 DEF CiphertextInv
  <2> QED
    BY <2>5 DEF c, input
<1> QED
  BY <1>0, <1>1, <1>2, <1>3

-----------------------------------------------------------------------------
(* What a successful decryption returns.                                   *)

(* What the damages leave of an object: the randomness has noise or has    *)
(* not, and the ciphertext is as above. All other fields may be anything.  *)
ObjectInv(eo, original) ==
  /\ eo.encrypted_randomness \in {original.encrypted_randomness,
                                  xor(original.encrypted_randomness, Noise)}
  /\ CiphertextInv(eo.ciphertext, original.ciphertext)

SoundInv ==
  /\ TypeInv
  /\ \A object \in StoredObjects : ObjectInv(object.eo, Original(object))
  /\ \A call \in opened :
       /\ call.user_secret_keys \in Holdings
       /\ call.result = py_seal_decrypt(call.object.eo, call.user_secret_keys, call.public_keys)

LEMMA FreshObject ==
  ASSUME NEW eo, NEW seed, NEW request \in Requests, Assembled(eo, seed, request)
  PROVE  ObjectInv(eo, eo)
<1>1. PICK key : eo.ciphertext = DemEncrypt(request.input, key)
  BY DEF Assembled, Assemble
<1> QED
  BY <1>1, FreshCiphertext DEF ObjectInv

LEMMA DamagedObject ==
  ASSUME NEW eo, NEW original, ObjectInv(eo, original), NEW d \in DamagedObjects(eo)
  PROVE  ObjectInv(d, original)
<1>1. CASE \E v : \/ d = [eo EXCEPT !.version = v]
                 \/ d = [eo EXCEPT !.package_id = v]
                 \/ d = [eo EXCEPT !.id = v]
                 \/ d = [eo EXCEPT !.nonce = v]
                 \/ d = [eo EXCEPT !.threshold = v]
                 \/ d = [eo EXCEPT !.services = v]
                 \/ d = [eo EXCEPT !.encrypted_shares = v]
  <2> PICK v : \/ d = [eo EXCEPT !.version = v]
               \/ d = [eo EXCEPT !.package_id = v]
               \/ d = [eo EXCEPT !.id = v]
               \/ d = [eo EXCEPT !.nonce = v]
               \/ d = [eo EXCEPT !.threshold = v]
               \/ d = [eo EXCEPT !.services = v]
               \/ d = [eo EXCEPT !.encrypted_shares = v]
    BY <1>1
  <2>1. d.encrypted_randomness = eo.encrypted_randomness /\ d.ciphertext = eo.ciphertext
    <3>1. CASE d = [eo EXCEPT !.version = v]
      BY <3>1
    <3>2. CASE d = [eo EXCEPT !.package_id = v]
      BY <3>2
    <3>3. CASE d = [eo EXCEPT !.id = v]
      BY <3>3
    <3>4. CASE d = [eo EXCEPT !.nonce = v]
      BY <3>4
    <3>5. CASE d = [eo EXCEPT !.threshold = v]
      BY <3>5
    <3>6. CASE d = [eo EXCEPT !.services = v]
      BY <3>6
    <3>7. CASE d = [eo EXCEPT !.encrypted_shares = v]
      BY <3>7
    <3> QED
      BY <3>1, <3>2, <3>3, <3>4, <3>5, <3>6, <3>7
  <2> QED
    BY <2>1 DEF ObjectInv
<1>2. CASE d = [eo EXCEPT !.encrypted_randomness = xor(@, Noise)]
  <2>1. /\ d.encrypted_randomness = xor(eo.encrypted_randomness, Noise)
        /\ d.ciphertext = eo.ciphertext
    BY <1>2
  <2> QED
    BY <2>1, XorTwice DEF ObjectInv
<1>3. CASE \E c \in DamagedCiphertexts(eo.ciphertext) : d = [eo EXCEPT !.ciphertext = c]
  <2>1. /\ d.encrypted_randomness = eo.encrypted_randomness
        /\ d.ciphertext \in DamagedCiphertexts(eo.ciphertext)
    BY <1>3
  <2> QED
    BY <2>1, DamagedCiphertext DEF ObjectInv
<1> QED
  BY <1>1, <1>2, <1>3, Zenon DEF DamagedObjects

LEMMA SoundInvInit == Init => SoundInv
BY TypeInvInit DEF Init, SoundInv, StoredObjects

LEMMA RecordKeepsSoundInv ==
  ASSUME SoundInv, TypeInv',
         NEW request \in Requests, NEW result, NEW honest,
         result.ok => Assembled(result.val.eo, NextSeed, request),
         Record(request, result, honest)
  PROVE  SoundInv'
<1> DEFINE call == [request |-> request, result |-> result, honest |-> honest]
<1>1. IsSequence(sealed) /\ Len(sealed) \in Nat
  BY SequenceFacts DEF SoundInv, TypeInv
<1>2. /\ \A n \in 1..Len(sealed) : sealed'[n] = sealed[n]
      /\ sealed'[NextSeed] = call
  BY <1>1, AppendFacts DEF Record, NextSeed
<1>3. opened' = opened
  BY DEF Record
<1>4. ASSUME NEW object \in StoredObjects' PROVE ObjectInv(object.eo, Original(object)')
  <2>1. CASE object \in StoredObjects
    <3>1. object.seed \in 1..Len(sealed)
      BY <2>1 DEF SoundInv, TypeInv
    <3>2. Original(object)' = Original(object)
      BY <1>2, <3>1 DEF Original
    <3> QED
      BY <2>1, <3>2 DEF SoundInv
  <2>2. CASE object \notin StoredObjects
    <3>1. result.ok /\ object = [eo |-> result.val.eo, seed |-> NextSeed]
      BY <1>3, <2>2 DEF Record, StoredObjects
    <3>2. Original(object)' = result.val.eo
      BY <1>2, <3>1 DEF Original
    <3> QED
      BY <3>1, <3>2, FreshObject
  <2> QED
    BY <2>1, <2>2
<1> QED
  BY <1>3, <1>4 DEF SoundInv

LEMMA SoundInvNext == SoundInv /\ [Next]_vars => SoundInv'
<1> SUFFICES ASSUME SoundInv, [Next]_vars PROVE SoundInv'
  OBVIOUS
<1>0. TypeInv'
  BY TypeInvNext DEF SoundInv
<1>1. CASE \E request \in Requests : Encrypt(request)
  <2> PICK request \in Requests : Encrypt(request)
    BY <1>1
  <2> DEFINE result == py_seal_encrypt(NextSeed, request)
  <2>1. result.ok => Assembled(result.val.eo, NextSeed, request)
    BY EncryptMakes
  <2>2. Record(request, result, TRUE)
    BY DEF Encrypt
  <2> HIDE DEF result
  <2> QED
    BY <1>0, <2>1, <2>2, RecordKeepsSoundInv
<1>2. CASE \E request \in Requests : EncryptModifiedShare(request)
  <2> PICK request \in Requests : EncryptModifiedShare(request)
    BY <1>2
  <2> DEFINE result == encrypt_and_modify_first_share(NextSeed, request)
  <2>1. result.ok => Assembled(result.val.eo, NextSeed, request)
    BY ModifyMakes
  <2>2. Record(request, result, FALSE)
    BY DEF EncryptModifiedShare
  <2> HIDE DEF result
  <2> QED
    BY <1>0, <2>1, <2>2, RecordKeepsSoundInv
<1>3. CASE \E request \in Requests : EncryptSharedForOther(request)
  <2> PICK request \in Requests : EncryptSharedForOther(request)
    BY <1>3
  <2>1. PICK t : Record(request, encrypt_shared_for(t, NextSeed, request), FALSE)
    BY DEF EncryptSharedForOther
  <2> DEFINE result == encrypt_shared_for(t, NextSeed, request)
  <2>2. result.ok => Assembled(result.val.eo, NextSeed, request)
    BY SharedForMakes
  <2>3. Record(request, result, FALSE)
    BY <2>1 DEF EncryptSharedForOther
  <2> HIDE DEF result
  <2> QED
    BY <1>0, <2>2, <2>3, RecordKeepsSoundInv
<1>4. CASE \E object \in objects : Damage(object)
  <2> PICK object \in objects : Damage(object)
    BY <1>4
  <2>1. PICK eo \in DamagedObjects(object.eo) :
          objects' = (objects \ {object}) \cup {[object EXCEPT !.eo = eo]}
    BY DEF Damage
  <2>2. UNCHANGED <<sealed, opened>>
    BY DEF Damage
  <2> DEFINE damaged == [object EXCEPT !.eo = eo]
  <2>3. damaged.seed = object.seed /\ damaged.eo = eo
    OBVIOUS
  <2>4. \A other \in StoredObjects' : other \in StoredObjects \/ other = damaged
    BY <2>1, <2>2 DEF StoredObjects
  <2> HIDE DEF damaged
  <2>5. ObjectInv(object.eo, Original(object))
    BY DEF SoundInv, StoredObjects
  <2>6. ObjectInv(damaged.eo, Original(damaged))
    BY <2>3, <2>5, DamagedObject DEF Original
  <2>7. \A other : Original(other)' = Original(other)
    BY <2>2 DEF Original
  <2> QED
    BY <1>0, <2>2, <2>4, <2>6, <2>7 DEF SoundInv
<1>5. CASE \E object \in objects, usks \in Holdings, pks \in PublicKeyLists :
             Decrypt(object, usks, pks)
  <2> PICK object \in objects, usks \in Holdings, pks \in PublicKeyLists :
             Decrypt(object, usks, pks)
    BY <1>5
  <2> DEFINE result == py_seal_decrypt(object.eo, usks, pks)
             call == [object |-> object, user_secret_keys |-> usks, public_keys |-> pks,
                      result |-> result]
  <2>1. opened' = opened \cup {call} /\ UNCHANGED <<sealed, objects, damages>>
    BY DEF Decrypt
  <2>2. call.object = object /\ call.user_secret_keys = usks
        /\ call.public_keys = pks /\ call.result = result
    OBVIOUS
  <2> HIDE DEF call
  <2>3. StoredObjects' = StoredObjects
    BY <2>1, <2>2 DEF StoredObjects
  <2>4. \A other : Original(other)' = Original(other)
    BY <2>1 DEF Original
  <2>5. \A other \in opened' :
          /\ other.user_secret_keys \in Holdings
          /\ other.result =
               py_seal_decrypt(other.object.eo, other.user_secret_keys, other.public_keys)
    BY <2>1, <2>2 DEF SoundInv
  <2> QED
    BY <1>0, <2>3, <2>4, <2>5 DEF SoundInv
<1>6. CASE UNCHANGED vars
  <2>1. StoredObjects' = StoredObjects /\ opened' = opened
    BY <1>6 DEF vars, StoredObjects
  <2>2. \A other : Original(other)' = Original(other)
    BY <1>6 DEF vars, Original
  <2> QED
    BY <1>0, <2>1, <2>2 DEF SoundInv
<1> QED
  BY <1>1, <1>2, <1>3, <1>4, <1>5, <1>6 DEF Next

LEMMA SoundInvImpliesDecryptSound == SoundInv => DecryptSound
<1> SUFFICES ASSUME SoundInv, NEW call \in opened, call.result.ok
             PROVE  LET mode == call.object.eo.ciphertext.mode
                        input == Request(call.object).input
                    IN  \/ mode = "Plain" /\ call.result.val = <<DemKey(call.object)>>
                        \/ mode # "Plain" /\ mode = input.mode /\ call.result.val = input.data
  BY DEF DecryptSound
<1> DEFINE object == call.object
           eo == object.eo
           original == Original(object)
           request == Request(object)
           usks == HashMap(call.user_secret_keys)
<1>1. object \in StoredObjects
  BY DEF StoredObjects
<1>2. ObjectInv(eo, original)
  BY <1>1 DEF SoundInv
<1>3. request \in Requests /\ Assembled(original, object.seed, request)
  BY <1>1 DEF SoundInv, TypeInv, SealedCall, Request, Original
<1>4. call.result = seal_decrypt(eo, usks, call.public_keys)
  BY DEF SoundInv, py_seal_decrypt
<1>5. original.ciphertext = DemEncrypt(request.input, DemKey(object))
  BY <1>3 DEF Assembled, Assemble, DemKey
<1> HIDE DEF object, eo, original, request, usks
<1>6. PICK base_key :
        /\ VerifiedRandomness(eo, base_key).ok
        /\ call.result = DemDecrypt(eo.ciphertext,
                                    derive_key("DEM", base_key, eo.encrypted_shares,
                                               eo.threshold, ServerIds(eo.services)))
  BY <1>4, DecryptUsesVerifiedKey
<1>7. /\ base_key = BaseKey(object.seed)
      /\ eo.encrypted_shares = original.encrypted_shares
      /\ eo.threshold = request.threshold
      /\ ServerIds(eo.services) = request.key_servers
  BY <1>2, <1>3, <1>6, BaseKeyBound DEF ObjectInv
<1>8. call.result = DemDecrypt(eo.ciphertext, DemKey(object))
  BY <1>6, <1>7 DEF DemKey, original, request
<1>9. CiphertextInv(eo.ciphertext, DemEncrypt(request.input, DemKey(object)))
  BY <1>2, <1>5 DEF ObjectInv
<1>10. SoundDecryption(eo.ciphertext, request.input, DemKey(object))
  BY <1>3, <1>8, <1>9, DemSound
<1> QED
  BY <1>8, <1>10 DEF SoundDecryption, request, eo, object

(* core.rs:185-272 and dem.rs:128-156: whatever is damaged and whichever   *)
(* keys are passed, a successful seal_decrypt returns what was sealed, or  *)
(* the derived key if the ciphertext is of the Plain variant now.          *)
THEOREM DecryptIsSound == Spec => []DecryptSound
<1>1. Spec => []SoundInv
  BY SoundInvInit, SoundInvNext, PTL DEF Spec
<1> QED
  BY <1>1, SoundInvImpliesDecryptSound, PTL

(* What the check of the base key says of an object that opens.            *)
LEMMA OpenedObject ==
  ASSUME SoundInv, NEW call \in opened, call.result.ok
  PROVE  LET object == call.object
             eo == object.eo
         IN  /\ object.seed \in 1..Len(sealed)
             /\ sealed[object.seed].result.ok
             /\ Assembled(Original(object), object.seed, Request(object))
             /\ eo.version = 0
             /\ HoldsEnough(eo, HashMap(call.user_secret_keys))
             /\ eo.threshold = Request(object).threshold
             /\ eo.encrypted_shares = Original(object).encrypted_shares
             /\ ServerIds(eo.services) = Request(object).key_servers
             /\ eo.nonce = Original(object).nonce
             /\ eo.encrypted_randomness = Original(object).encrypted_randomness
<1> DEFINE object == call.object
           eo == object.eo
           usks == HashMap(call.user_secret_keys)
<1>1. object \in StoredObjects
  BY DEF StoredObjects
<1>2. ObjectInv(eo, Original(object))
  BY <1>1 DEF SoundInv
<1>3. /\ object.seed \in 1..Len(sealed)
      /\ sealed[object.seed].result.ok
      /\ Assembled(Original(object), object.seed, Request(object))
  BY <1>1 DEF SoundInv, TypeInv, SealedCall, Request, Original
<1>4. call.result = seal_decrypt(eo, usks, call.public_keys)
  BY DEF SoundInv, py_seal_decrypt
<1> HIDE DEF object, eo, usks
<1>5. /\ eo.version = 0 /\ HoldsEnough(eo, usks)
      /\ \E base_key : VerifiedRandomness(eo, base_key).ok
  BY <1>4, DecryptUsesVerifiedKey
<1>6. /\ eo.threshold = Request(object).threshold
      /\ eo.encrypted_shares = Original(object).encrypted_shares
      /\ ServerIds(eo.services) = Request(object).key_servers
      /\ eo.nonce = Original(object).nonce
      /\ eo.encrypted_randomness = Original(object).encrypted_randomness
  BY <1>2, <1>3, <1>5, BaseKeyBound DEF ObjectInv
<1> QED
  BY <1>3, <1>5, <1>6 DEF object, eo, usks

LEMMA SoundInvImpliesBoundFields == SoundInv => BoundFieldsIntact
<1> SUFFICES ASSUME SoundInv, NEW call \in opened, call.result.ok
             PROVE  LET eo == call.object.eo
                        original == Original(call.object)
                    IN  /\ eo.version = original.version
                        /\ eo.threshold = original.threshold
                        /\ eo.encrypted_shares = original.encrypted_shares
                        /\ ServerIds(eo.services) = Request(call.object).key_servers
                        /\ eo.nonce = original.nonce
                        /\ eo.encrypted_randomness = original.encrypted_randomness
  BY DEF BoundFieldsIntact
<1>1. /\ Original(call.object).version = 0
      /\ Original(call.object).threshold = Request(call.object).threshold
  <2>1. Assembled(Original(call.object), call.object.seed, Request(call.object))
    BY OpenedObject
  <2>2. PICK services, shares :
          Original(call.object) = Assemble(call.object.seed, Request(call.object), services,
                                           Generator * call.object.seed, shares)
    BY <2>1 DEF Assembled
  <2> QED
    BY <2>2 DEF Assemble
<1> QED
  BY <1>1, OpenedObject

(* core.rs:305-317: an object of which any field that the keys are derived *)
(* from was altered does not open.                                         *)
THEOREM BoundFieldsAreIntact == Spec => []BoundFieldsIntact
<1>1. Spec => []SoundInv
  BY SoundInvInit, SoundInvNext, PTL DEF Spec
<1> QED
  BY <1>1, SoundInvImpliesBoundFields, PTL

-----------------------------------------------------------------------------
(* The keys that count in a list, and the places that they are for.        *)

(* A set of numbers up to a bound has a greatest element. *)
LEMMA GreatestElement ==
  ASSUME NEW n \in Nat, NEW S \in SUBSET (1..n), S # {}
  PROVE  Max(S) \in S /\ \A y \in S : Max(S) >= y
<1> DEFINE T == {n - x : x \in S}
<1>1. T \in SUBSET Nat /\ T # {}
  <2>1. \A x \in S : x \in 1..n
    OBVIOUS
  <2>2. \A x \in 1..n : n - x \in Nat
    OBVIOUS
  <2>3. \A x \in S : n - x \in Nat
    BY <2>1, <2>2
  <2>4. T \subseteq Nat
    BY <2>3
  <2>5. PICK x \in S : TRUE
    OBVIOUS
  <2>6. n - x \in T
    OBVIOUS
  <2> QED
    BY <2>4, <2>6
<1> HIDE DEF T
<1>2. PICK m \in T : \A k \in T : m <= k
  BY <1>1, LeastElement
<1>3. PICK x \in S : m = n - x
  BY <1>2 DEF T
<1>4. \A y \in S : n - y \in T
  BY DEF T
<1>5. \A y \in S : x >= y
  BY <1>2, <1>3, <1>4
<1> QED
  BY <1>3, <1>5 DEF Max

(* The pairs that count in a list of keys are those of its HashMap.        *)
LEMMA LastPairsAreMap ==
  ASSUME NEW call, call.user_secret_keys \in Holdings
  PROVE  LET map == HashMap(call.user_secret_keys)
         IN  /\ \A s \in DOMAIN map : map[s] \in Nat /\ <<s, map[s]>> \in LastPairs(call)
             /\ \A pair \in LastPairs(call) :
                  pair[1] \in DOMAIN map /\ pair = <<pair[1], map[pair[1]]>>
<1> DEFINE pairs == call.user_secret_keys
           map == HashMap(pairs)
           D == (DOMAIN MasterKey) \X Nat
           Places(s) == {k \in DOMAIN pairs : pairs[k][1] = s}
           IsLast(i) == \A j \in DOMAIN pairs : j > i => pairs[j][1] # pairs[i][1]
<1>1. pairs \in Seq(D)
  BY HoldingsAssumption
<1>2. \A e \in D : e = <<e[1], e[2]>> /\ e[2] \in Nat
  OBVIOUS
<1> HIDE DEF D
<1>3. /\ Len(pairs) \in Nat /\ DOMAIN pairs = 1..Len(pairs)
      /\ \A k \in DOMAIN pairs : pairs[k] = <<pairs[k][1], pairs[k][2]>> /\ pairs[k][2] \in Nat
  BY <1>1, <1>2
<1>4. /\ DOMAIN map = {pairs[k][1] : k \in DOMAIN pairs}
      /\ \A s \in DOMAIN map : map[s] = pairs[Max(Places(s))][2]
  BY DEF HashMap
<1>5. LastPairs(call) = {pairs[k] : k \in {i \in DOMAIN pairs : IsLast(i)}}
  BY DEF LastPairs
<1>6. \A s : Places(s) \in SUBSET (1..Len(pairs))
  BY <1>3
<1> HIDE DEF map
<1>7. ASSUME NEW s \in DOMAIN map PROVE map[s] \in Nat /\ <<s, map[s]>> \in LastPairs(call)
  <2>1. Places(s) # {}
    BY <1>4
  <2>2. PICK m : m = Max(Places(s))
    OBVIOUS
  <2>3. m \in Places(s) /\ \A y \in Places(s) : m >= y
    <3>1. Max(Places(s)) \in Places(s) /\ \A y \in Places(s) : Max(Places(s)) >= y
      BY <1>3, <1>6, <2>1, GreatestElement
    <3> QED
      BY <2>2, <3>1
  <2>4. m \in DOMAIN pairs /\ pairs[m][1] = s /\ map[s] = pairs[m][2]
    BY <1>4, <2>2, <2>3
  <2>5. IsLast(m)
    <3> SUFFICES ASSUME NEW j \in DOMAIN pairs, j > m, pairs[j][1] = pairs[m][1] PROVE FALSE
      OBVIOUS
    <3>1. m >= j
      BY <2>3, <2>4
    <3>2. m \in Nat /\ j \in Nat
      BY <1>3, <2>4
    <3> QED
      BY <3>1, <3>2
  <2>6. pairs[m] = <<s, map[s]>> /\ map[s] \in Nat
    BY <1>3, <2>4
  <2>7. pairs[m] \in LastPairs(call)
    BY <1>5, <2>4, <2>5
  <2> QED
    BY <2>6, <2>7
<1>8. ASSUME NEW pair \in LastPairs(call)
      PROVE  pair[1] \in DOMAIN map /\ pair = <<pair[1], map[pair[1]]>>
  <2>1. PICK k \in DOMAIN pairs : IsLast(k) /\ pair = pairs[k]
    BY <1>5
  <2>2. k \in Places(pair[1])
    BY <2>1
  <2>3. PICK m : m = Max(Places(pair[1]))
    OBVIOUS
  <2>4. m \in Places(pair[1]) /\ m >= k
    <3>1. /\ Max(Places(pair[1])) \in Places(pair[1])
          /\ \A y \in Places(pair[1]) : Max(Places(pair[1])) >= y
      BY <1>3, <1>6, <2>2, GreatestElement
    <3> QED
      BY <2>2, <2>3, <3>1
  <2>5. m \in DOMAIN pairs /\ pairs[m][1] = pairs[k][1] /\ m \in Nat /\ k \in Nat
    BY <1>3, <2>1, <2>4
  <2>6. m = k
    BY <2>1, <2>4, <2>5
  <2>7. pair[1] \in DOMAIN map
    BY <1>4, <2>1
  <2>8. map[pair[1]] = pair[2]
    BY <1>4, <2>1, <2>3, <2>6, <2>7
  <2> QED
    BY <1>3, <2>1, <2>7, <2>8
<1> QED
  BY <1>7, <1>8 DEF map

LEMMA HashMapKeys ==
  ASSUME SoundInv, NEW call \in opened, NEW s \in DOMAIN HashMap(call.user_secret_keys)
  PROVE  HashMap(call.user_secret_keys)[s] \in Nat
BY LastPairsAreMap DEF SoundInv

LEMMA HeldIs ==
  ASSUME SoundInv, NEW call \in opened
  PROVE  Held(call) = HeldPlaces(call.object.eo, HashMap(call.user_secret_keys))
<1> DEFINE map == HashMap(call.user_secret_keys)
<1>1. /\ \A s \in DOMAIN map : <<s, map[s]>> \in LastPairs(call)
      /\ \A pair \in LastPairs(call) : pair[1] \in DOMAIN map
  BY LastPairsAreMap DEF SoundInv
<1> HIDE DEF map
<1>2. \A s : s \in DOMAIN map <=> \E pair \in LastPairs(call) : pair[1] = s
  <2>1. \A s : <<s, map[s]>>[1] = s
    OBVIOUS
  <2> QED
    BY <1>1, <2>1
<1> QED
  BY <1>2 DEF Held, HeldPlaces, map

LEMMA SoundInvImpliesEnoughKeys == SoundInv => EnoughKeys
BY OpenedObject, HeldIs DEF EnoughKeys, HoldsEnough

(* core.rs:227-229: who has fewer keys than the threshold that the object  *)
(* was sealed for does not open it, whatever was done to the object.       *)
THEOREM EnoughKeysNeeded == Spec => []EnoughKeys
<1>1. Spec => []SoundInv
  BY SoundInvInit, SoundInvNext, PTL DEF Spec
<1> QED
  BY <1>1, SoundInvImpliesEnoughKeys, PTL

-----------------------------------------------------------------------------
(* The library implements the vault.                                       *)

PutsAreCalls ==
  IsSequence(Puts) /\ Len(Puts) = Len(sealed) /\ DOMAIN Puts = 1..Len(sealed)

(* What is put: the calls of seal_encrypt, in their order. *)
LEMMA PutsFacts == TypeInv => PutsAreCalls
<1> SUFFICES ASSUME TypeInv PROVE PutsAreCalls
  OBVIOUS
<1>1. Len(sealed) \in Nat /\ DOMAIN sealed = 1..Len(sealed)
  BY SequenceFacts DEF TypeInv
<1>2. DOMAIN Puts = 1..Len(sealed)
  BY <1>1 DEF Puts
<1>3. Len(Puts) = Len(sealed)
  BY <1>1, <1>2, LenDomain
<1>4. Puts = [n \in 1..Len(sealed) |-> Puts[n]]
  BY <1>1 DEF Puts
<1>5. Puts \in [1..Len(sealed) -> {Puts[n] : n \in 1..Len(sealed)}]
  BY <1>4
<1>6. Puts \in Seq({Puts[n] : n \in 1..Len(sealed)})
  BY <1>1, <1>5, SeqDef
<1> QED
  BY <1>2, <1>3, <1>6 DEF IsSequence, PutsAreCalls

LEMMA PutsFactsNext == TypeInv' => PutsAreCalls'
BY PutsFacts, PTL

(* A call of seal_encrypt puts one thing, and changes nothing else.        *)
LEMMA RecordPuts ==
  ASSUME TypeInv, TypeInv', NEW request, NEW result, NEW honest,
         Record(request, result, honest)
  PROVE  V!Put
<1> DEFINE put(n) ==
             IF sealed[n].result.ok
             THEN <<[payload   |-> sealed[n].request.input.data,
                     key       |-> <<DemKey([seed |-> n])>>,
                     threshold |-> sealed[n].request.threshold]>>
             ELSE <<>>
<1>1. IsSequence(sealed) /\ Len(sealed) \in Nat
  BY SequenceFacts DEF TypeInv
<1>2. /\ Len(sealed') = Len(sealed) + 1
      /\ \A n \in 1..Len(sealed) : sealed'[n] = sealed[n]
  BY <1>1, AppendFacts DEF Record
<1>3. /\ IsSequence(Puts) /\ Len(Puts) = Len(sealed) /\ DOMAIN Puts = 1..Len(sealed)
      /\ IsSequence(Puts') /\ Len(Puts') = Len(sealed') /\ DOMAIN Puts' = 1..Len(sealed')
  BY PutsFacts, PutsFactsNext DEF PutsAreCalls
<1>4. ASSUME NEW n \in 1..Len(sealed) PROVE Puts'[n] = Puts[n]
  <2>1. DemKey([seed |-> n])' = DemKey([seed |-> n])
    <3>1. sealed'[n] = sealed[n]
      BY <1>2
    <3> QED
      BY <3>1 DEF DemKey, Request, Original
  <2>2. put(n)' = put(n)
    <3>1. sealed'[n] = sealed[n]
      BY <1>2
    <3> QED
      BY <2>1, <3>1
  <2>3. n \in DOMAIN sealed /\ n \in DOMAIN sealed'
    BY <1>1, <1>2, SequenceFacts DEF TypeInv
  <2>4. Puts[n] = put(n) /\ Puts'[n] = put(n)'
    BY <2>3 DEF Puts
  <2> QED
    BY <2>2, <2>4
<1>5. Puts' # <<>>
  BY <1>1, <1>2, <1>3, EmptySeq
<1>6. Puts' = Append(Puts, Puts'[Len(Puts')])
  <2> DEFINE last == Puts'[Len(Puts')]
             longer == Append(Puts, last)
  <2>1. /\ IsSequence(longer)
        /\ Len(longer) = Len(Puts) + 1
        /\ \A n \in 1..Len(Puts) : longer[n] = Puts[n]
        /\ longer[Len(Puts) + 1] = last
    BY <1>3, AppendFacts
  <2>2. Len(longer) = Len(Puts')
    BY <1>2, <1>3, <2>1
  <2>3. \A n \in 1..Len(Puts') : longer[n] = Puts'[n]
    BY <1>1, <1>2, <1>3, <1>4, <2>1
  <2> HIDE DEF longer
  <2>4. PICK S : Puts' \in Seq(S)
    BY <1>3 DEF IsSequence
  <2>5. PICK T : longer \in Seq(T)
    BY <2>1 DEF IsSequence
  <2>6. Puts' \in Seq(S \cup T) /\ longer \in Seq(S \cup T)
    BY <2>4, <2>5, SeqMonotonic
  <2>7. longer = Puts'
    BY <2>2, <2>3, <2>6, SeqEqual
  <2> QED
    BY <2>7 DEF longer
<1>7. {GetOf(call) : call \in opened}' = {GetOf(call) : call \in opened}
  BY DEF Record, GetOf, Held, LastPairs
<1> QED
  BY <1>5, <1>6, <1>7 DEF V!Put

LEMMA SoundImpliesNext == SoundInv' => (DecryptSound /\ EnoughKeys)'
BY SoundInvImpliesDecryptSound, SoundInvImpliesEnoughKeys, PTL

(* A call of seal_decrypt is a get of what its object was made from.       *)
LEMMA DecryptGets ==
  ASSUME SoundInv, SoundInv', NEW object \in objects, NEW usks, NEW pks,
         Decrypt(object, usks, pks)
  PROVE  V!Get
<1> DEFINE call == [object |-> object, user_secret_keys |-> usks, public_keys |-> pks,
                    result |-> py_seal_decrypt(object.eo, usks, pks)]
           get == GetOf(call)
           gets == {GetOf(other) : other \in opened}
<1>1. opened' = opened \cup {call} /\ sealed' = sealed
  BY DEF Decrypt
<1>2. call.object = object
  OBVIOUS
<1>3. /\ object.seed \in 1..Len(sealed)
      /\ sealed[object.seed].result.ok
  BY DEF SoundInv, TypeInv, StoredObjects
<1>4. /\ get.put = object.seed
      /\ get.held = Cardinality(Held(call))
      /\ get.answer = IF call.result.ok THEN <<call.result.val>> ELSE <<>>
  BY <1>2 DEF GetOf
<1>5. /\ DOMAIN Puts = 1..Len(sealed)
      /\ Puts[object.seed] = <<[payload   |-> Request(object).input.data,
                                key       |-> <<DemKey([seed |-> object.seed])>>,
                                threshold |-> Request(object).threshold]>>
  <2>1. object.seed \in DOMAIN sealed
    BY <1>3, SequenceFacts DEF SoundInv, TypeInv
  <2> QED
    BY <1>3, <2>1, PutsFacts DEF SoundInv, PutsAreCalls, Puts, Request
<1>6. DemKey([seed |-> object.seed]) = DemKey(object)
  BY DEF DemKey, Request, Original
<1>7. call.result.ok =>
        /\ Cardinality(Held(call)) >= Request(object).threshold
        /\ call.result.val \in {Request(object).input.data, <<DemKey(object)>>}
  <2>1. call \in opened'
    BY <1>1
  <2>2. (DecryptSound /\ EnoughKeys)'
    BY SoundImpliesNext
  <2>3. /\ DemKey(object)' = DemKey(object)
        /\ Request(object)' = Request(object)
    BY <1>1 DEF DemKey, Request, Original
  <2> HIDE DEF call
  <2> QED
    BY <1>2, <2>1, <2>2, <2>3 DEF DecryptSound, EnoughKeys, Held, LastPairs
<1> HIDE DEF call, get
<1>8. Puts' = Puts
  BY <1>1 DEF Puts, DemKey, Request, Original
<1>9. {GetOf(other) : other \in opened}' = gets \cup {get}
  <2>1. \A other : GetOf(other)' = GetOf(other)
    BY DEF GetOf, Held, LastPairs
  <2> QED
    BY <1>1, <2>1 DEF get
<1>10. V!Answers(get)
  <2>1. /\ Puts[get.put][1].payload = Request(object).input.data
        /\ Puts[get.put][1].key = <<DemKey(object)>>
        /\ Puts[get.put][1].threshold = Request(object).threshold
    BY <1>4, <1>5, <1>6
  <2> QED
    BY <1>4, <1>7, <2>1 DEF V!Answers, V!Refused
<1>11. get.put \in DOMAIN Puts /\ Puts[get.put] # <<>>
  BY <1>3, <1>4, <1>5
<1> QED
  BY <1>8, <1>9, <1>10, <1>11 DEF V!Get, V!Refused

LEMMA StepOfVault ==
  ASSUME SoundInv, SoundInv', [Next]_vars
  PROVE  [V!Next]_V!vars
<1>0. TypeInv /\ TypeInv'
  BY DEF SoundInv
<1>1. CASE \E request, result, honest : Record(request, result, honest)
  BY <1>0, <1>1, RecordPuts DEF V!Next
<1>2. CASE \E object \in objects : Damage(object)
  BY <1>2 DEF Damage, V!vars, Puts, DemKey, Request, Original, GetOf, Held, LastPairs
<1>3. CASE \E object \in objects, usks \in Holdings, pks \in PublicKeyLists :
             Decrypt(object, usks, pks)
  BY <1>3, DecryptGets DEF V!Next
<1>4. CASE UNCHANGED vars
  BY <1>4 DEF vars, V!vars, Puts, DemKey, Request, Original, GetOf, Held, LastPairs
<1>5. (\E request \in Requests : \/ Encrypt(request)
                                  \/ EncryptModifiedShare(request)
                                  \/ EncryptSharedForOther(request))
        => \E request, result, honest : Record(request, result, honest)
  BY DEF Encrypt, EncryptModifiedShare, EncryptSharedForOther
<1> QED
  BY <1>1, <1>2, <1>3, <1>4, <1>5 DEF Next

(* core.rs:93-272: whatever encryptors and callers do, and whatever        *)
(* happens to the objects in storage, the library gives what the vault     *)
(* promises.                                                               *)
THEOREM SealImplementsVault == Spec => ImplementsVault
<1>1. Init => V!Init
  BY EmptySeq DEF Init, V!Init, Puts
<1>2. Spec => []SoundInv
  BY SoundInvInit, SoundInvNext, PTL DEF Spec
<1>3. SoundInv /\ SoundInv' /\ [Next]_vars => [V!Next]_V!vars
  BY StepOfVault
<1> QED
  BY <1>1, <1>2, <1>3, PTL DEF Spec, ImplementsVault, V!Spec

-----------------------------------------------------------------------------
(* No key serves twice.                                                    *)

(* A key is handed out for a Plain object only. *)
ExposedInv ==
  \A n \in 1..Len(sealed) :
    sealed[n].result.ok /\ sealed[n].result.val.exposed_key # <<>> =>
      sealed[n].request.input.mode = "Plain"

LEMMA ExposesPlainOnly ==
  ASSUME NEW seed, NEW request, py_seal_encrypt(seed, request).ok,
         py_seal_encrypt(seed, request).val.exposed_key # <<>>
  PROVE  request.input.mode = "Plain"
<1> DEFINE inner == seal_encrypt(seed, request)
           key == derive_key("DEM", BaseKey(seed), inner.val.encrypted_shares,
                             request.threshold, request.key_servers)
           exposed == IF request.input.mode = "Plain" THEN <<key>> ELSE <<>>
           value == [eo |-> inner.val, exposed_key |-> exposed]
<1>1. py_seal_encrypt(seed, request) =
        IF Len(request.key_servers) > U8Max THEN Err("ValueError")
        ELSE IF inner.ok THEN Ok(value) ELSE inner
  BY DEF py_seal_encrypt, AndThen
<1>2. value.exposed_key = exposed
  OBVIOUS
<1> HIDE DEF inner, value
<1> QED
  BY <1>1, <1>2, ResultFacts

LEMMA ModifyExposesNothing ==
  ASSUME NEW seed, NEW request, encrypt_and_modify_first_share(seed, request).ok
  PROVE  encrypt_and_modify_first_share(seed, request).val.exposed_key = <<>>
<1>1. PICK shares, object :
        encrypt_and_modify_first_share(seed, request) =
          IF shares.ok THEN Ok([eo |-> object, exposed_key |-> <<>>]) ELSE shares
  BY Zenon DEF encrypt_and_modify_first_share, AndThen
<1> QED
  BY <1>1, ResultFacts

LEMMA SharedForExposesNothing ==
  ASSUME NEW t, NEW seed, NEW request, encrypt_shared_for(t, seed, request).ok
  PROVE  encrypt_shared_for(t, seed, request).val.exposed_key = <<>>
<1>1. PICK shares, object :
        encrypt_shared_for(t, seed, request) =
          IF shares.ok THEN Ok([eo |-> object, exposed_key |-> <<>>]) ELSE shares
  BY Zenon DEF encrypt_shared_for, AndThen
<1> QED
  BY <1>1, ResultFacts

LEMMA RecordKeepsExposedInv ==
  ASSUME TypeInv, ExposedInv, NEW request, NEW result, NEW honest,
         result.ok /\ result.val.exposed_key # <<>> => request.input.mode = "Plain",
         Record(request, result, honest)
  PROVE  ExposedInv'
<1> DEFINE call == [request |-> request, result |-> result, honest |-> honest]
<1>1. IsSequence(sealed) /\ Len(sealed) \in Nat
  BY SequenceFacts DEF TypeInv
<1>2. /\ Len(sealed') = Len(sealed) + 1
      /\ \A n \in 1..Len(sealed) : sealed'[n] = sealed[n]
      /\ sealed'[Len(sealed) + 1] = call
  BY <1>1, AppendFacts DEF Record
<1>3. call.request = request /\ call.result = result
  OBVIOUS
<1> HIDE DEF call
<1> QED
  BY <1>1, <1>2, <1>3 DEF ExposedInv

LEMMA ExposedInvNext == TypeInv /\ ExposedInv /\ [Next]_vars => ExposedInv'
<1> SUFFICES ASSUME TypeInv, ExposedInv, [Next]_vars PROVE ExposedInv'
  OBVIOUS
<1>1. CASE \E request \in Requests : Encrypt(request)
  <2> PICK request \in Requests : Encrypt(request)
    BY <1>1
  <2> DEFINE result == py_seal_encrypt(NextSeed, request)
  <2>1. result.ok /\ result.val.exposed_key # <<>> => request.input.mode = "Plain"
    BY ExposesPlainOnly
  <2>2. Record(request, result, TRUE)
    BY DEF Encrypt
  <2> HIDE DEF result
  <2> QED
    BY <2>1, <2>2, RecordKeepsExposedInv
<1>2. CASE \E request \in Requests : EncryptModifiedShare(request)
  <2> PICK request \in Requests : EncryptModifiedShare(request)
    BY <1>2
  <2> DEFINE result == encrypt_and_modify_first_share(NextSeed, request)
  <2>1. result.ok => result.val.exposed_key = <<>>
    BY ModifyExposesNothing
  <2>2. Record(request, result, FALSE)
    BY DEF EncryptModifiedShare
  <2> HIDE DEF result
  <2> QED
    BY <2>1, <2>2, RecordKeepsExposedInv
<1>3. CASE \E request \in Requests : EncryptSharedForOther(request)
  <2> PICK request \in Requests : EncryptSharedForOther(request)
    BY <1>3
  <2>1. PICK t : Record(request, encrypt_shared_for(t, NextSeed, request), FALSE)
    BY DEF EncryptSharedForOther
  <2> DEFINE result == encrypt_shared_for(t, NextSeed, request)
  <2>2. result.ok => result.val.exposed_key = <<>>
    BY SharedForExposesNothing
  <2>3. Record(request, result, FALSE)
    BY <2>1 DEF EncryptSharedForOther
  <2> HIDE DEF result
  <2> QED
    BY <2>2, <2>3, RecordKeepsExposedInv
<1>4. CASE UNCHANGED sealed
  BY <1>4 DEF ExposedInv
<1> QED
  BY <1>1, <1>2, <1>3, <1>4 DEF Next, Damage, Decrypt, vars

(* The key of the DEM, as the set of its one bit. *)
DemBit(object) ==
  <<<<"H3", BaseKey(object.seed), "DEM", Request(object).threshold,
      Original(object).encrypted_shares, Request(object).key_servers>>, 0>>

LEMMA DemKeyIsBit == \A object : DemKey(object) = {DemBit(object)}
BY DEF DemKey, DemBit, derive_key, Opaque

(* The key that masks the encryption randomness has the other purpose. *)
LEMMA MaskIsNotDemKey ==
  ASSUME NEW a, NEW b, Assembled(b.eo, b.seed, Request(b))
  PROVE  DemKey(a) # MaskKey(b)
<1> DEFINE mask(shares) ==
             <<<<"H3", BaseKey(b.seed), "EncryptedRandomness", Request(b).threshold,
                 shares, Request(b).key_servers>>, 0>>
<1>1. PICK shares : b.eo.encrypted_randomness = xor({mask(shares)}, to_byte_array(b.seed))
  <2>1. PICK services, shares :
          b.eo = Assemble(b.seed, Request(b), services, Generator * b.seed, shares)
    BY DEF Assembled
  <2>2. b.eo.encrypted_randomness = xor({mask(shares)}, to_byte_array(b.seed))
    BY <2>1 DEF Assemble, encrypt_randomness, derive_key, Opaque
  <2> QED
    BY <2>2
<1>2. DemBit(a) # mask(shares)
  BY DEF DemBit
<1> HIDE DEF mask
<1>3. MaskKey(b) = {mask(shares)}
  BY <1>1, XorTwice DEF MaskKey
<1> QED
  BY <1>2, <1>3, DemKeyIsBit

LEMMA DemKeyNamesSeed ==
  ASSUME NEW a, NEW b, DemKey(a) = DemKey(b)
  PROVE  a.seed = b.seed
<1>1. DemBit(a) = DemBit(b)
  BY DemKeyIsBit
<1>2. BaseKey(a.seed) = BaseKey(b.seed)
  BY <1>1 DEF DemBit
<1>3. \A seed : BaseKey(seed) = {<<<<"base_key", seed>>, 0>>}
  BY DEF BaseKey, Opaque
<1>4. <<<<"base_key", a.seed>>, 0>> = <<<<"base_key", b.seed>>, 0>>
  BY <1>2, <1>3
<1> QED
  BY <1>4

LEMMA KeyInvariants == TypeInv /\ ExposedInv => KeysNeverReused
<1> SUFFICES ASSUME TypeInv, ExposedInv PROVE KeysNeverReused
  OBVIOUS
<1>1. \A n : n \in DOMAIN sealed <=> n \in 1..Len(sealed)
  BY SequenceFacts DEF TypeInv
<1>2. ASSUME NEW a \in SealedObjects, NEW b \in SealedObjects
      PROVE  (DemKey(a) = DemKey(b) => a = b) /\ DemKey(a) # MaskKey(b)
  <2>1. PICK n \in DOMAIN sealed : a = [eo |-> sealed[n].result.val.eo, seed |-> n]
    BY DEF SealedObjects
  <2>2. PICK m \in DOMAIN sealed :
          sealed[m].result.ok /\ b = [eo |-> sealed[m].result.val.eo, seed |-> m]
    BY DEF SealedObjects
  <2>3. a.seed = b.seed => a = b
    BY <2>1, <2>2
  <2>4. Assembled(b.eo, b.seed, Request(b))
    BY <1>1, <2>2 DEF TypeInv, SealedCall, Request
  <2> QED
    BY <2>3, <2>4, DemKeyNamesSeed, MaskIsNotDemKey
<1>3. ASSUME NEW n \in DOMAIN sealed,
             sealed[n].result.ok, sealed[n].result.val.exposed_key # <<>>
      PROVE  /\ sealed[n].request.input.mode = "Plain"
             /\ sealed[n].result.val.eo.ciphertext.blob = <<>>
  <2>1. sealed[n].request.input.mode = "Plain"
    BY <1>1, <1>3 DEF ExposedInv
  <2>2. Assembled(sealed[n].result.val.eo, n, sealed[n].request)
    BY <1>1, <1>3 DEF TypeInv, SealedCall
  <2>3. PICK key : sealed[n].result.val.eo.ciphertext = DemEncrypt(sealed[n].request.input, key)
    BY <2>2 DEF Assembled, Assemble
  <2> QED
    BY <2>1, <2>3, DemEncryptFacts
<1> QED
  BY <1>2, <1>3 DEF KeysNeverReused

(* dem.rs:38 and bindings.rs:157-163: the ciphers, whose IV is fixed, never *)
(* run twice under one key, and a key that is handed out encrypts nothing.  *)
THEOREM KeysAreFresh == Spec => []KeysNeverReused
<1>1. Init => TypeInv /\ ExposedInv
  <2>1. Init => ExposedInv
    BY EmptySeq DEF Init, ExposedInv
  <2> QED
    BY <2>1, TypeInvInit
<1>2. TypeInv /\ ExposedInv /\ [Next]_vars => (TypeInv /\ ExposedInv)'
  BY TypeInvNext, ExposedInvNext
<1>3. Spec => [](TypeInv /\ ExposedInv)
  BY <1>1, <1>2, PTL DEF Spec
<1> QED
  BY <1>3, KeyInvariants, PTL

-----------------------------------------------------------------------------
(* What the damages leave of the fields that no key is derived from.       *)

LEMMA ShorterServices ==
  ASSUME NEW s, SomeServices(s)
  PROVE  SomeServices(SubSeq(s, 2, Len(s)))
<1>1. PICK D : s \in Seq(D \X Byte)
  BY DEF SomeServices
<1> DEFINE S == D \X Byte
<1>2. s \in Seq(S)
  BY <1>1
<1> HIDE DEF S
<1>3. Len(s) \in Int /\ 2 \in Int /\ \A i \in 2..Len(s) : s[i] \in S
  BY <1>2
<1>4. SubSeq(s, 2, Len(s)) \in Seq(S)
  BY <1>3, SubSeqProperties
<1> QED
  BY <1>4 DEF S, SomeServices

LEMMA ReversedServices ==
  ASSUME NEW s, SomeServices(s)
  PROVE  SomeServices(Reverse(s))
<1>1. PICK D : s \in Seq(D \X Byte)
  BY DEF SomeServices
<1> DEFINE S == D \X Byte
<1>2. s \in Seq(S)
  BY <1>1
<1> HIDE DEF S
<1>3. Len(s) \in Nat /\ \A i \in 1..Len(s) : s[i] \in S
  BY <1>2
<1>4. \A i \in 1..Len(s) : (Len(s) - i) + 1 \in 1..Len(s)
  BY <1>3
<1>5. Reverse(s) \in Seq(S)
  BY <1>3, <1>4 DEF Reverse
<1> QED
  BY <1>5 DEF S, SomeServices

LEMMA RenumberedServices ==
  ASSUME NEW s, SomeServices(s), NEW k \in DOMAIN s, NEW i \in Byte
  PROVE  SomeServices([s EXCEPT ![k][2] = i])
<1>1. PICK D : s \in Seq(D \X Byte)
  BY DEF SomeServices
<1> DEFINE S == D \X Byte
<1>2. s \in Seq(S)
  BY <1>1
<1>3. PICK d \in D, b \in Byte : s[k] = <<d, b>>
  BY <1>2
<1>4. [s[k] EXCEPT ![2] = i] = <<d, i>>
  BY <1>3
<1>5. [s[k] EXCEPT ![2] = i] \in S
  BY <1>4
<1> DEFINE e == [s[k] EXCEPT ![2] = i]
<1>6. [s EXCEPT ![k][2] = i] = [s EXCEPT ![k] = e]
  OBVIOUS
<1> HIDE DEF S, e
<1>7. [s EXCEPT ![k] = e] \in Seq(S)
  BY <1>2, <1>5 DEF e
<1> QED
  BY <1>6, <1>7 DEF S, SomeServices

LEMMA DamagedSomeServices ==
  ASSUME NEW s, SomeServices(s), NEW d \in DamagedServices(s)
  PROVE  SomeServices(d)
<1>1. CASE d = SubSeq(s, 2, Len(s))
  BY <1>1, ShorterServices
<1>2. CASE d = Reverse(s)
  BY <1>2, ReversedServices
<1>3. CASE \E k \in DOMAIN s, i \in {0, 1, U8Max} : d = [s EXCEPT ![k][2] = i]
  <2>1. PICK k \in DOMAIN s, i \in {0, 1, U8Max} : d = [s EXCEPT ![k][2] = i]
    BY <1>3
  <2>2. i \in Byte
    BY U8MaxAssumption, SmallBytes DEF Byte
  <2> QED
    BY <2>1, <2>2, RenumberedServices
<1> QED
  BY <1>1, <1>2, <1>3 DEF DamagedServices

-----------------------------------------------------------------------------
(* The shares that an encryptor writes into an object.                     *)

LEMMA ModifyWrites ==
  ASSUME NEW seed, NEW request \in Requests, encrypt_and_modify_first_share(seed, request).ok
  PROVE  SomeWrites(encrypt_and_modify_first_share(seed, request).val.eo, request, seed)
<1> DEFINE n == Len(request.key_servers)
           m == AsU8(n)
           result == SharesOf(seed, request, m)
           modified == ModifyFirst(result.val.encrypted_shares)
           object == Assemble(seed, request, result.val.services, result.val.nonce, modified)
           value == [eo |-> object, exposed_key |-> <<>>]
<1>1. encrypt_and_modify_first_share(seed, request) = IF result.ok THEN Ok(value) ELSE result
  BY DEF encrypt_and_modify_first_share, AndThen
<1>2. value.eo = object /\ object.services = result.val.services
      /\ object.encrypted_shares = modified
  BY DEF Assemble
<1>3. n \in Nat /\ request.threshold \in Nat
  BY RequestAssumption, LenProperties
<1> HIDE DEF n, value, result, object
<1>4. result.ok /\ encrypt_and_modify_first_share(seed, request).val.eo = object
  BY <1>1, <1>2, ResultFacts
<1>5. m \in 1..255 /\ \E shares : SharesWritten(result.val, shares, seed, request, m)
  BY <1>3, <1>4, SharesWrite DEF result
<1>6. PICK shares : SharesWritten(result.val, shares, seed, request, m)
  BY <1>5
<1> HIDE DEF m
<1>7. MaskedShares(modified, shares, seed, request, m, Modification)
  <2> DEFINE mask(k) == xor(Opaque(MaskSymbol(seed, request, k)), shares[k])
             E == result.val.encrypted_shares
  <2>1. E = [k \in 1..m |-> xor(mask(k), Extra({}, k))]
    BY <1>6 DEF SharesWritten, MaskedShares
  <2>2. \A a, k : xor(a, Extra({}, k)) = a
    BY DEF xor, SymDiff, Extra
  <2>3. \A a, k : k # 1 => xor(a, Extra(Modification, k)) = a
    BY DEF xor, SymDiff, Extra
  <2>4. Extra(Modification, 1) = Modification
    BY DEF Extra
  <2> HIDE DEF mask, E
  <2>5. E = [k \in 1..m |-> mask(k)]
    BY <2>1, <2>2
  <2>6. modified = [E EXCEPT ![1] = xor(@, Modification)]
    BY DEF ModifyFirst, Modification, E
  <2>7. modified = [k \in 1..m |-> IF k = 1 THEN xor(mask(k), Modification) ELSE mask(k)]
    BY <2>5, <2>6
  <2>8. modified = [k \in 1..m |-> xor(mask(k), Extra(Modification, k))]
    BY <2>3, <2>4, <2>7
  <2> QED
    BY <2>8 DEF MaskedShares, mask
<1> HIDE DEF modified
<1>8. WritesWith(object, request, seed, shares, request.threshold, m, Modification)
  BY <1>2, <1>5, <1>6, <1>7 DEF WritesWith, SharesWritten
<1> QED
  BY <1>4, <1>8 DEF SomeWrites

LEMMA SharedForWrites ==
  ASSUME NEW t \in Nat, NEW seed, NEW request \in Requests,
         encrypt_shared_for(t, seed, request).ok
  PROVE  SomeWrites(encrypt_shared_for(t, seed, request).val.eo, request, seed)
<1> DEFINE other == [request EXCEPT !.threshold = t]
           n == Len(request.key_servers)
           m == AsU8(n)
           result == SharesOf(seed, other, m)
           object == Assemble(seed, request, result.val.services, result.val.nonce,
                              result.val.encrypted_shares)
           value == [eo |-> object, exposed_key |-> <<>>]
<1>1. encrypt_shared_for(t, seed, request) = IF result.ok THEN Ok(value) ELSE result
  BY DEF encrypt_shared_for, AndThen
<1>2. value.eo = object /\ object.services = result.val.services
      /\ object.encrypted_shares = result.val.encrypted_shares
  BY DEF Assemble
<1>3. /\ other.threshold = t
      /\ other.key_servers = request.key_servers
      /\ other.public_keys = request.public_keys
      /\ other.package_id = request.package_id
      /\ other.id = request.id
  OBVIOUS
<1>4. n \in Nat /\ other.threshold \in Nat
  BY <1>3, RequestAssumption, LenProperties
<1> HIDE DEF n, value, result, object, other
<1>5. result.ok /\ encrypt_shared_for(t, seed, request).val.eo = object
  BY <1>1, <1>2, ResultFacts
<1>6. m \in 1..255 /\ \E shares : SharesWritten(result.val, shares, seed, other, m)
  BY <1>4, <1>5, SharesWrite DEF result
<1>7. PICK shares : SharesWritten(result.val, shares, seed, other, m)
  BY <1>6
<1> HIDE DEF m
<1>8. \A k : MaskSymbol(seed, other, k) = MaskSymbol(seed, request, k)
  BY <1>3 DEF MaskSymbol
<1>9. MaskedShares(result.val.encrypted_shares, shares, seed, request, m, {})
  BY <1>7, <1>8 DEF SharesWritten, MaskedShares
<1>10. WritesWith(object, request, seed, shares, t, m, {})
  BY <1>2, <1>3, <1>6, <1>7, <1>9 DEF WritesWith, SharesWritten
<1> QED
  BY <1>5, <1>10 DEF SomeWrites

-----------------------------------------------------------------------------
(* What the encryptors wrote, and what the damages left of it.             *)

FieldsInv(eo, original) ==
  /\ SomeServices(eo.services)
  /\ eo.package_id \in {original.package_id, "other package"}
  /\ eo.id \in {original.id, "other id"}

(* The shares in the object of the n-th call. *)
WritingCall(n) ==
  LET call == sealed[n]
  IN  call.result.ok =>
        /\ SomeWrites(call.result.val.eo, call.request, n)
        /\ call.honest => HonestWrites(call.result.val.eo, call.request, n)

KeepsInv ==
  /\ SoundInv
  /\ \A n \in 1..Len(sealed) : WritingCall(n)
  /\ \A object \in StoredObjects : FieldsInv(object.eo, Original(object))
  /\ \A call \in opened : call.public_keys \in PublicKeyLists

LEMMA FreshFields ==
  ASSUME NEW eo, NEW seed, NEW request, SomeWrites(eo, request, seed)
  PROVE  FieldsInv(eo, eo)
BY WrittenServices DEF FieldsInv

LEMMA DamagedFields ==
  ASSUME NEW eo, NEW original, FieldsInv(eo, original), NEW d \in DamagedObjects(eo)
  PROVE  FieldsInv(d, original)
<1>1. CASE \E v : \/ d = [eo EXCEPT !.version = v]
                 \/ d = [eo EXCEPT !.nonce = v]
                 \/ d = [eo EXCEPT !.threshold = v]
                 \/ d = [eo EXCEPT !.encrypted_shares = v]
                 \/ d = [eo EXCEPT !.encrypted_randomness = v]
                 \/ d = [eo EXCEPT !.ciphertext = v]
  <2> PICK v : \/ d = [eo EXCEPT !.version = v]
               \/ d = [eo EXCEPT !.nonce = v]
               \/ d = [eo EXCEPT !.threshold = v]
               \/ d = [eo EXCEPT !.encrypted_shares = v]
               \/ d = [eo EXCEPT !.encrypted_randomness = v]
               \/ d = [eo EXCEPT !.ciphertext = v]
    BY <1>1
  <2>1. d.services = eo.services /\ d.package_id = eo.package_id /\ d.id = eo.id
    <3>1. CASE d = [eo EXCEPT !.version = v]
      BY <3>1
    <3>2. CASE d = [eo EXCEPT !.nonce = v]
      BY <3>2
    <3>3. CASE d = [eo EXCEPT !.threshold = v]
      BY <3>3
    <3>4. CASE d = [eo EXCEPT !.encrypted_shares = v]
      BY <3>4
    <3>5. CASE d = [eo EXCEPT !.encrypted_randomness = v]
      BY <3>5
    <3>6. CASE d = [eo EXCEPT !.ciphertext = v]
      BY <3>6
    <3> QED
      BY <3>1, <3>2, <3>3, <3>4, <3>5, <3>6
  <2> QED
    BY <2>1 DEF FieldsInv
<1>2. CASE d = [eo EXCEPT !.package_id = "other package"]
  <2>1. ASSUME NEW v, d = [eo EXCEPT !.package_id = v]
        PROVE  /\ d.services = eo.services /\ d.package_id \in {eo.package_id, v}
               /\ d.id = eo.id
    BY <2>1
  <2> QED
    BY <1>2, <2>1 DEF FieldsInv
<1>3. CASE d = [eo EXCEPT !.id = "other id"]
  <2>1. ASSUME NEW v, d = [eo EXCEPT !.id = v]
        PROVE  /\ d.services = eo.services /\ d.package_id = eo.package_id
               /\ d.id \in {eo.id, v}
    BY <2>1
  <2> QED
    BY <1>3, <2>1 DEF FieldsInv
<1>4. CASE \E s \in DamagedServices(eo.services) : d = [eo EXCEPT !.services = s]
  <2>1. /\ d.services = eo.services \/ d.services \in DamagedServices(eo.services)
        /\ d.package_id = eo.package_id /\ d.id = eo.id
    BY <1>4
  <2> QED
    BY <2>1, DamagedSomeServices DEF FieldsInv
<1> QED
  BY <1>1, <1>2, <1>3, <1>4, Zenon DEF DamagedObjects

LEMMA KeepsInvInit == Init => KeepsInv
<1>1. Init => 1..Len(sealed) = {}
  BY EmptySeq DEF Init
<1> QED
  BY <1>1, SoundInvInit DEF Init, KeepsInv, StoredObjects

LEMMA RecordKeepsFields ==
  ASSUME KeepsInv, SoundInv',
         NEW request \in Requests, NEW result, NEW honest,
         result.ok => Assembled(result.val.eo, NextSeed, request),
         result.ok => SomeWrites(result.val.eo, request, NextSeed),
         result.ok /\ honest => HonestWrites(result.val.eo, request, NextSeed),
         Record(request, result, honest)
  PROVE  KeepsInv'
<1> DEFINE call == [request |-> request, result |-> result, honest |-> honest]
<1>1. IsSequence(sealed) /\ Len(sealed) \in Nat
  BY SequenceFacts DEF KeepsInv, SoundInv, TypeInv
<1>2. /\ Len(sealed') = Len(sealed) + 1
      /\ \A n \in 1..Len(sealed) : sealed'[n] = sealed[n]
      /\ sealed'[NextSeed] = call
  BY <1>1, AppendFacts DEF Record, NextSeed
<1>3. opened' = opened
  BY DEF Record
<1>4. call.request = request /\ call.result = result /\ call.honest = honest
  OBVIOUS
<1> HIDE DEF call
<1>5. ASSUME NEW n \in 1..Len(sealed') PROVE WritingCall(n)'
  <2>1. CASE n \in 1..Len(sealed)
    BY <1>2, <2>1 DEF WritingCall, KeepsInv
  <2>2. CASE n \notin 1..Len(sealed)
    <3>1. n = NextSeed
      BY <1>1, <1>2, <2>2 DEF NextSeed
    <3>2. sealed'[n] = call
      BY <1>2, <3>1
    <3> QED
      BY <1>4, <3>1, <3>2 DEF WritingCall
  <2> QED
    BY <2>1, <2>2
<1>6. ASSUME NEW object \in StoredObjects' PROVE FieldsInv(object.eo, Original(object)')
  <2>1. CASE object \in StoredObjects
    <3>1. object.seed \in 1..Len(sealed)
      BY <2>1 DEF KeepsInv, SoundInv, TypeInv
    <3>2. Original(object)' = Original(object)
      BY <1>2, <3>1 DEF Original
    <3> QED
      BY <2>1, <3>2 DEF KeepsInv
  <2>2. CASE object \notin StoredObjects
    <3>1. result.ok /\ object = [eo |-> result.val.eo, seed |-> NextSeed]
      BY <1>3, <2>2 DEF Record, StoredObjects
    <3>2. Original(object)' = result.val.eo
      BY <1>2, <1>4, <3>1 DEF Original
    <3> QED
      BY <3>1, <3>2, FreshFields
  <2> QED
    BY <2>1, <2>2
<1> QED
  BY <1>3, <1>5, <1>6 DEF KeepsInv

LEMMA KeepsInvNext == KeepsInv /\ [Next]_vars => KeepsInv'
<1> SUFFICES ASSUME KeepsInv, [Next]_vars PROVE KeepsInv'
  OBVIOUS
<1>0. SoundInv /\ SoundInv'
  BY SoundInvNext DEF KeepsInv
<1>1. CASE \E request \in Requests : Encrypt(request)
  <2> PICK request \in Requests : Encrypt(request)
    BY <1>1
  <2> DEFINE result == py_seal_encrypt(NextSeed, request)
  <2>1. result.ok => Assembled(result.val.eo, NextSeed, request)
    BY EncryptMakes
  <2>2. result.ok => HonestWrites(result.val.eo, request, NextSeed)
    BY EncryptMakes
  <2>3. Record(request, result, TRUE)
    BY DEF Encrypt
  <2> HIDE DEF result
  <2>4. result.ok => SomeWrites(result.val.eo, request, NextSeed)
    BY <2>2, HonestIsSome
  <2> QED
    BY <1>0, <2>1, <2>2, <2>3, <2>4, RecordKeepsFields
<1>2. CASE \E request \in Requests : EncryptModifiedShare(request)
  <2> PICK request \in Requests : EncryptModifiedShare(request)
    BY <1>2
  <2> DEFINE result == encrypt_and_modify_first_share(NextSeed, request)
  <2>1. result.ok => Assembled(result.val.eo, NextSeed, request)
    BY ModifyMakes
  <2>2. result.ok => SomeWrites(result.val.eo, request, NextSeed)
    BY ModifyWrites
  <2>3. Record(request, result, FALSE)
    BY DEF EncryptModifiedShare
  <2> HIDE DEF result
  <2> QED
    BY <1>0, <2>1, <2>2, <2>3, RecordKeepsFields
<1>3. CASE \E request \in Requests : EncryptSharedForOther(request)
  <2> PICK request \in Requests : EncryptSharedForOther(request)
    BY <1>3
  <2>1. PICK t \in Nat : Record(request, encrypt_shared_for(t, NextSeed, request), FALSE)
    BY DEF EncryptSharedForOther
  <2> DEFINE result == encrypt_shared_for(t, NextSeed, request)
  <2>2. result.ok => Assembled(result.val.eo, NextSeed, request)
    BY SharedForMakes
  <2>3. result.ok => SomeWrites(result.val.eo, request, NextSeed)
    BY SharedForWrites
  <2>4. Record(request, result, FALSE)
    BY <2>1 DEF EncryptSharedForOther
  <2> HIDE DEF result
  <2> QED
    BY <1>0, <2>2, <2>3, <2>4, RecordKeepsFields
<1>4. CASE \E object \in objects : Damage(object)
  <2> PICK object \in objects : Damage(object)
    BY <1>4
  <2>1. PICK eo \in DamagedObjects(object.eo) :
          objects' = (objects \ {object}) \cup {[object EXCEPT !.eo = eo]}
    BY DEF Damage
  <2>2. UNCHANGED <<sealed, opened>>
    BY DEF Damage
  <2> DEFINE damaged == [object EXCEPT !.eo = eo]
  <2>3. damaged.seed = object.seed /\ damaged.eo = eo
    OBVIOUS
  <2>4. \A other \in StoredObjects' : other \in StoredObjects \/ other = damaged
    BY <2>1, <2>2 DEF StoredObjects
  <2> HIDE DEF damaged
  <2>5. FieldsInv(object.eo, Original(object))
    BY DEF KeepsInv, StoredObjects
  <2>6. FieldsInv(damaged.eo, Original(damaged))
    BY <2>3, <2>5, DamagedFields DEF Original
  <2>7. \A other : Original(other)' = Original(other)
    BY <2>2 DEF Original
  <2>8. \A n : WritingCall(n)' <=> WritingCall(n)
    BY <2>2 DEF WritingCall
  <2> QED
    BY <1>0, <2>2, <2>4, <2>6, <2>7, <2>8 DEF KeepsInv
<1>5. CASE \E object \in objects, usks \in Holdings, pks \in PublicKeyLists :
             Decrypt(object, usks, pks)
  <2> PICK object \in objects, usks \in Holdings, pks \in PublicKeyLists :
             Decrypt(object, usks, pks)
    BY <1>5
  <2> DEFINE call == [object |-> object, user_secret_keys |-> usks, public_keys |-> pks,
                      result |-> py_seal_decrypt(object.eo, usks, pks)]
  <2>1. opened' = opened \cup {call} /\ UNCHANGED <<sealed, objects, damages>>
    BY DEF Decrypt
  <2>2. call.object = object /\ call.user_secret_keys = usks /\ call.public_keys = pks
    OBVIOUS
  <2> HIDE DEF call
  <2>3. StoredObjects' = StoredObjects
    BY <2>1, <2>2 DEF StoredObjects
  <2>4. \A other : Original(other)' = Original(other)
    BY <2>1 DEF Original
  <2>5. \A n : WritingCall(n)' <=> WritingCall(n)
    BY <2>1 DEF WritingCall
  <2>6. \A other \in opened' : other.public_keys \in PublicKeyLists
    BY <2>1, <2>2 DEF KeepsInv
  <2> QED
    BY <1>0, <2>1, <2>3, <2>4, <2>5, <2>6 DEF KeepsInv
<1>6. CASE UNCHANGED vars
  <2>1. StoredObjects' = StoredObjects /\ opened' = opened /\ sealed' = sealed
    BY <1>6 DEF vars, StoredObjects
  <2>2. \A other : Original(other)' = Original(other)
    BY <2>1 DEF Original
  <2>3. \A n : WritingCall(n)' <=> WritingCall(n)
    BY <2>1 DEF WritingCall
  <2> QED
    BY <1>0, <2>1, <2>2, <2>3 DEF KeepsInv
<1> QED
  BY <1>1, <1>2, <1>3, <1>4, <1>5, <1>6 DEF Next

LEMMA KeepsInvAlways == Spec => []KeepsInv
BY KeepsInvInit, KeepsInvNext, PTL DEF Spec

-----------------------------------------------------------------------------
(* An object that opens is still the one that its encryptor wrote shares   *)
(* into, and its base key is the one that they combine to.                 *)

OpenedCall(call, shares, t, n, change) ==
  LET object == call.object
  IN  /\ WritesWith(Original(object), Request(object), object.seed, shares, t, n, change)
      /\ Sealing(object.eo, shares, object.seed, Request(object), t, n, change)
      /\ Opening(object.eo, HashMap(call.user_secret_keys), call.public_keys,
                 BaseKey(object.seed))
      /\ VerifiedRandomness(object.eo, BaseKey(object.seed)) = Ok(object.seed)

(* What is known of a call that succeeded. *)
LEMMA OpenedMeans ==
  ASSUME KeepsInv, NEW call \in opened, call.result.ok
  PROVE  LET object == call.object
         IN  /\ Bound(object.eo, Original(object), Request(object))
             /\ object.seed \in Scalar
             /\ Request(object) \in Requests
             /\ \E shares, t, n, change : OpenedCall(call, shares, t, n, change)
             /\ call.result = DemDecrypt(object.eo.ciphertext, DemKey(object))
<1> DEFINE object == call.object
           eo == object.eo
           seed == object.seed
           request == Request(object)
           original == Original(object)
           usks == HashMap(call.user_secret_keys)
           base_key == Combined(eo, usks, call.public_keys).val
<1>1. SoundInv
  BY DEF KeepsInv
<1>2. object \in StoredObjects
  BY DEF StoredObjects
<1>3. /\ seed \in 1..Len(sealed)
      /\ sealed[seed].result.ok
      /\ request \in Requests
      /\ Assembled(original, seed, request)
      /\ SomeWrites(original, request, seed)
      /\ FieldsInv(eo, original)
      /\ ObjectInv(eo, original)
  BY <1>1, <1>2 DEF KeepsInv, WritingCall, SoundInv, TypeInv, SealedCall, Request, Original
<1>4. /\ eo.threshold = request.threshold
      /\ eo.encrypted_shares = original.encrypted_shares
      /\ ServerIds(eo.services) = request.key_servers
      /\ eo.nonce = original.nonce
      /\ eo.encrypted_randomness = original.encrypted_randomness
  BY <1>1, OpenedObject
<1>5. seed \in Scalar
  <2>1. Len(sealed) \in Nat /\ Len(sealed) <= MaxEncryptions
    BY <1>1, SequenceFacts DEF SoundInv, TypeInv
  <2>2. seed \in 1..MaxEncryptions
    BY <1>3, <2>1, BoundsAssumption
  <2> QED
    BY <2>2, DrawsAssumption
<1>6. call.result = seal_decrypt(eo, usks, call.public_keys)
  BY <1>1 DEF SoundInv, py_seal_decrypt
<1>7. original.ciphertext = DemEncrypt(request.input, DemKey(object))
  BY <1>3 DEF Assembled, Assemble, DemKey
<1> HIDE DEF object, eo, seed, request, original, usks, base_key
<1>8. PICK k \in Nat : DOMAIN eo.services = 1..k
  <2>1. PICK D : eo.services \in Seq(D \X Byte)
    BY <1>3 DEF FieldsInv, SomeServices
  <2>2. IsSequence(eo.services)
    BY <2>1 DEF IsSequence
  <2> QED
    BY <2>2, SequenceFacts
<1>9. /\ Len(eo.encrypted_shares) = Len(eo.services)
      /\ Combined(eo, usks, call.public_keys).ok
      /\ call.result = DemDecrypt(eo.ciphertext, DemKeyOf(eo, base_key))
  BY <1>6, <1>8, DecryptParts DEF base_key
<1>10. Bound(eo, original, request)
  BY <1>3, <1>4, <1>9 DEF Bound, FieldsInv
<1>11. PICK shares, t, n, change : WritesWith(original, request, seed, shares, t, n, change)
  BY <1>3 DEF SomeWrites
<1>12. Sealing(eo, shares, seed, request, t, n, change)
  BY <1>3, <1>10, <1>11, SealingOf
<1>13. WithPlaces(eo, n) /\ n \in 1..255
  BY <1>12 DEF Sealing
<1>14. n \in Nat
  <2>1. \A i \in 1..255 : i \in Nat
    OBVIOUS
  <2> QED
    BY <1>13, <2>1
<1>15. Opening(eo, usks, call.public_keys, base_key)
  BY <1>9, <1>13, <1>14, CombinedMeans DEF base_key
<1>16. base_key = BaseKey(seed)
  <2>1. VerifiedRandomness(eo, base_key).ok
    BY <1>15 DEF Opening
  <2> QED
    BY <1>3, <2>1, BaseKeyBound DEF ObjectInv
<1>17. VerifiedRandomness(eo, BaseKey(seed)) = Ok(seed)
  BY <1>3, <1>5, <1>10, VerifiedOriginal
<1>18. DemKeyOf(eo, BaseKey(seed)) = DemKey(object)
  BY <1>4 DEF DemKeyOf, DemKey, request, original, seed
<1>19. OpenedCall(call, shares, t, n, change)
  BY <1>11, <1>12, <1>15, <1>16, <1>17 DEF OpenedCall, object, eo, seed, request, original, usks
<1> QED
  BY <1>3, <1>5, <1>9, <1>10, <1>16, <1>18, <1>19 DEF object, eo, seed, request, original

-----------------------------------------------------------------------------
(* The keys that a successful decryption used.                             *)

(* An opened object has n places, of which the caller holds some. *)
LEMMA OpenedPlaces ==
  ASSUME KeepsInv, NEW call \in opened, call.result.ok,
         NEW shares, NEW t, NEW n, NEW change, OpenedCall(call, shares, t, n, change)
  PROVE  LET object == call.object
             eo == object.eo
         IN  /\ n \in 1..255 /\ n \in Nat
             /\ WithPlaces(eo, n)
             /\ DOMAIN eo.services = 1..n
             /\ \A k \in 1..n : eo.services[k] = <<eo.services[k][1], eo.services[k][2]>>
             /\ Original(object).services = [k \in 1..n |-> <<Request(object).key_servers[k], k>>]
             /\ DOMAIN Request(object).key_servers = 1..n
             /\ Held(call) \subseteq 1..n /\ Held(call) # {}
             /\ call.public_keys # <<>> => DOMAIN call.public_keys[1] = 1..n
<1> DEFINE object == call.object
           eo == object.eo
           request == Request(object)
           original == Original(object)
           usks == HashMap(call.user_secret_keys)
<1>1. /\ WritesWith(original, request, object.seed, shares, t, n, change)
      /\ Sealing(eo, shares, object.seed, request, t, n, change)
      /\ Opening(eo, usks, call.public_keys, BaseKey(object.seed))
  BY DEF OpenedCall
<1>2. Bound(eo, original, request)
  BY OpenedMeans
<1>3. call.public_keys \in PublicKeyLists
  BY DEF KeepsInv
<1>4. Held(call) = HeldPlaces(eo, usks)
  BY HeldIs DEF KeepsInv
<1> HIDE DEF object, eo, request, original, usks
<1>5. n \in 1..255 /\ n \in Nat
  <2>1. \A i \in 1..255 : i \in Nat
    OBVIOUS
  <2>2. n \in 1..255
    BY <1>1 DEF Sealing
  <2> QED
    BY <2>1, <2>2
<1>6. WithPlaces(eo, n) /\ DOMAIN eo.services = 1..n
  BY <1>1 DEF Sealing, WithPlaces
<1>7. \A k \in 1..n : eo.services[k] = <<eo.services[k][1], eo.services[k][2]>>
  <2>1. PICK D : eo.services \in Seq(D \X Byte)
    BY <1>2 DEF Bound, SomeServices
  <2> DEFINE S == D \X Byte
  <2>2. \A e \in S : e = <<e[1], e[2]>>
    OBVIOUS
  <2>3. eo.services \in Seq(S)
    BY <2>1
  <2> HIDE DEF S
  <2>4. \A k \in DOMAIN eo.services : eo.services[k] \in S
    BY <2>3
  <2> QED
    BY <1>6, <2>2, <2>4
<1>8. original.services = [k \in 1..n |-> <<request.key_servers[k], k>>]
  BY <1>1 DEF WritesWith
<1>9. DOMAIN request.key_servers = 1..n
  <2>1. [k \in DOMAIN eo.services |-> eo.services[k][1]] = request.key_servers
    BY <1>2 DEF Bound, ServerIds
  <2> QED
    BY <1>6, <2>1
<1>10. HeldPlaces(eo, usks) \subseteq 1..n
  BY <1>6 DEF HeldPlaces
<1>11. HeldPlaces(eo, usks) # {}
  <2>1. HeldCount(eo, usks) # 0
    BY <1>1 DEF Opening, Accepted
  <2> QED
    BY <2>1, FS_EmptySet DEF HeldCount
<1>12. call.public_keys # <<>> => DOMAIN call.public_keys[1] = 1..n
  <2> SUFFICES ASSUME call.public_keys # <<>> PROVE DOMAIN call.public_keys[1] = 1..n
    OBVIOUS
  <2>1. call.public_keys[1] \in Seq(Nat)
    BY <1>3, PublicKeyListsAssumption
  <2>2. Len(call.public_keys[1]) = Len(eo.encrypted_shares)
    BY <1>1 DEF Opening
  <2>3. Len(eo.encrypted_shares) = n
    BY <1>5, <1>6, ArraysDomain, LenDomain DEF WithPlaces
  <2> QED
    BY <2>1, <2>2, <2>3
<1> QED
  BY <1>4, <1>5, <1>6, <1>7, <1>8, <1>9, <1>10, <1>11, <1>12
     DEF object, eo, request, original

LEMMA CancelScalar ==
  ASSUME NEW u \in Nat, NEW g \in Nat, NEW p \in Nat, NEW r \in Nat \ {0},
         u * r = (g * r) * p
  PROVE  u = g * p
<1> DEFINE q == g * p
<1>1. q \in Nat /\ (g * r) * p = q * r
  OBVIOUS
<1> HIDE DEF q
<1>2. u * r = q * r
  BY <1>1
<1>3. u = q
  BY <1>1, <1>2
<1> QED
  BY <1>3 DEF q

LEMMA KeepsInvImpliesKeysRight == KeepsInv => KeysRight
<1> SUFFICES ASSUME KeepsInv, NEW call \in opened, call.result.ok,
                    MadeForItsServers(call.object), NEW k \in Held(call)
             PROVE  <<call.object.eo.services[k][1],
                      UserSecretKey(call.object, call.object.eo.services[k][1])>> \in LastPairs(call)
  BY DEF KeysRight, RightlyHeld
<1> DEFINE object == call.object
           eo == object.eo
           seed == object.seed
           request == Request(object)
           usks == HashMap(call.user_secret_keys)
           server == eo.services[k][1]
           id == create_full_id(request.package_id, request.id)
<1>1. seed \in Scalar /\ request \in Requests
  BY OpenedMeans
<1>2. PICK shares, t, n, change : OpenedCall(call, shares, t, n, change)
  BY OpenedMeans
<1>3. /\ Sealing(eo, shares, seed, request, t, n, change)
      /\ Opening(eo, usks, call.public_keys, BaseKey(seed))
  BY <1>2 DEF OpenedCall
<1>4. n \in Nat /\ DOMAIN request.key_servers = 1..n /\ Held(call) \subseteq 1..n
  BY <1>2, OpenedPlaces
<1>5. Held(call) = HeldPlaces(eo, usks)
  BY HeldIs DEF KeepsInv
<1>6. request.public_keys = PublicKeys(request.key_servers)
  BY DEF MadeForItsServers
<1>7. usks[server] \in Nat /\ <<server, usks[server]>> \in LastPairs(call)
  <2>1. server \in DOMAIN usks
    BY <1>5 DEF HeldPlaces
  <2> QED
    BY <2>1, LastPairsAreMap DEF KeepsInv, SoundInv
<1> HIDE DEF object, eo, seed, request, usks, server, id
<1>8. PICK j \in HeldPlaces(eo, usks) : Answers(eo, usks, seed, request, k, j)
  BY <1>3, <1>5, PlacesOfOpening
<1>9. /\ server = request.key_servers[j]
      /\ Pairing(usks[server], eo.nonce) = Pairing(Gid(id) * seed, request.public_keys[j])
  BY <1>8 DEF Answers, server, id
<1>10. request.public_keys[j] = public_key_from_master_key(MasterKey[server])
  BY <1>4, <1>5, <1>6, <1>8, <1>9 DEF PublicKeys
<1>11. MasterKey[server] \in Nat
  <2>1. request.key_servers \in Seq(DOMAIN MasterKey)
    BY <1>1, RequestAssumption
  <2>2. server \in DOMAIN MasterKey
    BY <1>4, <1>5, <1>8, <1>9, <2>1
  <2> QED
    BY <2>2, MasterKeyAssumption
<1>12. Gid(id) \in Nat
  <2>1. id \in FullId
    BY <1>1, IdentityAssumption DEF create_full_id, id
  <2> QED
    BY <2>1, H1Assumption DEF Gid, hash_to_g1
<1>13. seed \in Nat \ {0}
  BY <1>1, ScalarAssumption
<1>14. eo.nonce = Generator * seed
  BY <1>3 DEF Sealing
<1> DEFINE u == usks[server]
           g == Gid(id)
           p == MasterKey[server]
<1>15. Generator * p = p /\ eo.nonce = seed
  BY <1>11, <1>13, <1>14 DEF Generator
<1>16. u * seed = (g * seed) * p
  BY <1>9, <1>10, <1>15 DEF Pairing, public_key_from_master_key
<1> HIDE DEF u, g, p
<1>17. u = g * p
  BY <1>7, <1>11, <1>12, <1>13, <1>16, CancelScalar DEF u, g, p
<1>18. u = UserSecretKey(object, server)
  BY <1>17 DEF UserSecretKey, extract, Gid, g, p, id, request
<1> QED
  BY <1>7, <1>18 DEF u, object, eo, server

(* core.rs:372-381 and ibe.rs:75-86: every key that a successful           *)
(* decryption used is the one that its server extracts, whatever was done  *)
(* to the object.                                                          *)
THEOREM KeysAreRight == Spec => []KeysRight
BY KeepsInvAlways, KeepsInvImpliesKeysRight, PTL

-----------------------------------------------------------------------------
(* The public keys that a successful decryption was given.                 *)

(* The public key at each place pairs as one that the encryptor used for   *)
(* the server at that place.                                               *)
LEMMA PublicKeysFit ==
  ASSUME KeepsInv, NEW call \in opened, call.result.ok, call.public_keys # <<>>,
         NEW shares, NEW t, NEW n, NEW change, OpenedCall(call, shares, t, n, change),
         NEW k \in 1..n
  PROVE  LET object == call.object
             request == Request(object)
             q == Gid(create_full_id(request.package_id, request.id)) * object.seed
         IN  \E j \in 1..n :
               /\ request.key_servers[j] = request.key_servers[k]
               /\ Pairing(q, call.public_keys[1][k]) = Pairing(q, request.public_keys[j])
<1> DEFINE object == call.object
           eo == object.eo
           seed == object.seed
           request == Request(object)
           usks == HashMap(call.user_secret_keys)
           pks == call.public_keys[1]
           id == create_full_id(request.package_id, request.id)
           symbol == OpenedSymbol(eo, seed, FullIdOf(eo), pks, k)
<1>1. /\ Sealing(eo, shares, seed, request, t, n, change)
      /\ Opening(eo, usks, call.public_keys, BaseKey(seed))
      /\ VerifiedRandomness(eo, BaseKey(seed)) = Ok(seed)
  BY DEF OpenedCall
<1>2. /\ n \in Nat /\ WithPlaces(eo, n)
      /\ DOMAIN pks = 1..n
  BY OpenedPlaces
<1>3. HeldPlaces(eo, usks) \subseteq 1..n
  BY <1>2 DEF HeldPlaces, WithPlaces
<1> HIDE DEF object, eo, seed, request, usks, id, pks, symbol
<1>4. eo.services[k][1] = request.key_servers[k]
  BY <1>1 DEF Sealing
<1>5. CASE k \in HeldPlaces(eo, usks)
  <2>1. PICK j \in HeldPlaces(eo, usks) : Answers(eo, usks, seed, request, k, j)
    BY <1>1, <1>5, PlacesOfOpening
  <2>2. symbol = HeldSymbol(eo, usks, k)
    BY <1>1, <1>2, <1>5, OpenedHeld DEF symbol, pks
  <2>3. Pairing(Gid(FullIdOf(eo)) * seed, pks[k]) = Pairing(usks[eo.services[k][1]], eo.nonce)
    BY <2>2 DEF symbol, OpenedSymbol, HeldSymbol
  <2>4. /\ request.key_servers[j] = request.key_servers[k]
        /\ Pairing(Gid(id) * seed, pks[k]) = Pairing(Gid(id) * seed, request.public_keys[j])
    BY <1>4, <2>1, <2>3 DEF Answers, id
  <2> QED
    BY <1>3, <2>4 DEF object, request, seed, id, pks
<1>6. CASE k \notin HeldPlaces(eo, usks)
  <2>1. symbol = MaskSymbol(seed, request, k)
    BY <1>1, <1>2, <1>6, OpenedElsewhere DEF symbol, pks
  <2>2. Pairing(Gid(id) * seed, pks[k]) = Pairing(Gid(id) * seed, request.public_keys[k])
    BY <2>1 DEF symbol, OpenedSymbol, MaskSymbol, id
  <2> QED
    BY <2>2 DEF object, request, seed, id, pks
<1> QED
  BY <1>5, <1>6

LEMMA KeepsInvImpliesPublicKeysRight == KeepsInv => PublicKeysRight
<1> SUFFICES ASSUME KeepsInv, NEW call \in opened, call.result.ok,
                    call.public_keys # <<>>, MadeForItsServers(call.object)
             PROVE  call.public_keys = <<PublicKeys(Request(call.object).key_servers)>>
  BY DEF PublicKeysRight, RightPublicKeys
<1> DEFINE object == call.object
           seed == object.seed
           request == Request(object)
           pks == call.public_keys[1]
           id == create_full_id(request.package_id, request.id)
<1>1. seed \in Scalar /\ request \in Requests
  BY OpenedMeans
<1>2. PICK shares, t, n, change : OpenedCall(call, shares, t, n, change)
  BY OpenedMeans
<1>3. DOMAIN request.key_servers = 1..n /\ DOMAIN pks = 1..n
  BY <1>2, OpenedPlaces
<1>4. pks \in Seq(Nat) /\ call.public_keys = <<pks>>
  BY PublicKeyListsAssumption DEF KeepsInv
<1>5. request.public_keys = PublicKeys(request.key_servers)
  BY DEF MadeForItsServers
<1>6. request.key_servers \in Seq(DOMAIN MasterKey)
  BY <1>1, RequestAssumption
<1>7. Gid(id) \in Nat \ {0} /\ seed \in Nat \ {0}
  <2>1. id \in FullId
    BY <1>1, IdentityAssumption DEF create_full_id
  <2> HIDE DEF id
  <2> QED
    BY <1>1, <2>1, H1Assumption, ScalarAssumption DEF Gid, hash_to_g1
<1>8. ASSUME NEW k \in 1..n PROVE pks[k] = PublicKeys(request.key_servers)[k]
  <2> DEFINE q == Gid(id) * seed
             p == MasterKey[request.key_servers[k]]
  <2>1. PICK j \in 1..n : /\ request.key_servers[j] = request.key_servers[k]
                          /\ Pairing(q, pks[k]) = Pairing(q, request.public_keys[j])
    BY <1>2, PublicKeysFit
  <2> HIDE DEF object, seed, request, pks, id, q, p
  <2>2. p \in Nat /\ pks[k] \in Nat
    <3>0. \A S, list : list \in Seq(S) => \A i \in DOMAIN list : list[i] \in S
      OBVIOUS
    <3>1. request.key_servers[k] \in DOMAIN MasterKey
      <4>1. k \in DOMAIN request.key_servers
        BY <1>3
      <4> QED
        BY <1>6, <3>0, <4>1, Zenon
    <3>2. p \in Nat
      BY <3>1, MasterKeyAssumption DEF p
    <3>3. pks[k] \in Nat
      <4>1. k \in DOMAIN pks
        BY <1>3
      <4> QED
        BY <1>4, <3>0, <4>1, Zenon
    <3> QED
      BY <3>2, <3>3
  <2>3. PublicKeys(request.key_servers)[k] = p /\ request.public_keys[j] = p
    <3>1. public_key_from_master_key(p) = p
      BY <2>2 DEF public_key_from_master_key, Generator
    <3> QED
      BY <1>3, <1>5, <2>1, <3>1 DEF PublicKeys, p
  <2>4. q \in Nat \ {0}
    <3> DEFINE g == Gid(id)
    <3> HIDE DEF g
    <3> QED BY <1>7 DEF g, q
  <2> HIDE DEF q, p
  <2>5. q * pks[k] = q * p
    BY <2>1, <2>3 DEF Pairing
  <2>6. pks[k] = p
    BY <2>2, <2>4, <2>5
  <2> QED
    BY <2>3, <2>6
<1>9. PublicKeys(request.key_servers) = [k \in 1..n |-> PublicKeys(request.key_servers)[k]]
  BY <1>3 DEF PublicKeys
<1>10. pks = [k \in 1..n |-> pks[k]]
  <2> HIDE DEF pks
  <2>1. IsSequence(pks)
    BY <1>4 DEF IsSequence
  <2> QED
    BY <1>3, <2>1, SequenceIsFunction
<1> HIDE DEF pks
<1>11. pks = PublicKeys(request.key_servers)
  BY <1>8, <1>9, <1>10
<1> QED
  BY <1>4, <1>11

(* core.rs:328-339: whoever opens an object with the check of the shares   *)
(* passed the public keys of its servers in their order.                   *)
THEOREM PublicKeysAreRight == Spec => []PublicKeysRight
BY KeepsInvAlways, KeepsInvImpliesPublicKeysRight, PTL

-----------------------------------------------------------------------------
(* The fields that no key is derived from. *)

LEMMA IdentityIntact ==
  ASSUME KeepsInv, NEW call \in opened, call.result.ok
  PROVE  /\ call.object.eo.package_id = Original(call.object).package_id
         /\ call.object.eo.id = Original(call.object).id
<1> DEFINE object == call.object
           eo == object.eo
           seed == object.seed
           request == Request(object)
           original == Original(object)
           usks == HashMap(call.user_secret_keys)
           a == create_full_id(eo.package_id, eo.id)
           b == create_full_id(request.package_id, request.id)
<1>1. request \in Requests
  BY OpenedMeans
<1>2. PICK shares, t, n, change : OpenedCall(call, shares, t, n, change)
  BY OpenedMeans
<1>3. /\ Sealing(eo, shares, seed, request, t, n, change)
      /\ Opening(eo, usks, call.public_keys, BaseKey(seed))
  BY <1>2 DEF OpenedCall
<1>4. HeldPlaces(eo, usks) # {}
  BY <1>2, OpenedPlaces, HeldIs DEF KeepsInv
<1>5. object \in StoredObjects
  BY DEF StoredObjects
<1>6. FieldsInv(eo, original) /\ Assembled(original, seed, request)
  BY <1>5 DEF KeepsInv, SoundInv, TypeInv, SealedCall, Request, Original
<1>7. original.package_id = request.package_id /\ original.id = request.id
  BY <1>6 DEF Assembled, Assemble
<1> HIDE DEF object, eo, seed, request, original, usks
<1>8. PICK k \in HeldPlaces(eo, usks) : TRUE
  BY <1>4
<1>9. PICK j \in HeldPlaces(eo, usks) : Answers(eo, usks, seed, request, k, j)
  BY <1>3, PlacesOfOpening
<1>10. H1[a] = H1[b]
  BY <1>9 DEF Answers, Gid, hash_to_g1, FullIdOf
<1>11. a \in FullId /\ b \in FullId
  <2>1. {request.package_id, "other package"} \X {request.id, "other id"} \subseteq FullId
    BY <1>1, IdentityAssumption
  <2>2. /\ eo.package_id \in {request.package_id, "other package"}
        /\ eo.id \in {request.id, "other id"}
    BY <1>6, <1>7 DEF FieldsInv
  <2> QED
    BY <2>1, <2>2 DEF create_full_id
<1>12. a = b
  <2> HIDE DEF a, b
  <2> QED
    BY <1>10, <1>11, H1Assumption
<1>13. eo.package_id = request.package_id /\ eo.id = request.id
  BY <1>12 DEF create_full_id
<1> QED
  BY <1>7, <1>13 DEF eo, object, original

LEMMA CiphertextIntact ==
  ASSUME KeepsInv, NEW call \in opened, call.result.ok
  PROVE  \/ call.object.eo.ciphertext.mode = "Plain"
         \/ SameCiphertext(call.object.eo.ciphertext, Original(call.object).ciphertext)
<1> DEFINE object == call.object
           eo == object.eo
           request == Request(object)
           original == Original(object)
<1>1. request \in Requests /\ call.result = DemDecrypt(eo.ciphertext, DemKey(object))
  BY OpenedMeans
<1>2. object \in StoredObjects
  BY DEF StoredObjects
<1>3. ObjectInv(eo, original) /\ Assembled(original, object.seed, request)
  BY <1>2 DEF KeepsInv, SoundInv, TypeInv, SealedCall, Request, Original
<1>4. original.ciphertext = DemEncrypt(request.input, DemKey(object))
  BY <1>3 DEF Assembled, Assemble, DemKey
<1>5. CiphertextInv(eo.ciphertext, original.ciphertext)
  BY <1>3 DEF ObjectInv
<1> HIDE DEF object, eo, request, original
<1>6. DemDecrypt(eo.ciphertext, DemKey(object)).ok
  BY <1>1
<1>7. SoundDecryption(eo.ciphertext, request.input, DemKey(object))
  BY <1>1, <1>4, <1>5, <1>6, DemSound
<1> QED
  BY <1>4, <1>7 DEF SoundDecryption, object, eo, original

ServicesAt(services, places) == {services[k] : k \in places}

LEMMA ServicesIntact ==
  ASSUME KeepsInv, NEW call \in opened, call.result.ok
  PROVE  LET eo == call.object.eo
             original == Original(call.object)
         IN  /\ ServicesAt(eo.services, Held(call)) = ServicesAt(original.services, Held(call))
             /\ call.public_keys # <<>> =>
                  \A k \in (DOMAIN eo.services) \ Held(call) :
                    eo.services[k] = original.services[k]
             /\ Held(call) \subseteq DOMAIN eo.services
<1> DEFINE object == call.object
           eo == object.eo
           seed == object.seed
           request == Request(object)
           original == Original(object)
           usks == HashMap(call.user_secret_keys)
           S == HeldPlaces(eo, usks)
<1>1. PICK shares, t, n, change : OpenedCall(call, shares, t, n, change)
  BY OpenedMeans
<1>2. /\ Sealing(eo, shares, seed, request, t, n, change)
      /\ Opening(eo, usks, call.public_keys, BaseKey(seed))
      /\ VerifiedRandomness(eo, BaseKey(seed)) = Ok(seed)
  BY <1>1 DEF OpenedCall
<1>3. /\ \A k \in 1..n : eo.services[k] = <<eo.services[k][1], eo.services[k][2]>>
      /\ DOMAIN eo.services = 1..n
      /\ original.services = [k \in 1..n |-> <<request.key_servers[k], k>>]
      /\ S \subseteq 1..n
      /\ call.public_keys # <<>> => DOMAIN call.public_keys[1] = 1..n
  <2>1. Held(call) = S
    BY HeldIs DEF KeepsInv
  <2> HIDE DEF S
  <2>2. /\ \A k \in 1..n : eo.services[k] = <<eo.services[k][1], eo.services[k][2]>>
        /\ DOMAIN eo.services = 1..n
    BY <1>1, OpenedPlaces, ZenonT(60)
  <2>3. original.services = [k \in 1..n |-> <<request.key_servers[k], k>>]
    BY <1>1, OpenedPlaces, SMTT(30)
  <2>4. /\ Held(call) \subseteq 1..n
        /\ call.public_keys # <<>> => DOMAIN call.public_keys[1] = 1..n
    BY <1>1, OpenedPlaces
  <2> QED
    BY <2>1, <2>2, <2>3, <2>4
<1>4. Held(call) = S
  BY HeldIs DEF KeepsInv
<1> HIDE DEF object, eo, seed, request, original, usks, S
<1>5. /\ \A k \in S : \E j \in S : Answers(eo, usks, seed, request, k, j)
      /\ \A j \in S : \E k \in S : Answers(eo, usks, seed, request, k, j)
  BY <1>2, PlacesOfOpening DEF S
<1>6. \A k, j \in S : Answers(eo, usks, seed, request, k, j) => eo.services[k] = original.services[j]
  <2> SUFFICES ASSUME NEW k \in S, NEW j \in S, Answers(eo, usks, seed, request, k, j)
               PROVE  eo.services[k] = original.services[j]
    OBVIOUS
  <2>1. eo.services[k][1] = request.key_servers[j] /\ eo.services[k][2] = j
    BY DEF Answers
  <2>2. original.services[j] = <<request.key_servers[j], j>>
    BY <1>3
  <2>3. eo.services[k] = <<eo.services[k][1], eo.services[k][2]>>
    BY <1>3
  <2> QED
    BY <2>1, <2>2, <2>3
<1>7. ServicesAt(eo.services, S) = ServicesAt(original.services, S)
  <2>1. ASSUME NEW e \in ServicesAt(eo.services, S) PROVE e \in ServicesAt(original.services, S)
    <3>1. PICK k \in S : e = eo.services[k]
      BY <2>1 DEF ServicesAt
    <3>2. PICK j \in S : Answers(eo, usks, seed, request, k, j)
      BY <1>5
    <3>3. e = original.services[j]
      BY <1>6, <3>1, <3>2
    <3> QED
      BY <3>3 DEF ServicesAt
  <2>2. ASSUME NEW e \in ServicesAt(original.services, S) PROVE e \in ServicesAt(eo.services, S)
    <3>1. PICK j \in S : e = original.services[j]
      BY <2>2 DEF ServicesAt
    <3>2. PICK k \in S : Answers(eo, usks, seed, request, k, j)
      BY <1>5
    <3>3. e = eo.services[k]
      BY <1>6, <3>1, <3>2
    <3> QED
      BY <3>3 DEF ServicesAt
  <2> QED
    BY <2>1, <2>2
<1>8. ASSUME call.public_keys # <<>>, NEW k \in (1..n) \ S
      PROVE  eo.services[k] = original.services[k]
  <2>1. eo.services[k][1] = request.key_servers[k] /\ eo.services[k][2] = k
    BY <1>2, <1>3, <1>8, PlacesElsewhere DEF S
  <2>2. original.services[k] = <<request.key_servers[k], k>>
    BY <1>3
  <2>3. eo.services[k] = <<eo.services[k][1], eo.services[k][2]>>
    BY <1>3
  <2> QED
    BY <2>1, <2>2, <2>3
<1> QED
  BY <1>3, <1>4, <1>7, <1>8 DEF eo, object, original

LEMMA KeepsInvImpliesOtherFields == KeepsInv => OtherFieldsIntact
<1> SUFFICES ASSUME KeepsInv, NEW call \in opened, call.result.ok
             PROVE  LET eo == call.object.eo
                        original == Original(call.object)
                        places == IF call.public_keys = <<>> THEN Held(call)
                                  ELSE DOMAIN eo.services
                    IN  /\ eo.package_id = original.package_id
                        /\ eo.id = original.id
                        /\ \/ eo.ciphertext.mode = "Plain"
                           \/ SameCiphertext(eo.ciphertext, original.ciphertext)
                        /\ {eo.services[k] : k \in places} = {original.services[k] : k \in places}
  BY DEF OtherFieldsIntact
<1> DEFINE eo == call.object.eo
           original == Original(call.object)
           H == Held(call)
           D == DOMAIN eo.services
           places == IF call.public_keys = <<>> THEN H ELSE D
<1>1. eo.package_id = original.package_id /\ eo.id = original.id
  BY IdentityIntact
<1>2. eo.ciphertext.mode = "Plain" \/ SameCiphertext(eo.ciphertext, original.ciphertext)
  BY CiphertextIntact
<1>3. /\ ServicesAt(eo.services, H) = ServicesAt(original.services, H)
      /\ call.public_keys # <<>> => \A k \in D \ H : eo.services[k] = original.services[k]
      /\ H \subseteq D
  BY ServicesIntact
<1> HIDE DEF eo, original, H, D
<1>4. ASSUME call.public_keys # <<>>
      PROVE  ServicesAt(eo.services, D) = ServicesAt(original.services, D)
  <2>1. ServicesAt(eo.services, D \ H) = ServicesAt(original.services, D \ H)
    BY <1>3, <1>4 DEF ServicesAt
  <2>2. \A s : ServicesAt(s, D) = ServicesAt(s, H) \cup ServicesAt(s, D \ H)
    <3>1. D = H \cup (D \ H)
      BY <1>3
    <3>2. \A s, A, B : ServicesAt(s, A \cup B) = ServicesAt(s, A) \cup ServicesAt(s, B)
      BY DEF ServicesAt
    <3> QED
      BY <3>1, <3>2
  <2> QED
    BY <1>3, <2>1, <2>2
<1>5. ServicesAt(eo.services, places) = ServicesAt(original.services, places)
  BY <1>3, <1>4
<1> QED
  BY <1>1, <1>2, <1>5 DEF ServicesAt, eo, original, H, D

(* core.rs:185-272: the identity, the share indices and the ciphertext of  *)
(* an object that opens are as they were, with the exceptions named.       *)
THEOREM OtherFieldsAreIntact == Spec => []OtherFieldsIntact
BY KeepsInvAlways, KeepsInvImpliesOtherFields, PTL

-----------------------------------------------------------------------------
(* Who opens an object. *)

(* The keys of a caller that verified them fit the public keys. *)
LEMMA VerifiedCall ==
  ASSUME KeepsInv, NEW call \in opened, KeysVerified(call),
         Request(call.object) \in Requests, call.object.seed \in Scalar,
         ServerIds(call.object.eo.services) = Request(call.object).key_servers,
         NEW k \in Held(call)
  PROVE  FitsPublicKey(HashMap(call.user_secret_keys), PublicKeys(Request(call.object).key_servers),
                       Request(call.object), call.object.seed, k)
<1> DEFINE object == call.object
           eo == object.eo
           request == Request(object)
           usks == HashMap(call.user_secret_keys)
           server == request.key_servers[k]
           id == create_full_id(request.package_id, request.id)
           u == usks[server]
           mk == MasterKey[server]
<1>1. eo.services[k][1] = server /\ k \in DOMAIN request.key_servers
  BY DEF Held, ServerIds
<1>2. server \in DOMAIN usks
  BY <1>1, HeldIs DEF HeldPlaces, KeepsInv
<1>3. u \in Nat /\ verify_user_secret_key(u, id, public_key_from_master_key(mk))
  <2>1. u \in Nat /\ <<server, u>> \in LastPairs(call)
    BY <1>2, LastPairsAreMap DEF KeepsInv, SoundInv
  <2>2. <<server, u>>[1] = server /\ <<server, u>>[2] = u
    OBVIOUS
  <2> HIDE DEF u, server, id, mk
  <2>3. verify_user_secret_key(u, id, public_key_from_master_key(MasterKey[server]))
    BY <2>1, <2>2 DEF KeysVerified, id, request, object
  <2> QED
    BY <2>1, <2>3 DEF mk
<1>4. id \in FullId
  BY IdentityAssumption DEF create_full_id
<1>5. mk \in Nat
  <2>1. request.key_servers \in Seq(DOMAIN MasterKey)
    BY RequestAssumption
  <2>2. server \in DOMAIN MasterKey
    BY <1>1, <2>1
  <2> QED
    BY <2>2, MasterKeyAssumption
<1>6. object.seed \in Nat
  BY ScalarAssumption
<1>7. PublicKeys(request.key_servers)[k] = public_key_from_master_key(mk)
  BY <1>1 DEF PublicKeys
<1> HIDE DEF u, mk, id
<1>8. Pairing(u, Generator * object.seed) = Pairing(Gid(id) * object.seed, public_key_from_master_key(mk))
  BY <1>3, <1>4, <1>5, <1>6, VerifiedPairing
<1> QED
  BY <1>7, <1>8 DEF FitsPublicKey, u, id

(* An object whose parts fit opens to the decryption of its ciphertext. *)
LEMMA OpeningOpens ==
  ASSUME KeepsInv, NEW call \in opened, NEW n \in Nat, NEW base_key,
         WithPlaces(call.object.eo, n), IsArray(base_key),
         Opening(call.object.eo, HashMap(call.user_secret_keys), call.public_keys, base_key),
         call.object.eo.version = 0,
         Len(call.object.eo.encrypted_shares) = Len(call.object.eo.services),
         HoldsEnough(call.object.eo, HashMap(call.user_secret_keys))
  PROVE  call.result = DemDecrypt(call.object.eo.ciphertext, DemKeyOf(call.object.eo, base_key))
<1> DEFINE eo == call.object.eo
           usks == HashMap(call.user_secret_keys)
           combined == Combined(eo, usks, call.public_keys)
<1>1. call.result = seal_decrypt(eo, usks, call.public_keys)
  BY DEF KeepsInv, SoundInv, py_seal_decrypt
<1>2. DOMAIN eo.services = 1..n
  BY DEF WithPlaces
<1> HIDE DEF eo, usks
<1>3. combined.ok /\ combined.val = base_key
  BY CombinedWhen DEF eo, usks
<1>4. seal_decrypt(eo, usks, call.public_keys) = DemDecrypt(eo.ciphertext, DemKeyOf(eo, combined.val))
  BY <1>2, <1>3, DecryptParts DEF eo, usks
<1> QED
  BY <1>1, <1>3, <1>4 DEF eo

LEMMA ConformingIsMade ==
  ASSUME KeepsInv, NEW call \in opened, Conforming(call.object)
  PROVE  LET object == call.object
             eo == object.eo
             request == Request(object)
         IN  /\ \E shares : Made(eo, object.seed, request, shares, Len(request.key_servers))
             /\ Bound(eo, eo, request)
             /\ Assembled(eo, object.seed, request)
             /\ request \in Requests
             /\ object.seed \in Scalar
<1> DEFINE object == call.object
           eo == object.eo
           seed == object.seed
           request == Request(object)
<1>1. SoundInv
  BY DEF KeepsInv
<1>2. object \in StoredObjects
  BY DEF StoredObjects
<1>3. eo = Original(object) /\ sealed[seed].honest
  BY DEF Conforming
<1>4. /\ seed \in 1..Len(sealed)
      /\ sealed[seed].result.ok
      /\ request \in Requests
      /\ Assembled(eo, seed, request)
  BY <1>1, <1>2, <1>3 DEF SoundInv, TypeInv, SealedCall, Request, Original
<1>5. HonestWrites(eo, request, seed)
  BY <1>3, <1>4 DEF KeepsInv, WritingCall, Request, Original
<1>6. seed \in Scalar
  <2>1. Len(sealed) \in Nat /\ Len(sealed) <= MaxEncryptions
    BY <1>1, SequenceFacts DEF SoundInv, TypeInv
  <2>2. seed \in 1..MaxEncryptions
    BY <1>4, <2>1, BoundsAssumption
  <2> QED
    BY <2>2, DrawsAssumption
<1>7. IsSequence(request.key_servers)
  BY <1>4, RequestAssumption DEF IsSequence
<1> HIDE DEF object, eo, seed, request
<1> QED
  BY <1>4, <1>5, <1>6, <1>7, HonestIsMade DEF eo, seed, request, object

LEMMA KeepsInvImpliesAvailability == KeepsInv => Availability
<1> SUFFICES ASSUME KeepsInv, NEW call \in opened, Conforming(call.object),
                    Cardinality(Held(call)) >= call.object.eo.threshold,
                    KeysVerified(call), RightPublicKeys(call)
             PROVE  call.result.ok
  BY DEF Availability
<1> DEFINE object == call.object
           eo == object.eo
           seed == object.seed
           request == Request(object)
           n == Len(request.key_servers)
           usks == HashMap(call.user_secret_keys)
           pks == request.public_keys
<1>1. /\ Bound(eo, eo, request)
      /\ Assembled(eo, seed, request)
      /\ request \in Requests
      /\ seed \in Scalar
  BY ConformingIsMade
<1>2. PICK shares : Made(eo, seed, request, shares, n)
  BY ConformingIsMade
<1>3. pks = PublicKeys(request.key_servers)
  BY DEF Conforming, MadeForItsServers
<1>4. NoneOrOwn(call.public_keys, request)
  BY <1>3 DEF RightPublicKeys, NoneOrOwn
<1>5. Held(call) = HeldPlaces(eo, usks)
  BY HeldIs DEF KeepsInv
<1>6. KeysFit(eo, usks, request, seed)
  <2>1. ServerIds(eo.services) = request.key_servers
    BY <1>1 DEF Bound
  <2> QED
    BY <1>1, <1>3, <1>5, <2>1, VerifiedCall DEF KeysFit
<1>7. HeldCount(eo, usks) >= request.threshold
  BY <1>1, <1>5 DEF HeldCount, Bound
<1>8. Len(pks) = n
  <2>1. n \in Nat /\ DOMAIN request.key_servers = 1..n
    BY <1>1, RequestAssumption, LenProperties
  <2>2. DOMAIN pks = 1..n
    BY <1>3, <2>1 DEF PublicKeys
  <2> QED
    BY <2>1, <2>2, LenDomain
<1>9. call.result = seal_decrypt(eo, usks, call.public_keys)
  BY DEF KeepsInv, SoundInv, py_seal_decrypt
<1>10. /\ IsSequence(request.input.data)
       /\ request.input.mode \in {"Aes256Gcm", "Hmac256Ctr", "Plain"}
  BY <1>1, RequestFacts
<1> HIDE DEF object, eo, seed, request, n, usks
<1>11. OpensToInput(eo, usks, call.public_keys, request)
  <2>1. Len(request.public_keys) = n
    BY <1>8
  <2> QED
    BY <1>1, <1>2, <1>4, <1>6, <1>7, <2>1, MadeOpens
<1>12. PICK key : call.result = DemDecrypt(DemEncrypt(request.input, key), key)
  BY <1>9, <1>11 DEF OpensToInput
<1> DEFINE input == request.input
<1>13. call.result = Ok(IF input.mode = "Plain" THEN <<key>> ELSE input.data)
  <2> HIDE DEF input
  <2>1. IsSequence(input.data) /\ input.mode \in {"Aes256Gcm", "Hmac256Ctr", "Plain"}
    BY <1>10 DEF input
  <2>2. call.result = DemDecrypt(DemEncrypt(input, key), key)
    BY <1>12 DEF input
  <2> QED
    BY <2>1, <2>2, DemWorks
<1> QED
  BY <1>13, ResultFacts

(* core.rs:185-272: an object as it was made opens for everyone with       *)
(* verified keys for threshold of its places, with and without the check   *)
(* of the shares.                                                          *)
THEOREM AvailableAlways == Spec => []Availability
BY KeepsInvAlways, KeepsInvImpliesAvailability, PTL

-----------------------------------------------------------------------------
(* What public_keys is for. *)

LEMMA KeepsInvImpliesConsistency == KeepsInv => Consistency
<1> SUFFICES ASSUME KeepsInv, NEW call \in opened, NEW other \in opened,
                    call.result.ok,
                    call.public_keys # <<>>, RightPublicKeys(call),
                    other.object = call.object,
                    Cardinality(Held(other)) >= Cardinality(Held(call)),
                    KeysVerified(other), RightPublicKeys(other)
             PROVE  other.result.ok
  BY DEF Consistency
<1> DEFINE object == call.object
           eo == object.eo
           seed == object.seed
           request == Request(object)
           usks == HashMap(call.user_secret_keys)
           others == HashMap(other.user_secret_keys)
           pks == PublicKeys(request.key_servers)
           id == create_full_id(request.package_id, request.id)
           base_key == BaseKey(seed)
<1>1. /\ Bound(eo, Original(object), request)
      /\ seed \in Scalar
      /\ request \in Requests
      /\ call.result = DemDecrypt(eo.ciphertext, DemKey(object))
  BY OpenedMeans
<1>2. PICK shares, t, n, change : OpenedCall(call, shares, t, n, change)
  BY OpenedMeans
<1>3. /\ Sealing(eo, shares, seed, request, t, n, change)
      /\ Opening(eo, usks, call.public_keys, base_key)
      /\ VerifiedRandomness(eo, base_key) = Ok(seed)
  BY <1>2 DEF OpenedCall
<1>4. /\ n \in Nat /\ WithPlaces(eo, n) /\ DOMAIN eo.services = 1..n
      /\ call.public_keys # <<>> => DOMAIN call.public_keys[1] = 1..n
  BY <1>2, OpenedPlaces, ZenonT(60)
<1>5. Held(call) # {} /\ Held(call) \subseteq 1..n
  BY <1>2, OpenedPlaces
<1>6. Held(call) = HeldPlaces(eo, usks) /\ Held(other) = HeldPlaces(eo, others)
  BY HeldIs DEF KeepsInv
<1>7. call.public_keys = <<pks>> /\ other.public_keys \in {<<>>, <<pks>>}
  BY DEF RightPublicKeys
<1>8. FullIdOf(eo) = id
  <2>1. /\ eo.package_id = Original(object).package_id
        /\ eo.id = Original(object).id
    BY IdentityIntact
  <2>2. Assembled(Original(object), seed, request)
    BY OpenedObject DEF KeepsInv
  <2> QED
    BY <2>1, <2>2 DEF FullIdOf, Assembled, Assemble
<1>9. eo.version = 0
  BY OpenedObject DEF KeepsInv
<1>10. \A k \in HeldPlaces(eo, others) : FitsPublicKey(others, pks, request, seed, k)
  <2>1. Held(other) = HeldPlaces(eo, others) /\ other.object = object
    BY <1>6
  <2> QED
    BY <1>1, <2>1, VerifiedCall DEF Bound
<1>11. eo.nonce = Generator * seed /\ \A k \in 1..n : eo.services[k][1] = request.key_servers[k]
  BY <1>3 DEF Sealing
<1>12. \A k \in HeldPlaces(eo, others) :
         Pairing(others[eo.services[k][1]], eo.nonce) = Pairing(Gid(id) * seed, pks[k])
  <2>1. HeldPlaces(eo, others) \subseteq 1..n
    BY <1>4 DEF HeldPlaces
  <2> QED
    BY <1>10, <1>11, <2>1 DEF FitsPublicKey
<1>13. /\ HeldCount(eo, others) >= HeldCount(eo, usks)
       /\ HeldCount(eo, usks) >= eo.threshold
       /\ eo.threshold \in Nat
  <2>1. HoldsEnough(eo, usks) /\ eo.threshold = request.threshold
    BY OpenedObject DEF KeepsInv
  <2> QED
    BY <1>1, <1>6, <2>1, RequestAssumption DEF HeldCount, HoldsEnough
<1>14. DemKeyOf(eo, base_key) = DemKey(object)
  BY <1>1 DEF DemKeyOf, DemKey, Bound
<1> HIDE DEF object, eo, seed, request, usks, others, pks, id, base_key
<1>15. HeldCount(eo, usks) \in Nat /\ HeldCount(eo, usks) > 0
       /\ HeldCount(eo, others) >= HeldCount(eo, usks) /\ HeldCount(eo, others) > 0
       /\ HoldsEnough(eo, others)
  <2>1. HeldCount(eo, usks) \in 0..n /\ HeldCount(eo, others) \in 0..n
    BY <1>4, HeldFacts
  <2>2. HeldCount(eo, usks) # 0
    BY <1>3 DEF Opening, Accepted
  <2>3. HeldCount(eo, others) >= HeldCount(eo, usks)
    BY <1>13
  <2>4. HeldCount(eo, others) >= eo.threshold
    BY <1>4, <1>13, <2>1
  <2> QED
    BY <1>4, <2>1, <2>2, <2>3, <2>4 DEF HoldsEnough, HeldCount
<1> DEFINE all == Opened(eo, seed, pks, n)
<1>16. DOMAIN pks = 1..n /\ call.public_keys[1] = pks
  BY <1>4, <1>7
<1>17. OnPolynomials(eo, all, base_key, HeldCount(eo, usks), n)
  BY <1>3, <1>4, <1>16, OpenedOnPolynomials
<1>18. Numbered(eo, n)
  BY <1>3, <1>16, OpenedIsNumbered DEF base_key
<1>19. Unmasks(eo, others, all)
  <2> SUFFICES ASSUME NEW k \in HeldPlaces(eo, others)
               PROVE  HeldShare(eo, others, k) = all[k]
    BY DEF Unmasks
  <2>1. k \in 1..n
    BY <1>4 DEF HeldPlaces
  <2>2. all[k] = OpenedShare(eo, seed, FullIdOf(eo), pks, k)
    BY <2>1 DEF Opened
  <2>3. HeldShare(eo, others, k)
          = xor(eo.encrypted_shares[k], Opaque(HeldSymbol(eo, others, k)))
    BY DEF HeldShare, decrypt, kdf, HeldSymbol, Gid
  <2>4. OpenedShare(eo, seed, FullIdOf(eo), pks, k)
          = xor(eo.encrypted_shares[k], Opaque(OpenedSymbol(eo, seed, FullIdOf(eo), pks, k)))
    BY DEF OpenedShare, decrypt_deterministic, kdf, OpenedSymbol, Gid
  <2>5. HeldSymbol(eo, others, k) = OpenedSymbol(eo, seed, FullIdOf(eo), pks, k)
    BY <1>8, <1>11, <1>12 DEF HeldSymbol, OpenedSymbol
  <2> HIDE DEF all
  <2> QED
    BY <2>2, <2>3, <2>4, <2>5
<1>20. other.public_keys # <<>> =>
         /\ Len(other.public_keys[1]) = Len(eo.encrypted_shares)
         /\ \A k \in 1..n : OpenedShare(eo, seed, FullIdOf(eo), other.public_keys[1], k) = all[k]
  <2> SUFFICES ASSUME other.public_keys # <<>>
               PROVE  /\ Len(other.public_keys[1]) = Len(eo.encrypted_shares)
                      /\ \A k \in 1..n :
                           OpenedShare(eo, seed, FullIdOf(eo), other.public_keys[1], k) = all[k]
    OBVIOUS
  <2>1. other.public_keys[1] = pks
    BY <1>7
  <2>2. Len(pks) = n
    BY <1>4, <1>16, LenDomain
  <2>3. Len(eo.encrypted_shares) = n
    BY <1>4, ArraysDomain, LenDomain DEF WithPlaces
  <2> QED
    BY <2>1, <2>2, <2>3 DEF Opened
<1> HIDE DEF all
<1>21. Opening(eo, others, other.public_keys, base_key)
  BY <1>3, <1>4, <1>15, <1>17, <1>18, <1>19, <1>20, OpensOnPolynomials
<1>22. other.result = DemDecrypt(eo.ciphertext, DemKeyOf(eo, base_key))
  <2>1. IsArray(base_key)
    BY CoefficientArrays DEF base_key
  <2>2. Len(eo.encrypted_shares) = Len(eo.services)
    BY <1>1 DEF Bound
  <2>3. other.object.eo = eo
    BY DEF eo, object
  <2> QED
    BY <1>4, <1>9, <1>15, <1>21, <2>1, <2>2, <2>3, OpeningOpens DEF others
<1> QED
  BY <1>1, <1>14, <1>22 DEF eo

(* core.rs:328-370: an object that opens for a caller with the check of    *)
(* the shares opens for everyone with verified keys for as many places,    *)
(* whatever its encryptor wrote into it.                                   *)
THEOREM ConsistentAlways == Spec => []Consistency
BY KeepsInvAlways, KeepsInvImpliesConsistency, PTL
=============================================================================
