-------------------------- MODULE RetrievalProofs ---------------------------
(***************************************************************************)
(* Theorems about KeyRetrieval, for every number of servers, key pairs and *)
(* messages, and whatever the faulty servers are.                          *)
(***************************************************************************)
EXTENDS KeyRetrieval, CoreProofs

-----------------------------------------------------------------------------
(* The arithmetic of group elements. *)

LEMMA ProductPositive ==
  ASSUME NEW a \in Nat \ {0}, NEW b \in Nat \ {0}
  PROVE  a * b \in Nat \ {0}
OBVIOUS

(* The keys of a server, and the elements of an answer. *)
LEMMA ServerElements ==
  ASSUME NEW server \in Server, NEW index \in Index, NEW full_id \in FullId
  PROVE  /\ MasterKeyOf(server, index) \in Nat \ {0}
         /\ hash_to_g1(full_id) \in Nat \ {0}
         /\ extract(MasterKeyOf(server, index), full_id) \in Nat \ {0}
<1>1. MasterKeyOf(server, index) \in Nat \ {0} /\ hash_to_g1(full_id) \in Nat \ {0}
  BY ServerAssumption, H1Assumption DEF hash_to_g1
<1> QED
  BY <1>1, ProductPositive DEF extract

LEMMA PublicKeyIsMasterKey ==
  ASSUME NEW server \in Server
  PROVE  /\ RegisteredIndex \in Index
         /\ WantedId \in FullId
         /\ PublicKeyOf(server) = MasterKeyOf(server, RegisteredIndex)
<1>1. RegisteredIndex \in Index /\ WantedId \in FullId
  BY ServerAssumption, IdAssumption
<1>2. MasterKeyOf(server, RegisteredIndex) \in Nat
  BY <1>1, ServerElements
<1> QED
  BY <1>1, <1>2 DEF PublicKeyOf, into_key_pair, public_key_from_master_key, Generator

LEMMA KeyPairElements ==
  ASSUME NEW n \in 1..MaxPairs
  PROVE  /\ KeyPair(n).sk \in Nat \ {0}
         /\ KeyPair(n).pk = KeyPair(n).sk
         /\ KeyPair(n).vk = KeyPair(n).sk
<1>1. Secret[n] \in Nat \ {0}
  BY DrawAssumption
<1> QED
  BY <1>1 DEF KeyPair, ElGamal!genkey, ElGamal!GroupGenerator

(* An element that passes verify_user_secret_key is the server's key. *)
LEMMA VerifiedKeyRight ==
  ASSUME NEW server \in Server, NEW usk \in Int
  PROVE  verify_user_secret_key(usk, WantedId, PublicKeyOf(server))
         <=> usk = extract(MasterKeyOf(server, RegisteredIndex), WantedId)
<1> DEFINE h == hash_to_g1(WantedId)
           mk == MasterKeyOf(server, RegisteredIndex)
<1>1. h \in Nat /\ mk \in Nat /\ PublicKeyOf(server) = mk
  BY PublicKeyIsMasterKey, ServerElements
<1>2. verify_user_secret_key(usk, WantedId, PublicKeyOf(server)) <=> usk * 1 = h * mk
  BY <1>1 DEF verify_user_secret_key, Pairing, Generator
<1>3. extract(mk, WantedId) = h * mk
  BY DEF extract
<1> HIDE DEF h
<1> QED
  BY <1>1, <1>2, <1>3

-----------------------------------------------------------------------------
(* The inductive invariant. *)

Contents == {RightContent} \cup WrongContents

RequestOk(message) == message.pk = KeyPair(message.pair).pk

Usk(answer) ==
  extract(MasterKeyOf(answer.server, answer.content.index), answer.content.full_id)

AnswerOk(message) ==
  /\ message.content \in Contents
  /\ \E drawn \in Draw :
       message.encryption =
         IF message.content.clear THEN <<0, Usk(message)>>
         ELSE ElGamal!encrypt(drawn, Usk(message), KeyPair(message.pair).pk)

MessageOk(message) ==
  /\ message.kind \in {"request", "answer"}
  /\ message.server \in Server
  /\ message.pair \in 1..pairs
  /\ message.kind = "request" => RequestOk(message)
  /\ message.kind = "answer" => AnswerOk(message)

RetrievalInv ==
  /\ pairs \in 0..MaxPairs
  /\ current \in {0, pairs}
  /\ \A message \in network : MessageOk(message)
  /\ DOMAIN keys \subseteq Server
  /\ KeptKeysRight

LEMMA ContentFacts ==
  ASSUME NEW content \in Contents
  PROVE  /\ content.full_id \in FullId
         /\ content.index \in Index
         /\ content.clear \in BOOLEAN
<1>1. PICK full_id \in FullId, index \in Index, clear \in BOOLEAN :
        content = [full_id |-> full_id, index |-> index, clear |-> clear]
  BY ServerAssumption, IdAssumption DEF Contents, RightContent, WrongContents, Content
<1> QED
  BY <1>1

(* An answer is a pair of elements. It is in the clear exactly if one of   *)
(* them is zero.                                                           *)
LEMMA AnswerElements ==
  ASSUME NEW message, RetrievalInv, message \in Messages("answer")
  PROVE  /\ message.encryption[1] \in Nat
         /\ message.encryption[2] \in Nat \ {0}
         /\ message.encryption[1] = 0 <=> message.content.clear
<1> DEFINE usk == Usk(message)
           pk == KeyPair(message.pair).pk
<1>0. message \in network /\ MessageOk(message) /\ message.kind = "answer"
  BY DEF RetrievalInv, Messages
<1>1. /\ message.server \in Server
      /\ message.pair \in 1..MaxPairs
      /\ message.content \in Contents
      /\ AnswerOk(message)
  BY <1>0, DrawAssumption DEF RetrievalInv, MessageOk, AnswerOk
<1>2. usk \in Nat \ {0}
  BY <1>1, ContentFacts, ServerElements DEF Usk
<1>3. pk \in Nat \ {0}
  BY <1>1, KeyPairElements
<1>4. message.content.clear \in BOOLEAN
  BY <1>1, ContentFacts
<1>5. PICK drawn \in Draw :
        message.encryption = IF message.content.clear THEN <<0, usk>>
                             ELSE ElGamal!encrypt(drawn, usk, pk)
  BY <1>1 DEF AnswerOk
<1>6. drawn \in Nat \ {0}
  BY DrawAssumption
<1>7. CASE message.content.clear
  BY <1>2, <1>5, <1>7
<1>8. CASE ~message.content.clear
  <2> HIDE DEF usk, pk
  <2>1. message.encryption = <<1 * drawn, pk * drawn + usk>>
    BY <1>5, <1>8 DEF ElGamal!encrypt, ElGamal!GroupGenerator
  <2>2. pk * drawn \in Nat \ {0}
    BY <1>3, <1>6, ProductPositive
  <2> QED
    BY <1>2, <1>6, <1>8, <2>1, <2>2
<1> QED
  BY <1>7, <1>8

-----------------------------------------------------------------------------
(* Every step keeps it. *)

LEMMA RetrievalInvInit == Init => RetrievalInv
BY DrawAssumption DEF Init, RetrievalInv, KeptKeysRight

(* Messages stay good when key pairs are added. *)
LEMMA MessagesStay ==
  ASSUME RetrievalInv, pairs' \in Nat, pairs <= pairs',
         NEW message \in network
  PROVE  MessageOk(message)'
BY DEF RetrievalInv, MessageOk, RequestOk, AnswerOk, Usk

LEMMA GenerateKeepsInv == RetrievalInv /\ GenerateElGamalKeypair => RetrievalInv'
<1> SUFFICES ASSUME RetrievalInv, GenerateElGamalKeypair PROVE RetrievalInv'
  OBVIOUS
<1>1. pairs' = pairs + 1 /\ current' = pairs' /\ pairs' \in 0..MaxPairs /\ pairs \in Nat
  BY DrawAssumption DEF RetrievalInv, GenerateElGamalKeypair
<1>2. \A message \in network' : MessageOk(message)'
  BY <1>1, MessagesStay DEF GenerateElGamalKeypair
<1> QED
  BY <1>1, <1>2 DEF RetrievalInv, GenerateElGamalKeypair, KeptKeysRight

(* Steps that leave the client alone and add at most one good message. *)
LEMMA NetworkKeepsInv ==
  ASSUME RetrievalInv, UNCHANGED <<pairs, current, keys, opened>>,
         \A message \in network' : message \in network \/ MessageOk(message)'
  PROVE  RetrievalInv'
<1>1. pairs \in Nat /\ pairs' = pairs
  BY DEF RetrievalInv
<1>2. \A message \in network' : MessageOk(message)'
  BY <1>1, MessagesStay
<1> QED
  BY <1>2 DEF RetrievalInv, KeptKeysRight

LEMMA AskKeepsInv ==
  ASSUME RetrievalInv, NEW server \in Server, Ask(server)
  PROVE  RetrievalInv'
<1> DEFINE request == [kind |-> "request", server |-> server, pair |-> current,
                       pk |-> KeyPair(current).pk, full_id |-> WantedId]
<1>1. network' = network \cup {request} /\ UNCHANGED <<pairs, current, keys, opened>>
  BY DEF Ask, UnderWay
<1>2. current \in 1..pairs /\ pairs' = pairs
  BY DEF Ask, RetrievalInv
<1>3. \A message : message = request => MessageOk(message)'
  BY <1>1, <1>2 DEF MessageOk, RequestOk, KeyPair
<1> HIDE DEF request
<1>4. \A message \in network' : message \in network \/ MessageOk(message)'
  BY <1>1, <1>3
<1> QED
  BY <1>1, <1>4, NetworkKeepsInv

LEMMA AnswerKeepsInv ==
  ASSUME RetrievalInv, NEW request \in Messages("request"),
         NEW content \in Contents, NEW again \in {{}, {request}},
         Answer(request, content, again)
  PROVE  RetrievalInv'
<1>1. PICK drawn \in Draw :
        LET usk == extract(MasterKeyOf(request.server, content.index), content.full_id)
        IN  /\ UnderWay((network \ {request}) \cup again,
                        [kind       |-> "answer",
                         server     |-> request.server,
                         pair       |-> request.pair,
                         content    |-> content,
                         encryption |-> IF content.clear THEN <<0, usk>>
                                        ELSE ElGamal!encrypt(drawn, usk, request.pk)])
            /\ UNCHANGED <<pairs, current, keys, opened>>
  BY DEF Answer
<1> DEFINE usk == extract(MasterKeyOf(request.server, content.index), content.full_id)
           answer == [kind       |-> "answer",
                      server     |-> request.server,
                      pair       |-> request.pair,
                      content    |-> content,
                      encryption |-> IF content.clear THEN <<0, usk>>
                                     ELSE ElGamal!encrypt(drawn, usk, request.pk)]
<1>2. /\ network' = ((network \ {request}) \cup again) \cup {answer}
      /\ UNCHANGED <<pairs, current, keys, opened>>
  BY <1>1 DEF UnderWay
<1>3. request \in network /\ MessageOk(request) /\ RequestOk(request)
  BY DEF RetrievalInv, MessageOk, Messages
<1>4. Usk(answer) = usk
  BY DEF Usk
<1>5. answer.encryption = IF answer.content.clear THEN <<0, Usk(answer)>>
                          ELSE ElGamal!encrypt(drawn, Usk(answer), KeyPair(answer.pair).pk)
  BY <1>3, <1>4 DEF RequestOk
<1>6. /\ answer.kind = "answer" /\ answer.server = request.server
      /\ answer.pair = request.pair /\ answer.content \in Contents
  OBVIOUS
<1> HIDE DEF answer, usk
<1>7. AnswerOk(answer)
  BY <1>5, <1>6 DEF AnswerOk
<1>8. MessageOk(answer)
  BY <1>3, <1>6, <1>7 DEF MessageOk
<1>9. MessageOk(answer)'
  BY <1>2, <1>8 DEF MessageOk, RequestOk, AnswerOk, Usk, KeyPair
<1> QED
  BY <1>2, <1>3, <1>9, NetworkKeepsInv

LEMMA ReceiveKeepsInv ==
  ASSUME RetrievalInv, NEW answer \in Messages("answer"),
         NEW again \in {{}, {answer}}, Receive(answer, again)
  PROVE  RetrievalInv'
<1> DEFINE server == answer.server
           usk == elgamal_decrypt(KeyPair(current).sk, answer.encryption)
           verified == verify_user_secret_key(usk, WantedId, PublicKeyOf(server))
<1>1. /\ keys' = IF verified THEN Keep(server, usk) ELSE keys
      /\ network' = (network \ {answer}) \cup again
      /\ UNCHANGED <<pairs, current, opened>>
      /\ current # 0
  BY DEF Receive
<1>2. server \in Server /\ answer \in network
  BY DEF RetrievalInv, MessageOk, Messages
<1>3. usk \in Int
  <2>1. current \in 1..MaxPairs
    BY <1>1, DrawAssumption DEF RetrievalInv
  <2>2. KeyPair(current).sk \in Int
    BY <2>1, KeyPairElements
  <2> QED
    BY <2>2, AnswerElements DEF elgamal_decrypt, ElGamal!decrypt
<1>4. verified => usk = extract(MasterKeyOf(server, RegisteredIndex), WantedId)
  BY <1>2, <1>3, VerifiedKeyRight
<1>5. pairs \in Nat
  BY DEF RetrievalInv
<1>6. \A message \in network' : MessageOk(message)'
  BY <1>1, <1>2, <1>5, MessagesStay
<1> HIDE DEF usk, verified
<1>7. DOMAIN keys' \subseteq Server /\ KeptKeysRight'
  <2>1. CASE ~verified
    BY <1>1, <2>1 DEF RetrievalInv, KeptKeysRight
  <2>2. CASE verified
    <3>1. /\ DOMAIN keys' = {server} \cup DOMAIN keys
          /\ keys'[server] = usk
          /\ \A s \in DOMAIN keys \ {server} : keys'[s] = keys[s]
      BY <1>1, <2>2 DEF Keep
    <3> QED
      BY <1>2, <1>4, <2>2, <3>1 DEF RetrievalInv, KeptKeysRight
  <2> QED
    BY <2>1, <2>2
<1> QED
  BY <1>1, <1>6, <1>7 DEF RetrievalInv

LEMMA RetrievalInvNext == RetrievalInv /\ [Next]_vars => RetrievalInv'
<1> SUFFICES ASSUME RetrievalInv, [Next]_vars PROVE RetrievalInv'
  OBVIOUS
<1>1. CASE GenerateElGamalKeypair
  BY <1>1, GenerateKeepsInv
<1>2. ASSUME NEW server \in Server, Ask(server) PROVE RetrievalInv'
  BY <1>2, AskKeepsInv
<1>3. CASE AnswerRightly
  BY <1>3, AnswerKeepsInv DEF AnswerRightly, Contents
<1>4. CASE AnswerWrongly
  BY <1>4, AnswerKeepsInv DEF AnswerWrongly, Contents
<1>5. CASE ReceiveAnswer
  BY <1>5, ReceiveKeepsInv DEF ReceiveAnswer
<1>6. CASE OpenObject
  <2>1. UNCHANGED <<pairs, current, network, keys>>
    BY <1>6 DEF OpenObject, Open
  <2>2. \A message \in network : MessageOk(message) => MessageOk(message)'
    BY <2>1 DEF MessageOk, RequestOk, AnswerOk, Usk, KeyPair
  <2> QED
    BY <2>1, <2>2 DEF RetrievalInv, KeptKeysRight
<1>7. CASE Crash
  <2>1. current' = 0 /\ keys' = <<>> /\ UNCHANGED <<pairs, network, opened>>
    BY <1>7 DEF Crash
  <2>2. \A message \in network : MessageOk(message) => MessageOk(message)'
    BY <2>1 DEF MessageOk, RequestOk, AnswerOk, Usk, KeyPair
  <2> QED
    BY <2>1, <2>2 DEF RetrievalInv, KeptKeysRight
<1>8. CASE Lose
  BY <1>8, NetworkKeepsInv DEF Lose
<1>9. CASE UNCHANGED vars
  BY <1>9, NetworkKeepsInv DEF vars
<1> QED
  BY <1>1, <1>2, <1>3, <1>4, <1>5, <1>6, <1>7, <1>8, <1>9 DEF Next

LEMMA RetrievalInvariant == Spec => []RetrievalInv
BY RetrievalInvInit, RetrievalInvNext, PTL DEF Spec

-----------------------------------------------------------------------------

(* Type correctness: key pairs are used in the order in which they are     *)
(* made (bindings.rs:214), and messages are about pairs that were made.    *)
THEOREM RetrievalTypeCorrect == Spec => []TypeOK
<1>1. RetrievalInv => TypeOK
  BY DEF RetrievalInv, MessageOk, TypeOK
<1> QED
  BY <1>1, RetrievalInvariant, PTL

(* A client that verifies what elgamal_decrypt returns keeps no key but    *)
(* the right one (bindings.rs:233-256), whatever answers arrive.           *)
THEOREM KeptKeysAreRight == Spec => []KeptKeysRight
<1>1. RetrievalInv => KeptKeysRight
  BY DEF RetrievalInv
<1> QED
  BY <1>1, RetrievalInvariant, PTL

(* ibe.rs:88-114: the equation of the pairings on the encryption is the    *)
(* equation on the decrypted key.                                          *)
LEMMA EncryptedEquation ==
  ASSUME NEW c1 \in Int, NEW c2 \in Int, NEW sk \in Int, NEW h \in Int, NEW mk \in Int
  PROVE  c2 * 1 = c1 * sk + h * mk <=> (c2 - c1 * sk) * 1 = h * mk
OBVIOUS

(* verify_encrypted_signature accepts exactly the encrypted answers whose  *)
(* decryption verify_user_secret_key accepts.                              *)
THEOREM EncryptedCheckIsRight == Spec => []EncryptedCheckAgrees
<1>1. RetrievalInv => EncryptedCheckAgrees
  <2> SUFFICES ASSUME RetrievalInv, current # 0, NEW answer \in Messages("answer")
               PROVE  LET pk == PublicKeyOf(answer.server)
                          usk == elgamal_decrypt(KeyPair(current).sk, answer.encryption)
                      IN  verify_encrypted_signature(answer.encryption, KeyPair(current).vk,
                                                     pk, WantedId)
                          <=> /\ verify_user_secret_key(usk, WantedId, pk)
                              /\ ~answer.content.clear
    BY DEF EncryptedCheckAgrees
  <2> DEFINE pk == PublicKeyOf(answer.server)
             sk == KeyPair(current).sk
             h == hash_to_g1(WantedId)
             c1 == answer.encryption[1]
             c2 == answer.encryption[2]
             usk == elgamal_decrypt(sk, answer.encryption)
             clear == answer.content.clear
  <2>1. c1 \in Nat /\ c2 \in Nat \ {0} /\ (c1 = 0 <=> clear)
    BY AnswerElements
  <2>2. answer.server \in Server /\ current \in 1..MaxPairs
    BY DrawAssumption DEF RetrievalInv, MessageOk, Messages
  <2>3. sk \in Nat \ {0} /\ KeyPair(current).vk = sk
    BY <2>2, KeyPairElements
  <2>4. pk \in Nat \ {0} /\ h \in Nat \ {0}
    BY <2>2, PublicKeyIsMasterKey, ServerElements
  <2>5. verify_encrypted_signature(answer.encryption, KeyPair(current).vk, pk, WantedId)
        <=> 0 \notin {c1, c2, sk, pk} /\ c2 * 1 = c1 * sk + h * pk
    BY <2>3 DEF verify_encrypted_signature, Pairing, Generator
  <2>6. verify_user_secret_key(usk, WantedId, pk) <=> (c2 - c1 * sk) * 1 = h * pk
    BY DEF verify_user_secret_key, Pairing, Generator, elgamal_decrypt, ElGamal!decrypt
  <2> HIDE DEF pk, sk, h, c1, c2, usk, clear
  <2>7. verify_encrypted_signature(answer.encryption, KeyPair(current).vk, pk, WantedId)
        <=> verify_user_secret_key(usk, WantedId, pk) /\ ~clear
    BY <2>1, <2>3, <2>4, <2>5, <2>6, EncryptedEquation
  <2> QED
    BY <2>7 DEF pk, sk, usk, clear
<1> QED
  BY <1>1, RetrievalInvariant, PTL

-----------------------------------------------------------------------------
(* The keys that the client keeps open the object. *)

LEMMA ObjectIsMade ==
  /\ Bound(Object.val, Object.val, Request)
  /\ Assembled(Object.val, 1, Request)
  /\ \E shares : Made(Object.val, 1, Request, shares, Len(Request.key_servers))
<1>1. IsSequence(Request.key_servers) /\ Len(Request.key_servers) \in Nat
  BY RequestAssumption, LenProperties DEF IsSequence
<1>2. Assembled(Object.val, 1, Request) /\ HonestWrites(Object.val, Request, 1)
  BY <1>1, RequestAssumption, ObjectAssumption, SealEncryptMakes DEF Object
<1> QED
  BY <1>1, <1>2, HonestIsMade

(* The places that the client counts are those that seal_decrypt counts. *)
LEMMA SamePlaces == HeldPlaces(Object.val, keys) = HeldPlacesOfObject
<1>1. ServerIds(Object.val.services) = Request.key_servers
  BY ObjectIsMade DEF Bound
<1>2. [k \in DOMAIN Object.val.services |-> Object.val.services[k][1]] = Request.key_servers
  BY <1>1 DEF ServerIds
<1>3. /\ DOMAIN Object.val.services = DOMAIN Request.key_servers
      /\ \A k \in DOMAIN Object.val.services :
           Object.val.services[k][1] = Request.key_servers[k]
  BY <1>2
<1> QED
  BY <1>3 DEF HeldPlaces, HeldPlacesOfObject

(* Right keys fit the registered public keys. *)
LEMMA RightKeysFit ==
  ASSUME RetrievalInv
  PROVE  KeysFit(Object.val, keys, Request, 1)
<1> SUFFICES ASSUME NEW k \in HeldPlaces(Object.val, keys)
             PROVE  FitsPublicKey(keys, Request.public_keys, Request, 1, k)
  BY DEF KeysFit
<1> DEFINE server == Request.key_servers[k]
           mk == MasterKeyOf(server, RegisteredIndex)
           usk == keys[server]
<1>1. k \in DOMAIN Request.key_servers /\ server \in DOMAIN keys
  BY SamePlaces DEF HeldPlacesOfObject
<1>2. server \in Server
  BY <1>1 DEF RetrievalInv
<1>3. usk = extract(mk, WantedId)
  BY <1>1 DEF RetrievalInv, KeptKeysRight
<1>4. WantedId \in FullId /\ mk \in Nat /\ usk \in Nat
  BY <1>2, <1>3, PublicKeyIsMasterKey, ServerElements
<1>5. Request.public_keys[k] = public_key_from_master_key(mk)
  BY <1>1, RequestAssumption DEF PublicKeyOf, into_key_pair
<1>6. PublicKeyOf(server) = public_key_from_master_key(mk)
  BY DEF PublicKeyOf, into_key_pair
<1>7. verify_user_secret_key(usk, WantedId, public_key_from_master_key(mk))
  BY <1>2, <1>3, <1>4, <1>6, VerifiedKeyRight
<1> HIDE DEF server, mk, usk
<1>8. Pairing(usk, Generator * 1) = Pairing(Gid(WantedId) * 1, public_key_from_master_key(mk))
  BY <1>4, <1>7, VerifiedPairing
<1> QED
  BY <1>5, <1>8 DEF FitsPublicKey, WantedId, server, usk

LEMMA OpenGivesMessage ==
  ASSUME RetrievalInv, NEW public_keys, NoneOrOwn(public_keys, Request), Open(public_keys)
  PROVE  opened' = Ok(Request.input.data)
<1>1. /\ Cardinality(HeldPlacesOfObject) >= Request.threshold
      /\ opened' = seal_decrypt(Object.val, keys, public_keys)
  BY DEF Open, CanOpen
<1>2. HeldCount(Object.val, keys) >= Request.threshold
  BY <1>1, SamePlaces DEF HeldCount
<1>3. Len(Request.public_keys) = Len(Request.key_servers)
  <2>1. /\ Len(Request.key_servers) \in Nat
        /\ DOMAIN Request.public_keys = 1..Len(Request.key_servers)
    BY RequestAssumption, LenProperties
  <2> QED
    BY <2>1, LenDomain
<1>4. OpensToInput(Object.val, keys, public_keys, Request)
  <2>1. PICK shares : Made(Object.val, 1, Request, shares, Len(Request.key_servers))
    BY ObjectIsMade
  <2> QED
    BY <1>2, <1>3, <2>1, ObjectIsMade, ObjectAssumption, RightKeysFit, MadeOpens
<1>5. PICK key : opened' = DemDecrypt(DemEncrypt(Request.input, key), key)
  BY <1>1, <1>4 DEF OpensToInput
<1> DEFINE input == Request.input
<1>6. IsSequence(input.data) /\ input.mode \in {"Aes256Gcm", "Hmac256Ctr"}
  BY RequestAssumption DEF IsSequence
<1>7. opened' = DemDecrypt(DemEncrypt(input, key), key)
  BY <1>5
<1> HIDE DEF input
<1>8. opened' = Ok(IF input.mode = "Plain" THEN <<key>> ELSE input.data)
  BY <1>6, <1>7, DemWorks
<1>9. input.mode # "Plain"
  BY <1>6
<1> QED
  BY <1>8, <1>9 DEF input

LEMMA OpensAtOnceNext == RetrievalInv /\ OpensAtOnce /\ [Next]_vars => OpensAtOnce'
<1> SUFFICES ASSUME RetrievalInv, OpensAtOnce, [Next]_vars PROVE OpensAtOnce'
  OBVIOUS
<1>1. CASE OpenObject
  <2>1. PICK public_keys \in {<<>>, <<Request.public_keys>>} : Open(public_keys)
    BY <1>1 DEF OpenObject
  <2>2. opened' = Ok(Request.input.data)
    BY <2>1, OpenGivesMessage DEF NoneOrOwn
  <2> QED
    BY <2>2 DEF OpensAtOnce
<1>2. ASSUME UNCHANGED opened PROVE OpensAtOnce'
  BY <1>2 DEF OpensAtOnce
<1>3. CASE GenerateElGamalKeypair
  BY <1>2, <1>3 DEF GenerateElGamalKeypair
<1>4. ASSUME NEW server \in Server, Ask(server) PROVE OpensAtOnce'
  BY <1>2, <1>4 DEF Ask
<1>5. CASE AnswerRightly \/ AnswerWrongly
  BY <1>2, <1>5 DEF AnswerRightly, AnswerWrongly, Answer
<1>6. CASE ReceiveAnswer
  BY <1>2, <1>6 DEF ReceiveAnswer, Receive
<1>7. CASE Crash
  BY <1>2, <1>7 DEF Crash
<1>8. CASE Lose
  BY <1>2, <1>8 DEF Lose
<1>9. CASE UNCHANGED vars
  BY <1>2, <1>9 DEF vars
<1> QED
  BY <1>1, <1>3, <1>4, <1>5, <1>6, <1>7, <1>8, <1>9 DEF Next

(* A client that keeps verified keys only, and opens when it has threshold *)
(* of them, gets the message, with and without the check of the shares     *)
(* (bindings.rs:151-211): nothing that the network or faulty servers did   *)
(* before makes the call fail.                                             *)
THEOREM OpensWhenItCan == Spec => []OpensAtOnce
<1>1. Init => OpensAtOnce
  BY DEF Init, OpensAtOnce
<1> QED
  BY <1>1, OpensAtOnceNext, RetrievalInvariant, PTL DEF Spec

-----------------------------------------------------------------------------
(* Which answers bring a key. *)

(* The decryption of what was masked for another key pair.                 *)
UnmaskedTo(s, t, d, u) ==
  /\ (((1 * s) * d) + u) - (1 * d) * t = u + (s * d - d * t)
  /\ u - 0 * t = u
  /\ (s * d - d * t = 0) <=> (s = t)

LEMMA Unmask ==
  ASSUME NEW s \in Nat, NEW t \in Nat, NEW d \in Nat \ {0}, NEW u \in Nat
  PROVE  UnmaskedTo(s, t, d, u)
<1>1. s * d - d * t = d * (s - t)
  OBVIOUS
<1>2. (d * (s - t) = 0) <=> (s - t = 0)
  OBVIOUS
<1>3. (((1 * s) * d) + u) - (1 * d) * t = u + (s * d - d * t)
  OBVIOUS
<1>4. u - 0 * t = u
  OBVIOUS
<1> QED
  BY <1>1, <1>2, <1>3, <1>4 DEF UnmaskedTo

LEMMA AnswerDecrypted ==
  ASSUME NEW n \in 1..MaxPairs, NEW m \in 1..MaxPairs, NEW drawn \in Draw, NEW usk \in Nat
  PROVE  /\ elgamal_decrypt(KeyPair(n).sk, ElGamal!encrypt(drawn, usk, KeyPair(m).pk))
              = usk + (Secret[m] * drawn - drawn * Secret[n])
         /\ elgamal_decrypt(KeyPair(n).sk, <<0, usk>>) = usk
         /\ Secret[m] * drawn - drawn * Secret[n] = 0 <=> m = n
<1>1. /\ Secret[m] \in Nat /\ Secret[n] \in Nat /\ drawn \in Nat \ {0}
      /\ (Secret[m] = Secret[n]) <=> (m = n)
  BY DrawAssumption
<1>2. KeyPair(n).sk = Secret[n] /\ KeyPair(m).pk = 1 * Secret[m]
  BY DEF KeyPair, ElGamal!genkey, ElGamal!GroupGenerator
<1>3. elgamal_decrypt(KeyPair(n).sk, ElGamal!encrypt(drawn, usk, KeyPair(m).pk))
        = (((1 * Secret[m]) * drawn) + usk) - (1 * drawn) * Secret[n]
  BY <1>2 DEF elgamal_decrypt, ElGamal!decrypt, ElGamal!encrypt, ElGamal!GroupGenerator
<1>4. elgamal_decrypt(KeyPair(n).sk, <<0, usk>>) = usk - 0 * Secret[n]
  BY <1>2 DEF elgamal_decrypt, ElGamal!decrypt
<1>5. /\ (((1 * Secret[m]) * drawn) + usk) - (1 * drawn) * Secret[n]
           = usk + (Secret[m] * drawn - drawn * Secret[n])
      /\ usk - 0 * Secret[n] = usk
      /\ (Secret[m] * drawn - drawn * Secret[n] = 0) <=> (Secret[m] = Secret[n])
  <2>1. UnmaskedTo(Secret[m], Secret[n], drawn, usk)
    BY <1>1, Unmask
  <2> QED
    BY <2>1 DEF UnmaskedTo
<1>6. (Secret[m] * drawn - drawn * Secret[n] = 0) <=> (m = n)
  BY <1>1, <1>5, Zenon
<1>7. elgamal_decrypt(KeyPair(n).sk, ElGamal!encrypt(drawn, usk, KeyPair(m).pk))
        = usk + (Secret[m] * drawn - drawn * Secret[n])
  BY <1>3, <1>5, Zenon
<1>8. elgamal_decrypt(KeyPair(n).sk, <<0, usk>>) = usk
  BY <1>4, <1>5, Zenon
<1> QED
  BY <1>6, <1>7, <1>8

(* A wrong content is another key of the server's than the right one.      *)
LEMMA WrongIsOther ==
  ASSUME NEW server \in Server, NEW content \in WrongContents, ~content.clear
  PROVE  extract(MasterKeyOf(server, content.index), content.full_id)
           # extract(MasterKeyOf(server, RegisteredIndex), WantedId)
<1>1. /\ content.index \in Index /\ content.full_id \in FullId
      /\ \/ content.index = RegisteredIndex /\ content.full_id # WantedId
         \/ content.index # RegisteredIndex /\ content.full_id = WantedId
  BY OthersAssumption, IdAssumption, ServerAssumption DEF WrongContents, Content
<1> DEFINE mk == MasterKeyOf(server, content.index)
           right == MasterKeyOf(server, RegisteredIndex)
           h == H1[content.full_id]
           wanted == H1[WantedId]
<1>2. mk \in Nat \ {0} /\ right \in Nat \ {0} /\ h \in Nat \ {0} /\ wanted \in Nat \ {0}
  BY <1>1, ServerElements, PublicKeyIsMasterKey DEF hash_to_g1
<1>3. (mk = right /\ h # wanted) \/ (mk # right /\ h = wanted)
  BY <1>1, OthersAssumption, H1Assumption, PublicKeyIsMasterKey
<1>4. /\ extract(MasterKeyOf(server, content.index), content.full_id) = h * mk
      /\ extract(MasterKeyOf(server, RegisteredIndex), WantedId) = wanted * right
  BY DEF extract, hash_to_g1
<1> HIDE DEF mk, right, h, wanted
<1>5. ASSUME NEW a \in Nat, NEW b \in Nat, NEW d \in Nat \ {0}, a # b
      PROVE  a * d # b * d /\ d * a # d * b
  <2>1. a * d - b * d = d * (a - b) /\ d * a - d * b = d * (a - b)
    BY <1>5
  <2>2. d * (a - b) # 0
    BY <1>5
  <2>3. a * d \in Nat /\ b * d \in Nat /\ d * a \in Nat /\ d * b \in Nat
    BY <1>5
  <2> QED
    BY <2>1, <2>2, <2>3
<1>6. h * mk # wanted * right
  BY <1>2, <1>3, <1>5
<1> QED
  BY <1>4, <1>6

(* The contents of a server, encrypted.                                    *)
LEMMA ContentEncrypted ==
  ASSUME NEW full_id, NEW index, NEW clear, NEW content,
         content = Content(full_id, index, clear)
  PROVE  [content EXCEPT !.clear = FALSE] = Content(full_id, index, FALSE)
<1> DEFINE c == [content EXCEPT !.clear = FALSE]
           S == [full_id : {full_id}, index : {index}, clear : {clear, FALSE}]
<1>1. content \in S
  BY DEF Content
<1>2. c \in S /\ c.clear = FALSE
  BY <1>1
<1> HIDE DEF c
<1>3. c = [full_id |-> full_id, index |-> index, clear |-> FALSE]
  BY <1>2
<1> QED
  BY <1>3 DEF Content, c

LEMMA ClearContent ==
  ASSUME NEW content \in WrongContents, content.clear
  PROVE  content = Content(WantedId, RegisteredIndex, TRUE)
BY DEF WrongContents, Content

(* What decrypting an answer leaves of the mask.                           *)
Remainder(m, n, drawn) == Secret[m] * drawn - drawn * Secret[n]

Got(answer) == elgamal_decrypt(KeyPair(current).sk, answer.encryption)

LEMMA AnswerYields ==
  ASSUME RetrievalInv, current # 0, NEW answer \in Messages("answer")
  PROVE  /\ answer.server \in Server /\ answer.content \in Contents
         /\ answer.pair \in 1..MaxPairs /\ current \in 1..MaxPairs
         /\ Usk(answer) \in Nat
         /\ \E drawn \in Draw :
              LET left == Remainder(answer.pair, current, drawn)
              IN  /\ left \in Int
                  /\ (left = 0) <=> (answer.pair = current)
                  /\ Got(answer) = IF answer.content.clear THEN Usk(answer)
                                   ELSE Usk(answer) + left
<1> DEFINE m == answer.pair
           n == current
           usk == Usk(answer)
           content == answer.content
<1>1. answer \in network /\ answer.kind = "answer" /\ MessageOk(answer)
  BY DEF Messages, RetrievalInv
<1>2. /\ answer.server \in Server /\ m \in 1..pairs /\ content \in Contents
      /\ n = pairs /\ pairs \in 0..MaxPairs
  BY <1>1 DEF MessageOk, AnswerOk, RetrievalInv
<1>3. m \in 1..MaxPairs /\ n \in 1..MaxPairs
  BY <1>2, DrawAssumption
<1>4. content.full_id \in FullId /\ content.index \in Index
  BY <1>2, ContentFacts
<1>5. usk \in Nat
  BY <1>2, <1>4, ServerElements DEF Usk
<1>6. PICK drawn \in Draw :
        answer.encryption = IF content.clear THEN <<0, usk>>
                            ELSE ElGamal!encrypt(drawn, usk, KeyPair(m).pk)
  BY <1>1 DEF MessageOk, AnswerOk
<1> DEFINE left == Remainder(m, n, drawn)
<1>7. left \in Int
  <2>1. Secret[m] \in Nat /\ Secret[n] \in Nat /\ drawn \in Nat
    BY <1>3, DrawAssumption
  <2> QED
    BY <2>1 DEF Remainder
<1>8. /\ Got(answer) = IF content.clear THEN usk ELSE usk + left
      /\ (left = 0) <=> (m = n)
  <2>1. /\ elgamal_decrypt(KeyPair(n).sk, ElGamal!encrypt(drawn, usk, KeyPair(m).pk))
             = usk + left
        /\ elgamal_decrypt(KeyPair(n).sk, <<0, usk>>) = usk
        /\ left = 0 <=> m = n
    BY <1>3, <1>5, AnswerDecrypted DEF Remainder
  <2>2. Got(answer) = elgamal_decrypt(KeyPair(n).sk, answer.encryption)
    BY DEF Got
  <2> HIDE DEF left, usk, m, n, content
  <2>3. CASE content.clear
    BY <1>6, <2>1, <2>2, <2>3
  <2>4. CASE ~content.clear
    BY <1>6, <2>1, <2>2, <2>4
  <2> QED
    BY <2>1, <2>3, <2>4
<1> QED
  BY <1>2, <1>3, <1>5, <1>7, <1>8

(* The contents of a good answer: the right one, and the right one in the  *)
(* clear.                                                                  *)
LEMMA GoodContents ==
  ASSUME NEW content \in Contents
  PROVE  [content EXCEPT !.clear = FALSE] = RightContent
         <=> content = RightContent \/ (content \in WrongContents /\ content.clear)
<1>1. CASE content = RightContent
  BY <1>1, ContentEncrypted DEF RightContent
<1>2. CASE content \in WrongContents /\ content.clear
  <2>1. content = Content(WantedId, RegisteredIndex, TRUE)
    BY <1>2, ClearContent
  <2> QED
    BY <1>2, <2>1, ContentEncrypted DEF RightContent
<1>3. CASE content \in WrongContents /\ ~content.clear
  <2>1. PICK full_id, index : content = Content(full_id, index, FALSE)
                              /\ (full_id # WantedId \/ index # RegisteredIndex)
    BY <1>3, OthersAssumption DEF WrongContents, Content
  <2>2. [content EXCEPT !.clear = FALSE] = Content(full_id, index, FALSE)
    BY <2>1, ContentEncrypted
  <2>3. Content(full_id, index, FALSE) # RightContent
    BY <2>1 DEF RightContent, Content
  <2>4. content # RightContent
    BY <2>1, <2>3
  <2> QED
    BY <1>3, <2>2, <2>3, <2>4
<1> QED
  BY <1>1, <1>2, <1>3 DEF Contents

(* An answer yields the right key exactly if it has the right content and  *)
(* is for the key pair in use, or is in the clear.                         *)
LEMMA RightKeyFromFreshAnswer ==
  ASSUME RetrievalInv, current # 0, NEW answer \in Messages("answer")
  PROVE  verify_user_secret_key(Got(answer), WantedId, PublicKeyOf(answer.server))
         <=> /\ [answer.content EXCEPT !.clear = FALSE] = RightContent
             /\ answer.content.clear \/ answer.pair = current
<1> DEFINE m == answer.pair
           n == current
           usk == Usk(answer)
           right == extract(MasterKeyOf(answer.server, RegisteredIndex), WantedId)
           content == answer.content
           got == Got(answer)
<1>1. /\ answer.server \in Server /\ content \in Contents
      /\ m \in 1..MaxPairs /\ n \in 1..MaxPairs /\ usk \in Nat
  BY AnswerYields
<1>2. PICK drawn \in Draw :
        /\ Remainder(m, n, drawn) \in Int
        /\ (Remainder(m, n, drawn) = 0) <=> (m = n)
        /\ got = IF content.clear THEN usk ELSE usk + Remainder(m, n, drawn)
  BY AnswerYields
<1> DEFINE left == Remainder(m, n, drawn)
           verified == verify_user_secret_key(got, WantedId, PublicKeyOf(answer.server))
<1>3. got \in Int
  <2> HIDE DEF got, usk
  <2> QED
    BY <1>1, <1>2
<1>4. verified <=> got = right
  BY <1>1, <1>3, VerifiedKeyRight
<1> HIDE DEF got, verified
<1>5. CASE content \in WrongContents /\ ~content.clear
  <2>1. usk # right
    BY <1>1, <1>5, WrongIsOther DEF Usk
  <2>2. got # right
    <3>1. CASE m = n
      <4> HIDE DEF usk, right
      <4> QED
        BY <1>1, <1>2, <1>5, <2>1, <3>1
    <3>2. CASE m # n
      <4>1. usk + left # right
        BY <1>1, <1>5, <3>2, NoAccident DEF Usk, Remainder
      <4> QED
        BY <1>2, <1>5, <4>1
    <3> QED
      BY <3>1, <3>2
  <2>3. content # RightContent
    BY <2>1 DEF Usk, RightContent, Content
  <2>4. [content EXCEPT !.clear = FALSE] # RightContent
    BY <1>1, <1>5, <2>3, GoodContents
  <2> QED
    BY <1>4, <2>2, <2>4 DEF verified, got
<1>6. CASE content = RightContent
  <2>1. usk = right /\ ~content.clear
    BY <1>6 DEF Usk, RightContent, Content
  <2>2. got = right <=> m = n
    <3> HIDE DEF usk, right
    <3> QED
      BY <1>1, <1>2, <2>1
  <2> QED
    BY <1>1, <1>4, <1>6, <2>1, <2>2, GoodContents DEF verified, got
<1>7. CASE content \in WrongContents /\ content.clear
  <2>1. content = Content(WantedId, RegisteredIndex, TRUE)
    BY <1>7, ClearContent
  <2>2. usk = right
    BY <2>1 DEF Usk, Content
  <2>3. got = right
    BY <1>2, <1>7, <2>2
  <2> QED
    BY <1>1, <1>4, <1>7, <2>3, GoodContents DEF verified, got
<1> QED
  BY <1>1, <1>5, <1>6, <1>7 DEF Contents

(* After elgamal_decrypt (bindings.rs:233) and verify_user_secret_key      *)
(* (247), the answers that count are those with the right content for the  *)
(* key pair in use, and all of them do.                                    *)
THEOREM GoodAnswersAreAccepted == Spec => []AcceptsGoodAnswers
<1>1. RetrievalInv => AcceptsGoodAnswers
  BY RightKeyFromFreshAnswer DEF AcceptsGoodAnswers, Got
<1> QED
  BY <1>1, RetrievalInvariant, PTL

(* A key comes with an answer of the right content for the key pair in     *)
(* use, or with one in the clear: after elgamal_decrypt (bindings.rs:233)  *)
(* and the check of the key (247), an answer for an earlier key pair is    *)
(* worth nothing, however late or often it comes.                          *)
THEOREM KeysAreFromFreshAnswers == Spec => KeysFromFreshAnswers
<1> DEFINE Fresh ==
      \A server \in DOMAIN keys' \ DOMAIN keys :
        \E answer \in Messages("answer") :
          /\ answer.server = server
          /\ [answer.content EXCEPT !.clear = FALSE] = RightContent
          /\ answer.content.clear \/ answer.pair = current
<1>1. RetrievalInv /\ [Next]_vars => [Fresh]_vars
  <2> SUFFICES ASSUME RetrievalInv, [Next]_vars PROVE Fresh
    OBVIOUS
  <2>1. CASE DOMAIN keys' \subseteq DOMAIN keys
    BY <2>1
  <2>2. ASSUME NEW answer \in Messages("answer"), NEW again \in {{}, {answer}},
               Receive(answer, again)
        PROVE  Fresh
    <3> SUFFICES ASSUME NEW server \in DOMAIN keys' \ DOMAIN keys
                 PROVE  /\ answer.server = server
                        /\ [answer.content EXCEPT !.clear = FALSE] = RightContent
                        /\ answer.content.clear \/ answer.pair = current
      OBVIOUS
    <3>1. /\ current # 0
          /\ verify_user_secret_key(elgamal_decrypt(KeyPair(current).sk, answer.encryption),
                                    WantedId, PublicKeyOf(answer.server))
          /\ server = answer.server
      BY <2>2 DEF Receive, Keep
    <3> QED
      BY <3>1, RightKeyFromFreshAnswer DEF Got
  <2>3. ASSUME keys' = <<>> PROVE DOMAIN keys' \subseteq DOMAIN keys
    BY <2>3
  <2> QED
    BY <2>1, <2>2, <2>3 DEF Next, vars, GenerateElGamalKeypair, Ask, AnswerRightly, AnswerWrongly,
         Answer, ReceiveAnswer, OpenObject, Open, Crash, Lose
<1>2. Spec => [][Fresh]_vars
  BY <1>1, RetrievalInvariant, PTL DEF Spec
<1> QED
  BY <1>2 DEF KeysFromFreshAnswers

-----------------------------------------------------------------------------
(* The client implements the ring of keys. *)

LEMMA RightKeysAreAll ==
  /\ RetrievalInv => RightKeys = DOMAIN keys
  /\ RetrievalInv' => RightKeys' = DOMAIN keys'
<1>1. RetrievalInv => RightKeys = DOMAIN keys
  BY DEF RetrievalInv, KeptKeysRight, RightKeys
<1>2. RetrievalInv' => RightKeys' = DOMAIN keys'
  BY DEF RetrievalInv, KeptKeysRight, RightKeys
<1> QED
  BY <1>1, <1>2

(* Receiving an answer adds its server to the ring, or nothing.            *)
LEMMA ReceiveObtains ==
  ASSUME RetrievalInv, RetrievalInv', NEW answer \in Messages("answer"), NEW again,
         Receive(answer, again)
  PROVE  K!Obtain \/ UNCHANGED K!vars
<1> DEFINE server == answer.server
           usk == elgamal_decrypt(KeyPair(current).sk, answer.encryption)
           verified == verify_user_secret_key(usk, WantedId, PublicKeyOf(server))
<1>1. /\ keys' = IF verified THEN Keep(server, usk) ELSE keys
      /\ UNCHANGED opened
  BY DEF Receive
<1>2. server \in Server
  BY DEF RetrievalInv, MessageOk, Messages
<1>3. RightKeys = DOMAIN keys /\ RightKeys' = DOMAIN keys'
  BY RightKeysAreAll
<1> HIDE DEF verified, usk
<1>4. DOMAIN keys' = DOMAIN keys \/ DOMAIN keys' = DOMAIN keys \cup {server}
  BY <1>1 DEF Keep
<1>5. CASE DOMAIN keys' = DOMAIN keys
  BY <1>1, <1>3, <1>5 DEF K!vars
<1>6. CASE DOMAIN keys' = DOMAIN keys \cup {server} /\ server \notin DOMAIN keys
  BY <1>1, <1>2, <1>3, <1>6 DEF K!Obtain
<1> QED
  BY <1>4, <1>5, <1>6

LEMMA OpenReads ==
  ASSUME RetrievalInv, NEW public_keys, NoneOrOwn(public_keys, Request), Open(public_keys)
  PROVE  K!Read
<1>1. opened' = Ok(Request.input.data)
  BY OpenGivesMessage
<1>2. RightKeys = DOMAIN keys
  BY RightKeysAreAll
<1>3. UNCHANGED RightKeys
  BY DEF Open, RightKeys
<1>4. Cardinality(HeldPlacesOfObject) >= Request.threshold
  BY DEF Open, CanOpen
<1>5. HeldPlacesOfObject
        = {k \in DOMAIN Request.key_servers : Request.key_servers[k] \in RightKeys}
  BY <1>2 DEF HeldPlacesOfObject
<1>6. RightKeys \in SetsOfThreshold
  BY <1>2, <1>4, <1>5 DEF SetsOfThreshold, RetrievalInv
<1> QED
  BY <1>1, <1>3, <1>6 DEF K!Read

LEMMA StepOfKeyring == RetrievalInv /\ RetrievalInv' /\ [Next]_vars => [K!Next]_K!vars
<1> SUFFICES ASSUME RetrievalInv, RetrievalInv', [Next]_vars PROVE [K!Next]_K!vars
  OBVIOUS
<1>1. ASSUME UNCHANGED <<keys, opened>> PROVE UNCHANGED K!vars
  BY <1>1 DEF K!vars, RightKeys
<1>2. CASE GenerateElGamalKeypair
  BY <1>1, <1>2 DEF GenerateElGamalKeypair
<1>3. ASSUME NEW server \in Server, Ask(server) PROVE UNCHANGED K!vars
  BY <1>1, <1>3 DEF Ask
<1>4. CASE AnswerRightly \/ AnswerWrongly
  BY <1>1, <1>4 DEF AnswerRightly, AnswerWrongly, Answer
<1>5. CASE ReceiveAnswer
  <2>1. K!Obtain \/ UNCHANGED K!vars
    BY <1>5, ReceiveObtains DEF ReceiveAnswer
  <2> QED
    BY <2>1 DEF K!Next
<1>6. CASE OpenObject
  <2>1. PICK public_keys \in {<<>>, <<Request.public_keys>>} : Open(public_keys)
    BY <1>6 DEF OpenObject
  <2>2. K!Read
    BY <2>1, OpenReads DEF NoneOrOwn
  <2> QED
    BY <2>2 DEF K!Next
<1>7. CASE Crash
  <2>1. keys' = <<>> /\ UNCHANGED opened
    BY <1>7 DEF Crash
  <2>2. DOMAIN keys' = {}
    BY <2>1
  <2>3. RightKeys' = {}
    BY <2>2, RightKeysAreAll
  <2> QED
    BY <2>1, <2>3 DEF K!Forget, K!Next
<1>8. CASE Lose
  BY <1>1, <1>8 DEF Lose
<1>9. CASE UNCHANGED vars
  BY <1>1, <1>9 DEF vars
<1> QED
  BY <1>2, <1>3, <1>4, <1>5, <1>6, <1>7, <1>8, <1>9 DEF Next

(* bindings.rs:151-255: whatever the network and faulty servers do, the    *)
(* client has what the ring of keys promises.                              *)
THEOREM RetrievalImplementsKeyring == Spec => ImplementsKeyring
<1>1. Init => K!Init
  <2>1. Init => DOMAIN keys = {} /\ opened = NotOpened
    BY DEF Init
  <2>2. DOMAIN keys = {} => RightKeys = {}
    BY DEF RightKeys
  <2> QED
    BY <2>1, <2>2 DEF K!Init
<1>2. RetrievalInv /\ RetrievalInv' /\ [Next]_vars => [K!Next]_K!vars
  BY StepOfKeyring
<1> QED
  BY <1>1, <1>2, RetrievalInvariant, PTL DEF Spec, ImplementsKeyring, K!Spec
=============================================================================
