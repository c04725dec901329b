---------------------------- MODULE KeyRetrieval ----------------------------
(***************************************************************************)
(* How a client gets the user secret keys that open an object. It makes an *)
(* ElGamal key pair, asks key servers for its keys, decrypts and verifies  *)
(* the answers, and opens the object when it has enough of them. The       *)
(* repository has the calls for that, not the client: its steps are        *)
(* outlined by scratch/seal_demo.py, which prints them, and                *)
(* README.rst:108-117. That it verifies every key, asks again and may      *)
(* crash is this module's choice of a caller.                              *)
(*                                                                         *)
(* Everything on the way is unreliable. Messages are lost, repeated and    *)
(* overtaken, the client makes a new key pair or crashes and restarts      *)
(* while answers are under way, and some servers answer wrongly.           *)
(***************************************************************************)
EXTENDS Core

ElGamal == INSTANCE ElGamal

CONSTANTS
  Server,          \* the key servers
  Faulty,          \* those that may answer wrongly
  ServerSeed,      \* the seed of every server's master keys
  Hkdf,            \* hkdf_sha3_256 and the reduction to a scalar
  Index,           \* the derivation indices that are in use
  RegisteredIndex, \* the one whose public key a server has registered
  Secret,          \* Secret[n] is drawn for the n-th key pair of the client
  Draw,            \* the scalars that a server may draw for an answer
  Request,         \* the arguments with which the object was sealed
  OtherIds,        \* identities that a faulty server may mistake for the right one
  MaxPairs,        \* bound: key pairs that the client makes
  MaxUnderWay      \* bound: messages under way

derive_master_key(seed, derivation_index) == Hkdf[seed, derivation_index]

MasterKeyOf(server, index) == derive_master_key(ServerSeed[server], index)

PublicKeyOf(server) == into_key_pair(MasterKeyOf(server, RegisteredIndex)).public_key

ASSUME ServerAssumption ==
  /\ Faulty \subseteq Server
  /\ RegisteredIndex \in Index
  /\ \A server \in Server, index \in Index : MasterKeyOf(server, index) \in Nat \ {0}

ASSUME DrawAssumption ==
  /\ MaxPairs \in Nat /\ MaxUnderWay \in Nat
  /\ \A n \in 1..MaxPairs : Secret[n] \in Nat \ {0}
  /\ \A m, n \in 1..MaxPairs : Secret[m] = Secret[n] => m = n
  /\ Draw \subseteq Nat \ {0}

WantedId == create_full_id(Request.package_id, Request.id)

ASSUME IdAssumption == OtherIds \cup {WantedId} \subseteq FullId

(* The object, sealed with the scalar 1 for the registered public keys. *)
Object == seal_encrypt(1, Request)

(* A message is sealed for servers of the model; with Plain there is none. *)
ASSUME RequestAssumption ==
  /\ Request.key_servers \in Seq(Server)
  /\ Len(Request.key_servers) <= U8Max
  /\ Request.public_keys = [k \in DOMAIN Request.key_servers |->
                             PublicKeyOf(Request.key_servers[k])]
  /\ Request.threshold \in Nat
  /\ Request.input.mode \in {"Aes256Gcm", "Hmac256Ctr"}
  /\ Request.input.data \in Seq(Range(Request.input.data))

ASSUME ObjectAssumption == 1 \in Scalar /\ Object.ok

VARIABLES
  pairs,    \* the number of key pairs made so far
  current,  \* the number of the key pair in use; 0 before the first and after a crash
  network,  \* the messages under way
  keys,     \* the user secret keys that the client keeps, by server
  opened    \* the result of seal_decrypt, once it was called

vars == <<pairs, current, network, keys, opened>>

NotOpened == Err("not opened")

Init ==
  /\ pairs = 0 /\ current = 0
  /\ network = {}
  /\ keys = <<>>
  /\ opened = NotOpened

-----------------------------------------------------------------------------
(* The client. *)

(* Mutant: the pair in use is the one before. *)
GenerateElGamalKeypair_stale ==
  /\ pairs < MaxPairs
  /\ pairs' = pairs + 1
  /\ current' = pairs
  /\ UNCHANGED <<network, keys, opened>>

(* A new session: the secret of the earlier pair is gone, the user secret  *)
(* keys are not.                                                           *)
GenerateElGamalKeypair ==
  /\ pairs < MaxPairs
  /\ pairs' = pairs + 1
  /\ current' = pairs + 1
  /\ UNCHANGED <<network, keys, opened>>

KeyPair(n) == ElGamal!genkey(Secret[n])

(* The messages with which a step leaves the network: some of those that   *)
(* were there, and one more.                                               *)
UnderWay(rest, message) ==
  /\ Cardinality(rest \cup {message}) <= MaxUnderWay
  /\ network' = rest \cup {message}

Ask(server) ==
  /\ current # 0
  /\ server \notin DOMAIN keys
  /\ UnderWay(network, [kind    |-> "request",
                        server  |-> server,
                        pair    |-> current,
                        pk      |-> KeyPair(current).pk,
                        full_id |-> WantedId])
  /\ UNCHANGED <<pairs, current, keys, opened>>

(* Mutant: the keys of the other servers are dropped. *)
Keep_only(server, usk) == [s \in {server} |-> usk]

Keep(server, usk) ==
  [s \in DOMAIN keys \cup {server} |-> IF s = server THEN usk ELSE keys[s]]

elgamal_decrypt(sk, encryption) == ElGamal!decrypt(sk, encryption)

(* Mutant: the key is kept as it comes, as the outline has it. *)
Receive_unverified(answer, again) ==
  LET usk == elgamal_decrypt(KeyPair(current).sk, answer.encryption)
  IN  /\ current # 0
      /\ keys' = Keep(answer.server, usk)
      /\ network' = (network \ {answer}) \cup again
      /\ UNCHANGED <<pairs, current, opened>>

(* The client decrypts an answer with the secret it now has, and keeps the *)
(* key if it is the server's key for the wanted identity.                  *)
Receive(answer, again) ==
  LET usk == elgamal_decrypt(KeyPair(current).sk, answer.encryption)
  IN  /\ current # 0
      /\ keys' = IF verify_user_secret_key(usk, WantedId, PublicKeyOf(answer.server))
                 THEN Keep(answer.server, usk)
                 ELSE keys
      /\ network' = (network \ {answer}) \cup again
      /\ UNCHANGED <<pairs, current, opened>>

HeldPlacesOfObject == {k \in DOMAIN Request.key_servers : Request.key_servers[k] \in DOMAIN keys}

CanOpen == ~opened.ok /\ Cardinality(HeldPlacesOfObject) >= Request.threshold

Open(public_keys) ==
  /\ CanOpen
  /\ UNCHANGED <<pairs, current, network, keys>>
  /\ opened' = seal_decrypt(Object.val, keys, public_keys)

(* The memory of the client is lost: secret and keys. The result of a call *)
(* was handed to the application and stays.                                *)
Crash ==
  /\ current # 0
  /\ pairs < MaxPairs
  /\ current' = 0
  /\ keys' = <<>>
  /\ UNCHANGED <<pairs, network, opened>>

-----------------------------------------------------------------------------
(* The key servers. *)

(* What a server puts into an answer: its user secret key for an identity, *)
(* of one of its master keys, encrypted or (by mistake) in the clear.      *)
Content(full_id, index, clear) == [full_id |-> full_id, index |-> index, clear |-> clear]

RightContent == Content(WantedId, RegisteredIndex, FALSE)

WrongContents ==
  {Content(full_id, RegisteredIndex, FALSE) : full_id \in OtherIds}
  \cup {Content(WantedId, index, FALSE) : index \in Index \ {RegisteredIndex}}
  \cup {Content(WantedId, RegisteredIndex, TRUE)}

(* The others are not the right one: identities and master keys are told   *)
(* apart.                                                                  *)
ASSUME OthersAssumption ==
  /\ WantedId \notin OtherIds
  /\ \A server \in Server, index \in Index \ {RegisteredIndex} :
       MasterKeyOf(server, index) # MasterKeyOf(server, RegisteredIndex)

(* What is left when a wrong answer, masked for the m-th key pair, is      *)
(* unmasked with the secret of the n-th is some element of a group of 255  *)
(* bits: that this element is the right key is left to no draw here.       *)
ASSUME NoAccident ==
  \A server \in Server, content \in WrongContents, m, n \in 1..MaxPairs, drawn \in Draw :
    m # n /\ ~content.clear =>
      extract(MasterKeyOf(server, content.index), content.full_id)
        + (Secret[m] * drawn - drawn * Secret[n])
      # extract(MasterKeyOf(server, RegisteredIndex), WantedId)

Answer(request, content, again) ==
  \E drawn \in Draw :
    LET usk == extract(MasterKeyOf(request.server, content.index), content.full_id)
    IN  /\ UnderWay((network \ {request}) \cup again,
                    [kind       |-> "answer",
                     server     |-> request.server,
                     pair       |-> request.pair,
                     content    |-> content,
                     encryption |-> IF content.clear THEN <<0, usk>>
                                    ELSE ElGamal!encrypt(drawn, usk, request.pk)])
        /\ UNCHANGED <<pairs, current, keys, opened>>

-----------------------------------------------------------------------------

Messages(kind) == {message \in network : message.kind = kind}

AnswerRightly ==
  \E request \in Messages("request") : \E again \in {{}, {request}} :
    Answer(request, RightContent, again)

AnswerWrongly ==
  \E request \in Messages("request"), content \in WrongContents :
    /\ request.server \in Faulty
    /\ Answer(request, content, {})

ReceiveAnswer ==
  \E answer \in Messages("answer") : \E again \in {{}, {answer}} : Receive(answer, again)

Lose ==
  \E message \in network :
    /\ network' = network \ {message}
    /\ UNCHANGED <<pairs, current, keys, opened>>

OpenObject == \E public_keys \in {<<>>, <<Request.public_keys>>} : Open(public_keys)

Next ==
  \/ GenerateElGamalKeypair
  \/ \E server \in Server : Ask(server)
  \/ AnswerRightly
  \/ AnswerWrongly
  \/ ReceiveAnswer
  \/ OpenObject
  \/ Crash
  \/ Lose

Spec == Init /\ [][Next]_vars

-----------------------------------------------------------------------------

(* The key pair in use is the last one made, messages are about key pairs  *)
(* that were made, and keys are kept for servers of the model.             *)
TypeOK ==
  /\ pairs \in 0..MaxPairs
  /\ current \in {0, pairs}
  /\ \A message \in network :
       /\ message.kind \in {"request", "answer"}
       /\ message.server \in Server
       /\ message.pair \in 1..pairs
  /\ DOMAIN keys \subseteq Server

(* bindings.rs:233 and 247: elgamal_decrypt has no error for an answer     *)
(* made for another key pair, and returns some group element. Whatever     *)
(* arrives and whenever, a key that the client keeps is the one that the   *)
(* server extracts for the wanted identity.                                *)
KeptKeysRight ==
  \A server \in DOMAIN keys :
    keys[server] = extract(MasterKeyOf(server, RegisteredIndex), WantedId)

(* A step that gets the client a key took an answer with the right         *)
(* content, for the key pair in use: an answer for an earlier key pair is  *)
(* worth nothing, however late it comes. (An answer in the clear is for    *)
(* every key pair.)                                                        *)
KeysFromFreshAnswers ==
  [][\A server \in DOMAIN keys' \ DOMAIN keys :
       \E answer \in Messages("answer") :
         /\ answer.server = server
         /\ [answer.content EXCEPT !.clear = FALSE] = RightContent
         /\ answer.content.clear \/ answer.pair = current]_vars

(* bindings.rs:233-256: the client tells by the key alone which of the     *)
(* answers under way are good. It accepts one exactly if the content is    *)
(* right and masked for the key pair in use (or not at all): a good answer *)
(* is never thrown away, however many others came before it.               *)
AcceptsGoodAnswers ==
  \A answer \in Messages("answer") :
    current # 0 =>
      LET usk == elgamal_decrypt(KeyPair(current).sk, answer.encryption)
      IN  verify_user_secret_key(usk, WantedId, PublicKeyOf(answer.server))
          <=> /\ [answer.content EXCEPT !.clear = FALSE] = RightContent
              /\ answer.content.clear \/ answer.pair = current

(* ibe.rs:88-114, whose caller has no secret key: for whatever is under    *)
(* way, the check of the encrypted answer passes exactly if the check of   *)
(* the decrypted key would, except that answers in the clear are refused.  *)
EncryptedCheckAgrees ==
  \A answer \in Messages("answer") :
    current # 0 =>
      LET pk == PublicKeyOf(answer.server)
          usk == elgamal_decrypt(KeyPair(current).sk, answer.encryption)
      IN  verify_encrypted_signature(answer.encryption, KeyPair(current).vk, pk, WantedId)
          <=> /\ verify_user_secret_key(usk, WantedId, pk)
              /\ ~answer.content.clear

(* A client with enough verified keys never sees seal_decrypt fail, and    *)
(* gets the message: no answer of a faulty server, and no late one, has    *)
(* come between.                                                           *)
OpensAtOnce == opened \in {NotOpened, Ok(Request.input.data)}

(* The servers whose right key the client has.                             *)
RightKeys ==
  {server \in DOMAIN keys :
     keys[server] = extract(MasterKeyOf(server, RegisteredIndex), WantedId)}

(* Sets of servers that stand at threshold many places of the object.      *)
SetsOfThreshold ==
  {servers \in SUBSET Server :
     Cardinality({k \in DOMAIN Request.key_servers : Request.key_servers[k] \in servers})
       >= Request.threshold}

K == INSTANCE Keyring WITH
       held <- RightKeys, got <- opened, Enough <- SetsOfThreshold,
       Payload <- Ok(Request.input.data), Nothing <- NotOpened

(* bindings.rs:151-255: the client, its key pairs and all that the network *)
(* and faulty servers do are a ring of right keys. No answer takes a right *)
(* key away or adds more than one, only a crash loses keys, and then all;  *)
(* the object opens with threshold right keys, to the message, which stays *)
(* with the application.                                                   *)
ImplementsKeyring == K!Spec
=============================================================================
