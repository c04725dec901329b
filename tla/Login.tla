------------------------------- MODULE Login --------------------------------
(***************************************************************************)
(* zkLogin as a client goes through it, the steps of                       *)
(* scratch/google_zklogin.py: an ephemeral key and its nonce, a token of   *)
(* the OpenID provider, the address and the proof, and then, which the     *)
(* script leaves to others, the signature. Several attempts run at once,   *)
(* and a token may come late, when another attempt has been begun, or be   *)
(* of an odd form.                                                         *)
(***************************************************************************)
EXTENDS ZkLogin

CONSTANTS
  Account,       \* accounts at providers: [iss, sub, aud], aud being the client id
  Forms,         \* what tokens differ in besides the claims, see TokenOf
  Epochs,        \* the epochs that an ephemeral key may be valid to
  Randomness,    \* the randomness that clients compute nonces with
  Salts,         \* the salts of users
  Issuers,       \* issuers that addresses are derived for without a token
  Seeds,         \* and address seeds, of any length
  MaxAttempts,   \* bound: attempts to log in
  MaxTokens,     \* bound: tokens issued
  MaxLogins,     \* bound: different logins
  MaxSignatures, \* bound: different signatures
  MaxDerived     \* bound: different direct derivations

ASSUME LoginBounds ==
  {MaxAttempts, MaxTokens, MaxLogins, MaxSignatures, MaxDerived} \subseteq Nat

(* Of every account, gen_address_seed hashes the claims if the audience is *)
(* not too long.                                                           *)
ASSUME AccountAssumption ==
  \A account \in Account :
    /\ account = [iss |-> account.iss, sub |-> account.sub, aud |-> account.aud]
    /\ account.iss \in Seq(U8) /\ account.aud \in Seq(Range(account.aud))
    /\ Len(account.aud) <= MaxAud =>
         \A salt \in Salts : <<salt, "sub", account.sub, account.aud>> \in DOMAIN AddressSeed

ASSUME FormAssumption == \A form \in Forms : form.header \in Nat /\ form.payload \in Nat

ASSUME DerivedInputs == Issuers \subseteq Seq(U8) /\ Seeds \subseteq Seq(U8)

VARIABLES
  attempts,  \* the attempts begun; the n-th has the n-th ephemeral key
  tokens,    \* the tokens issued, with their account and their attempt
  logins,    \* the attempts completed with a token, and their results
  signatures, \* the calls of build_zklogin_signature and their results
  derived    \* the calls of compute_zklogin_address and their results

vars == <<attempts, tokens, logins, signatures, derived>>

Init == attempts = <<>> /\ tokens = {} /\ logins = {} /\ signatures = {} /\ derived = {}

-----------------------------------------------------------------------------

(* The bytes of the n-th key that generate_ephemeral_keypair draws. *)
EphemeralKey(n) == <<<<"key", n>>>>

(* The script stops with the exception if there is no nonce. *)
BeginWith(epk, flag, max_epoch, randomness) ==
  LET nonce == compute_nonce(epk, max_epoch, randomness)
  IN  /\ Len(attempts) < MaxAttempts
      /\ nonce.ok
      /\ attempts' = Append(attempts, [flag |-> flag, epk |-> epk, max_epoch |-> max_epoch,
                                       randomness |-> randomness, nonce |-> nonce.val])
      /\ UNCHANGED <<tokens, logins, signatures, derived>>

(* Mutant: the key of the first attempt is kept. *)
Begin_kept_key(flag, max_epoch, randomness) ==
  BeginWith(EphemeralKey(1), flag, max_epoch, randomness)

Begin(flag, max_epoch, randomness) ==
  BeginWith(EphemeralKey(Len(attempts) + 1), flag, max_epoch, randomness)

(* The provider names the client as the audience: alone, or in an array    *)
(* before or after another one, or in no way that the standard allows.     *)
AudienceOf(account, form) ==
  LET client == <<account.aud>>
      other == <<<<"x">>>>
  IN  CASE form.aud = "string" -> [kind |-> "string", values |-> <<client>>]
        [] form.aud = "client first" -> [kind |-> "array", values |-> <<client, other>>]
        [] form.aud = "client second" -> [kind |-> "array", values |-> <<other, client>>]
        [] OTHER -> [kind |-> "other", values |-> <<>>]

(* It puts the nonce of the authorization request into the token.          *)
TokenOf(account, nonce, form) ==
  [parts   |-> form.parts,
   header  |-> form.header,
   payload |-> form.payload,
   decodes |-> form.decodes,
   iss     |-> <<account.iss>>,
   sub     |-> IF "sub" \in form.missing THEN <<>> ELSE <<account.sub>>,
   aud     |-> AudienceOf(account, form),
   nonce   |-> IF "nonce" \in form.missing THEN <<>> ELSE <<nonce>>]

Issue(n, account, form) ==
  /\ Cardinality(tokens) < MaxTokens
  /\ tokens' = tokens \cup {[jwt     |-> TokenOf(account, attempts[n].nonce, form),
                             form    |-> form,
                             account |-> account,
                             attempt |-> n]}
  /\ UNCHANGED <<attempts, logins, signatures, derived>>

(* The proving service is asked with the extended key of the attempt, and  *)
(* refuses a token that has not the nonce of that key.                     *)
Prove(attempt, jwt) ==
  LET extended_key == <<attempt.flag>> \o attempt.epk
      nonce == get_nonce(extended_key, attempt.max_epoch, attempt.randomness)
  IN  IF ~nonce.ok \/ jwt.nonce # <<nonce.val>>
      THEN Err("HTTPError")
      ELSE Ok([extended_key |-> extended_key, iss |-> jwt.iss[1]])

(* The steps that follow the arrival of a token. The client stops at a     *)
(* nonce that is not its own, with an assertion.                           *)
Completed(attempt, jwt, salt, legacy) ==
  AndThen(extract_jwt_claims(jwt), LAMBDA claims :
    IF claims.nonce # attempt.nonce THEN Err("AssertionError")
    ELSE AndThen(compute_address_seed("sub", claims.sub, claims.aud, salt), LAMBDA seed :
      AndThen(compute_zklogin_address(claims.iss, seed, legacy), LAMBDA address :
        AndThen(Prove(attempt, jwt), LAMBDA proof :
          Ok([address |-> address, seed |-> seed, proof |-> proof])))))

Complete(n, token, salt, legacy) ==
  /\ Cardinality(logins) < MaxLogins
  /\ logins' = logins \cup
       {[attempt |-> n, token |-> token, salt |-> salt, legacy |-> legacy,
         result  |-> Completed(attempts[n], token.jwt, salt, legacy)]}
  /\ UNCHANGED <<attempts, tokens, signatures, derived>>

(* Whoever sends a transaction has it signed with the ephemeral key and    *)
(* puts the proof to it, as the prover answered or as no JSON of a proof.  *)
ProofJson(login) == [parses |-> TRUE, proof |-> login.result.val.proof]

NoProof == [parses |-> FALSE]

Sign(login, proof_json) ==
  /\ login.result.ok
  /\ Cardinality(signatures) < MaxSignatures
  /\ LET attempt == attempts[login.attempt]
     IN  signatures' = signatures \cup
           {[login  |-> login,
             result |-> build_zklogin_signature(proof_json, attempt.epk,
                                                login.result.val.seed, attempt.max_epoch)]}
  /\ UNCHANGED <<attempts, tokens, logins, derived>>

(* A caller of compute_zklogin_address that has no token. *)
Derive(iss, seed, legacy) ==
  /\ Cardinality(derived) < MaxDerived
  /\ derived' = derived \cup
       {[iss |-> iss, seed |-> seed, legacy |-> legacy,
         result |-> compute_zklogin_address(iss, seed, legacy)]}
  /\ UNCHANGED <<attempts, tokens, logins, signatures>>

Next ==
  \/ \E flag \in {Ed25519Flag, Secp256r1Flag}, max_epoch \in Epochs, r \in Randomness :
       Begin(flag, max_epoch, r)
  \/ \E n \in DOMAIN attempts, account \in Account, form \in Forms : Issue(n, account, form)
  \/ \E n \in DOMAIN attempts, token \in tokens, salt \in Salts, legacy \in BOOLEAN :
       Complete(n, token, salt, legacy)
  \/ \E login \in logins : Sign(login, ProofJson(login)) \/ Sign(login, NoProof)
  \/ \E iss \in Issuers, seed \in Seeds, legacy \in BOOLEAN : Derive(iss, seed, legacy)

Spec == Init /\ [][Next]_vars

-----------------------------------------------------------------------------

(* Tokens and logins are of attempts that were begun, signatures are of    *)
(* logins, and every attempt has a key of its own.                         *)
TypeOK ==
  /\ \A n \in DOMAIN attempts : attempts[n].epk = EphemeralKey(n)
  /\ \A token \in tokens : token.attempt \in DOMAIN attempts
  /\ \A login \in logins : login.attempt \in DOMAIN attempts /\ login.token \in tokens
  /\ \A signed \in signatures : signed.login \in logins

(* lib.rs:128-133: whichever attempts are under way and in whatever order  *)
(* tokens arrive, only the attempt that a token was requested for gets     *)
(* past the client's comparison of the nonces with it, whatever the prover *)
(* then says: the nonce binds the token to the ephemeral key, also when    *)
(* epoch and randomness are the same.                                      *)
OwnTokens ==
  \A login \in logins :
    login.result.ok \/ login.result = Err("HTTPError") => login.token.attempt = login.attempt

(* What tells the user of a token that was taken: of several audiences     *)
(* only the first counts.                                                  *)
Identity(token) ==
  [iss |-> token.account.iss, sub |-> token.account.sub, aud |-> token.jwt.aud.values[1][1]]

(* Two logins get one address exactly if their tokens are of one issuer,   *)
(* subject and first audience (lib.rs:104-112), whether the provider       *)
(* writes the audience as string or array (for one salt). One account thus *)
(* keeps its address between string and array, and gets another one, that  *)
(* of the account at the other client, if the array begins with that.      *)
AddressPerAccount ==
  \A a, b \in logins :
    a.result.ok /\ b.result.ok /\ a.salt = b.salt /\ a.legacy = b.legacy
    => (a.result.val.address = b.result.val.address <=> Identity(a.token) = Identity(b.token))

(* The number in a signature is the one that fastcrypto made of the claims *)
(* (the proof is about it), and the address that a validator derives from  *)
(* that number, unpadded or, for legacy addresses, padded, is the one that *)
(* the client computed from the bytes of the seed: lib.rs:136-151, 161-166 *)
(* and 178 agree on what a seed is.                                        *)
ChainAddress(inputs, legacy) ==
  LET bytes == to_bytes_be(inputs.address_seed)
  IN  hash_zklogin_address(inputs.proof.iss,
                           (IF legacy THEN Zeros(SeedLength - Len(bytes)) ELSE <<>>) \o bytes)

SignatureHasAddress ==
  \A signed \in signatures :
    signed.result.ok =>
      LET inputs == signed.result.val.inputs
          login == signed.login
          identity == Identity(login.token)
      IN  /\ inputs.address_seed = AddressSeed[login.salt, "sub", identity.sub, identity.aud]
          /\ login.result.val.address = ChainAddress(inputs, login.legacy)

(* A token for this attempt, as the provider makes them. *)
GoodForm(form) ==
  /\ form.parts = 3 /\ form.decodes /\ form.missing = {}
  /\ form.header <= MaxHeader /\ form.header + 1 + form.payload <= MaxSigned
  /\ form.aud \in {"string", "client first"}

OwnGoodToken(login) ==
  /\ login.token.attempt = login.attempt
  /\ GoodForm(login.token.form)
  /\ Len(login.token.account.iss) <= U8Max
  /\ Len(login.token.account.aud) <= MaxAud

(* An attempt with an Ed25519 key gets through with its own token: the     *)
(* nonce that was asked for is the one that the prover computes.           *)
Ed25519LoginWorks ==
  \A login \in logins :
    OwnGoodToken(login) /\ attempts[login.attempt].flag = Ed25519Flag => login.result.ok

(* What README.rst:65 says of secp256r1 keys: they are for nonce           *)
(* construction as well, so an attempt with one gets through too.          *)
EveryKeyLoginWorks ==
  \A login \in logins : OwnGoodToken(login) => login.result.ok

(* lib.rs:36-44 and 154-166: compute_zklogin_address gives two calls one   *)
(* address exactly if they are for one issuer and seed, and derive it in   *)
(* the same way (legacy or not) or the seed has no leading zero. This      *)
(* holds for issuers as well whose length the cast to u8 truncates.        *)
AddressesDistinct ==
  \A a, b \in derived :
    a.result.ok /\ b.result.ok =>
      (a.result = b.result <=>
         /\ a.iss = b.iss /\ a.seed = b.seed
         /\ a.legacy = b.legacy \/ SeedLength = 1 \/ a.seed[1] # 0)
=============================================================================
