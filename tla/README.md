# A verification development for pysui-crypto

pysui-crypto is a Rust library with Python bindings (PyO3) that a Sui client
uses for two things: **SEAL**, threshold encryption under the identities of a
Move package, and **zkLogin**, the derivation of addresses and signatures from
OpenID tokens. The development models both: `src/seal/*.rs`, `src/lib.rs`, and
the clients that call them, as the scripts in `scratch/` do. Paths below are
those of the repository.

## 1. Inventory

The library keeps no state between calls. What lasts is what its callers keep:
sealed objects, user secret keys, ElGamal key pairs, ephemeral keys, tokens. The
hard part is therefore not a scheduler but long sequences of legal calls on
things that have been stored, carried, lost, repeated and damaged, with keys
that are incomplete, in another order, stale or wrong.

| component | state | operations | properties that make it correct |
|---|---|---|---|
| `gf256.rs` | two constant tables | add, sub, neg, mul, div, sum, product | the tables are the field; division undoes multiplication |
| `polynomial.rs` | none | evaluate, add, multiply, divide by a scalar, interpolate | the polynomial through enough points is the dealer's |
| `tss.rs` | none; a dealing lives at its holders | split, combine, interpolate | any threshold shares give the secret, fewer give nothing, both reconstructions agree |
| `ibe.rs` | none; master keys live at key servers | key pairs, extract, two verifications, batch encryption, decryption with a key or with the randomness, nonce check | a verified key decrypts; the randomness reproduces the nonce |
| `dem.rs` | none | Aes256Gcm, Hmac256Ctr, Plain | nothing but the sealed message opens; a key is used once |
| `core.rs` | the object | seal_encrypt, seal_decrypt, derive_key, two ways to combine | everything is bound together by derive_key and the nonce check |
| `bindings.rs`, seal functions | none | guards, parsing, the map of keys | refuses what core.rs would truncate |
| `bindings.rs`, `elgamal.rs`: key server workflow | the client's session and its keys | key pairs, decryption and verification of answers | an answer for another key pair, identity or master key is noticed, and spoils nothing |
| `lib.rs`: zkLogin | none; attempts to log in live at the client | ephemeral key, claims, nonce, address seed, address, signature | a token serves its own attempt only; one address per account; lengths and flags agree with the chain |

How they interact: `seal_encrypt` (bindings) calls `core::seal_encrypt`, which
shares a fresh base key (`tss::split`), encrypts each share to a key server
(`ibe::encrypt_batched_deterministic`), masks the encryption randomness with one
key derived from the base key and encrypts the message with another
(`derive_key`, `dem`). A decryptor makes an ElGamal key pair, asks the key
servers of the object for its user secret keys, decrypts (and may verify) their
answers, and calls `seal_decrypt`. That goes back: it decrypts the shares whose
key it holds, combines them, unmasks the randomness, checks it against the
nonce, with public keys re-decrypts *all* shares and checks them against the
polynomial, and decrypts the message. In zkLogin a client makes an ephemeral key
and its nonce, sends the nonce to the OpenID provider, gets a token that holds
it, and makes of the token's claims the address seed, the address and, with the
answer of the proving service, the signature.

Hard behaviours, with the lines at which they bite, are the `hazards` of
`PROJECT.json`. The ones that shaped the model: objects damaged in one field, or
whose ciphertext came back as another variant;
duplicate servers; keys that are wrong or given twice; public keys in the wrong
order; encryptors that damage a share or share for another threshold; the casts
of lengths to u8; keys reused under a fixed IV; answers and tokens that arrive
when the key pair they were made for is no longer in use; seeds with leading
zeros.

## 2. Modules

| module | models | remarks |
|---|---|---|
| `Utils` | `utils.rs`, results | byte arrays, see section 3; `AndThen` is the `?` of the code |
| `GF256` | `gf256.rs` | the tables of the source |
| `FieldCheck` | - | reference definition of the field, all pairs of bytes |
| `Polynomial` | `polynomial.rs` | |
| `TSS` | `tss.rs` | |
| `Sharing` | callers of `tss.rs` | machine: one dealing, shares handed in one by one |
| `IBE` | `ibe.rs` | groups by discrete logarithm |
| `ElGamal` | `elgamal.rs` | the encryption by which answers are protected |
| `DEM` | `dem.rs` | |
| `Core` | `core.rs` | composes TSS, IBE and DEM |
| `Vault` | - | abstract specification of what SEAL promises |
| `Seal` | `bindings.rs` (sealing and opening) and its callers | machine: encryptors, storage, decryptors; refines `Vault` |
| `KeyRetrieval` | `bindings.rs` (key server workflow), called by a client that the repository only outlines; key servers and network are external | machine; composes ElGamal, IBE and Core; refines `Keyring` |
| `Keyring` | - | abstract specification of what the retrieval of keys promises |
| `ZkLogin` | `lib.rs` | |
| `Login` | the client of `scratch/google_zklogin.py`, provider, proving service | machine: attempts to log in, tokens, addresses, signatures |
| `MCSharing`, `MCSeal`, `MCKeyRetrieval`, `MCLogin` | - | the instances that TLC checks |
| `FieldProofs`, `TSSProofs`, `CoreProofs` | - | lemmas about the operators of GF256, of Polynomial and TSS, and of Core, each built on the one before |
| `FieldCheckProofs` | - | the tables against the reference definition of FieldCheck |
| `SharingProofs`, `SealProofs`, `RetrievalProofs`, `LoginProofs` | - | theorems about the machines Sharing, Seal, KeyRetrieval and Login |

**Seal.** `sealed` records the calls of `seal_encrypt` with arguments and
result, the n-th of which draws the seed n from the random number generator;
`objects` are the `EncryptedObject`s in storage with the call they come from;
`damages` counts; `opened` records the calls of `seal_decrypt`. `Encrypt` is
`bindings::seal_encrypt` down to the ciphers, `Decrypt` is
`bindings::seal_decrypt`; each is one step, because a call works on its own
arguments and shares nothing with other calls. Two actions are encryptors who
do not use the library as it is: `EncryptModifiedShare` is the helper
`seal_encrypt_and_modify_first_share` of the tests in `core.rs`, and
`EncryptSharedForOther` shares the base key for another threshold than the one
it writes into the object. `Damage` replaces one field by another value that
still parses: version, ids, threshold, services (dropped, reordered, another
index), nonce, shares (dropped, reordered, altered), masked randomness, and the
ciphertext. Of the ciphertext either one part is altered (the aad to None, to
nothing or by a byte, the blob, the MAC; one damage moves a byte of the blob to
the aad, which leaves the concatenation that the MAC is over as it was), or it
becomes another variant of the enum (`core.rs:54-66`), with the blob and the aad
that were there or with others (`OtherVariants`). The nonce check does not look
at the ciphertext, so an object whose ciphertext became `Plain` opens, and
`seal_decrypt` returns the derived key (`core.rs:271`, `dem.rs:153`): the
properties say so, and section 6.

**Vault.** Without any cryptography: `Put` appends a payload with its key and its
threshold, or a refusal; `Get` is refused, or returns the payload, or in its
place the key, to a caller with keys for at least threshold of the places. `Seal`
maps to it by `Puts` (each encryption, with what it sealed and the key it derived
for that) and `GetOf` (each decryption, with the number of places held and its
answer); damages are stutters. What the mapping promises is that nothing comes
out but what was put in or the key that was made for it, and for nobody without
keys enough, whatever encryptors and callers do and whichever field of an object
changes in storage. That the vault has the key as an answer is due to the `Plain`
variant, requested or not.

**KeyRetrieval.** `pairs` counts the ElGamal key pairs that the client made,
`current` is the one it has (0 after a crash), `network` the messages under way,
`keys` the user secret keys that it keeps, `opened` the result of
`seal_decrypt`. The code in it are the calls `generate_elgamal_keypair`,
`elgamal_decrypt`, `verify_user_secret_key` and `seal_decrypt` of the client and
`derive_master_key` and `extract` of the servers (`verify_encrypted_signature`,
which has no caller, is compared with the check that has one). Who calls them is not in the
repository: `scratch/seal_demo.py:124-131` prints what such a client would do,
once and without a network, and `README.rst:111-117` lists the calls. The client
of the model is therefore external, and so the map has `Init`, `Ask`, `Keep`,
`Receive`, `CanOpen` and `Next`. It is one that uses the library as it can be
used: it verifies a key before it keeps it, asks when it likes, again if need be,
renews its key pair, and may crash. The outline does not verify;
`Receive_unverified`, its way, is the mutant that shows what the verification is
for. The environment: `network`
is a set, so messages overtake one another; `Lose` drops one; `AnswerRightly`
and `ReceiveAnswer` may leave the message they consume under way (`again`), so
requests and answers repeat; `AnswerWrongly` is a faulty server that sends the
key of another identity or of another derivation index (`derive_master_key`), or
the key in the clear; `Crash` loses secret and keys. ElGamal has no
authentication: decrypting an answer to an earlier key pair yields some group
element and no error.

**Keyring.** Without messages and cryptography: `Obtain` puts one key on the
ring, `Forget` takes all of them off, `Read` gives the payload to whoever has
enough of them on it. `KeyRetrieval` maps to it by `RightKeys`, the servers whose
*right* key the client keeps, and `opened`; everything that goes on in the
network is a stutter. What the mapping promises beyond the invariants is about
steps: an answer costs the client no key it has, one answer is one key, only a
crash loses keys, and what was read stays.

**Login.** `attempts` are those begun, the n-th with its own ephemeral key,
flag, epoch, randomness and nonce; `tokens` those that the provider issued, with
account and attempt; `logins` the attempts completed with a token, and the
result; `signatures` the calls of `build_zklogin_signature`; `derived` the direct
calls of `compute_zklogin_address`. `Begin` is `generate_ephemeral_keypair` and
`compute_nonce`, and happens only if that returns a nonce: randomness that is no
number is refused, and the script ends with the exception. `Issue` is the
provider, in forms at and over the limits of the lengths, with the audience as a
string, an array in either order or something else, and with claims missing;
`Complete` is `extract_jwt_claims`, the script's assertion on the nonce
(`scratch/google_zklogin.py:149-151`), `compute_address_seed`,
`compute_zklogin_address` and the proving service, which recomputes the nonce
from the extended key. It takes *any* token for *any* attempt: tokens arrive late
and in any order, and are used again. `Sign` is not in the script: whoever sends
a transaction calls `build_zklogin_signature` with the seed and the proof of a
login, or with something that is no proof and is refused (`lib.rs:181-182`).

## 3. Abstractions

* **Byte arrays** of SEAL are sets of bits `<<position, i>>`. A position is an
  offset of real bytes (`Sharing`), or a symbol for one output of the random
  number generator or of a hash (`Seal`). The code treats the positions of an
  array independently, so an array is a linear combination of symbols over
  GF(256) and sharing, interpolation and xor are computed exactly. Two arrays
  are equal iff they are equal whatever generator and hashes return. Collisions,
  which have probability 2^-256, do not happen.
* **Hashes** (`derive_key`, `kdf`, `hmac`, the nonce and the address of zkLogin)
  are symbols that hold all they hash. Aes256Gcm is a key stream and a tag over
  aad and ciphertext, appended.
* **Group elements** are their discrete logarithms, the pairing is the product.
  What the model lets a caller do with them is what the code does; it computes
  no logarithm. Logarithms are natural numbers and are not reduced modulo the
  order of the group: with the small numbers of the runs nothing is reduced, and
  the theorems say what holds identically in them.
* **Scalars from bytes**: bytes that are no drawn scalar are refused at once,
  where the code refuses them at once or in the following nonce check.
* Messages and aads are short sequences of symbols; `KEY_SIZE` is a constant
  (2 in the runs, so that three bytes make a full block and a partial one).
* `U8Max` is a constant (3 in the runs, 255 in the code); so are the lengths that
  `ZkLogin` checks (`SeedLength` 2 for 32, `MaxHeader`, `MaxSigned`, `MaxAud`).
* `AddressSeed`, fastcrypto's Poseidon hash of the claims, is a given function
  without collisions, whose numbers fit `SeedLength` bytes; the runs give it
  values with and without leading zeros, zero itself included. Its bytes come
  from repeated division by the range of a byte (`Quotients`), as a big number's
  do.
* JSON and BASE64 of a token are flags: whether it has three parts, decodes, and
  which claims it has in what form. So is the JSON of a proof (`parses`), and
  `FieldNumbers` are the strings that `get_nonce` takes for randomness.

## 4. Runs

| run | instance | states | properties |
|---|---|---|---|
| `field` | all pairs of bytes | 65536 | `MulIsFieldProduct`, `DivInvertsMul` |
| `sharing` | dealings 1 of 1, 2 of 3, 3 of 4, 2 of 255, refused 0 of 2 and 3 of 2; two secrets, coefficient bytes 0 and 83; up to 4 shares handed in, one of them damaged or under index 0 | 20127 | `TypeOK`, `Reconstructs`, `RecoversEveryShare`, `ReconstructionsAgree`, `DamageShows`, `HidesBelowThreshold` |
| `seal` | fourteen requests, 1 encryption, 1 damage, 1 decryption with eleven holdings and five lists of public keys | 136285 | `TypeOK`, `AcceptsExactly`, `DecryptSound`, `BoundFieldsIntact`, `OtherFieldsIntact`, `Availability`, `EnoughKeys`, `KeysRight`, `PublicKeysRight`, `ImplementsVault` |
| `seal_twice` | three requests, 1 encryption, 2 decryptions | 16953 | `Consistency` |
| `seal_keys` | fourteen requests, 2 encryptions | 2551 | `KeysNeverReused` |
| `seal_corrupted` | two requests, 1 encryption, 1 decryption | | `CorruptedShareUndetected`, violated: section 6 |
| `seal_variant` | two requests, 1 encryption, 1 damage, 1 decryption | | `PlaintextReturned`, violated: section 6 |
| `retrieval` | 3 servers, 1 faulty; 2 key pairs, 4 messages under way | 65221 | `TypeOK`, `KeptKeysRight`, `AcceptsGoodAnswers`, `EncryptedCheckAgrees`, `OpensAtOnce`, `KeysFromFreshAnswers`, `ImplementsKeyring` |
| `login` | six accounts, six forms; 2 attempts, 2 tokens, 2 logins, 1 signature | 521971 | `TypeOK`, `OwnTokens`, `AddressPerAccount`, `SignatureHasAddress`, `Ed25519LoginWorks` |
| `addresses` | issuers of 0 to 5 bytes, all seeds of 2 bytes; 2 derivations | 97904 | `AddressesDistinct` |
| `login_secp` | 1 attempt, 1 token, 1 login | | `EveryKeyLoginWorks`, violated: section 6 |

What they show:

* `field`: the tables are the field with 256 elements.
* `sharing`: enough genuine shares in any order give the secret back
  (`Reconstructs`) and every other share (`RecoversEveryShare`); the two
  reconstructions of the crate agree on every list, errors included, which a
  share handed in twice or under the index 0 makes them return
  (`ReconstructionsAgree`); one damaged share never passes (`DamageShows`, which
  says that the secret is another one, not that anybody notices); with one share
  less than the threshold every secret remains possible: `split` deals each other
  secret in the same shares, for some draws of as many coefficients
  (`HidesBelowThreshold`).
* `seal`: the requests accepted are exactly the sound ones (`AcceptsExactly`);
  what opens is what was sealed, or the derived key if the ciphertext is `Plain`
  by then, and never another message (`DecryptSound`); an object that opens has
  the fields that keys are derived from as they were (`BoundFieldsIntact`) and
  the others too (`OtherFieldsIntact`), but for four things: without public keys
  nobody looks at the index of a share whose key the caller does not hold; a
  server that is listed twice may have its two entries change places; the
  ciphertext may have become `Plain`; and an aad that was None may be Some of
  nothing, or the other way round. Enough keys that pass `verify_user_secret_key`
  open an intact object, and of several keys for one server it is the last that
  has to pass (`Availability`); fewer than threshold never do (`EnoughKeys`); an
  object made with the public keys of the servers that it names opens with right
  keys only, so that one wrong key among enough right ones spoils it
  (`KeysRight`), and with the check of the shares only for whoever passes these
  public keys in the order of the object's list (`PublicKeysRight`); and all this
  is what the vault allows (`ImplementsVault`).
* `seal_twice`: if a caller opens an object with the check of the shares, against
  the registered public keys, everyone with at least as many right keys opens it
  (`Consistency`). "At least as many" is needed: if an object is shared for a
  higher threshold than it says, `recover_polynomials` (`src/seal/core.rs:328`)
  interpolates a polynomial through all held shares, which the held shares cannot
  but fit, and a caller with threshold many keys gets another one. Asking only for
  threshold many keys of the other caller gives that trace. No line of the
  repository promises more, so this is no finding; it is listed as a hazard.
* `seal_keys`: no derived key serves two objects or two purposes, and one that is
  handed out encrypts nothing.
* `retrieval`: every key that the client keeps is right (`KeptKeysRight`) and
  came with an answer for the key pair in use (`KeysFromFreshAnswers`), and every
  answer with the right key for the key pair in use is accepted, whatever came
  before it (`AcceptsGoodAnswers`);
  `verify_encrypted_signature`, which needs no secret key, decides as the check
  of the decrypted key does, but that it refuses keys in the clear
  (`EncryptedCheckAgrees`); once there are enough keys `seal_decrypt` succeeds at
  once (`OpensAtOnce`); and all this is what the ring of keys allows
  (`ImplementsKeyring`).
* `login`: only the attempt that a token was asked for gets past the comparison
  of the nonces with it (`OwnTokens`); two logins get one address exactly if
  their tokens are of one issuer, subject and first audience, so that an account
  keeps its address however the provider writes its audience, as long as it names
  the client first (`AddressPerAccount`); the validator derives the client's
  address from the number in the signature, leading zeros or not, legacy or not
  (`SignatureHasAddress`); with an Ed25519 key a login with a good token works
  (`Ed25519LoginWorks`; for secp256r1 keys see section 6).
* `addresses`: two derivations have one address exactly if they are for one
  issuer and seed, derived alike or with a seed without leading zeros, also for
  issuers whose length wraps.

Bounds. `MaxHanded = 4` exceeds every threshold by one, and repeats shares; 255
is the largest index. The fields of an object are damaged one at a time
(`MaxDamages = 1`), since two damages give the checks strictly less to agree on;
the theorems hold for any number. Three servers, a threshold of 1 to 3, a list
with a server twice and a list of six (twice the range of u8, where the cast
gives 2) contain every case of the guards, and one message is empty. The
holdings contain none, one, two and three keys, another order, a wrong key among
too few, exactly enough and more than enough, a stale key before and after the
right one of the same server, and keys of another identity; the lists of public
keys the right ones, those of another request, another order and one too few. Two
key pairs are what it takes for an answer to be for another one than the current.
Four messages under way are a request and an answer each of two servers, or
answers of three servers and a repetition. Two attempts and two tokens are what
it takes to mix them up; the accounts differ from the first in one claim each,
two exceed a limit by one, and one is the same user at the client that the
provider names besides. `Begin`, `Issue`, `Complete`, `Sign` and `Derive` do not
wait for one another, so that direct derivations have a run of their own.

No symmetry is used. Deadlock is not checked: the machines make a bounded number
of calls and stop.

## 5. Fairness

None is assumed, and no liveness is stated. The library's calls return by
themselves, and what would have to happen in the end happens in clients: no line
of the repository asks a key server again, restarts, or waits for an answer, so
whatever fairness made a client get on would be invented with it. What the
library contributes to that is safety, and is checked: a good answer is accepted
whatever came before it (`AcceptsGoodAnswers`), an answer costs no key
(`ImplementsKeyring`), and with enough keys the object opens at once
(`OpensAtOnce`).

## 6. Findings

`seal_variant`: the comment of `core::seal_decrypt` (`src/seal/core.rs:184`) says
that the call returns the decrypted plaintext "or, if `Plain` mode was used, the
derived key" (`README.rst:105` and `src/seal/bindings.rs:160-162` say of
`seal_encrypt` that it hands out the key in `Plain` mode only). What decides is
the variant of the ciphertext as it is when the object is opened
(`src/seal/core.rs:271`, `src/seal/dem.rs:145-153`), and nothing binds it to what
was sealed: `derive_key` (`src/seal/core.rs:297-317`) hashes the shares, the
threshold and the servers. An object sealed with Hmac256Ctr or Aes256Gcm whose
ciphertext becomes `Plain` in storage opens without an error, and its caller gets
the key of 32 bytes in the place of the message. `DecryptSound`,
`OtherFieldsIntact` and `ImplementsVault` are stated with this case in them.

`seal_corrupted`: the comment of `seal_decrypt` (`src/seal/bindings.rs:169-171`)
says that without public keys a corrupted share of a key server goes undetected.
It does not: `combine_and_verify_nonce` (`src/seal/core.rs:348-373`) recovers the
randomness with the combined base key and refuses it if it does not reproduce
the nonce, so the call fails. What public keys add is another guarantee: that
the shares the caller does not hold are good too (`Consistency`).

`login_secp`: `README.rst:65` offers secp256r1 key pairs "for nonce
construction". `compute_nonce` puts the flag of Ed25519 before the key bytes
whatever they are (`src/lib.rs:23-27`), while the prover is asked with the flag
of the key (`scratch/google_zklogin.py:168-170`). The nonce of the token is then
not that of the extended key.

Differences met while reading, which need no run: `README.rst:108,112` and
`CHANGELOG.md:22-23` name the entry of the key pairs `private_key`, the code
`secret_key`; `README.rst:121` and `CHANGELOG.md:26` say that
`seal_signed_message` returns hex-encoded bytes, and it returns the text.

## 7. Proofs

All theorems hold for every value of the constants under the named assumptions
of the modules, which TLC evaluates in every run that uses them:

* the types of the constants (`U8MaxAssumption`, `KeySizeAssumption`,
  `ConstantsAreBytes`, `RequestAssumption`, `HoldingsAssumption`,
  `PublicKeyListsAssumption`, `LimitsAssumption`, ...);
* of the group: master keys, hashes and drawn scalars are not zero, and H1 sends
  no two identities to one point (`ScalarAssumption`, `H1Assumption`,
  `MasterKeyAssumption`, `ServerAssumption`);
* of the inputs: messages and aads are not made from tags of the cipher, as they
  are there before it runs (`TextAssumption`); the identities that a request or a
  damage names are identities (`IdentityAssumption`);
* of `KeyRetrieval`: the object is sealed for the registered keys of its servers;
  key pairs have secrets of their own; another identity or derivation index is
  really another (`OthersAssumption`); and a *wrong* answer made for one key pair
  and decrypted with another's secret is not the right key by accident
  (`NoAccident`), which in a group of 255 bits has probability 2^-255;
* of `AddressSeed`: no collisions, and every number fits `SeedLength` bytes
  (`AddressSeedAssumption`).

### The arithmetic

The folds of the code (`Sum`, `Product`, `evaluate`, sums and products of
polynomials) are the library's `FoldLeft` and `FoldRight`, recursive functions on
the subsets of an interval. The induction theorems of the library cannot be
instantiated by the provers, so `FieldProofs` states induction for sets:
a set of numbers that holds 0 and the successor of each of its elements holds them all
(`NatSetInduction`, `UpToInduction`, `DownInduction`), and a property is proved by
putting the numbers that have it into such a set. With that `FoldUp` and
`FoldDown` say once what a fold computes: a function on 0..n of its intermediate
values. Every later lemma about a loop (`SumSteps`, `ProductSteps`,
`EvaluateSteps`, ...) is an instance.

* `FieldProofs`: xor is the symmetric difference of the sets of bits
  (`BitsOfAdd`), hence commutative, associative and its own inverse. The tables
  are taken entry by entry: `ExpRange`, `LogOfExp`, `ExpOfLog`, and `ExpSteps`,
  which says bit by bit that each entry of EXP is three times the one before,
  reduced by the modulus. From there `MulExp` (multiplication adds exponents),
  `DivResult` (division undoes multiplication), and, as multiplication by 3
  distributes over xor and every byte is a power of 3, `Distributive`. Together:
  the tables are a field, which the theorem `BytesAreAField` states as the laws.
* `FieldCheckProofs`: it is *the* field, polynomials over GF(2) modulo
  x^8 + x^4 + x^3 + x + 1. `XtimeIsTwice` proves that a shift, reduced, is
  multiplication by 2: 2 is 3 less 1, so by `Distributive` the bits of the product
  are those of 3x and x together. `AppendBit` then says that one round of the
  reference multiplication appends a bit of y, and `ReferenceIsMul` runs through
  the eight rounds. With that `TablesMultiply` (`Spec => []MulIsFieldProduct`);
  `DivisionUndoes` (`Spec => []DivInvertsMul`) rests on `DivResult`.
* `TSSProofs` on polynomials: Horner's rule, values of sums and products,
  `InterpolateOk` and `InterpolateExact` (`interpolate` succeeds on different
  points and passes through them), `DivideByRoot` and `ManyRoots` (m
  coefficients, m roots: zero), and `Determined`: m values determine a polynomial
  of m coefficients. Together, as a theorem, `InterpolatesUniquely`.
* `TSSProofs` on sharing: `CombineByte` (the loops of `combine` compute Lagrange's value at 0
  although the code computes it in another way than `interpolate` does),
  `InterpolateArrays`, `SplitByteOk` and `SplitOk` (`split` hands out values of
  polynomials whose value at 0 is the secret), for arrays at any places.
* `CoreProofs`: `CombinedWhen` and `CombinedMeans` (which held shares combine to a
  base key), `HonestOpens`, and the argument why a wrong key is noticed: each
  share is masked with a symbol of its own, the symbols of a wrong key stay in
  the combination with a non-zero factor (`LagrangeSingle`, `KeysMatch`), and a
  base key that passes the nonce check has no such symbols.

### The machines

`SharingProofs` (any secrets, thresholds, up to 255 shares, any draws, any number
of shares handed in). The inductive invariant `IInv`: what was dealt is what
`split` makes of some coefficients (`DealtInv`); only what was dealt is handed
in, and what is not damaged is the share of its index (`HandedInv`); one share at
most is damaged (`OneDamaged`).

* `SharingTypeCorrect`, `ReconstructsAlways`, `RecoversAlways`: enough genuine
  shares determine the dealer's polynomial, whose values are the secret and the
  other shares; `AgreeAlways`, errors included; `DamageShowsAlways`: the shares
  differ in one value, which Lagrange's formula multiplies by something non-zero;
  `HidesAlways`: through threshold minus one shares and any candidate for the
  secret goes one polynomial (`interpolate`); with its coefficients as draws
  `split` deals the candidate, and the shares are those handed in.

`SealProofs` (any number of servers, requests, encryptions, damages and
decryptions):

* `TypeCorrect`: `Spec => []TypeOK`. The inductive invariant `TypeInv` adds to
  `TypeOK` that every successful call holds an object made by `Assemble` from
  some shares for its request (`Assembled`), which every later argument starts
  from. Lemmas give the number of shares that `split`, the batch encryption and
  `seal_encrypt` produce. The guard on the number of servers enters in
  `AsU8Exact`.
* `AcceptsExactlyHolds`: `Spec => []AcceptsExactly`, by `HonestInv`: an honest
  call's result is what `py_seal_encrypt` returns for its seed.
* `DecryptIsSound`: `Spec => []DecryptSound`. `SoundInv` adds what a damage
  leaves of an object (`ObjectInv`): the masked randomness is the original, with
  or without noise; and of a ciphertext of whichever variant
  (`CiphertextInv`) that an authentication tag or a MAC is in it only if the
  original is of the variant that has one, and is the original's then, with or
  without noise. From there: a decryption that
  succeeds used a base key that passed the nonce check
  (`DecryptUsesVerifiedKey`); such a base key is the original one, and with it
  shares, threshold and servers are the original ones (`BaseKeyBound`), because
  xoring the derived key with the masked randomness leaves a single symbol only
  if the derived key is the one it was masked with; hence the key of the DEM is
  the original one. A `Plain` ciphertext yields that key; in another variant only
  what was encrypted decrypts (`DemSound`:
  `HmacSound` uses that equal MACs mean equal lengths of the aad and equal
  concatenations; `GcmSound` that no other tag can stand in the last place).
* `BoundFieldsAreIntact`, `EnoughKeysNeeded`: from `BaseKeyBound`. As the
  threshold of an object that opens is the one it was sealed for, the guard of
  `seal_decrypt` on the number of held shares is about the right number.
* `SealImplementsVault`: `Spec => ImplementsVault`. An encryption, honest or not,
  is a `Put`; a decryption is a `Get`, of the payload or of the key, by `DecryptSound`
  and `EnoughKeys`, or a stutter if
  the same call was made before; a damage is a stutter.
* `KeysAreFresh`: `Spec => []KeysNeverReused`, with the invariant that a key is
  handed out for Plain objects only.
* `KeysAreRight`, `PublicKeysAreRight`, `OtherFieldsAreIntact`, `AvailableAlways`,
  `ConsistentAlways`. The invariant `KeepsInv` adds to `SoundInv` how the
  shares of each object were made (`WritingCall`: every call masks shares that
  `split` dealt for some threshold with the keys of the request, the first one
  possibly modified; an honest call unmodified ones for the threshold asked for)
  and what damages leave of identity, servers and ciphertext (`FieldsInv`). An
  object that opens had each held share unmasked by what it was masked with
  (`PlacesOfOpening`): for a key this says that its product with the drawn scalar
  is the right one, so the key is (`CancelScalar`); for the fields, that identity,
  server and index went into the mask as they stand there, in whichever order.
  With public keys `OpenedElsewhere` says the same of the shares not held, and
  `PublicKeysFit` takes the public keys from there. That the pairs which count in
  a list of keys are the last of each server, which is how the properties put it
  (`LastPairs`), is what the map built by `HashMap` holds: `LastPairsAreMap`. For
  availability and consistency the other direction: shares on polynomials of as
  many coefficients as there are held shares, unmasked rightly, combine to the
  base key whoever holds them (`OpensOnPolynomials`), and the check against the
  public keys makes sure that they lie on such polynomials (`OpenedOnPolynomials`).

`RetrievalProofs` (any servers, faulty or not, any number of key pairs and
messages):

* `RetrievalTypeCorrect`, by the inductive invariant `RetrievalInv`: requests
  hold the public key of their pair, answers what a server makes of such a
  request (`AnswerOk`), kept keys are right.
* `KeptKeysAreRight`: `verify_user_secret_key` compares two products that share
  the non-zero factor of the generator, so a key that passes is the server's.
* `EncryptedCheckIsRight`: the equation of `verify_encrypted_signature` is that
  of the clear check multiplied by the secret scalar; the check for identity
  elements refuses exactly the keys in the clear, as nothing else under way has a
  zero in it.
* `OpensWhenItCan`: the kept keys are right, so that `HonestOpens` applies as soon
  as they cover threshold many places.
* `KeysAreFromFreshAnswers`, an action property: a right answer for an old key
  pair leaves the old secret in what it decrypts to, which differs from the
  current one's; a wrong answer for the current pair decrypts to a wrong key,
  which the check refuses; `NoAccident` is about what is left.
* `GoodAnswersAreAccepted`: `AnswerYields` writes down what decrypting any answer
  leaves, the key in it and a `Remainder` of the two secrets, which is zero exactly
  for the same key pair; so a good answer decrypts to its key, and by
  `VerifiedKeyRight` passes.
* `RetrievalImplementsKeyring`: `Spec => ImplementsKeyring`. Under `RetrievalInv`
  the right keys are all that are kept (`RightKeysAreAll`), so an answer that is
  received is an `Obtain` or a stutter (`ReceiveObtains`), the opening a `Read`
  (`OpenReads`), a crash a `Forget`, and the rest stutters.

`LoginProofs` (any number of attempts, tokens, logins and derivations, any
lengths):

* `LoginTypeCorrect`, `TokensAreOwn`, by the inductive invariant `LoginInv`:
  attempts have keys and nonces of their own, tokens the nonce of their attempt,
  what a login returned is `Completed` of both, and what a signature is made of
  the seed of a login and its proof, or refused (`SignaturesRight`).
* `SignaturesHaveTheirAddress`: `to_bytes_be` pads with zeros what
  `from_bytes_be` reads back (`DecodeEncode`, lemmas on repeated division), so
  that the validator's number is the client's, and both strip or keep the same
  zeros.
* `AddressesArePerAccount`: issuer, subject and first audience are the claims
  that are taken from a token of whatever form, `AddressSeed` has no collisions, and the
  address is a function of issuer and seed that `HashInjective` inverts.
* `Ed25519LoginsWork`: each early return of `Complete` in turn is not taken by an
  attempt with an Ed25519 key and its own well formed token.
* `AddressesAreDistinct`: two hashed byte strings are equal only for equal issuers
  and seeds (`HashInjective`). The lengths of the issuers agree modulo the range
  of u8; two seeds are at most `SeedLength` long, which is less than that range,
  so equal total lengths leave no room for another multiple.
  `StripInjective` says that stripping zeros confuses no two seeds of a length.

### What is only model-checked

Nothing of the passing runs: every invariant, action property and refinement that
they check is also a theorem. The three runs that end in a counterexample are
TLC's alone.

## 8. Not modelled

* Parsing and BCS, `PyEncryptedObject`, `ObjectID`: conversions without
  decisions. Inputs of the model are parsed.
* `generate_seed` and `generate_key_pair`, a random draw each, and
  `create_proof_of_possession`, a signature that nothing in the repository
  verifies.
* `generate_session_keypair` and `seal_signed_message`: a draw, and a text that
  key servers parse. Whether a session has expired is decided at the server; no
  line of the repository checks it.
* HTTP, the browser and the chain in the example clients; the tests; packaging.
* Timing and memory erasure.

## 9. Order of the work

1. Field, polynomials, sharing, identity based encryption, data encapsulation,
   core, the machine of encryptors and decryptors; type correctness, soundness of
   decryption and freshness of keys proved.
2. `ElGamal`, `KeyRetrieval`: the calls of a client among key servers, their safety
   proved.
3. `Vault`, and `Seal` shown to implement it; the fields that the base key binds
   and the keys that are needed, proved.
4. `ZkLogin`, `Login`: claims, nonce, seed, address and signature with their
   numeric edges; distinct addresses proved.
5. Lemmas on the field, polynomials, sharing and the core; with them the theorems
   about `Sharing` and what was left of `Seal`; the remaining safety and the
   action property of `KeyRetrieval`; signatures, addresses and logins of `Login`.
6. The tables of GF(256) proved against the definition of the field; `Keyring`,
   and `KeyRetrieval` shown to implement it.

7. Damages that change the variant of a ciphertext, public keys in a wrong order,
   index 0, audiences in either order, the errors of `get_nonce` and of a proof;
   the properties and theorems about them stated anew.

What would come next: an accessor-level model of `EncryptedObject` and its BCS
form, once the library decides anything on it; and the progress of a client that
asks key servers, once the repository has one.
