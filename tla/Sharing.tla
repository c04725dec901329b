------------------------------ MODULE Sharing -------------------------------
(***************************************************************************)
(* The secret sharing of seal/tss.rs at work: a dealer splits a secret,    *)
(* and the holders of shares hand them in, in any order, some perhaps      *)
(* twice, one perhaps damaged or under index 0. Real bytes, at two         *)
(* positions of the array.                                                 *)
(***************************************************************************)
EXTENDS TSS

CONSTANTS
  Secrets,        \* the secrets a dealer may share, pairs of bytes
  RandomBytes,    \* the bytes the random number generator may yield
  Parameters,     \* pairs <<threshold, number_of_shares>>
  Holders,        \* the indices of the holders that may hand in a share
  Damages,        \* pairs of bytes that a damaged share is off by
  Candidates,     \* other secrets that may be behind too few shares
  MaxHanded       \* bound: the shares handed in

(* All of these are bytes in the code: u8 and [u8; N].                     *)
ASSUME ConstantsAreBytes ==
  /\ Secrets \subseteq Byte \X Byte
  /\ RandomBytes \subseteq Byte
  /\ Parameters \subseteq Byte \X Byte
  /\ Damages \subseteq Byte \X Byte
  /\ Candidates \subseteq Byte \X Byte

VARIABLES
  dealt,    \* the dealing: its secret, threshold and result
  handed    \* the shares handed in, each with the flag whether it is damaged

vars == <<dealt, handed>>

ArrayOf(bytes) == FromBytes([p \in {<<"byte", k>> : k \in DOMAIN bytes} |-> bytes[p[2]]])

NotDealt == [threshold |-> 0, secret |-> {}, result |-> Err("not dealt")]

Init == dealt = NotDealt /\ handed = <<>>

(* split, with the coefficients that the generator yields. A call with     *)
(* wrong parameters is refused and deals nothing.                          *)
Deal(secret, parameters) ==
  /\ dealt = NotDealt
  /\ LET threshold == parameters[1]
     IN  \E draws \in [1..(IF threshold = 0 THEN 0 ELSE threshold - 1) -> RandomBytes] :
           LET drawn == [j \in DOMAIN draws |-> ArrayOf(<<draws[j], (draws[j] + j) % 256>>)]
           IN  dealt' = [threshold |-> threshold,
                         secret    |-> ArrayOf(secret),
                         result    |-> split(ArrayOf(secret), drawn, threshold, parameters[2])]
  /\ UNCHANGED handed

ShareOf(i) == dealt.result.val.shares[i]

Genuine == \A k \in DOMAIN handed : ~handed[k].damaged

HandIn(i, index, damage) ==
  /\ dealt.result.ok
  /\ Len(handed) < MaxHanded
  /\ i \in DOMAIN dealt.result.val.shares
  /\ handed' = Append(handed, [share   |-> <<index, xor(ShareOf(i), damage)>>,
                               damaged |-> damage # {} \/ index # i])
  /\ UNCHANGED dealt

HandInGenuine == \E i \in Holders : HandIn(i, i, {})

(* At most one share is damaged. *)
HandInDamaged == Genuine /\ \E i \in Holders, d \in Damages : HandIn(i, i, ArrayOf(d))

(* Or is handed in under the index that belongs to the secret. *)
HandInZero == Genuine /\ \E i \in Holders : HandIn(i, 0, {})

Next ==
  \/ \E secret \in Secrets, parameters \in Parameters : Deal(secret, parameters)
  \/ HandInGenuine
  \/ HandInDamaged
  \/ HandInZero

Spec == Init /\ [][Next]_vars

-----------------------------------------------------------------------------

Shares == [k \in DOMAIN handed |-> handed[k].share]

Distinct == AllUnique(Indices(Shares))

(* The dealing is nothing yet, or what split returns: an error, or one     *)
(* share per index; handed shares are indexed arrays.                      *)
TypeOK ==
  /\ dealt.result.ok =>
       /\ dealt.threshold \in 1..Len(dealt.result.val.shares)
       /\ dealt.result.val.indices = [k \in 1..Len(dealt.result.val.shares) |-> k]
  /\ \A k \in DOMAIN handed :
       /\ handed[k].share[1] \in Byte
       /\ \A bit \in handed[k].share[2] : bit[2] \in 0..7

(* tss.rs:38, "at least threshold shares are needed": any threshold or     *)
(* more distinct genuine shares, in whatever order, give the secret back,  *)
(* with both of the reconstructions the crate has.                         *)
Reconstructs ==
  (Genuine /\ Distinct /\ dealt.result.ok /\ Len(handed) >= dealt.threshold) =>
     combine(Shares) = Ok(dealt.secret)

(* The polynomial through enough genuine shares passes through every share *)
(* of the dealing, those not handed in as well: what                       *)
(* combine_and_check_share_consistency (core.rs) relies on.                *)
RecoversEveryShare ==
  (Genuine /\ Distinct /\ dealt.result.ok /\ Len(handed) >= dealt.threshold) =>
     LET polynomials == tss_interpolate(Shares)
     IN  /\ polynomials.ok
         /\ \A i \in Holders \cap DOMAIN dealt.result.val.shares :
              EvaluateAt(polynomials.val, i) = ShareOf(i)

(* The crate reconstructs in two ways, combine and interpolate at 0, and   *)
(* seal_decrypt takes one or the other depending on whether the caller     *)
(* passed public keys. They agree on every list of shares, also on those   *)
(* they refuse: an empty one, one with a share twice or with index 0.      *)
ReconstructionsAgree ==
  dealt.result.ok =>
    LET polynomials == tss_interpolate(Shares)
    IN  combine(Shares) =
          (IF polynomials.ok THEN Ok(EvaluateAt(polynomials.val, 0)) ELSE polynomials)

(* One damaged share among distinct ones, threshold of them or more, never *)
(* goes without consequence: what combine returns, if anything, is another *)
(* secret. (combine itself notices a damage to the index 0 only.)          *)
DamageShows ==
  (~Genuine /\ Distinct /\ Len(handed) >= dealt.threshold) =>
     combine(Shares) # Ok(dealt.secret)

(* The positions of the arrays that are shared: their two bytes, and <<>>   *)
(* for all the others, where every array is zero.                          *)
ArrayPositions == {<<>>} \cup {<<"byte", k>> : k \in 1..2}

(* The draws of degree j with which a dealer of another secret would have  *)
(* dealt the shares handed in, given that there are threshold - 1 of them: *)
(* the coefficients of the polynomials through those and the secret.       *)
CoefficientFor(candidate, j) ==
  LET points(p) == <<<<0, ByteAt(candidate, p)>>>> \o AtPosition(Shares, p)
      polynomial(p) == interpolate(points(p)).val
  IN  FromBytes([p \in ArrayPositions |->
                   IF j + 1 \in DOMAIN polynomial(p) THEN polynomial(p)[j + 1] ELSE 0])

(* tss.rs:139: fewer than threshold shares say nothing of the secret. Each *)
(* other secret is as possible: for some draws of the generator, split     *)
(* deals it in these very shares.                                          *)
HidesBelowThreshold ==
  (Genuine /\ Distinct /\ dealt.result.ok /\ Len(handed) = dealt.threshold - 1) =>
     \A candidate \in {ArrayOf(c) : c \in Candidates} :
       LET draws == [j \in 1..(dealt.threshold - 1) |-> CoefficientFor(candidate, j)]
           alternative == split(candidate, draws, dealt.threshold,
                                Len(dealt.result.val.shares))
       IN  /\ alternative.ok
           /\ \A k \in DOMAIN handed :
                alternative.val.shares[Shares[k][1]] = Shares[k][2]
=============================================================================
