---------------------------- MODULE SharingProofs ----------------------------
(***************************************************************************)
(* What module Sharing says of the secret sharing, for all secrets,        *)
(* thresholds and numbers of shares, and for any number of shares handed   *)
(* in.                                                                     *)
(***************************************************************************)
EXTENDS Sharing, TSSProofs

-----------------------------------------------------------------------------
(* The inductive invariant. *)

Places == ArrayPositions

Arrays == ArraysOver(Places)

(* What a dealing that was not refused consists of. *)
Dealing(n, shares, coefficients) ==
  /\ n \in 1..255
  /\ dealt.threshold \in 1..n
  /\ dealt.secret \in Arrays
  /\ coefficients \in [1..(dealt.threshold - 1) -> Arrays]
  /\ Deals(shares, dealt.secret, coefficients, dealt.threshold, n, Places)
  /\ dealt.result.val = [indices |-> ShareIndices(n), shares |-> shares]

DealtInv == dealt.result.ok => \E n, shares, coefficients : Dealing(n, shares, coefficients)

HandedType == handed \in Seq([share : Byte \X Arrays, damaged : BOOLEAN])

HandedIsDealt == handed # <<>> => dealt.result.ok

(* A handed share is under the index of a dealt one or, damaged, under 0.  *)
Hand(h) ==
  /\ h.share[1] \in {0} \cup DOMAIN dealt.result.val.shares
  /\ h.share[1] = 0 => h.damaged
  /\ h.share[1] # 0 => (~h.damaged <=> h.share[2] = ShareOf(h.share[1]))

HandedInv == \A k \in DOMAIN handed : Hand(handed[k])

OneDamaged == \A j, k \in DOMAIN handed : handed[j].damaged /\ handed[k].damaged => j = k

IInv == DealtInv /\ HandedType /\ HandedIsDealt /\ HandedInv /\ OneDamaged

LEMMA ArrayOfPair == \A bytes \in Byte \X Byte : ArrayOf(bytes) \in Arrays
<1> SUFFICES ASSUME NEW bytes \in Byte \X Byte PROVE ArrayOf(bytes) \in Arrays
  OBVIOUS
<1> DEFINE b == [p \in {<<"byte", k>> : k \in DOMAIN bytes} |-> bytes[p[2]]]
<1>1. DOMAIN bytes = 1..2
  OBVIOUS
<1>2. DOMAIN b \subseteq Places
  <2>1. \A k \in DOMAIN bytes : k \in 1..2
    BY <1>1
  <2> QED
    BY <2>1 DEF Places, ArrayPositions
<1> QED
  BY <1>2, FromBytesArray DEF ArrayOf, Arrays

LEMMA DealStep ==
  ASSUME IInv, NEW secret \in Secrets, NEW parameters \in Parameters, Deal(secret, parameters)
  PROVE  IInv'
<1> DEFINE threshold == parameters[1]
           n == parameters[2]
<1>1. secret \in Byte \X Byte /\ threshold \in Nat /\ n \in 0..255 /\ n \in Nat
  BY ConstantsAreBytes DEF Byte
<1>2. PICK draws \in [1..(IF threshold = 0 THEN 0 ELSE threshold - 1) -> RandomBytes] :
        dealt' = [threshold |-> threshold,
                  secret    |-> ArrayOf(secret),
                  result    |-> split(ArrayOf(secret),
                                      [j \in DOMAIN draws |-> ArrayOf(<<draws[j], (draws[j] + j) % 256>>)],
                                      threshold, n)]
  BY DEF Deal
<1> DEFINE drawn == [j \in DOMAIN draws |-> ArrayOf(<<draws[j], (draws[j] + j) % 256>>)]
<1>3. dealt = NotDealt /\ handed' = handed
  BY DEF Deal
<1>4. handed = <<>>
  BY <1>3 DEF IInv, HandedIsDealt, NotDealt, Err
<1>5. HandedType' /\ HandedIsDealt' /\ HandedInv' /\ OneDamaged'
  BY <1>3, <1>4 DEF HandedType, HandedIsDealt, HandedInv, OneDamaged
<1>6. ArrayOf(secret) \in Arrays
  BY <1>1, ArrayOfPair
<1>7. \A j \in DOMAIN draws : drawn[j] \in Arrays
  <2> SUFFICES ASSUME NEW j \in DOMAIN draws PROVE drawn[j] \in Arrays
    OBVIOUS
  <2>1. draws[j] \in Byte /\ j \in Nat
    BY <1>1, ConstantsAreBytes
  <2>2. (draws[j] + j) % 256 \in Byte
    <3>1. \A x \in 0..255, y \in Nat : (x + y) % 256 \in 0..255
      OBVIOUS
    <3> QED
      BY <2>1, <3>1 DEF Byte
  <2>3. <<draws[j], (draws[j] + j) % 256>> \in Byte \X Byte
    BY <2>1, <2>2
  <2> QED
    BY <2>3, ArrayOfPair
<1>8. /\ dealt'.threshold = threshold /\ dealt'.secret = ArrayOf(secret)
      /\ dealt'.result = split(ArrayOf(secret), drawn, threshold, n)
  BY <1>2
<1>9. DealtInv'
  <2>1. CASE threshold > n \/ threshold = 0
    <3> HIDE DEF threshold, n, drawn
    <3>1. ~dealt'.result.ok
      BY <1>1, <1>8, <2>1, SplitRefuses
    <3> QED
      BY <3>1 DEF DealtInv
  <2>2. CASE ~(threshold > n \/ threshold = 0)
    <3>1. n \in 1..255 /\ threshold \in 1..n
      <4>1. \A i \in Nat, j \in 0..255 : ~(i > j \/ i = 0) => j \in 1..255 /\ i \in 1..j
        OBVIOUS
      <4> HIDE DEF threshold, n
      <4> QED
        BY <1>1, <2>2, <4>1
    <3>2. drawn \in [1..(threshold - 1) -> Arrays]
      <4>1. DOMAIN draws = 1..(threshold - 1) /\ DOMAIN drawn = 1..(threshold - 1)
        BY <2>2
      <4>2. drawn = [j \in 1..(threshold - 1) |-> drawn[j]]
        BY <4>1
      <4> HIDE DEF drawn
      <4> QED
        BY <1>7, <4>1, <4>2
    <3>3. <<>> \in Places
      BY DEF Places, ArrayPositions
    <3> HIDE DEF drawn, threshold, n
    <3>4. PICK shares :
            /\ Deals(shares, ArrayOf(secret), drawn, threshold, n, Places)
            /\ split(ArrayOf(secret), drawn, threshold, n)
                 = Ok([indices |-> ShareIndices(n), shares |-> shares])
      BY <1>6, <3>1, <3>2, <3>3, SplitOk DEF Arrays
    <3>5. /\ dealt'.threshold = threshold /\ dealt'.secret = ArrayOf(secret)
          /\ dealt'.result.val = [indices |-> ShareIndices(n), shares |-> shares]
      BY <1>8, <3>4, OkOf
    <3>6. Dealing(n, shares, drawn)'
      BY <1>6, <3>1, <3>2, <3>4, <3>5 DEF Dealing
    <3> QED
      BY <3>6 DEF DealtInv
  <2> QED
    BY <2>1, <2>2
<1> QED
  BY <1>5, <1>9 DEF IInv

(* A damaged share differs from the dealt one. *)
LEMMA XorDiffers == \A a, b : (xor(a, b) = a <=> b = {})
  BY DEF xor, SymDiff

LEMMA HandInStep ==
  ASSUME IInv, NEW i, NEW index \in {0, i}, NEW damage \in Arrays, HandIn(i, index, damage),
         (damage = {} /\ index = i) \/ Genuine
  PROVE  IInv'
<1> DEFINE h == [share   |-> <<index, xor(ShareOf(i), damage)>>,
                 damaged |-> damage # {} \/ index # i]
           n == Len(handed)
<1>1. dealt.result.ok /\ i \in DOMAIN dealt.result.val.shares /\ dealt' = dealt
      /\ handed' = Append(handed, h)
  BY DEF HandIn
<1>2. PICK m, shares, coefficients : Dealing(m, shares, coefficients)
  BY <1>1 DEF IInv, DealtInv
<1>3. i \in Byte \ {0} /\ index \in Byte /\ ShareOf(i) \in Arrays
  <2>1. /\ m \in 1..255 /\ shares \in [1..m -> Arrays]
        /\ dealt.result.val = [indices |-> ShareIndices(m), shares |-> shares]
    BY <1>2 DEF Dealing, Deals, Arrays
  <2>2. dealt.result.val.shares = shares
    BY <2>1
  <2>3. i \in 1..m
    BY <1>1, <2>1, <2>2
  <2>4. i \in Byte \ {0} /\ 0 \in Byte
    <3>1. \A a \in 1..255 : \A b \in 1..a : b \in (0..255) \ {0}
      OBVIOUS
    <3> QED
      BY <2>1, <2>3, <3>1, SmallBytes DEF Byte
  <2> QED
    BY <2>1, <2>2, <2>3, <2>4 DEF ShareOf
<1>4. xor(ShareOf(i), damage) \in Arrays
  BY <1>3, XorArray DEF Arrays
<1>5. h \in [share : Byte \X Arrays, damaged : BOOLEAN]
  BY <1>3, <1>4
<1>6. Hand(h)
  <2>1. h.share[1] = index /\ h.share[2] = xor(ShareOf(i), damage)
        /\ (h.damaged <=> damage # {} \/ index # i)
    OBVIOUS
  <2> HIDE DEF h
  <2> QED
    BY <1>1, <1>3, <2>1, XorDiffers DEF Hand
<1>7. h.damaged <=> damage # {} \/ index # i
  OBVIOUS
<1> HIDE DEF h
<1>8. handed \in Seq([share : Byte \X Arrays, damaged : BOOLEAN])
  BY DEF IInv, HandedType
<1>9. /\ n \in Nat /\ DOMAIN handed = 1..n /\ DOMAIN handed' = 1..(n + 1)
      /\ handed'[n + 1] = h /\ \A k \in 1..n : handed'[k] = handed[k]
  BY <1>1, <1>8
<1>10. HandedType'
  BY <1>1, <1>5, <1>8 DEF HandedType
<1>11. \A k \in 1..(n + 1) : k \in 1..n \/ k = n + 1
  BY <1>9
<1> HIDE DEF n
<1>12. HandedInv'
  <2> SUFFICES ASSUME NEW k \in 1..(n + 1) PROVE Hand(handed[k])'
    BY <1>9 DEF HandedInv
  <2>1. CASE k \in 1..n
    BY <1>1, <1>9, <2>1 DEF IInv, HandedInv, Hand, ShareOf
  <2>2. CASE k = n + 1
    BY <1>1, <1>6, <1>9, <2>2 DEF Hand, ShareOf
  <2> QED
    BY <1>11, <2>1, <2>2
<1>13. OneDamaged'
  <2>1. \A j, k \in 1..n : handed[j].damaged /\ handed[k].damaged => j = k
    BY <1>9 DEF IInv, OneDamaged
  <2>2. \A k \in 1..n : handed[k].damaged => ~h.damaged
    BY <1>7, <1>9 DEF Genuine
  <2>3. \A j, k \in 1..(n + 1) : handed'[j].damaged /\ handed'[k].damaged => j = k
    BY <1>9, <1>11, <2>1, <2>2
  <2> QED
    BY <1>9, <2>3 DEF OneDamaged
<1>14. DealtInv' /\ HandedIsDealt'
  BY <1>1 DEF IInv, DealtInv, Dealing, HandedIsDealt
<1> QED
  BY <1>10, <1>12, <1>13, <1>14 DEF IInv

(* The invariant behind all of the theorems below: what was dealt are the  *)
(* values of polynomials whose constant terms are the secret, and what was *)
(* handed in are shares of that dealing, at most one of them damaged.      *)
THEOREM Invariant == Spec => []IInv
<1>1. Init => IInv
  <2> SUFFICES ASSUME Init PROVE IInv
    OBVIOUS
  <2>1. ~dealt.result.ok /\ handed = <<>>
    BY DEF Init, NotDealt, Err
  <2>2. handed \in Seq([share : Byte \X Arrays, damaged : BOOLEAN]) /\ DOMAIN handed = {}
    BY <2>1
  <2> QED
    BY <2>1, <2>2 DEF IInv, DealtInv, HandedType, HandedIsDealt, HandedInv, OneDamaged
<1>2. IInv /\ [Next]_vars => IInv'
  <2> SUFFICES ASSUME IInv, [Next]_vars PROVE IInv'
    OBVIOUS
  <2>1. ASSUME NEW secret \in Secrets, NEW parameters \in Parameters, Deal(secret, parameters)
        PROVE  IInv'
    BY <2>1, DealStep
  <2>2. CASE HandInGenuine
    <3>1. PICK i \in Holders : HandIn(i, i, {})
      BY <2>2 DEF HandInGenuine
    <3> QED
      BY <3>1, EmptyArray, HandInStep DEF Arrays
  <2>3. CASE HandInDamaged
    <3>1. PICK i \in Holders, d \in Damages : HandIn(i, i, ArrayOf(d))
      BY <2>3 DEF HandInDamaged
    <3>2. Genuine
      BY <2>3 DEF HandInDamaged
    <3>3. ArrayOf(d) \in Arrays
      BY ConstantsAreBytes, ArrayOfPair
    <3> QED
      BY <3>1, <3>2, <3>3, HandInStep
  <2>5. CASE HandInZero
    <3>1. Genuine /\ \E i \in Holders : HandIn(i, 0, {})
      BY <2>5 DEF HandInZero
    <3> QED
      BY <3>1, EmptyArray, HandInStep DEF Arrays
  <2>4. CASE UNCHANGED vars
    BY <2>4 DEF vars, IInv, DealtInv, Dealing, HandedType, HandedIsDealt, HandedInv, Hand,
                OneDamaged, ShareOf
  <2> QED
    BY <2>1, <2>2, <2>3, <2>4, <2>5 DEF Next
<1> QED
  BY <1>1, <1>2, PTL DEF Spec

-----------------------------------------------------------------------------
(* The shares handed in, as the lists of their indices and of their arrays. *)

Count == Len(handed)

Xs == [k \in 1..Count |-> handed[k].share[1]]

Ys == [k \in 1..Count |-> handed[k].share[2]]

LEMMA HandedShares ==
  ASSUME IInv
  PROVE  /\ Count \in Nat /\ DOMAIN handed = 1..Count
         /\ Xs \in [1..Count -> Byte] /\ Ys \in [1..Count -> Arrays]
         /\ Shares = Indexed(Xs, Ys, Count)
         /\ Indices(Shares) = Xs
<1>1. handed \in Seq([share : Byte \X Arrays, damaged : BOOLEAN])
  BY DEF IInv, HandedType
<1>2. Count \in Nat /\ DOMAIN handed = 1..Count
  BY <1>1 DEF Count
<1>3. ASSUME NEW k \in 1..Count PROVE handed[k].share \in Byte \X Arrays
  <2> DEFINE Hands == [share : Byte \X Arrays, damaged : BOOLEAN]
  <2>1. \A h \in Hands : h.share \in Byte \X Arrays
    OBVIOUS
  <2>2. handed \in Seq(Hands)
    BY <1>1
  <2> HIDE DEF Hands
  <2>3. handed[k] \in Hands
    BY <1>2, <2>2 DEF Count
  <2> QED
    BY <2>1, <2>3
<1>4. \A k \in 1..Count : /\ handed[k].share = <<handed[k].share[1], handed[k].share[2]>>
                          /\ handed[k].share[1] \in Byte /\ handed[k].share[2] \in Arrays
  BY <1>3
<1>5. /\ Xs \in [1..Count -> Byte] /\ \A k \in 1..Count : Xs[k] = handed[k].share[1]
      /\ Ys \in [1..Count -> Arrays] /\ \A k \in 1..Count : Ys[k] = handed[k].share[2]
  BY <1>4 DEF Xs, Ys
<1>6. Shares = Indexed(Xs, Ys, Count)
  BY <1>2, <1>4, <1>5 DEF Shares, Indexed
<1>7. Indices(Shares) = Xs
  <2>1. DOMAIN Shares = 1..Count /\ \A k \in 1..Count : Shares[k][1] = Xs[k]
    BY <1>2, <1>5 DEF Shares
  <2> QED
    BY <1>5, <2>1 DEF Indices
<1> QED
  BY <1>2, <1>5, <1>6, <1>7

LEMMA HandedFromDealing ==
  ASSUME IInv, NEW m, NEW shares, NEW coefficients, Dealing(m, shares, coefficients)
  PROVE  /\ dealt.result.val.shares = shares
         /\ dealt.result.val.indices = ShareIndices(m)
         /\ m \in 1..255 /\ DOMAIN shares = 1..m /\ shares \in [1..m -> Arrays]
         /\ \A k \in 1..Count :
              /\ Xs[k] = 0 => handed[k].damaged
              /\ Xs[k] # 0 => /\ Xs[k] \in 1..m
                              /\ ~handed[k].damaged <=> Ys[k] = shares[Xs[k]]
<1>1. /\ dealt.result.val = [indices |-> ShareIndices(m), shares |-> shares]
      /\ m \in 1..255 /\ shares \in [1..m -> Arrays]
  BY DEF Dealing, Deals, Arrays
<1>2. dealt.result.val.shares = shares /\ dealt.result.val.indices = ShareIndices(m)
      /\ DOMAIN shares = 1..m
  BY <1>1
<1>3. DOMAIN handed = 1..Count
  BY HandedShares
<1>4. \A k \in 1..Count : Xs[k] = handed[k].share[1] /\ Ys[k] = handed[k].share[2]
  BY DEF Xs, Ys
<1>5. \A k \in 1..Count : Hand(handed[k])
  BY <1>3 DEF IInv, HandedInv
<1> QED
  BY <1>1, <1>2, <1>4, <1>5 DEF Hand, ShareOf

LEMMA GenuineFromDealing ==
  ASSUME IInv, Genuine, NEW m, NEW shares, NEW coefficients, Dealing(m, shares, coefficients)
  PROVE  \A k \in 1..Count : /\ Xs[k] \in 1..m /\ Xs[k] # 0
                             /\ Ys[k] = shares[Xs[k]]
<1>1. DOMAIN handed = 1..Count
  BY HandedShares
<1>2. \A k \in 1..Count : ~handed[k].damaged
  BY <1>1 DEF Genuine
<1> QED
  BY <1>2, HandedFromDealing

LEMMA ZeroIndex ==
  ASSUME IInv, NEW k \in 1..Count, Xs[k] = 0
  PROVE  Contains(Indices(Shares), 0)
<1>1. Indices(Shares) = Xs /\ Count \in Nat /\ Xs \in [1..Count -> Byte]
  BY HandedShares
<1>2. Len(Xs) = Count
  BY <1>1
<1> QED
  BY <1>1, <1>2 DEF Contains

LEMMA DistinctShares ==
  ASSUME IInv, Distinct
  PROVE  Apart(Xs, Count)
<1>1. AllUnique(Xs) /\ DOMAIN Xs = 1..Count
  BY HandedShares DEF Distinct
<1> QED
  BY <1>1 DEF AllUnique, Apart

LEMMA AcceptedShares ==
  ASSUME IInv, Distinct, Count > 0, \A k \in 1..Count : Xs[k] # 0
  PROVE  Accepted(Xs, Count)
BY DistinctShares DEF Accepted

LEMMA AcceptedGenuine ==
  ASSUME IInv, Genuine, Distinct, dealt.result.ok, Count > 0
  PROVE  Accepted(Xs, Count)
<1>1. PICK m, shares, coefficients : Dealing(m, shares, coefficients)
  BY DEF IInv, DealtInv
<1> QED
  BY <1>1, GenuineFromDealing, AcceptedShares

(* Threshold genuine shares or more give the polynomial of each position.  *)
LEMMA GenuineValues ==
  ASSUME IInv, Genuine, Distinct, NEW m, NEW shares, NEW coefficients,
         Dealing(m, shares, coefficients), Count >= dealt.threshold,
         NEW x \in Byte, NEW p \in Places
  PROVE  LagrangeValue(Xs, BytesAt(Ys, Count, p), Count, x)
           = evaluate(PolynomialAt(dealt.secret, coefficients, dealt.threshold, p), x)
<1> DEFINE poly == PolynomialAt(dealt.secret, coefficients, dealt.threshold, p)
           ys == BytesAt(Ys, Count, p)
<1>1. /\ m \in 1..255 /\ dealt.threshold \in 1..m
      /\ \A i \in 1..m : ByteAt(shares[i], p) = evaluate(poly, i)
  BY DEF Dealing, Deals
<1>2. dealt.threshold \in Nat /\ dealt.threshold > 0
  BY <1>1
<1>3. poly \in Seq(Byte) /\ Len(poly) = dealt.threshold
  BY <1>2, PolynomialAtBytes
<1>4. Count \in Nat /\ Xs \in [1..Count -> Byte] /\ Apart(Xs, Count) /\ DOMAIN handed = 1..Count
  BY HandedShares, DistinctShares
<1>5. ys \in [1..Count -> Byte]
  BY <1>4, BytesAtBytes
<1>6. ASSUME NEW k \in 1..Count PROVE ys[k] = evaluate(poly, Xs[k])
  <2>1. Xs[k] \in 1..m
    BY GenuineFromDealing
  <2>2. Ys[k] = shares[Xs[k]]
    BY GenuineFromDealing
  <2>3. ys[k] = ByteAt(Ys[k], p)
    BY DEF BytesAt
  <2> QED
    BY <1>1, <2>1, <2>2, <2>3
<1> HIDE DEF poly, ys
<1>7. Len(poly) <= Count
  BY <1>2, <1>3, <1>4
<1>8. LagrangeValue(Xs, ys, Count, x) = evaluate(poly, x)
  BY <1>3, <1>4, <1>5, <1>6, <1>7, LagrangeOfPolynomial
<1> QED
  BY <1>8 DEF poly, ys

LEMMA EmptyPlace == <<>> \in Places
  BY DEF Places, ArrayPositions

(* The secret is what the polynomials give at 0. *)
LEMMA SecretValue ==
  ASSUME NEW m, NEW shares, NEW coefficients, Dealing(m, shares, coefficients), NEW p
  PROVE  evaluate(PolynomialAt(dealt.secret, coefficients, dealt.threshold, p), 0)
           = ByteAt(dealt.secret, p)
<1>1. dealt.threshold \in Nat /\ dealt.threshold > 0
  BY DEF Dealing
<1> QED
  BY <1>1, PolynomialAtBytes, EvaluateAtZero

-----------------------------------------------------------------------------
(* tss.rs:38, "at least threshold shares are needed": any threshold or     *)
(* more distinct genuine shares, in whatever order, give the secret back.  *)
LEMMA ReconstructsInv == IInv => Reconstructs
<1> SUFFICES ASSUME IInv, Genuine, Distinct, dealt.result.ok, Len(handed) >= dealt.threshold
             PROVE  combine(Shares) = Ok(dealt.secret)
  BY DEF Reconstructs
<1>1. PICK m, shares, coefficients : Dealing(m, shares, coefficients)
  BY DEF IInv, DealtInv
<1>2. Count >= dealt.threshold /\ dealt.threshold \in 1..m /\ m \in 1..255 /\ dealt.secret \in Arrays
  BY <1>1 DEF Count, Dealing
<1>3. /\ Count \in Nat /\ Xs \in [1..Count -> Byte] /\ Ys \in [1..Count -> Arrays]
      /\ Shares = Indexed(Xs, Ys, Count)
  BY HandedShares
<1>4. Count > 0
  BY <1>2, <1>3
<1>5. Accepted(Xs, Count)
  BY <1>4, AcceptedGenuine
<1>6. PICK a \in Arrays :
        /\ combine(Shares) = Ok(a)
        /\ \A p \in Places : ByteAt(a, p) = LagrangeValue(Xs, BytesAt(Ys, Count, p), Count, 0)
  BY <1>3, <1>5, EmptyPlace, CombineArrays DEF Arrays
<1>7. \A p \in Places : ByteAt(a, p) = ByteAt(dealt.secret, p)
  BY <1>1, <1>2, <1>6, GenuineValues, SecretValue, SmallBytes
<1>8. a = dealt.secret
  BY <1>2, <1>7, SameBytes DEF Arrays
<1> QED
  BY <1>6, <1>8

LEMMA RecoversEveryShareInv == IInv => RecoversEveryShare
<1> SUFFICES ASSUME IInv, Genuine, Distinct, dealt.result.ok, Len(handed) >= dealt.threshold
             PROVE  /\ tss_interpolate(Shares).ok
                    /\ \A i \in Holders \cap DOMAIN dealt.result.val.shares :
                         EvaluateAt(tss_interpolate(Shares).val, i) = ShareOf(i)
  BY DEF RecoversEveryShare
<1>1. PICK m, shares, coefficients : Dealing(m, shares, coefficients)
  BY DEF IInv, DealtInv
<1>2. Count >= dealt.threshold /\ dealt.threshold \in 1..m /\ m \in 1..255
  BY <1>1 DEF Count, Dealing
<1>3. /\ Count \in Nat /\ Xs \in [1..Count -> Byte] /\ Ys \in [1..Count -> Arrays]
      /\ Shares = Indexed(Xs, Ys, Count)
  BY HandedShares
<1>4. Count > 0
  BY <1>2, <1>3
<1>5. Accepted(Xs, Count)
  BY <1>4, AcceptedGenuine
<1> DEFINE polynomials == tss_interpolate(Shares).val
<1>6. /\ tss_interpolate(Shares).ok
      /\ \A x \in Byte :
           /\ EvaluateAt(polynomials, x) \in Arrays
           /\ \A p \in Places : ByteAt(EvaluateAt(polynomials, x), p)
                                  = LagrangeValue(Xs, BytesAt(Ys, Count, p), Count, x)
  BY <1>3, <1>5, EmptyPlace, InterpolateArrays DEF Arrays
<1> HIDE DEF polynomials
<1>7. ASSUME NEW i \in DOMAIN dealt.result.val.shares
      PROVE  EvaluateAt(polynomials, i) = ShareOf(i)
  <2>1. /\ dealt.result.val.shares = shares /\ DOMAIN shares = 1..m
        /\ shares \in [1..m -> Arrays]
    BY <1>1, HandedFromDealing
  <2>2. i \in 1..m /\ i \in Byte /\ ShareOf(i) = shares[i] /\ shares[i] \in Arrays
    <3>1. i \in 1..m
      BY <2>1
    <3>2. \A a \in 1..255 : \A b \in 1..a : b \in 0..255
      OBVIOUS
    <3>3. i \in Byte
      BY <1>2, <3>1, <3>2 DEF Byte
    <3>4. ShareOf(i) = shares[i]
      BY <2>1 DEF ShareOf
    <3>5. shares[i] \in Arrays
      BY <2>1, <3>1
    <3> QED
      BY <3>1, <3>3, <3>4, <3>5
  <2>3. ASSUME NEW p \in Places
        PROVE  ByteAt(EvaluateAt(polynomials, i), p) = ByteAt(shares[i], p)
    <3>1. ByteAt(shares[i], p)
            = evaluate(PolynomialAt(dealt.secret, coefficients, dealt.threshold, p), i)
      BY <1>1, <2>2 DEF Dealing, Deals
    <3>2. LagrangeValue(Xs, BytesAt(Ys, Count, p), Count, i)
            = evaluate(PolynomialAt(dealt.secret, coefficients, dealt.threshold, p), i)
      BY <1>1, <1>2, <2>2, GenuineValues
    <3> QED
      BY <1>6, <2>2, <3>1, <3>2
  <2>4. EvaluateAt(polynomials, i) \in Arrays
    BY <1>6, <2>2
  <2>5. EvaluateAt(polynomials, i) = shares[i]
    BY <2>2, <2>3, <2>4, SameBytes DEF Arrays
  <2> QED
    BY <2>2, <2>5
<1> QED
  BY <1>6, <1>7 DEF polynomials

LEMMA ReconstructionsAgreeInv == IInv => ReconstructionsAgree
<1> SUFFICES ASSUME IInv, dealt.result.ok
             PROVE  combine(Shares) =
                      (IF tss_interpolate(Shares).ok
                       THEN Ok(EvaluateAt(tss_interpolate(Shares).val, 0))
                       ELSE tss_interpolate(Shares))
  BY DEF ReconstructionsAgree
<1>1. /\ Count \in Nat /\ Xs \in [1..Count -> Byte] /\ Ys \in [1..Count -> Arrays]
      /\ Shares = Indexed(Xs, Ys, Count)
  BY HandedShares
<1>2. CASE Distinct /\ Count > 0 /\ \A k \in 1..Count : Xs[k] # 0
  <2>1. Accepted(Xs, Count)
    BY <1>2, AcceptedShares
  <2> DEFINE result == tss_interpolate(Shares)
  <2>2. PICK a \in Arrays :
          /\ combine(Shares) = Ok(a)
          /\ \A p \in Places : ByteAt(a, p) = LagrangeValue(Xs, BytesAt(Ys, Count, p), Count, 0)
    BY <1>1, <2>1, EmptyPlace, CombineArrays DEF Arrays
  <2>3. /\ result.ok
        /\ EvaluateAt(result.val, 0) \in Arrays
        /\ \A p \in Places : ByteAt(EvaluateAt(result.val, 0), p)
                               = LagrangeValue(Xs, BytesAt(Ys, Count, p), Count, 0)
    <3>1. /\ result.ok
          /\ \A x \in Byte :
               /\ EvaluateAt(result.val, x) \in Arrays
               /\ \A p \in Places : ByteAt(EvaluateAt(result.val, x), p)
                                      = LagrangeValue(Xs, BytesAt(Ys, Count, p), Count, x)
      BY <1>1, <2>1, EmptyPlace, InterpolateArrays DEF Arrays
    <3> HIDE DEF result
    <3> QED
      BY <3>1, SmallBytes
  <2> HIDE DEF result
  <2>4. a = EvaluateAt(result.val, 0)
    BY <2>2, <2>3, SameBytes DEF Arrays
  <2> QED
    BY <2>2, <2>3, <2>4 DEF result
<1>3. CASE ~Distinct \/ ~(Count > 0) \/ \E k \in 1..Count : Xs[k] = 0
  <2>1. Shares = <<>> \/ ~AllUnique(Indices(Shares)) \/ Contains(Indices(Shares), 0)
    <3>3. CASE \E k \in 1..Count : Xs[k] = 0
      BY <3>3, ZeroIndex
    <3>1. CASE ~Distinct
      BY <3>1 DEF Distinct
    <3>2. CASE ~(Count > 0)
      <4>1. Count = 0
        BY <1>1, <3>2
      <4>2. Shares = [k \in 1..0 |-> <<Xs[k], Ys[k]>>]
        BY <1>1, <4>1 DEF Indexed
      <4> QED
        BY <4>2
    <3> QED
      BY <1>3, <3>1, <3>2, <3>3
  <2>2. combine(Shares) = Err("InvalidInput") /\ tss_interpolate(Shares) = Err("InvalidInput")
    BY <2>1, BothRefuse
  <2>3. ~tss_interpolate(Shares).ok
    BY <2>2 DEF Err
  <2> QED
    BY <2>2, <2>3
<1> QED
  BY <1>2, <1>3

LEMMA DamageShowsInv == IInv => DamageShows
<1> SUFFICES ASSUME IInv, ~Genuine, Distinct, Len(handed) >= dealt.threshold
             PROVE  combine(Shares) # Ok(dealt.secret)
  BY DEF DamageShows
<1> SUFFICES ASSUME \A i \in 1..Count : Xs[i] # 0 PROVE combine(Shares) # Ok(dealt.secret)
  <2>1. CASE \E i \in 1..Count : Xs[i] = 0
    <3>1. combine(Shares) = Err("InvalidInput")
      BY <2>1, ZeroIndex, BothRefuse
    <3> QED
      BY <3>1 DEF Err, Ok
  <2> QED
    BY <2>1
<1>1. PICK k \in DOMAIN handed : handed[k].damaged
  BY DEF Genuine
<1>2. dealt.result.ok
  BY <1>1 DEF IInv, HandedIsDealt
<1>3. PICK m, shares, coefficients : Dealing(m, shares, coefficients)
  BY <1>2 DEF IInv, DealtInv
<1>4. Count >= dealt.threshold /\ dealt.threshold \in 1..m /\ m \in 1..255 /\ dealt.secret \in Arrays
  BY <1>3 DEF Count, Dealing
<1>5. /\ Count \in Nat /\ DOMAIN handed = 1..Count
      /\ Xs \in [1..Count -> Byte] /\ Ys \in [1..Count -> Arrays]
      /\ Shares = Indexed(Xs, Ys, Count)
  BY HandedShares
<1>6. Count > 0
  BY <1>4, <1>5
<1>7. Accepted(Xs, Count)
  BY <1>6, AcceptedShares
<1>8. Apart(Xs, Count) /\ \A i \in 1..Count : Xs[i] # 0
  BY <1>7 DEF Accepted
<1>9. /\ DOMAIN shares = 1..m /\ shares \in [1..m -> Arrays]
      /\ \A i \in 1..Count : Xs[i] \in 1..m /\ (~handed[i].damaged <=> Ys[i] = shares[Xs[i]])
  BY <1>3, HandedFromDealing
<1>10. k \in 1..Count /\ \A i \in 1..Count : handed[i].damaged => i = k
  BY <1>1, <1>5 DEF IInv, OneDamaged
<1>11. Ys[k] # shares[Xs[k]] /\ Ys[k] \in Arrays /\ shares[Xs[k]] \in Arrays
  BY <1>1, <1>5, <1>9, <1>10
<1>12. PICK p \in Places : ByteAt(Ys[k], p) # ByteAt(shares[Xs[k]], p)
  BY <1>11, SameBytes DEF Arrays
<1> DEFINE ys == BytesAt(Ys, Count, p)
           genuine == [i \in 1..Count |-> shares[Xs[i]]]
           zs == BytesAt(genuine, Count, p)
           poly == PolynomialAt(dealt.secret, coefficients, dealt.threshold, p)
<1>13. ys \in [1..Count -> Byte] /\ zs \in [1..Count -> Byte]
  BY <1>5, BytesAtBytes
<1>14. \A i \in 1..Count : ys[i] = ByteAt(Ys[i], p) /\ zs[i] = ByteAt(shares[Xs[i]], p)
  BY DEF BytesAt
<1>15. ys[k] # zs[k] /\ \A i \in (1..Count) \ {k} : ys[i] = zs[i]
  BY <1>9, <1>10, <1>12, <1>14
<1>16. \A i \in 1..Count : zs[i] = evaluate(poly, Xs[i])
  BY <1>3, <1>9, <1>14 DEF Dealing, Deals
<1>17. poly \in Seq(Byte) /\ Len(poly) <= Count
  <2>1. dealt.threshold \in Nat /\ dealt.threshold > 0 /\ dealt.threshold <= Count
    BY <1>4, <1>5
  <2>2. poly \in Seq(Byte) /\ Len(poly) = dealt.threshold
    BY <2>1, PolynomialAtBytes
  <2> QED
    BY <2>1, <2>2
<1> HIDE DEF ys, zs, poly, genuine
<1>18. LagrangeValue(Xs, zs, Count, 0) = evaluate(poly, 0)
  BY <1>5, <1>8, <1>13, <1>16, <1>17, SmallBytes, LagrangeOfPolynomial
<1>19. evaluate(poly, 0) = ByteAt(dealt.secret, p)
  BY <1>3, SecretValue DEF poly
<1>20. LagrangeValue(Xs, ys, Count, 0) # LagrangeValue(Xs, zs, Count, 0)
  BY <1>5, <1>8, <1>10, <1>13, <1>15, LagrangeDamaged
<1>21. PICK a \in Arrays :
         /\ combine(Shares) = Ok(a)
         /\ \A q \in Places : ByteAt(a, q) = LagrangeValue(Xs, BytesAt(Ys, Count, q), Count, 0)
  BY <1>5, <1>7, EmptyPlace, CombineArrays DEF Arrays
<1>22. ByteAt(a, p) # ByteAt(dealt.secret, p)
  BY <1>12, <1>18, <1>19, <1>20, <1>21 DEF ys
<1>23. a # dealt.secret
  BY <1>22
<1> QED
  BY <1>21, <1>23, OkOf

LEMMA Prepended ==
  ASSUME NEW V, NEW v \in V, NEW n \in Nat, NEW s \in Seq(V), Len(s) = n
  PROVE  /\ <<v>> \o s \in Seq(V) /\ Len(<<v>> \o s) = n + 1
         /\ <<v>> \o s = [i \in 1..(n + 1) |-> IF i = 1 THEN v ELSE s[i - 1]]
<1> DEFINE first == <<v>>
           t == first \o s
<1>1. first \in Seq(V) /\ Len(first) = 1 /\ first[1] = v
  OBVIOUS
<1>2. t \in Seq(V) /\ Len(t) = n + 1
  BY <1>1
<1>3. \A i \in 1..(n + 1) : t[i] = IF i = 1 THEN v ELSE s[i - 1]
  BY <1>1
<1> HIDE DEF first
<1> HIDE DEF t
<1>4. t = [i \in 1..(n + 1) |-> t[i]]
  BY <1>2
<1>5. t = [i \in 1..(n + 1) |-> IF i = 1 THEN v ELSE s[i - 1]]
  BY <1>3, <1>4
<1> QED
  BY <1>2, <1>5 DEF t, first

(* Any byte at all continues fewer than threshold shares at a position.    *)
LEMMA AnyByteFits ==
  ASSUME IInv, Genuine, Distinct, dealt.result.ok, Count = dealt.threshold - 1,
         NEW p, NEW candidate \in Byte
  PROVE  LET points == <<<<0, candidate>>>> \o AtPosition(Shares, p)
             polynomial == interpolate(points).val
             coefficient(j) == IF j + 1 \in DOMAIN polynomial THEN polynomial[j + 1] ELSE 0
             cs == [j \in 1..(dealt.threshold - 1) |-> coefficient(j)]
         IN  /\ \A j : coefficient(j) \in Byte
             /\ \A k \in 1..Count : evaluate(<<candidate>> \o cs, Xs[k]) = ByteAt(Ys[k], p)
<1> DEFINE T == dealt.threshold
           points == <<<<0, candidate>>>> \o AtPosition(Shares, p)
           polynomial == interpolate(points).val
           coefficient(j) == IF j + 1 \in DOMAIN polynomial THEN polynomial[j + 1] ELSE 0
           cs == [j \in 1..(T - 1) |-> coefficient(j)]
           bs == BytesAt(Ys, Count, p)
           xs == [i \in 1..T |-> IF i = 1 THEN 0 ELSE Xs[i - 1]]
           ys == [i \in 1..T |-> IF i = 1 THEN candidate ELSE bs[i - 1]]
<1>1. PICK m, shares, coefficients : Dealing(m, shares, coefficients)
  BY DEF IInv, DealtInv
<1>2. m \in 1..255 /\ T \in 1..m /\ dealt.result.val.indices = ShareIndices(m)
  BY <1>1, HandedFromDealing DEF Dealing
<1>3. T \in Nat /\ T - 1 \in Nat /\ T > 0 /\ m \in Nat /\ Count = T - 1
  BY <1>2
<1>4. /\ DOMAIN handed = 1..Count /\ Xs \in [1..Count -> Byte] /\ Ys \in [1..Count -> Arrays]
      /\ Shares = Indexed(Xs, Ys, Count)
  BY HandedShares
<1>5. bs \in [1..Count -> Byte]
  BY <1>3, BytesAtBytes
<1>6. \A k \in 1..Count : /\ Xs[k] \in 1..m /\ Xs[k] \in Byte /\ Xs[k] # 0
                          /\ bs[k] = ByteAt(Ys[k], p) /\ bs[k] \in Byte
                          /\ Shares[k][1] = Xs[k] /\ Shares[k][2] = Ys[k]
  <2>1. \A k \in 1..Count : Xs[k] \in 1..m
    BY <1>1, GenuineFromDealing
  <2>2. \A k \in 1..Count : Xs[k] # 0
    BY <1>1, GenuineFromDealing
  <2>3. \A k \in 1..Count : bs[k] = ByteAt(Ys[k], p)
    BY DEF BytesAt
  <2>4. \A k \in 1..Count : Shares[k][1] = Xs[k] /\ Shares[k][2] = Ys[k]
    BY <1>4 DEF Indexed
  <2> HIDE DEF bs
  <2> QED
    BY <1>4, <1>5, <2>1, <2>2, <2>3, <2>4
<1>7. \A i \in 1..T : i = 1 \/ (i # 1 /\ i - 1 \in 1..Count)
  BY <1>3
<1>8. points = PointsOf(xs, ys, T)
  <2>1. AtPosition(Shares, p) = PointsOf(Xs, bs, Count)
    BY <1>3, <1>4, AtPositionOf
  <2> DEFINE rest == PointsOf(Xs, bs, Count)
             first == <<0, candidate>>
             V == Byte \X Byte
  <2>2. first \in V
    BY SmallBytes
  <2>3. /\ rest \in Seq(V) /\ Len(rest) = T - 1
        /\ \A k \in 1..Count : rest[k] = <<Xs[k], bs[k]>>
    <3> HIDE DEF bs
    <3> QED
      BY <1>3, <1>6 DEF PointsOf
  <2> HIDE DEF rest, first, V
  <2>4. <<first>> \o rest = [i \in 1..T |-> IF i = 1 THEN first ELSE rest[i - 1]]
    <3>1. <<first>> \o rest = [i \in 1..((T - 1) + 1) |-> IF i = 1 THEN first ELSE rest[i - 1]]
      BY <1>3, <2>2, <2>3, Prepended
    <3>2. (T - 1) + 1 = T
      BY <1>3
    <3> QED
      BY <3>1, <3>2
  <2>5. \A i \in 1..T : (IF i = 1 THEN first ELSE rest[i - 1]) = <<xs[i], ys[i]>>
    BY <1>7, <2>3 DEF first
  <2>6. <<first>> \o rest = [i \in 1..T |-> <<xs[i], ys[i]>>]
    BY <2>4, <2>5
  <2> QED
    BY <2>1, <2>6 DEF PointsOf, first, rest
<1>9. xs \in [1..T -> Byte] /\ ys \in [1..T -> Byte]
  BY <1>6, <1>7, SmallBytes
<1>10. Apart(xs, T)
  <2>1. Apart(Xs, Count)
    BY DistinctShares
  <2>2. \A i, j \in Nat : i - 1 = j - 1 => i = j
    OBVIOUS
  <2> SUFFICES ASSUME NEW i \in 1..T, NEW j \in 1..T, xs[i] = xs[j] PROVE i = j
    BY DEF Apart
  <2>3. CASE i = 1 /\ j = 1
    BY <2>3
  <2>4. CASE i = 1 /\ j # 1
    BY <1>6, <1>7, <2>4
  <2>5. CASE i # 1 /\ j = 1
    BY <1>6, <1>7, <2>5
  <2>6. CASE i # 1 /\ j # 1
    <3>1. i - 1 \in 1..Count /\ j - 1 \in 1..Count /\ Xs[i - 1] = Xs[j - 1]
      BY <1>7, <2>6
    <3>2. i - 1 = j - 1
      BY <2>1, <3>1 DEF Apart
    <3> QED
      BY <1>2, <3>2
  <2> QED
    BY <2>3, <2>4, <2>5, <2>6
<1>11. xs[1] = 0 /\ ys[1] = candidate /\ 1 \in 1..T
  BY <1>3
<1>12. \A k \in 1..Count : k + 1 \in 1..T /\ xs[k + 1] = Xs[k] /\ ys[k + 1] = bs[k]
  BY <1>3
<1> HIDE DEF xs, ys, bs, points
<1>13. /\ polynomial \in Seq(Byte) /\ Len(polynomial) <= T
       /\ \A x \in Byte : evaluate(polynomial, x) = LagrangeValue(xs, ys, T, x)
  BY <1>3, <1>8, <1>9, <1>10, InterpolateOk
<1> HIDE DEF polynomial
<1>14. \A i \in 1..T : evaluate(polynomial, xs[i]) = ys[i]
  <2> SUFFICES ASSUME NEW i \in 1..T PROVE evaluate(polynomial, xs[i]) = ys[i]
    OBVIOUS
  <2>1. LagrangeValue(xs, ys, T, xs[i]) = ys[i]
    BY <1>3, <1>9, <1>10, InterpolateExact
  <2>2. xs[i] \in Byte
    BY <1>9
  <2> QED
    BY <1>13, <2>1, <2>2
<1>15. at(polynomial, 1) = candidate
  BY <1>11, <1>13, <1>14, EvaluateAtZero
<1>16. /\ cs \in Seq(Byte) /\ Len(cs) = T - 1
       /\ \A j \in 1..(T - 1) : cs[j] = at(polynomial, j + 1)
  <2>1. \A j : coefficient(j) = at(polynomial, j + 1)
    BY DEF at
  <2>2. \A j : at(polynomial, j) \in Byte
    BY <1>13, AtByte
  <2> HIDE DEF coefficient
  <2> QED
    BY <1>3, <2>1, <2>2
<1> HIDE DEF cs
<1> DEFINE q == <<candidate>> \o cs
<1>17. /\ q \in Seq(Byte) /\ Len(q) = T
       /\ \A k \in 1..T : q[k] = at(polynomial, k)
  <2>1. <<candidate>> \in Seq(Byte) /\ Len(<<candidate>>) = 1 /\ <<candidate>>[1] = candidate
    OBVIOUS
  <2>2. q \in Seq(Byte) /\ Len(q) = T
    BY <1>3, <1>16, <2>1
  <2>3. \A k \in 1..T : q[k] = IF k = 1 THEN candidate ELSE cs[k - 1]
    BY <1>3, <1>16, <2>1
  <2>4. \A k \in 1..T : k = 1 \/ (k - 1 \in 1..(T - 1) /\ (k - 1) + 1 = k)
    BY <1>3
  <2> HIDE DEF q
  <2> QED
    BY <1>15, <1>16, <2>2, <2>3, <2>4
<1> HIDE DEF q
<1>18. ASSUME NEW x \in Byte PROVE evaluate(q, x) = evaluate(polynomial, x)
  <2>1. \A k \in 1..T : at(q, k) = at(polynomial, k)
    BY <1>17 DEF at
  <2>2. T >= Len(q) /\ T >= Len(polynomial)
    BY <1>3, <1>13, <1>17
  <2> QED
    BY <1>3, <1>13, <1>17, <2>1, <2>2, EvaluateSame
<1>19. ASSUME NEW k \in 1..Count PROVE evaluate(q, Xs[k]) = ByteAt(Ys[k], p)
  BY <1>6, <1>12, <1>14, <1>18
<1>20. ASSUME NEW j PROVE coefficient(j) \in Byte
  <2>1. coefficient(j) = at(polynomial, j + 1)
    BY DEF at
  <2> QED
    BY <1>13, <2>1, AtByte
<1> QED
  BY <1>19, <1>20 DEF q, cs, polynomial, points

LEMMA SplitArrays ==
  ASSUME NEW n \in 1..255, NEW threshold \in 1..n, NEW secret \in Arrays,
         NEW draws \in [1..(threshold - 1) -> Arrays]
  PROVE  \E others :
           /\ Deals(others, secret, draws, threshold, n, Places)
           /\ split(secret, draws, threshold, n)
                = Ok([indices |-> ShareIndices(n), shares |-> others])
BY EmptyPlace, SplitOk DEF Arrays

(* Another secret, dealt with the coefficients through too few shares and  *)
(* that secret, gives those shares.                                        *)
LEMMA AnySecretFits ==
  ASSUME IInv, Genuine, Distinct, dealt.result.ok, Count = dealt.threshold - 1,
         NEW candidate \in Arrays
  PROVE  LET draws == [j \in 1..(dealt.threshold - 1) |-> CoefficientFor(candidate, j)]
             alternative == split(candidate, draws, dealt.threshold,
                                  Len(dealt.result.val.shares))
         IN  /\ alternative.ok
             /\ \A k \in 1..Count : alternative.val.shares[Xs[k]] = Ys[k]
<1> DEFINE T == dealt.threshold
           draws == [j \in 1..(T - 1) |-> CoefficientFor(candidate, j)]
           points(p) == <<<<0, ByteAt(candidate, p)>>>> \o AtPosition(Shares, p)
           polynomial(p) == interpolate(points(p)).val
           coefficient(p, j) == IF j + 1 \in DOMAIN polynomial(p) THEN polynomial(p)[j + 1] ELSE 0
           cs(p) == [j \in 1..(T - 1) |-> coefficient(p, j)]
<1>1. PICK m, shares, coefficients : Dealing(m, shares, coefficients)
  BY DEF IInv, DealtInv
<1>2. /\ m \in 1..255 /\ T \in 1..m /\ Len(dealt.result.val.shares) = m
      /\ shares \in [1..m -> Arrays]
  <2>1. /\ m \in 1..255 /\ T \in 1..m /\ shares \in [1..m -> Arrays]
        /\ dealt.result.val.shares = shares
    BY <1>1, HandedFromDealing DEF Dealing
  <2>2. Len(shares) = m
    BY <2>1
  <2> QED
    BY <2>1, <2>2
<1>3. ASSUME NEW p
      PROVE  /\ \A j : coefficient(p, j) \in Byte
             /\ \A k \in 1..Count :
                  evaluate(<<ByteAt(candidate, p)>> \o cs(p), Xs[k]) = ByteAt(Ys[k], p)
  BY AnyByteFits, ByteAtByte
<1>4. ASSUME NEW j
      PROVE  /\ CoefficientFor(candidate, j) \in Arrays
             /\ \A p \in Places : ByteAt(CoefficientFor(candidate, j), p) = coefficient(p, j)
  <2> DEFINE bytes == [p \in Places |-> coefficient(p, j)]
  <2>1. CoefficientFor(candidate, j) = FromBytes(bytes)
    BY DEF CoefficientFor, Places
  <2>2. DOMAIN bytes = Places /\ \A p \in Places : bytes[p] = coefficient(p, j)
    OBVIOUS
  <2>3. \A p \in Places : bytes[p] \in Byte
    BY <1>3, <2>2
  <2> HIDE DEF bytes, coefficient
  <2> QED
    BY <2>1, <2>2, <2>3, FromBytesArray, ByteAtFromBytes DEF Arrays
<1> HIDE DEF coefficient
<1>5. draws \in [1..(T - 1) -> Arrays]
  BY <1>4
<1>6. PICK others :
        /\ Deals(others, candidate, draws, T, m, Places)
        /\ split(candidate, draws, T, m) = Ok([indices |-> ShareIndices(m), shares |-> others])
  <2> HIDE DEF draws, T
  <2>1. m \in 1..255 /\ T \in 1..m
    BY <1>2
  <2> QED
    BY <1>5, <2>1, SplitArrays
<1>7. ASSUME NEW p \in Places
      PROVE  PolynomialAt(candidate, draws, T, p) = <<ByteAt(candidate, p)>> \o cs(p)
  <2>1. \A j \in 1..(T - 1) : ByteAt(draws[j], p) = coefficient(p, j)
    BY <1>4
  <2>2. [j \in 1..(T - 1) |-> ByteAt(draws[j], p)] = cs(p)
    BY <2>1
  <2> QED
    BY <2>2 DEF PolynomialAt
<1> HIDE DEF draws, cs
<1>8. ASSUME NEW k \in 1..Count PROVE others[Xs[k]] = Ys[k]
  <2>1. Xs[k] \in 1..m /\ Ys[k] \in Arrays
    BY <1>1, GenuineFromDealing, HandedShares
  <2>2. others[Xs[k]] \in Arrays
    BY <1>6, <2>1 DEF Deals, Arrays
  <2>3. \A p \in Places : ByteAt(others[Xs[k]], p) = ByteAt(Ys[k], p)
    BY <1>3, <1>6, <1>7, <2>1 DEF Deals
  <2> QED
    BY <2>1, <2>2, <2>3, SameBytes DEF Arrays
<1>9. /\ split(candidate, draws, T, m).ok
      /\ split(candidate, draws, T, m).val.shares = others
  BY <1>6, OkOf
<1> QED
  BY <1>2, <1>8, <1>9 DEF draws

LEMMA HidesBelowThresholdInv == IInv => HidesBelowThreshold
<1> SUFFICES ASSUME IInv, Genuine, Distinct, dealt.result.ok,
                    Len(handed) = dealt.threshold - 1, NEW c \in Candidates
             PROVE  LET candidate == ArrayOf(c)
                        draws == [j \in 1..(dealt.threshold - 1) |-> CoefficientFor(candidate, j)]
                        alternative == split(candidate, draws, dealt.threshold,
                                             Len(dealt.result.val.shares))
                    IN  /\ alternative.ok
                        /\ \A k \in DOMAIN handed :
                             alternative.val.shares[Shares[k][1]] = Shares[k][2]
  BY DEF HidesBelowThreshold
<1>1. ArrayOf(c) \in Arrays
  BY ConstantsAreBytes, ArrayOfPair
<1>2. /\ DOMAIN handed = 1..Count
      /\ \A k \in 1..Count : Shares[k][1] = Xs[k] /\ Shares[k][2] = Ys[k]
  BY HandedShares DEF Indexed
<1> QED
  BY <1>1, <1>2, AnySecretFits DEF Count

LEMMA TypeOKInv == IInv => TypeOK
<1> SUFFICES ASSUME IInv PROVE TypeOK
  OBVIOUS
<1>1. ASSUME dealt.result.ok
      PROVE  /\ dealt.threshold \in 1..Len(dealt.result.val.shares)
             /\ dealt.result.val.indices = [k \in 1..Len(dealt.result.val.shares) |-> k]
  <2>1. PICK m, shares, coefficients : Dealing(m, shares, coefficients)
    BY <1>1 DEF IInv, DealtInv
  <2>2. /\ dealt.result.val.shares = shares /\ dealt.result.val.indices = ShareIndices(m)
        /\ m \in 1..255 /\ dealt.threshold \in 1..m /\ shares \in [1..m -> Arrays]
    BY <2>1, HandedFromDealing DEF Dealing
  <2>3. Len(shares) = m
    BY <2>2
  <2> QED
    BY <2>2, <2>3 DEF ShareIndices
<1>2. ASSUME NEW k \in DOMAIN handed
      PROVE  /\ handed[k].share[1] \in Byte
             /\ \A bit \in handed[k].share[2] : bit[2] \in 0..7
  <2>1. dealt.result.ok
    BY <1>2 DEF IInv, HandedIsDealt
  <2>2. PICK m, shares, coefficients : Dealing(m, shares, coefficients)
    BY <2>1 DEF IInv, DealtInv
  <2>3. k \in 1..Count /\ Xs[k] = handed[k].share[1] /\ Ys[k] = handed[k].share[2]
    BY HandedShares DEF Xs, Ys
  <2>4. Xs[k] \in Byte /\ Ys[k] \in Arrays
    BY <2>3, HandedShares
  <2>6. \A bit \in Ys[k] : bit[2] \in 0..7
    BY <2>4 DEF Arrays, ArraysOver
  <2> QED
    BY <2>3, <2>4, <2>6
<1> QED
  BY <1>1, <1>2 DEF TypeOK

-----------------------------------------------------------------------------
(* What the runs check, for every value of the constants. *)

(* Every dealing hands out one share per index 1, 2, ... and a threshold   *)
(* that the shares can reach, and every share handed in is an array under  *)
(* an index that is a byte (split, tss.rs:39).                             *)
THEOREM SharingTypeCorrect == Spec => []TypeOK
BY Invariant, TypeOKInv, PTL

(* Threshold or more distinct genuine shares give the secret back, in      *)
(* whatever order and however many more there are (combine, tss.rs:104).   *)
THEOREM ReconstructsAlways == Spec => []Reconstructs
BY Invariant, ReconstructsInv, PTL

(* The polynomials through threshold or more distinct genuine shares pass  *)
(* through every share that was dealt, which is what the consistency check *)
(* of core.rs compares (interpolate, tss.rs:70).                           *)
THEOREM RecoversAlways == Spec => []RecoversEveryShare
BY Invariant, RecoversEveryShareInv, PTL

(* combine and interpolate at 0 return the same for every list of shares,  *)
(* threshold reached or not, genuine, damaged, repeated or under index 0,  *)
(* errors included.                                                        *)
THEOREM AgreeAlways == Spec => []ReconstructionsAgree
BY Invariant, ReconstructionsAgreeInv, PTL

(* A damaged share among distinct ones, threshold of them or more, never   *)
(* combines to the secret that was dealt.                                  *)
THEOREM DamageShowsAlways == Spec => []DamageShows
BY Invariant, DamageShowsInv, PTL

(* One share less than the threshold leaves every other secret possible:   *)
(* split deals it in the very shares handed in, for some draws of the      *)
(* generator (split, tss.rs:39 and tss.rs:139).                            *)
THEOREM HidesAlways == Spec => []HidesBelowThreshold
BY Invariant, HidesBelowThresholdInv, PTL
=============================================================================
