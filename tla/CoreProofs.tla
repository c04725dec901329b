----------------------------- MODULE CoreProofs -----------------------------
(***************************************************************************)
(* The threshold decryption of module Core, for any number of key servers: *)
(* which keys combine to the base key, and when a decryption succeeds.     *)
(***************************************************************************)
EXTENDS Core, TSSProofs, SequenceTheorems

-----------------------------------------------------------------------------
(* Arrays of bytes at whatever places. *)

IsArray(a) == \E places : a \in ArraysOver(places)

PlacesOf(a) == {bit[1] : bit \in a}

LEMMA ArrayOverPlaces ==
  ASSUME NEW a, IsArray(a), NEW places, PlacesOf(a) \subseteq places
  PROVE  a \in ArraysOver(places)
<1>1. PICK over : a \in ArraysOver(over)
  BY DEF IsArray
<1>2. ASSUME NEW bit \in a PROVE bit \in places \X (0..7)
  <2>1. bit \in over \X (0..7)
    BY <1>1 DEF ArraysOver
  <2>2. bit[1] \in places
    BY DEF PlacesOf
  <2> QED
    BY <2>1, <2>2
<1> QED
  BY <1>2 DEF ArraysOver

(* Places enough for a list of arrays. *)
LEMMA CommonPlaces ==
  ASSUME NEW n \in Nat, NEW as, DOMAIN as = 1..n, \A k \in 1..n : IsArray(as[k])
  PROVE  \E places :
           /\ <<>> \in places
           /\ \A k \in 1..n : as[k] \in ArraysOver(places)
           /\ \A p : p \notin places => \A k \in 1..n : ByteAt(as[k], p) = 0
<1> DEFINE arrays == {as[k] : k \in 1..n}
           places == PositionsOf(arrays)
<1>1. <<>> \in places
  BY DEF PositionsOf
<1>2. ASSUME NEW k \in 1..n PROVE as[k] \in ArraysOver(places)
  <2>1. ASSUME NEW bit \in as[k] PROVE bit[1] \in places
    <3>1. bit \in UNION arrays
      OBVIOUS
    <3> QED
      BY <3>1 DEF PositionsOf, Support
  <2>2. PlacesOf(as[k]) \subseteq places
    BY <2>1 DEF PlacesOf
  <2> HIDE DEF places
  <2> QED
    BY <2>2, ArrayOverPlaces
<1>3. \A p : p \notin places => \A k \in 1..n : ByteAt(as[k], p) = 0
  BY OutsidePositions
<1> HIDE DEF places
<1> QED
  BY <1>1, <1>2, <1>3

LEMMA SameArray ==
  ASSUME NEW a, NEW b, IsArray(a), IsArray(b), \A p : ByteAt(a, p) = ByteAt(b, p)
  PROVE  a = b
<1> DEFINE places == PlacesOf(a) \cup PlacesOf(b)
<1>1. a \in ArraysOver(places) /\ b \in ArraysOver(places)
  BY ArrayOverPlaces
<1> HIDE DEF places
<1> QED
  BY <1>1, SameBytes

LEMMA XorIsArray ==
  ASSUME NEW a, NEW b, IsArray(a), IsArray(b)
  PROVE  IsArray(xor(a, b))
<1> DEFINE places == PlacesOf(a) \cup PlacesOf(b)
<1>1. a \in ArraysOver(places) /\ b \in ArraysOver(places)
  BY ArrayOverPlaces
<1> HIDE DEF places
<1> QED
  BY <1>1, XorArray DEF IsArray

LEMMA OpaqueIsArray == \A s : IsArray(Opaque(s))
<1> SUFFICES ASSUME NEW s PROVE Opaque(s) \in ArraysOver({s})
  BY DEF IsArray
<1> QED
  BY DEF Opaque, ArraysOver

LEMMA ByteAtOpaque ==
  \A s, p : ByteAt(Opaque(s), p) = IF p = s THEN 1 ELSE 0
<1> SUFFICES ASSUME NEW s, NEW p PROVE ByteAt(Opaque(s), p) = IF p = s THEN 1 ELSE 0
  OBVIOUS
<1>1. {i \in 0..7 : <<p, i>> \in Opaque(s)} = IF p = s THEN {0} ELSE {}
  BY DEF Opaque
<1>2. FromBits({0}) = 1
  BY DEF FromBits, Weight
<1> QED
  BY <1>1, <1>2, NoBits DEF ByteAt

-----------------------------------------------------------------------------
(* combine, tss_interpolate and split, without naming places. *)

Arrays(as, n) == as = [k \in 1..n |-> as[k]] /\ \A k \in 1..n : IsArray(as[k])

LEMMA ArraysDomain == \A as, n : Arrays(as, n) => DOMAIN as = 1..n
<1> SUFFICES ASSUME NEW as, NEW n, as = [k \in 1..n |-> as[k]] PROVE DOMAIN as = 1..n
  BY DEF Arrays
<1>1. DOMAIN [k \in 1..n |-> as[k]] = 1..n
  OBVIOUS
<1> QED
  BY <1>1

LEMMA ArraysOverOf ==
  ASSUME NEW places, NEW n, NEW as, Arrays(as, n), \A k \in 1..n : as[k] \in ArraysOver(places)
  PROVE  as \in [1..n -> ArraysOver(places)]
<1>1. [k \in 1..n |-> as[k]] \in [1..n -> ArraysOver(places)]
  OBVIOUS
<1>2. as = [k \in 1..n |-> as[k]]
  BY DEF Arrays
<1> QED
  BY <1>1, <1>2

(* The byte at each place of the combination of shares, and of the value   *)
(* at x of the polynomials through them.                                   *)
ValueAt(a, xs, as, n, x) ==
  \A p : ByteAt(a, p) = LagrangeValue(xs, BytesAt(as, n, p), n, x)

LEMMA NoBytes ==
  ASSUME NEW n \in Nat, NEW xs \in [1..n -> Byte], NEW as, Accepted(xs, n),
         NEW x \in Byte, NEW p, \A k \in 1..n : ByteAt(as[k], p) = 0
  PROVE  LagrangeValue(xs, BytesAt(as, n, p), n, x) = 0
<1>1. BytesAt(as, n, p) \in [1..n -> Byte] /\ \A k \in 1..n : BytesAt(as, n, p)[k] = 0
  BY BytesAtBytes DEF BytesAt
<1> QED
  BY <1>1, LagrangeZero DEF Accepted

LEMMA OutsideArray ==
  ASSUME NEW places, NEW a \in ArraysOver(places), NEW p, p \notin places
  PROVE  ByteAt(a, p) = 0
<1>1. {i \in 0..7 : <<p, i>> \in a} = {}
  BY DEF ArraysOver
<1> QED
  BY <1>1, NoBits DEF ByteAt

LEMMA ValueEverywhere ==
  ASSUME NEW places, NEW n \in Nat, NEW xs \in [1..n -> Byte], NEW as, Accepted(xs, n),
         NEW x \in Byte, NEW a \in ArraysOver(places),
         \A p : p \notin places => \A k \in 1..n : ByteAt(as[k], p) = 0,
         \A p \in places : ByteAt(a, p) = LagrangeValue(xs, BytesAt(as, n, p), n, x)
  PROVE  ValueAt(a, xs, as, n, x)
<1>1. ASSUME NEW p, p \notin places
      PROVE  ByteAt(a, p) = LagrangeValue(xs, BytesAt(as, n, p), n, x)
  <2>1. \A k \in 1..n : ByteAt(as[k], p) = 0
    BY <1>1
  <2> QED
    <3>1. LagrangeValue(xs, BytesAt(as, n, p), n, x) = 0
      BY <2>1, NoBytes
    <3>2. ByteAt(a, p) = 0
      BY <1>1, OutsideArray
    <3> QED
      BY ONLY <3>1, <3>2
<1> QED
  BY <1>1 DEF ValueAt

LEMMA CombineAll ==
  ASSUME NEW n \in Nat, NEW xs \in [1..n -> Byte], NEW as, Arrays(as, n), Accepted(xs, n)
  PROVE  /\ combine(Indexed(xs, as, n)).ok
         /\ IsArray(combine(Indexed(xs, as, n)).val)
         /\ ValueAt(combine(Indexed(xs, as, n)).val, xs, as, n, 0)
<1>1. PICK places : /\ <<>> \in places
                    /\ \A k \in 1..n : as[k] \in ArraysOver(places)
                    /\ \A p : p \notin places => \A k \in 1..n : ByteAt(as[k], p) = 0
  BY ArraysDomain, CommonPlaces DEF Arrays
<1>2. PICK bs \in [1..n -> ArraysOver(places)] : bs = as
  <2>1. as \in [1..n -> ArraysOver(places)]
    BY <1>1, ArraysOverOf
  <2> QED
    BY <2>1
<1>3. PICK a \in ArraysOver(places) :
         /\ combine(Indexed(xs, bs, n)) = Ok(a)
         /\ \A p \in places : ByteAt(a, p) = LagrangeValue(xs, BytesAt(bs, n, p), n, 0)
  <2>1. <<>> \in places
    BY <1>1
  <2> QED
    BY <2>1, CombineArrays
<1>4. ValueAt(a, xs, as, n, 0)
  BY <1>1, <1>2, <1>3, ValueEverywhere, SmallBytes
<1> QED
  BY <1>2, <1>3, <1>4, OkOf DEF IsArray

LEMMA InterpolateAll ==
  ASSUME NEW n \in Nat, NEW xs \in [1..n -> Byte], NEW as, Arrays(as, n), Accepted(xs, n)
  PROVE  LET result == tss_interpolate(Indexed(xs, as, n))
         IN  /\ result.ok
             /\ \A x \in Byte : /\ IsArray(EvaluateAt(result.val, x))
                                /\ ValueAt(EvaluateAt(result.val, x), xs, as, n, x)
<1>1. PICK places : /\ <<>> \in places
                    /\ \A k \in 1..n : as[k] \in ArraysOver(places)
                    /\ \A p : p \notin places => \A k \in 1..n : ByteAt(as[k], p) = 0
  BY ArraysDomain, CommonPlaces DEF Arrays
<1>2. PICK bs \in [1..n -> ArraysOver(places)] : bs = as
  <2>1. as \in [1..n -> ArraysOver(places)]
    BY <1>1, ArraysOverOf
  <2> QED
    BY <2>1
<1> DEFINE result == tss_interpolate(Indexed(xs, bs, n))
<1>3. /\ result.ok
      /\ \A x \in Byte :
           /\ EvaluateAt(result.val, x) \in ArraysOver(places)
           /\ \A p \in places : ByteAt(EvaluateAt(result.val, x), p)
                                  = LagrangeValue(xs, BytesAt(bs, n, p), n, x)
  <2>1. <<>> \in places
    BY <1>1
  <2> QED
    BY <2>1, InterpolateArrays
<1> HIDE DEF result
<1>4. ASSUME NEW x \in Byte
      PROVE  /\ IsArray(EvaluateAt(result.val, x))
             /\ ValueAt(EvaluateAt(result.val, x), xs, as, n, x)
  BY <1>1, <1>2, <1>3, ValueEverywhere DEF IsArray
<1> QED
  BY <1>2, <1>3, <1>4 DEF result

(* The shares are the values of the polynomials at the indices 1, 2, ...   *)
Dealt(shares, secret, coefficients, threshold, n) ==
  /\ Arrays(shares, n)
  /\ \A p : \A i \in 1..n :
       ByteAt(shares[i], p) = evaluate(PolynomialAt(secret, coefficients, threshold, p), i)

LEMMA SplitAll ==
  ASSUME NEW n \in 1..255, NEW threshold \in 1..n, NEW secret, IsArray(secret),
         NEW coefficients, Arrays(coefficients, threshold - 1)
  PROVE  \E shares :
           /\ Dealt(shares, secret, coefficients, threshold, n)
           /\ split(secret, coefficients, threshold, n)
                = Ok([indices |-> ShareIndices(n), shares |-> shares])
<1> DEFINE all == [k \in 1..threshold |-> IF k = threshold THEN secret ELSE coefficients[k]]
<1>1. DOMAIN all = 1..threshold /\ \A k \in 1..threshold : IsArray(all[k])
  BY DEF Arrays
<1>2. all[threshold] = secret /\ \A k \in 1..(threshold - 1) : all[k] = coefficients[k]
  OBVIOUS
<1> HIDE DEF all
<1>3. /\ threshold \in Nat /\ n \in Nat /\ threshold > 0
      /\ \A j \in 1..(threshold - 1) : j \in 1..threshold
      /\ \A i \in 1..n : i \in Byte
  BY DEF Byte
<1>4. PICK places : /\ <<>> \in places
                    /\ \A k \in 1..threshold : all[k] \in ArraysOver(places)
                    /\ \A p : p \notin places => \A k \in 1..threshold : ByteAt(all[k], p) = 0
  <2>1. threshold \in Nat
    BY <1>3
  <2> QED
    BY ONLY <1>1, <2>1, CommonPlaces
<1>5. /\ secret \in ArraysOver(places)
      /\ \A j \in 1..(threshold - 1) : coefficients[j] \in ArraysOver(places)
  BY <1>2, <1>3, <1>4
<1>6. coefficients \in [1..(threshold - 1) -> ArraysOver(places)]
  BY <1>5, ArraysOverOf
<1>7. PICK shares : /\ Deals(shares, secret, coefficients, threshold, n, places)
                    /\ split(secret, coefficients, threshold, n)
                         = Ok([indices |-> ShareIndices(n), shares |-> shares])
  <2>1. <<>> \in places /\ secret \in ArraysOver(places)
    BY <1>4, <1>5
  <2> QED
    BY <1>6, <2>1, SplitOk, ZenonT(60)
<1>8. shares \in [1..n -> ArraysOver(places)]
  BY <1>7 DEF Deals
<1>9. Arrays(shares, n)
  BY <1>8 DEF Arrays, IsArray
<1>10. ASSUME NEW p, p \notin places, NEW i \in 1..n
       PROVE  ByteAt(shares[i], p) = evaluate(PolynomialAt(secret, coefficients, threshold, p), i)
  <2> DEFINE polynomial == PolynomialAt(secret, coefficients, threshold, p)
  <2>1. ByteAt(shares[i], p) = 0
    BY <1>8, <1>10, OutsideArray
  <2>2. ByteAt(secret, p) = 0 /\ \A j \in 1..(threshold - 1) : ByteAt(coefficients[j], p) = 0
    BY <1>2, <1>3, <1>4, <1>10
  <2>3. polynomial \in Seq(Byte)
    BY <1>3, PolynomialAtBytes
  <2>4. \A k : at(polynomial, k) = 0
    BY <1>3, <2>2 DEF PolynomialAt, at
  <2> HIDE DEF polynomial
  <2>5. evaluate(polynomial, i) = 0
    BY <1>3, <2>3, <2>4, EvaluateZeros
  <2> QED
    BY <2>1, <2>5 DEF polynomial
<1>11. \A p \in places : \A i \in 1..n :
         ByteAt(shares[i], p) = evaluate(PolynomialAt(secret, coefficients, threshold, p), i)
  BY <1>7 DEF Deals
<1> QED
  BY <1>7, <1>9, <1>10, <1>11 DEF Dealt

-----------------------------------------------------------------------------
(* A set of places in order. *)

Increasing(s) == \A i, j \in DOMAIN s : i < j => s[i] < s[j]

Enumerates(s, places) == s \in [1..Cardinality(places) -> places] /\ Increasing(s)

LEMMA EnumerateMore ==
  ASSUME NEW n \in Nat, NEW S \in SUBSET (1..n), NEW s, Enumerates(s, S)
  PROVE  \E t : Enumerates(t, S \cup {n + 1})
<1> DEFINE c == Cardinality(S)
           T == S \cup {n + 1}
           t == [i \in 1..(c + 1) |-> IF i = c + 1 THEN n + 1 ELSE s[i]]
<1>1. IsFiniteSet(S)
  <2>1. IsFiniteSet(1..n)
    BY FS_Interval
  <2> QED
    BY <2>1, FS_Subset
<1>2. c \in Nat
  BY <1>1, FS_CardinalityType
<1>3. Cardinality(T) = c + 1
  BY <1>1, FS_AddElement
<1>4. s \in [1..c -> S] /\ Increasing(s)
  BY DEF Enumerates
<1> HIDE DEF c
<1>5. t \in [1..(c + 1) -> T]
  BY <1>2, <1>4
<1>6. \A i, j \in 1..(c + 1) : i < j => t[i] < t[j]
  <2> SUFFICES ASSUME NEW i \in 1..(c + 1), NEW j \in 1..(c + 1), i < j
               PROVE  t[i] < t[j]
    OBVIOUS
  <2>1. i \in 1..c /\ t[i] = s[i] /\ s[i] \in 1..n
    <3>1. i \in 1..c /\ i # c + 1
      BY <1>2
    <3>2. s[i] \in S
      BY <1>4, <3>1
    <3> QED
      BY <3>1, <3>2
  <2>2. CASE j = c + 1
    BY <2>1, <2>2
  <2>3. CASE j # c + 1
    <3>1. j \in 1..c /\ t[j] = s[j] /\ DOMAIN s = 1..c
      BY <1>2, <1>4, <2>3
    <3> QED
      BY <1>4, <2>1, <3>1 DEF Increasing
  <2> QED
    BY <2>2, <2>3
<1>7. DOMAIN t = 1..(c + 1)
  OBVIOUS
<1> HIDE DEF t
<1>8. Enumerates(t, T)
  BY <1>3, <1>5, <1>6, <1>7 DEF Enumerates, Increasing
<1> QED
  BY <1>8

LEMMA EnumerationExists ==
  ASSUME NEW N \in Nat
  PROVE  \A S \in SUBSET (1..N) : \E s : Enumerates(s, S)
<1> DEFINE P(n) == \A S \in SUBSET (1..n) : \E s : Enumerates(s, S)
           Good == {n \in Nat : P(n)}
<1>1. P(0)
  <2> SUFFICES ASSUME NEW S \in SUBSET (1..0) PROVE \E s : Enumerates(s, S)
    OBVIOUS
  <2>1. S = {} /\ Cardinality(S) = 0
    <3>1. 1..0 = {}
      OBVIOUS
    <3> QED
      BY <3>1, FS_EmptySet
  <2>2. Enumerates([i \in 1..0 |-> i], S)
    BY <2>1 DEF Enumerates, Increasing
  <2> QED
    BY <2>2
<1>2. ASSUME NEW n \in Nat, P(n) PROVE P(n + 1)
  <2> SUFFICES ASSUME NEW S \in SUBSET (1..(n + 1)) PROVE \E s : Enumerates(s, S)
    OBVIOUS
  <2> DEFINE R == S \ {n + 1}
  <2>1. R \in SUBSET (1..n)
    OBVIOUS
  <2>2. PICK s : Enumerates(s, R)
    BY <1>2, <2>1
  <2>3. CASE n + 1 \in S
    <3>1. R \cup {n + 1} = S
      BY <2>3
    <3> HIDE DEF R
    <3> QED
      BY <2>1, <2>2, <3>1, EnumerateMore
  <2>4. CASE n + 1 \notin S
    <3>1. R = S
      BY <2>4
    <3> QED
      BY <2>2, <3>1
  <2> QED
    BY <2>3, <2>4
<1> HIDE DEF P
<1>3. 0..N \subseteq Good
  <2>1. 0 \in Good /\ \A n \in 0..(N - 1) : n \in Good => n + 1 \in Good
    BY <1>1, <1>2
  <2> HIDE DEF Good
  <2> QED
    BY <2>1, UpToInduction
<1>4. P(N)
  BY <1>3
<1> QED
  BY <1>4 DEF P

(* InOrder lists each place once. *)
LEMMA InOrderLists ==
  ASSUME NEW n \in Nat, NEW S \in SUBSET (1..n)
  PROVE  LET s == InOrder(S)
             m == Cardinality(S)
         IN  /\ m \in 0..n
             /\ s \in [1..m -> S]
             /\ \A i, j \in 1..m : s[i] = s[j] => i = j
             /\ \A k \in S : \E i \in 1..m : s[i] = k
<1> DEFINE s == InOrder(S)
           m == Cardinality(S)
<1>1. IsFiniteSet(1..n) /\ Cardinality(1..n) = n
  BY FS_Interval
<1>2. IsFiniteSet(S) /\ m \in Nat /\ m <= n
  BY <1>1, FS_Subset, FS_CardinalityType
<1>3. Enumerates(s, S)
  BY EnumerationExists DEF InOrder, Enumerates, Increasing
<1> HIDE DEF s
<1>4. s \in [1..m -> S] /\ DOMAIN s = 1..m /\ \A i, j \in 1..m : i < j => s[i] < s[j]
  BY <1>3 DEF Enumerates, Increasing
<1>5. ASSUME NEW i \in 1..m, NEW j \in 1..m, s[i] = s[j] PROVE i = j
  <2>1. s[i] \in 1..n
    BY <1>4
  <2>2. ~(i < j) /\ ~(j < i)
    BY <1>4, <1>5, <2>1
  <2> QED
    BY <1>2, <2>2
<1>6. s \in Injection(1..m, S)
  BY <1>4, <1>5 DEF Injection, IsInjective
<1>7. Cardinality(1..m) = m
  BY <1>2, FS_Interval
<1>8. s \in Surjection(1..m, S)
  BY <1>2, <1>6, <1>7, FS_Injection
<1> QED
  BY <1>2, <1>4, <1>5, <1>8 DEF Surjection, s

-----------------------------------------------------------------------------
(* Keys and shares, as the symbols of hash values.                         *)

(* One share that is not zero, among zeros, does not combine to zero.      *)
LEMMA LagrangeSingle ==
  ASSUME NEW n \in Nat, NEW xs \in [1..n -> Byte], Accepted(xs, n),
         NEW ys \in [1..n -> Byte], NEW k \in 1..n, ys[k] # 0,
         \A i \in (1..n) \ {k} : ys[i] = 0
  PROVE  LagrangeValue(xs, ys, n, 0) # 0
<1> DEFINE zs == [i \in 1..n |-> 0]
<1>1. Apart(xs, n) /\ \A i \in 1..n : xs[i] # 0
  BY DEF Accepted
<1>2. zs \in [1..n -> Byte] /\ \A i \in 1..n : zs[i] = 0
  BY SmallBytes
<1> HIDE DEF zs
<1>3. LagrangeValue(xs, zs, n, 0) = 0
  BY <1>1, <1>2, LagrangeZero, SmallBytes
<1>4. ys[k] # zs[k] /\ \A i \in (1..n) \ {k} : ys[i] = zs[i]
  BY <1>2
<1>5. LagrangeValue(xs, ys, n, 0) # LagrangeValue(xs, zs, n, 0)
  BY <1>1, <1>2, <1>4, LagrangeDamaged
<1> QED
  BY <1>3, <1>5

(* Each share is masked with the symbol K[i] and unmasked with the symbol  *)
(* L[i].                                                                   *)
Mark(p, k) == IF p = k THEN 1 ELSE 0

Marked(as, n, K, L, symbols) ==
  \A p \in symbols : \A i \in 1..n : ByteAt(as[i], p) = Add(Mark(p, K[i]), Mark(p, L[i]))

LEMMA MarkSum ==
  ASSUME NEW p, NEW k, NEW l
  PROVE  /\ Add(Mark(p, k), Mark(p, l)) = IF (p = k) = (p = l) THEN 0 ELSE 1
         /\ Add(Mark(p, k), Mark(p, l)) = 0 => ((p = k) <=> (p = l))
<1>1. Add(0, 0) = 0 /\ Add(1, 1) = 0 /\ Add(0, 1) = 1 /\ Add(1, 0) = 1
  BY AddZero, AddSelf, SmallBytes
<1> QED
  BY <1>1 DEF Mark

MarksCancel(n, xs, as, symbols, K, L) ==
  /\ n \in Nat /\ xs \in [1..n -> Byte] /\ Accepted(xs, n)
  /\ K \in [1..n -> symbols] /\ \A i, j \in 1..n : K[i] = K[j] => i = j
  /\ L \in [1..n -> symbols] /\ \A i, j \in 1..n : L[i] = L[j] => i = j
  /\ Marked(as, n, K, L, symbols)
  /\ \A p \in symbols : LagrangeValue(xs, BytesAt(as, n, p), n, 0) = 0

SameKeys(n, K, L) ==
  /\ \A i \in 1..n : \E j \in 1..n : L[i] = K[j]
  /\ \A j \in 1..n : \E i \in 1..n : L[i] = K[j]

(* If they combine to an array without these symbols, those that mask and  *)
(* those that unmask are the same.                                         *)
LEMMA KeysMatch ==
  ASSUME NEW n, NEW xs, NEW as, NEW symbols, NEW K, NEW L, MarksCancel(n, xs, as, symbols, K, L)
  PROVE  SameKeys(n, K, L)
<1> USE DEF MarksCancel
<1> DEFINE only(p, k) == \A i \in 1..n : (p = K[i]) # (p = L[i]) <=> i = k
<1>1. ASSUME NEW p \in symbols, NEW k \in 1..n, only(p, k)
      PROVE  FALSE
  <2> DEFINE ys == BytesAt(as, n, p)
  <2>1. ys \in [1..n -> Byte]
    BY BytesAtBytes
  <2>2. \A i \in 1..n : ys[i] = IF i = k THEN 1 ELSE 0
    <3> SUFFICES ASSUME NEW i \in 1..n PROVE ys[i] = IF i = k THEN 1 ELSE 0
      OBVIOUS
    <3>1. ys[i] = Add(Mark(p, K[i]), Mark(p, L[i]))
      BY DEF BytesAt, Marked
    <3>2. ((p = K[i]) # (p = L[i])) <=> i = k
      BY <1>1
    <3> HIDE DEF ys
    <3> QED
      BY <3>1, <3>2, MarkSum
  <2>3. LagrangeValue(xs, ys, n, 0) = 0
    OBVIOUS
  <2> HIDE DEF ys
  <2>4. ys[k] # 0 /\ \A i \in (1..n) \ {k} : ys[i] = 0
    BY <2>2
  <2> QED
    BY <2>1, <2>3, <2>4, LagrangeSingle
<1>2. ASSUME NEW i \in 1..n, \A j \in 1..n : L[i] # K[j] PROVE FALSE
  <2>1. L[i] \in symbols /\ only(L[i], i)
    BY <1>2
  <2> HIDE DEF only, MarksCancel
  <2> QED
    BY <1>1, <2>1
<1>3. ASSUME NEW j \in 1..n, \A i \in 1..n : L[i] # K[j] PROVE FALSE
  <2>1. K[j] \in symbols /\ only(K[j], j)
    BY <1>3
  <2> HIDE DEF only, MarksCancel
  <2> QED
    BY <1>1, <2>1
<1> QED
  BY <1>2, <1>3 DEF SameKeys

-----------------------------------------------------------------------------
(* The parts of seal_decrypt. *)

(* core.rs:348-373: combine, and check the randomness.                     *)
LEMMA VerifyCombines ==
  ASSUME NEW eo, NEW shares
  PROVE  LET result == combine_and_verify_nonce(eo, shares)
             base_key == combine(shares)
         IN  /\ result.ok <=> base_key.ok /\ VerifiedRandomness(eo, base_key.val).ok
             /\ result.ok => result.val = base_key.val
<1> DEFINE base_key == combine(shares)
           randomness == VerifiedRandomness(eo, base_key.val)
<1>1. combine_and_verify_nonce(eo, shares) =
        IF base_key.ok
        THEN IF randomness.ok THEN Ok(base_key.val) ELSE randomness
        ELSE base_key
  BY DEF combine_and_verify_nonce, AndThen
<1> HIDE DEF base_key, randomness
<1>2. LET result == combine_and_verify_nonce(eo, shares)
      IN  /\ result.ok <=> base_key.ok /\ randomness.ok
          /\ result.ok => result.val = base_key.val
  BY <1>1, OkOf
<1> QED
  BY <1>2 DEF base_key, randomness

LEMMA ErrOf == \A kind : ~Err(kind).ok
  BY DEF Err

(* The k-th share, decrypted with the encryption randomness. *)
OpenedShare(eo, randomness, full_id, public_keys, k) ==
  decrypt_deterministic(randomness, eo.encrypted_shares[k], public_keys[k], full_id,
                        eo.services[k])

Zipped(eo, public_keys) ==
  {k \in DOMAIN public_keys : k \in DOMAIN eo.encrypted_shares /\ k \in DOMAIN eo.services}

(* core.rs:320-346: interpolate, check the randomness, and compare all the *)
(* shares of the object with the polynomial.                               *)
LEMMA CheckCombines ==
  ASSUME NEW eo, NEW shares, NEW full_id, NEW public_keys
  PROVE  LET result == combine_and_check_share_consistency(eo, shares, full_id, public_keys)
             polynomial == tss_interpolate(shares)
             base_key == EvaluateAt(polynomial.val, 0)
             randomness == VerifiedRandomness(eo, base_key)
         IN  /\ result.ok <=>
                  /\ polynomial.ok
                  /\ randomness.ok
                  /\ Len(public_keys) = Len(eo.encrypted_shares)
                  /\ \A k \in Zipped(eo, public_keys) :
                       EvaluateAt(polynomial.val, eo.services[k][2])
                         = OpenedShare(eo, randomness.val, full_id, public_keys, k)
             /\ result.ok => result.val = base_key
<1> DEFINE polynomial == tss_interpolate(shares)
           base_key == EvaluateAt(polynomial.val, 0)
           randomness == VerifiedRandomness(eo, base_key)
           all_shares == decrypt_all_shares_and_verify_nonce(eo, full_id, public_keys, base_key)
           inconsistent == \E s \in all_shares.val : EvaluateAt(polynomial.val, s[1]) # s[2]
           share(k) == <<eo.services[k][2],
                         OpenedShare(eo, randomness.val, full_id, public_keys, k)>>
           opened == {share(k) : k \in Zipped(eo, public_keys)}
<1>1. combine_and_check_share_consistency(eo, shares, full_id, public_keys) =
        IF polynomial.ok
        THEN IF all_shares.ok
             THEN IF inconsistent THEN Err("Inconsistent shares") ELSE Ok(base_key)
             ELSE all_shares
        ELSE polynomial
  BY DEF combine_and_check_share_consistency, AndThen
<1>2. all_shares = IF randomness.ok
                   THEN IF Len(public_keys) # Len(eo.encrypted_shares)
                        THEN Err("InvalidInput")
                        ELSE Ok(opened)
                   ELSE randomness
  BY DEF decrypt_all_shares_and_verify_nonce, AndThen, OpenedShare, Zipped
<1>3. all_shares.val = opened =>
        (inconsistent <=> ~\A k \in Zipped(eo, public_keys) :
                             EvaluateAt(polynomial.val, eo.services[k][2])
                               = OpenedShare(eo, randomness.val, full_id, public_keys, k))
  <2> HIDE DEF all_shares, polynomial, randomness
  <2>1. \A k : share(k)[1] = eo.services[k][2]
               /\ share(k)[2] = OpenedShare(eo, randomness.val, full_id, public_keys, k)
    OBVIOUS
  <2> HIDE DEF share
  <2> QED
    BY <2>1
<1> HIDE DEF polynomial, base_key, randomness, all_shares, inconsistent, opened
<1>4. all_shares.ok <=> randomness.ok /\ Len(public_keys) = Len(eo.encrypted_shares)
  BY <1>2, OkOf, ErrOf
<1>5. all_shares.ok => all_shares.val = opened
  BY <1>2, OkOf, ErrOf
<1>6. LET result == combine_and_check_share_consistency(eo, shares, full_id, public_keys)
      IN  /\ result.ok <=> polynomial.ok /\ all_shares.ok /\ ~inconsistent
          /\ result.ok => result.val = base_key
  BY <1>1, OkOf, ErrOf
<1> QED
  BY <1>3, <1>4, <1>5, <1>6 DEF polynomial, base_key, randomness

FullIdOf(eo) == create_full_id(eo.package_id, eo.id)

(* The share at a place, decrypted with the key of its server.             *)
HeldShare(eo, usks, k) ==
  decrypt(eo.nonce, eo.encrypted_shares[k], usks[eo.services[k][1]], FullIdOf(eo),
          eo.services[k])

IndicesAt(eo, s) == [j \in DOMAIN s |-> eo.services[s[j]][2]]

SharesAt(eo, usks, s) == [j \in DOMAIN s |-> HeldShare(eo, usks, s[j])]

HeldOrder(eo, usks) == InOrder(HeldPlaces(eo, usks))

Combined(eo, usks, public_keys) ==
  LET s == HeldOrder(eo, usks)
      shares == Indexed(IndicesAt(eo, s), SharesAt(eo, usks, s),
                        Cardinality(HeldPlaces(eo, usks)))
  IN  IF public_keys = <<>> THEN combine_and_verify_nonce(eo, shares)
      ELSE combine_and_check_share_consistency(eo, shares, FullIdOf(eo), public_keys[1])

DemKeyOf(eo, base_key) ==
  derive_key("DEM", base_key, eo.encrypted_shares, eo.threshold, ServerIds(eo.services))

LEMMA HeldOrderLists ==
  ASSUME NEW n \in Nat, NEW eo, DOMAIN eo.services = 1..n, NEW usks
  PROVE  LET s == HeldOrder(eo, usks)
             S == HeldPlaces(eo, usks)
             m == Cardinality(S)
         IN  /\ m \in 0..n
             /\ S \in SUBSET (1..n)
             /\ s \in [1..m -> S]
             /\ \A i, j \in 1..m : s[i] = s[j] => i = j
             /\ \A k \in S : \E i \in 1..m : s[i] = k
<1> DEFINE S == HeldPlaces(eo, usks)
<1>1. S \in SUBSET (1..n)
  BY DEF HeldPlaces
<1> HIDE DEF S
<1> QED
  BY <1>1, InOrderLists DEF HeldOrder, S

LEMMA DecryptParts ==
  ASSUME NEW n \in Nat, NEW eo, DOMAIN eo.services = 1..n, NEW usks, NEW public_keys
  PROVE  LET result == seal_decrypt(eo, usks, public_keys)
             combined == Combined(eo, usks, public_keys)
             opens == /\ eo.version = 0
                      /\ Len(eo.encrypted_shares) = Len(eo.services)
                      /\ HoldsEnough(eo, usks)
                      /\ combined.ok
         IN  /\ result.ok => opens
             /\ opens => result = DemDecrypt(eo.ciphertext, DemKeyOf(eo, combined.val))
<1> DEFINE s == HeldOrder(eo, usks)
           m == Cardinality(HeldPlaces(eo, usks))
           combined == Combined(eo, usks, public_keys)
           share(k) == <<eo.services[k][2], HeldShare(eo, usks, k)>>
           shares == [j \in DOMAIN s |-> share(s[j])]
           indexed == Indexed(IndicesAt(eo, s), SharesAt(eo, usks, s), m)
<1>1. DOMAIN s = 1..m
  <2> HIDE DEF s, m
  <2>1. s \in [1..m -> HeldPlaces(eo, usks)]
    BY HeldOrderLists DEF s, m
  <2> QED
    BY <2>1
<1>2. shares = indexed
  <2> HIDE DEF s, m
  <2> QED
    BY <1>1 DEF Indexed, IndicesAt, SharesAt
<1>3. seal_decrypt(eo, usks, public_keys) =
        LET key == IF public_keys = <<>> THEN combine_and_verify_nonce(eo, shares)
                   ELSE combine_and_check_share_consistency(eo, shares, FullIdOf(eo), public_keys[1])
        IN  IF eo.version # 0 THEN Err("InvalidInput")
            ELSE IF Len(eo.encrypted_shares) # Len(eo.services) THEN Err("InvalidInput")
            ELSE IF ~HoldsEnough(eo, usks) THEN Err("InvalidInput")
            ELSE IF key.ok THEN DemDecrypt(eo.ciphertext, DemKeyOf(eo, key.val)) ELSE key
  BY Zenon DEF seal_decrypt, AndThen, HeldOrder, HeldShare, FullIdOf, DemKeyOf
<1>4. combined = IF public_keys = <<>> THEN combine_and_verify_nonce(eo, indexed)
                 ELSE combine_and_check_share_consistency(eo, indexed, FullIdOf(eo), public_keys[1])
  BY DEF Combined
<1> HIDE DEF s, m, combined, share, shares, indexed
<1>5. seal_decrypt(eo, usks, public_keys) =
        IF eo.version # 0 THEN Err("InvalidInput")
        ELSE IF Len(eo.encrypted_shares) # Len(eo.services) THEN Err("InvalidInput")
        ELSE IF ~HoldsEnough(eo, usks) THEN Err("InvalidInput")
        ELSE IF combined.ok THEN DemDecrypt(eo.ciphertext, DemKeyOf(eo, combined.val))
        ELSE combined
  BY <1>2, <1>3, <1>4
<1>6. LET result == seal_decrypt(eo, usks, public_keys)
          opens == /\ eo.version = 0
                   /\ Len(eo.encrypted_shares) = Len(eo.services)
                   /\ HoldsEnough(eo, usks)
                   /\ combined.ok
      IN  /\ result.ok => opens
          /\ opens => result = DemDecrypt(eo.ciphertext, DemKeyOf(eo, combined.val))
  BY <1>5, ErrOf
<1> QED
  BY <1>6 DEF combined

-----------------------------------------------------------------------------
(* When the held shares combine to a base key.                             *)

(* An object with n places. *)
WithPlaces(eo, n) ==
  /\ DOMAIN eo.services = 1..n
  /\ \A k \in 1..n : eo.services[k][2] \in Byte
  /\ Arrays(eo.encrypted_shares, n)

HeldIndices(eo, usks) == IndicesAt(eo, HeldOrder(eo, usks))

HeldShares(eo, usks) == SharesAt(eo, usks, HeldOrder(eo, usks))

HeldCount(eo, usks) == Cardinality(HeldPlaces(eo, usks))

(* An array is the value at x of the polynomials through the held shares.  *)
Fits(a, eo, usks, x) ==
  ValueAt(a, HeldIndices(eo, usks), HeldShares(eo, usks), HeldCount(eo, usks), x)

FitsAt(eo, usks, randomness, public_keys, k) ==
  Fits(OpenedShare(eo, randomness, FullIdOf(eo), public_keys, k), eo, usks, eo.services[k][2])

Opening(eo, usks, public_keys, base_key) ==
  /\ Accepted(HeldIndices(eo, usks), HeldCount(eo, usks))
  /\ Fits(base_key, eo, usks, 0)
  /\ VerifiedRandomness(eo, base_key).ok
  /\ public_keys # <<>> =>
       /\ Len(public_keys[1]) = Len(eo.encrypted_shares)
       /\ \A k \in Zipped(eo, public_keys[1]) :
            FitsAt(eo, usks, VerifiedRandomness(eo, base_key).val, public_keys[1], k)

LEMMA HeldFacts ==
  ASSUME NEW n \in Nat, NEW eo, WithPlaces(eo, n), NEW usks
  PROVE  /\ HeldCount(eo, usks) \in 0..n
         /\ HeldIndices(eo, usks) \in [1..HeldCount(eo, usks) -> Byte]
         /\ Arrays(HeldShares(eo, usks), HeldCount(eo, usks))
<1> DEFINE s == HeldOrder(eo, usks)
           m == HeldCount(eo, usks)
<1>1. DOMAIN eo.services = 1..n
  BY DEF WithPlaces
<1>2. m \in 0..n /\ s \in [1..m -> 1..n]
  <2> DEFINE S == HeldPlaces(eo, usks)
  <2>1. m \in 0..n /\ S \in SUBSET (1..n) /\ s \in [1..m -> S]
    BY <1>1, HeldOrderLists DEF HeldCount
  <2> HIDE DEF s, m, S
  <2> QED
    BY <2>1
<1> HIDE DEF s, m
<1>3. \A j \in 1..m : s[j] \in 1..n
  BY <1>2
<1>4. HeldIndices(eo, usks) = [j \in 1..m |-> eo.services[s[j]][2]]
  BY <1>2 DEF HeldIndices, IndicesAt, s
<1>5. HeldShares(eo, usks) = [j \in 1..m |-> HeldShare(eo, usks, s[j])]
  BY <1>2 DEF HeldShares, SharesAt, s
<1>6. \A k \in 1..n : IsArray(HeldShare(eo, usks, k))
  <2> SUFFICES ASSUME NEW k \in 1..n PROVE IsArray(HeldShare(eo, usks, k))
    OBVIOUS
  <2>1. IsArray(eo.encrypted_shares[k])
    BY DEF WithPlaces, Arrays
  <2> QED
    BY <2>1, XorIsArray, OpaqueIsArray DEF HeldShare, decrypt, kdf
<1>7. HeldIndices(eo, usks) \in [1..m -> Byte]
  BY <1>3, <1>4 DEF WithPlaces
<1>8. Arrays(HeldShares(eo, usks), m)
  <2> DEFINE as == HeldShares(eo, usks)
  <2>1. as = [j \in 1..m |-> HeldShare(eo, usks, s[j])]
    BY <1>5
  <2> HIDE DEF as
  <2>2. \A j \in 1..m : as[j] = HeldShare(eo, usks, s[j])
    BY <2>1
  <2>3. as = [j \in 1..m |-> as[j]]
    BY <2>1, <2>2
  <2>4. \A j \in 1..m : IsArray(as[j])
    BY <1>3, <1>6, <2>2
  <2>5. Arrays(as, m)
    BY <2>3, <2>4 DEF Arrays
  <2> QED
    BY <2>5 DEF as
<1> QED
  BY <1>2, <1>7, <1>8 DEF m

LEMMA OpenedIsArray ==
  ASSUME NEW n \in Nat, NEW eo, WithPlaces(eo, n), NEW k \in 1..n,
         NEW randomness, NEW full_id, NEW public_keys
  PROVE  IsArray(OpenedShare(eo, randomness, full_id, public_keys, k))
<1>1. IsArray(eo.encrypted_shares[k])
  BY DEF WithPlaces, Arrays
<1> QED
  BY <1>1, XorIsArray, OpaqueIsArray DEF OpenedShare, decrypt_deterministic, kdf

(* combine and tss_interpolate refuse what they cannot accept. *)
LEMMA NotAccepted ==
  ASSUME NEW n \in Nat, NEW xs \in [1..n -> Byte], NEW as, ~Accepted(xs, n)
  PROVE  ~combine(Indexed(xs, as, n)).ok /\ ~tss_interpolate(Indexed(xs, as, n)).ok
<1> DEFINE shares == Indexed(xs, as, n)
<1>1. DOMAIN shares = 1..n /\ \A k \in 1..n : shares[k][1] = xs[k]
  BY DEF Indexed
<1>2. n = 0 => shares = <<>>
  BY DEF Indexed
<1> HIDE DEF shares
<1>3. Indices(shares) = xs
  BY <1>1 DEF Indices
<1>4. DOMAIN xs = 1..n /\ Len(xs) = n
  OBVIOUS
<1>5. shares = <<>> \/ ~AllUnique(Indices(shares)) \/ Contains(Indices(shares), 0)
  BY <1>2, <1>3, <1>4 DEF Accepted, Apart, AllUnique, Contains
<1> QED
  BY <1>5, BothRefuse, ErrOf DEF shares
LEMMA FitsOnce ==
  ASSUME NEW eo, NEW usks, NEW x, NEW a, NEW b, IsArray(a), IsArray(b),
         Fits(a, eo, usks, x), Fits(b, eo, usks, x)
  PROVE  a = b
<1>1. \A p : ByteAt(a, p) = ByteAt(b, p)
  BY DEF Fits, ValueAt
<1> QED
  BY <1>1, SameArray

HeldPoints(eo, usks) ==
  Indexed(HeldIndices(eo, usks), HeldShares(eo, usks), HeldCount(eo, usks))

(* What combine and tss_interpolate make of the held shares. *)
LEMMA HeldCombine ==
  ASSUME NEW n \in Nat, NEW eo, WithPlaces(eo, n), NEW usks
  PROVE  LET combined == combine(HeldPoints(eo, usks))
             polynomial == tss_interpolate(HeldPoints(eo, usks))
             accepted == Accepted(HeldIndices(eo, usks), HeldCount(eo, usks))
         IN  /\ combined.ok <=> accepted
             /\ polynomial.ok <=> accepted
             /\ accepted =>
                  /\ IsArray(combined.val)
                  /\ Fits(combined.val, eo, usks, 0)
                  /\ \A x \in Byte : /\ IsArray(EvaluateAt(polynomial.val, x))
                                     /\ Fits(EvaluateAt(polynomial.val, x), eo, usks, x)
<1> DEFINE m == HeldCount(eo, usks)
           xs == HeldIndices(eo, usks)
           as == HeldShares(eo, usks)
<1>1. m \in Nat /\ xs \in [1..m -> Byte] /\ Arrays(as, m)
  BY HeldFacts
<1>2. HeldPoints(eo, usks) = Indexed(xs, as, m)
  BY DEF HeldPoints
<1>3. \A a, x : Fits(a, eo, usks, x) <=> ValueAt(a, xs, as, m, x)
  BY DEF Fits
<1> HIDE DEF m, xs, as
<1>4. CASE ~Accepted(xs, m)
  <2>1. ~combine(Indexed(xs, as, m)).ok /\ ~tss_interpolate(Indexed(xs, as, m)).ok
    BY <1>1, <1>4, NotAccepted
  <2> QED
    BY <1>2, <1>4, <2>1 DEF xs, m
<1>5. CASE Accepted(xs, m)
  <2>1. /\ combine(Indexed(xs, as, m)).ok
        /\ IsArray(combine(Indexed(xs, as, m)).val)
        /\ ValueAt(combine(Indexed(xs, as, m)).val, xs, as, m, 0)
    BY <1>1, <1>5, CombineAll
  <2> DEFINE polynomial == tss_interpolate(Indexed(xs, as, m))
  <2>2. /\ polynomial.ok
        /\ \A x \in Byte : /\ IsArray(EvaluateAt(polynomial.val, x))
                           /\ ValueAt(EvaluateAt(polynomial.val, x), xs, as, m, x)
    BY <1>1, <1>5, InterpolateAll
  <2> QED
    BY <1>2, <1>3, <1>5, <2>1, <2>2 DEF xs, m
<1> QED
  BY <1>4, <1>5

(* The shares of the object that the caller's public keys open. *)
LEMMA ZippedPlaces ==
  ASSUME NEW n \in Nat, NEW eo, WithPlaces(eo, n), NEW public_keys, NEW k \in Zipped(eo, public_keys)
  PROVE  k \in 1..n /\ eo.services[k][2] \in Byte
  BY DEF WithPlaces, Zipped

LEMMA CombinedMeans ==
  ASSUME NEW n \in Nat, NEW eo, WithPlaces(eo, n), NEW usks, NEW public_keys,
         Combined(eo, usks, public_keys).ok
  PROVE  LET base_key == Combined(eo, usks, public_keys).val
         IN  IsArray(base_key) /\ Opening(eo, usks, public_keys, base_key)
<1> DEFINE points == HeldPoints(eo, usks)
           combined == combine(points)
           polynomial == tss_interpolate(points)
           result == Combined(eo, usks, public_keys)
           accepted == Accepted(HeldIndices(eo, usks), HeldCount(eo, usks))
<1>1. /\ combined.ok <=> accepted
      /\ polynomial.ok <=> accepted
      /\ accepted =>
           /\ IsArray(combined.val)
           /\ Fits(combined.val, eo, usks, 0)
           /\ \A x \in Byte : /\ IsArray(EvaluateAt(polynomial.val, x))
                              /\ Fits(EvaluateAt(polynomial.val, x), eo, usks, x)
  BY HeldCombine
<1>2. result = IF public_keys = <<>> THEN combine_and_verify_nonce(eo, points)
               ELSE combine_and_check_share_consistency(eo, points, FullIdOf(eo), public_keys[1])
  BY DEF Combined, HeldPoints, HeldIndices, HeldShares, HeldCount
<1> HIDE DEF result, points
<1>3. result.ok
  BY DEF result
<1>4. CASE public_keys = <<>>
  <2>1. /\ combined.ok
        /\ VerifiedRandomness(eo, combined.val).ok
        /\ result.val = combined.val
    BY <1>2, <1>3, <1>4, VerifyCombines
  <2>2. Opening(eo, usks, public_keys, combined.val)
    BY <1>1, <1>4, <2>1 DEF Opening
  <2> QED
    BY <1>1, <2>1, <2>2 DEF result
<1>5. CASE public_keys # <<>>
  <2> DEFINE base_key == EvaluateAt(polynomial.val, 0)
             randomness == VerifiedRandomness(eo, base_key)
  <2>1. /\ polynomial.ok
        /\ randomness.ok
        /\ Len(public_keys[1]) = Len(eo.encrypted_shares)
        /\ \A k \in Zipped(eo, public_keys[1]) :
             EvaluateAt(polynomial.val, eo.services[k][2])
               = OpenedShare(eo, randomness.val, FullIdOf(eo), public_keys[1], k)
        /\ result.val = base_key
    BY <1>2, <1>3, <1>5, CheckCombines
  <2> HIDE DEF polynomial
  <2>2. IsArray(base_key) /\ Fits(base_key, eo, usks, 0)
    BY <1>1, <2>1, SmallBytes
  <2>3. ASSUME NEW k \in Zipped(eo, public_keys[1])
        PROVE  FitsAt(eo, usks, randomness.val, public_keys[1], k)
    <3>1. eo.services[k][2] \in Byte
      BY ZippedPlaces
    <3>2. Fits(EvaluateAt(polynomial.val, eo.services[k][2]), eo, usks, eo.services[k][2])
      BY <1>1, <2>1, <3>1
    <3> HIDE DEF randomness
    <3> QED
      BY <2>1, <3>2 DEF FitsAt
  <2>4. Opening(eo, usks, public_keys, base_key)
    <3> HIDE DEF base_key
    <3> QED
      BY <1>1, <2>1, <2>2, <2>3 DEF Opening
  <2> QED
    BY <2>1, <2>2, <2>4 DEF result
<1> QED
  BY <1>4, <1>5

LEMMA CombinedWhen ==
  ASSUME NEW n \in Nat, NEW eo, WithPlaces(eo, n), NEW usks, NEW public_keys, NEW base_key,
         IsArray(base_key), Opening(eo, usks, public_keys, base_key)
  PROVE  /\ Combined(eo, usks, public_keys).ok
         /\ Combined(eo, usks, public_keys).val = base_key
<1> DEFINE points == HeldPoints(eo, usks)
           combined == combine(points)
           polynomial == tss_interpolate(points)
           result == Combined(eo, usks, public_keys)
           accepted == Accepted(HeldIndices(eo, usks), HeldCount(eo, usks))
<1>1. /\ combined.ok /\ polynomial.ok
      /\ IsArray(combined.val)
      /\ Fits(combined.val, eo, usks, 0)
      /\ \A x \in Byte : /\ IsArray(EvaluateAt(polynomial.val, x))
                         /\ Fits(EvaluateAt(polynomial.val, x), eo, usks, x)
  <2>1. accepted
    BY DEF Opening
  <2> HIDE DEF accepted
  <2> QED
    BY <2>1, HeldCombine DEF accepted
<1>2. result = IF public_keys = <<>> THEN combine_and_verify_nonce(eo, points)
               ELSE combine_and_check_share_consistency(eo, points, FullIdOf(eo), public_keys[1])
  BY DEF Combined, HeldPoints, HeldIndices, HeldShares, HeldCount
<1> HIDE DEF result, points
<1>3. Fits(base_key, eo, usks, 0) /\ VerifiedRandomness(eo, base_key).ok
  BY DEF Opening
<1>4. CASE public_keys = <<>>
  <2>1. combined.val = base_key
    BY <1>1, <1>3, FitsOnce
  <2> QED
    BY <1>1, <1>2, <1>3, <1>4, <2>1, VerifyCombines DEF result
<1>5. CASE public_keys # <<>>
  <2> HIDE DEF polynomial
  <2>1. EvaluateAt(polynomial.val, 0) = base_key
    BY <1>1, <1>3, FitsOnce, SmallBytes
  <2> DEFINE randomness == VerifiedRandomness(eo, base_key)
  <2>2. ASSUME NEW k \in Zipped(eo, public_keys[1])
        PROVE  EvaluateAt(polynomial.val, eo.services[k][2])
                 = OpenedShare(eo, randomness.val, FullIdOf(eo), public_keys[1], k)
    <3>1. k \in 1..n /\ eo.services[k][2] \in Byte
      BY ZippedPlaces
    <3>2. FitsAt(eo, usks, randomness.val, public_keys[1], k)
      BY <1>5 DEF Opening
    <3> HIDE DEF randomness
    <3> DEFINE opened == OpenedShare(eo, randomness.val, FullIdOf(eo), public_keys[1], k)
               x == eo.services[k][2]
    <3>3. IsArray(opened) /\ Fits(opened, eo, usks, x)
      BY <3>1, <3>2, OpenedIsArray DEF FitsAt
    <3>4. IsArray(EvaluateAt(polynomial.val, x)) /\ Fits(EvaluateAt(polynomial.val, x), eo, usks, x)
      BY <1>1, <3>1
    <3> HIDE DEF opened, x
    <3>5. EvaluateAt(polynomial.val, x) = opened
      BY <3>3, <3>4, FitsOnce
    <3> QED
      BY <3>5 DEF opened, x
  <2>3. Len(public_keys[1]) = Len(eo.encrypted_shares) /\ randomness.ok
    BY <1>5 DEF Opening
  <2>4. result.ok /\ result.val = EvaluateAt(polynomial.val, 0)
    BY <1>1, <1>2, <1>5, <2>1, <2>2, <2>3, CheckCombines DEF polynomial
  <2> QED
    BY <2>1, <2>4 DEF result
<1> QED
  BY <1>4, <1>5

-----------------------------------------------------------------------------
(* The encrypted shares of an object, byte by byte. *)

Gid(id) == hash_to_g1(id)

(* The hash value that the encryptor masks the k-th share with, and those  *)
(* that unmask it: by the key of its server, and by the randomness.        *)
MaskSymbol(seed, request, k) ==
  LET gid == Gid(create_full_id(request.package_id, request.id))
  IN  <<"H2", Pairing(gid * seed, request.public_keys[k]), Generator * seed, gid,
        request.key_servers[k], k>>

HeldSymbol(eo, usks, k) ==
  <<"H2", Pairing(usks[eo.services[k][1]], eo.nonce), eo.nonce, Gid(FullIdOf(eo)),
    eo.services[k][1], eo.services[k][2]>>

OpenedSymbol(eo, randomness, full_id, public_keys, k) ==
  <<"H2", Pairing(Gid(full_id) * randomness, public_keys[k]), Generator * randomness,
    Gid(full_id), eo.services[k][1], eo.services[k][2]>>

(* The shares of the base key for threshold t, masked; the first one may   *)
(* have been modified by the encryptor.                                    *)
Modification == Opaque(<<"modified">>)

Extra(change, k) == IF k = 1 THEN change ELSE {}

SharesMade(shares, seed, t, n) ==
  /\ Dealt(shares, BaseKey(seed), Coefficients(seed, t - 1), t, n)
  /\ t \in 1..n

MaskedShares(encrypted_shares, shares, seed, request, n, change) ==
  encrypted_shares =
    [k \in 1..n |-> xor(xor(Opaque(MaskSymbol(seed, request, k)), shares[k]), Extra(change, k))]

(* Places that no share of the base key has a bit at. *)
SecretFree(p, seed) ==
  p # <<"base_key", seed>> /\ \A j : p # <<"coefficient", seed, j>>

LEMMA SharesWithout ==
  ASSUME NEW shares, NEW seed, NEW n \in 1..255, NEW t, SharesMade(shares, seed, t, n),
         NEW k \in 1..n, NEW p, SecretFree(p, seed)
  PROVE  ByteAt(shares[k], p) = 0
<1> DEFINE polynomial == PolynomialAt(BaseKey(seed), Coefficients(seed, t - 1), t, p)
<1>1. t \in Nat /\ t > 0 /\ k \in Byte
  BY DEF SharesMade, Byte
<1>2. ByteAt(shares[k], p) = evaluate(polynomial, k)
  BY DEF SharesMade, Dealt
<1>3. polynomial \in Seq(Byte)
  BY <1>1, PolynomialAtBytes
<1>4. ByteAt(BaseKey(seed), p) = 0
  BY ByteAtOpaque DEF BaseKey, SecretFree
<1>5. \A j \in 1..(t - 1) : ByteAt(Coefficients(seed, t - 1)[j], p) = 0
  <2> SUFFICES ASSUME NEW j \in 1..(t - 1) PROVE ByteAt(Coefficients(seed, t - 1)[j], p) = 0
    OBVIOUS
  <2>1. Coefficients(seed, t - 1)[j] = Opaque(<<"coefficient", seed, j>>)
    BY DEF Coefficients
  <2>2. p # <<"coefficient", seed, j>>
    BY DEF SecretFree
  <2> QED
    BY <2>1, <2>2, ByteAtOpaque
<1>6. \A i : at(polynomial, i) = 0
  <2> DEFINE first == ByteAt(BaseKey(seed), p)
             rest == [j \in 1..(t - 1) |-> ByteAt(Coefficients(seed, t - 1)[j], p)]
  <2>1. rest \in [1..(t - 1) -> {0}]
    BY <1>5
  <2>2. polynomial = <<0>> \o rest
    BY <1>4 DEF PolynomialAt
  <2> HIDE DEF rest, polynomial
  <2>3. rest \in Seq({0}) /\ <<0>> \in Seq({0})
    BY <1>1, <2>1
  <2>4. polynomial \in Seq({0})
    BY <2>2, <2>3
  <2>5. \A i \in DOMAIN polynomial : polynomial[i] = 0
    BY <2>4
  <2> QED
    BY <2>5 DEF at
<1> HIDE DEF polynomial
<1> QED
  BY <1>1, <1>2, <1>3, <1>6, EvaluateZeros

LEMMA MaskedByte ==
  ASSUME NEW E, NEW shares, NEW seed, NEW request, NEW n, NEW change,
         MaskedShares(E, shares, seed, request, n, change), NEW k \in 1..n, NEW p
  PROVE  ByteAt(E[k], p) = Add(Add(Mark(p, MaskSymbol(seed, request, k)), ByteAt(shares[k], p)),
                               ByteAt(Extra(change, k), p))
<1>1. E[k] = xor(xor(Opaque(MaskSymbol(seed, request, k)), shares[k]), Extra(change, k))
  BY DEF MaskedShares
<1>2. ByteAt(Opaque(MaskSymbol(seed, request, k)), p) = Mark(p, MaskSymbol(seed, request, k))
  BY ByteAtOpaque DEF Mark
<1> QED
  BY <1>1, <1>2, ByteAtXor

LEMMA HeldByte ==
  ASSUME NEW eo, NEW usks, NEW k, NEW p
  PROVE  ByteAt(HeldShare(eo, usks, k), p)
           = Add(ByteAt(eo.encrypted_shares[k], p), Mark(p, HeldSymbol(eo, usks, k)))
<1>1. HeldShare(eo, usks, k) = xor(eo.encrypted_shares[k], Opaque(HeldSymbol(eo, usks, k)))
  BY DEF HeldShare, decrypt, kdf, HeldSymbol, Gid
<1>2. ByteAt(Opaque(HeldSymbol(eo, usks, k)), p) = Mark(p, HeldSymbol(eo, usks, k))
  BY ByteAtOpaque DEF Mark
<1> QED
  BY <1>1, <1>2, ByteAtXor

LEMMA OpenedByte ==
  ASSUME NEW eo, NEW r, NEW full_id, NEW public_keys, NEW k, NEW p
  PROVE  ByteAt(OpenedShare(eo, r, full_id, public_keys, k), p)
           = Add(ByteAt(eo.encrypted_shares[k], p),
                 Mark(p, OpenedSymbol(eo, r, full_id, public_keys, k)))
<1> DEFINE symbol == OpenedSymbol(eo, r, full_id, public_keys, k)
<1>1. OpenedShare(eo, r, full_id, public_keys, k) = xor(eo.encrypted_shares[k], Opaque(symbol))
  BY DEF OpenedShare, decrypt_deterministic, kdf, OpenedSymbol, Gid
<1>2. ByteAt(Opaque(symbol), p) = Mark(p, symbol)
  BY ByteAtOpaque DEF Mark
<1> HIDE DEF symbol
<1> QED
  BY <1>1, <1>2, ByteAtXor DEF symbol

-----------------------------------------------------------------------------
(* The keys that open an object. *)

IsHash(p) == p[1] = "H2"

LEMMA HashFree ==
  ASSUME NEW p, IsHash(p), NEW seed
  PROVE  SecretFree(p, seed) /\ p # <<"modified">>
<1>1. /\ <<"base_key", seed>>[1] = "base_key"
      /\ \A j : <<"coefficient", seed, j>>[1] = "coefficient"
      /\ <<"modified">>[1] = "modified"
  OBVIOUS
<1> QED
  BY <1>1 DEF IsHash, SecretFree

LEMMA SymbolsAreHashes ==
  /\ \A seed, request, k : IsHash(MaskSymbol(seed, request, k))
  /\ \A eo, usks, k : IsHash(HeldSymbol(eo, usks, k))
  /\ \A eo, r, id, pks, k : IsHash(OpenedSymbol(eo, r, id, pks, k))
  BY DEF IsHash, MaskSymbol, HeldSymbol, OpenedSymbol

LEMMA MarkByte == \A p, k : Mark(p, k) \in Byte
  BY SmallBytes DEF Mark

(* An object whose shares were made and masked by the encryptor of a       *)
(* request, and whose nonce and servers are as they were.                  *)
Sealing(eo, shares, seed, request, t, n, change) ==
  /\ n \in 1..255
  /\ WithPlaces(eo, n)
  /\ SharesMade(shares, seed, t, n)
  /\ MaskedShares(eo.encrypted_shares, shares, seed, request, n, change)
  /\ change \in {{}, Modification}
  /\ eo.nonce = Generator * seed
  /\ \A k \in 1..n : eo.services[k][1] = request.key_servers[k]

(* The byte of a share at the place of a hash value: the encryptor's mask, *)
(* and what unmasks it.                                                    *)
LEMMA HashByte ==
  ASSUME NEW eo, NEW shares, NEW seed, NEW request, NEW t, NEW n, NEW change,
         Sealing(eo, shares, seed, request, t, n, change),
         NEW k \in 1..n, NEW p, IsHash(p)
  PROVE  ByteAt(eo.encrypted_shares[k], p) = Mark(p, MaskSymbol(seed, request, k))
<1>1. SecretFree(p, seed) /\ p # <<"modified">>
  BY HashFree
<1>2. /\ n \in 1..255
      /\ SharesMade(shares, seed, t, n)
      /\ MaskedShares(eo.encrypted_shares, shares, seed, request, n, change)
      /\ change \in {{}, Modification}
  BY DEF Sealing
<1>3. ByteAt(shares[k], p) = 0
  BY <1>1, <1>2, SharesWithout
<1>4. ByteAt(Extra(change, k), p) = 0
  BY <1>1, <1>2, ByteAtOpaque, EmptyArray DEF Extra, Modification
<1>5. ByteAt(eo.encrypted_shares[k], p)
        = Add(Add(Mark(p, MaskSymbol(seed, request, k)), ByteAt(shares[k], p)),
              ByteAt(Extra(change, k), p))
  BY <1>2, MaskedByte
<1> QED
  BY <1>3, <1>4, <1>5, AddZero, MarkByte

LEMMA KeysOfOpening ==
  ASSUME NEW eo, NEW usks, NEW public_keys, NEW shares, NEW seed, NEW request, NEW t, NEW n,
         NEW change, Sealing(eo, shares, seed, request, t, n, change),
         Opening(eo, usks, public_keys, BaseKey(seed))
  PROVE  LET S == HeldPlaces(eo, usks)
         IN  /\ \A k \in S : \E j \in S : HeldSymbol(eo, usks, k) = MaskSymbol(seed, request, j)
             /\ \A j \in S : \E k \in S : HeldSymbol(eo, usks, k) = MaskSymbol(seed, request, j)
<1> DEFINE m == HeldCount(eo, usks)
           s == HeldOrder(eo, usks)
           S == HeldPlaces(eo, usks)
           xs == HeldIndices(eo, usks)
           as == HeldShares(eo, usks)
           K == [i \in 1..m |-> MaskSymbol(seed, request, s[i])]
           L == [i \in 1..m |-> HeldSymbol(eo, usks, s[i])]
           symbols == {p \in {K[i] : i \in 1..m} \cup {L[i] : i \in 1..m} : IsHash(p)}
<1>1. n \in Nat /\ DOMAIN eo.services = 1..n /\ WithPlaces(eo, n)
  <2>1. n \in 1..255 /\ WithPlaces(eo, n)
    BY DEF Sealing
  <2> QED
    BY <2>1 DEF WithPlaces
<1>2. /\ m \in Nat /\ S \in SUBSET (1..n)
      /\ s \in [1..m -> S]
      /\ \A i, j \in 1..m : s[i] = s[j] => i = j
      /\ \A k \in S : \E i \in 1..m : s[i] = k
  BY <1>1, HeldOrderLists DEF HeldCount
<1>3. m \in Nat /\ xs \in [1..m -> Byte] /\ Accepted(xs, m)
  <2>1. xs \in [1..m -> Byte]
    BY <1>1, HeldFacts
  <2> QED
    BY <1>2, <2>1 DEF Opening
<1> HIDE DEF m, s, S
<1>4. /\ xs = [i \in 1..m |-> eo.services[s[i]][2]]
      /\ as = [i \in 1..m |-> HeldShare(eo, usks, s[i])]
  BY <1>2 DEF HeldIndices, HeldShares, IndicesAt, SharesAt, s
<1>5. \A p : ByteAt(BaseKey(seed), p) = LagrangeValue(xs, BytesAt(as, m, p), m, 0)
  BY DEF Opening, Fits, ValueAt, m
<1> HIDE DEF xs, as
<1>6. \A i, j \in 1..m : K[i] = K[j] => i = j
  <2> SUFFICES ASSUME NEW i \in 1..m, NEW j \in 1..m, K[i] = K[j] PROVE s[i] = s[j]
    BY <1>2
  <2> QED
    BY DEF MaskSymbol
<1>7. \A i, j \in 1..m : L[i] = L[j] => i = j
  <2> SUFFICES ASSUME NEW i \in 1..m, NEW j \in 1..m, L[i] = L[j] PROVE xs[i] = xs[j]
    BY <1>3 DEF Accepted, Apart
  <2> QED
    BY <1>4 DEF HeldSymbol
<1>8. K \in [1..m -> symbols] /\ L \in [1..m -> symbols]
  BY SymbolsAreHashes
<1>9. ASSUME NEW p \in symbols, NEW i \in 1..m
      PROVE  ByteAt(as[i], p) = Add(Mark(p, K[i]), Mark(p, L[i]))
  <2>1. s[i] \in 1..n /\ as[i] = HeldShare(eo, usks, s[i])
    BY <1>2, <1>4
  <2>2. IsHash(p)
    OBVIOUS
  <2> HIDE DEF symbols
  <2>3. ByteAt(eo.encrypted_shares[s[i]], p) = Mark(p, K[i])
    BY <2>1, <2>2, HashByte
  <2> QED
    BY <2>1, <2>3, HeldByte
<1>10. ASSUME NEW p \in symbols PROVE LagrangeValue(xs, BytesAt(as, m, p), m, 0) = 0
  <2>1. SecretFree(p, seed)
    BY HashFree
  <2>2. ByteAt(BaseKey(seed), p) = 0
    BY <2>1, ByteAtOpaque DEF BaseKey, SecretFree
  <2> QED
    BY <1>5, <2>2
<1>11. \A i \in 1..m : K[i] = MaskSymbol(seed, request, s[i]) /\ L[i] = HeldSymbol(eo, usks, s[i])
  OBVIOUS
<1> HIDE DEF K, L, symbols
<1>12. Marked(as, m, K, L, symbols)
  BY <1>9 DEF Marked
<1>13. /\ \A i \in 1..m : \E j \in 1..m : L[i] = K[j]
       /\ \A j \in 1..m : \E i \in 1..m : L[i] = K[j]
  <2>1. MarksCancel(m, xs, as, symbols, K, L)
    BY <1>3, <1>6, <1>7, <1>8, <1>10, <1>12 DEF MarksCancel
  <2>2. SameKeys(m, K, L)
    BY <2>1, KeysMatch
  <2> QED
    BY <2>2 DEF SameKeys
<1>14. ASSUME NEW k \in S PROVE \E j \in S : HeldSymbol(eo, usks, k) = MaskSymbol(seed, request, j)
  <2>1. PICK i \in 1..m : s[i] = k
    BY <1>2
  <2>2. PICK j \in 1..m : L[i] = K[j]
    BY <1>13
  <2>3. s[j] \in S
    BY <1>2
  <2> QED
    BY <1>11, <2>1, <2>2, <2>3
<1>15. ASSUME NEW j \in S PROVE \E k \in S : HeldSymbol(eo, usks, k) = MaskSymbol(seed, request, j)
  <2>1. PICK i \in 1..m : s[i] = j
    BY <1>2
  <2>2. PICK k \in 1..m : L[k] = K[i]
    BY <1>13
  <2>3. s[k] \in S
    BY <1>2
  <2> QED
    BY <1>11, <2>1, <2>2, <2>3
<1> QED
  BY <1>14, <1>15 DEF S

-----------------------------------------------------------------------------
(* An object whose shares lie on polynomials of t coefficients opens for   *)
(* whoever unmasks t of them.                                              *)

(* At every place, the shares are values of one polynomial of at most t    *)
(* coefficients, whose value at 0 is the base key.                         *)
Through(poly, eo, shares, base_key, n, p) ==
  /\ evaluate(poly, 0) = ByteAt(base_key, p)
  /\ \A k \in 1..n : evaluate(poly, eo.services[k][2]) = ByteAt(shares[k], p)

OnPolynomials(eo, shares, base_key, t, n) ==
  \A p : \E poly \in Seq(Byte) : Len(poly) <= t /\ Through(poly, eo, shares, base_key, n, p)

(* The share indices are different and not zero. *)
Numbered(eo, n) ==
  /\ \A i, j \in 1..n : eo.services[i][2] = eo.services[j][2] => i = j
  /\ \A i \in 1..n : eo.services[i][2] # 0

Unmasks(eo, usks, shares) ==
  \A k \in HeldPlaces(eo, usks) : HeldShare(eo, usks, k) = shares[k]

LEMMA FitsPolynomials ==
  ASSUME NEW n \in Nat, NEW eo, WithPlaces(eo, n), Numbered(eo, n), NEW usks, NEW shares,
         NEW base_key, NEW t \in Nat, OnPolynomials(eo, shares, base_key, t, n),
         Unmasks(eo, usks, shares), HeldCount(eo, usks) > 0, HeldCount(eo, usks) >= t
  PROVE  /\ Accepted(HeldIndices(eo, usks), HeldCount(eo, usks))
         /\ Fits(base_key, eo, usks, 0)
         /\ \A k \in 1..n : Fits(shares[k], eo, usks, eo.services[k][2])
<1> DEFINE m == HeldCount(eo, usks)
           s == HeldOrder(eo, usks)
           S == HeldPlaces(eo, usks)
           xs == HeldIndices(eo, usks)
           as == HeldShares(eo, usks)
<1>1. DOMAIN eo.services = 1..n /\ \A k \in 1..n : eo.services[k][2] \in Byte
  BY DEF WithPlaces
<1>2. /\ m \in Nat /\ S \in SUBSET (1..n)
      /\ s \in [1..m -> S]
      /\ \A i, j \in 1..m : s[i] = s[j] => i = j
  BY <1>1, HeldOrderLists DEF HeldCount
<1>3. xs \in [1..m -> Byte]
  BY HeldFacts
<1>4. m > 0 /\ m >= t
  OBVIOUS
<1> HIDE DEF m, s, S
<1>5. /\ xs = [i \in 1..m |-> eo.services[s[i]][2]]
      /\ as = [i \in 1..m |-> HeldShare(eo, usks, s[i])]
  BY <1>2 DEF HeldIndices, HeldShares, IndicesAt, SharesAt, s
<1>6. \A i \in 1..m : s[i] \in 1..n /\ xs[i] = eo.services[s[i]][2] /\ as[i] = shares[s[i]]
  <2>1. \A k \in S : HeldShare(eo, usks, k) = shares[k]
    BY DEF Unmasks, S
  <2> SUFFICES ASSUME NEW i \in 1..m
               PROVE  s[i] \in 1..n /\ xs[i] = eo.services[s[i]][2] /\ as[i] = shares[s[i]]
    OBVIOUS
  <2>2. s[i] \in S /\ s[i] \in 1..n
    BY <1>2
  <2> QED
    BY <1>5, <2>1, <2>2
<1> HIDE DEF xs, as
<1>7. Accepted(xs, m)
  <2>a. /\ \A i, j \in 1..n : eo.services[i][2] = eo.services[j][2] => i = j
        /\ \A i \in 1..n : eo.services[i][2] # 0
    BY DEF Numbered
  <2>1. ASSUME NEW i \in 1..m, NEW j \in 1..m, xs[i] = xs[j] PROVE i = j
    <3>1. s[i] \in 1..n /\ s[j] \in 1..n /\ eo.services[s[i]][2] = eo.services[s[j]][2]
      BY <1>6, <2>1
    <3>2. s[i] = s[j]
      BY <2>a, <3>1
    <3> QED
      BY <1>2, <3>2
  <2>2. ASSUME NEW i \in 1..m PROVE xs[i] # 0
    <3>1. s[i] \in 1..n /\ xs[i] = eo.services[s[i]][2]
      BY <1>6
    <3> QED
      BY <2>a, <3>1
  <2> QED
    BY <1>4, <2>1, <2>2 DEF Accepted, Apart
<1>8. \A p : \E poly \in Seq(Byte) :
        /\ Through(poly, eo, shares, base_key, n, p)
        /\ \A x \in Byte : LagrangeValue(xs, BytesAt(as, m, p), m, x) = evaluate(poly, x)
  <2> SUFFICES ASSUME NEW p
               PROVE  \E poly \in Seq(Byte) :
                        /\ Through(poly, eo, shares, base_key, n, p)
                        /\ \A x \in Byte :
                             LagrangeValue(xs, BytesAt(as, m, p), m, x) = evaluate(poly, x)
    OBVIOUS
  <2> DEFINE bytes == BytesAt(as, m, p)
  <2>1. bytes \in [1..m -> Byte]
    BY <1>2, BytesAtBytes
  <2>2. PICK poly \in Seq(Byte) : Len(poly) <= t /\ Through(poly, eo, shares, base_key, n, p)
    BY DEF OnPolynomials
  <2>3. ASSUME NEW i \in 1..m PROVE bytes[i] = evaluate(poly, xs[i])
    <3>1. bytes[i] = ByteAt(as[i], p)
      BY DEF BytesAt
    <3> QED
      BY <1>6, <2>2, <3>1 DEF Through
  <2>4. Len(poly) <= m
    <3>1. Len(poly) \in Nat
      OBVIOUS
    <3> QED
      BY <1>2, <1>4, <2>2, <3>1
  <2> HIDE DEF bytes
  <2>5. \A x \in Byte : LagrangeValue(xs, bytes, m, x) = evaluate(poly, x)
    <3>1. Apart(xs, m)
      BY <1>7 DEF Accepted
    <3> QED
      BY <1>2, <1>3, <2>1, <2>3, <2>4, <3>1, LagrangeOfPolynomial
  <2> QED
    BY <2>2, <2>5 DEF bytes
<1>9. ValueAt(base_key, xs, as, m, 0)
  BY <1>8, SmallBytes DEF ValueAt, Through
<1>10. ASSUME NEW k \in 1..n PROVE ValueAt(shares[k], xs, as, m, eo.services[k][2])
  BY <1>1, <1>8 DEF ValueAt, Through
<1> QED
  BY <1>7, <1>9, <1>10 DEF Fits, m, xs, as

LEMMA OpensOnPolynomials ==
  ASSUME NEW n \in Nat, NEW eo, WithPlaces(eo, n), Numbered(eo, n), NEW usks, NEW shares,
         NEW base_key, NEW t \in Nat, OnPolynomials(eo, shares, base_key, t, n),
         Unmasks(eo, usks, shares), HeldCount(eo, usks) > 0, HeldCount(eo, usks) >= t,
         NEW public_keys, NEW r, VerifiedRandomness(eo, base_key) = Ok(r),
         public_keys # <<>> =>
           /\ Len(public_keys[1]) = Len(eo.encrypted_shares)
           /\ \A k \in 1..n :
                OpenedShare(eo, r, FullIdOf(eo), public_keys[1], k) = shares[k]
  PROVE  Opening(eo, usks, public_keys, base_key)
<1>1. /\ Accepted(HeldIndices(eo, usks), HeldCount(eo, usks))
      /\ Fits(base_key, eo, usks, 0)
      /\ \A k \in 1..n : Fits(shares[k], eo, usks, eo.services[k][2])
  BY FitsPolynomials
<1>2. VerifiedRandomness(eo, base_key).ok /\ VerifiedRandomness(eo, base_key).val = r
  BY OkOf
<1>3. ASSUME public_keys # <<>>, NEW k \in Zipped(eo, public_keys[1])
      PROVE  FitsAt(eo, usks, r, public_keys[1], k)
  <2>1. k \in 1..n
    BY ZippedPlaces
  <2> QED
    BY <1>1, <1>3, <2>1 DEF FitsAt
<1> QED
  BY <1>1, <1>2, <1>3 DEF Opening

-----------------------------------------------------------------------------
(* With public keys, an object that opens has all its shares on the        *)
(* polynomials through the held ones.                                      *)

Opened(eo, r, public_keys, n) ==
  [k \in 1..n |-> OpenedShare(eo, r, FullIdOf(eo), public_keys, k)]

LEMMA OpenedOnPolynomials ==
  ASSUME NEW n \in Nat, NEW eo, WithPlaces(eo, n), NEW usks, NEW base_key,
         NEW public_keys, public_keys # <<>>, DOMAIN public_keys[1] = 1..n,
         Opening(eo, usks, public_keys, base_key),
         NEW r, VerifiedRandomness(eo, base_key) = Ok(r)
  PROVE  OnPolynomials(eo, Opened(eo, r, public_keys[1], n), base_key, HeldCount(eo, usks), n)
<1> DEFINE m == HeldCount(eo, usks)
           xs == HeldIndices(eo, usks)
           as == HeldShares(eo, usks)
           shares == Opened(eo, r, public_keys[1], n)
<1>1. m \in Nat /\ xs \in [1..m -> Byte]
  BY HeldFacts
<1>2. Apart(xs, m)
  BY DEF Opening, Accepted
<1>3. VerifiedRandomness(eo, base_key).val = r
  BY OkOf
<1>4. /\ DOMAIN eo.services = 1..n
      /\ DOMAIN eo.encrypted_shares = 1..n
      /\ \A k \in 1..n : eo.services[k][2] \in Byte
  BY ArraysDomain DEF WithPlaces
<1>5. ValueAt(base_key, xs, as, m, 0)
  BY DEF Opening, Fits
<1>6. ASSUME NEW k \in 1..n PROVE ValueAt(shares[k], xs, as, m, eo.services[k][2])
  <2>1. k \in Zipped(eo, public_keys[1])
    BY <1>4 DEF Zipped
  <2>2. FitsAt(eo, usks, VerifiedRandomness(eo, base_key).val, public_keys[1], k)
    BY <2>1 DEF Opening
  <2>3. shares[k] = OpenedShare(eo, r, FullIdOf(eo), public_keys[1], k)
    BY DEF Opened
  <2> HIDE DEF shares, m, xs, as
  <2> QED
    BY <1>3, <2>2, <2>3 DEF FitsAt, Fits, m, xs, as
<1> HIDE DEF m, xs, as, shares
<1> SUFFICES ASSUME NEW p
             PROVE  \E poly \in Seq(Byte) : Len(poly) <= m /\ Through(poly, eo, shares, base_key, n, p)
  BY DEF OnPolynomials, m, shares
<1> DEFINE bytes == BytesAt(as, m, p)
           poly == interpolate(PointsOf(xs, bytes, m)).val
<1>7. bytes \in [1..m -> Byte]
  BY <1>1, BytesAtBytes
<1>8. /\ ByteAt(base_key, p) = LagrangeValue(xs, bytes, m, 0)
      /\ \A k \in 1..n : ByteAt(shares[k], p) = LagrangeValue(xs, bytes, m, eo.services[k][2])
  BY <1>5, <1>6 DEF ValueAt
<1> HIDE DEF bytes
<1>9. /\ poly \in Seq(Byte)
      /\ Len(poly) <= m
      /\ \A x \in Byte : evaluate(poly, x) = LagrangeValue(xs, bytes, m, x)
  BY <1>1, <1>2, <1>7, InterpolateOk
<1> HIDE DEF poly
<1>10. Through(poly, eo, shares, base_key, n, p)
  BY <1>4, <1>8, <1>9, SmallBytes DEF Through
<1> QED
  BY <1>9, <1>10

(* The shares that the caller has no key for were masked for the servers   *)
(* and the indices that the object names.                                  *)
LEMMA OpenedElsewhere ==
  ASSUME NEW eo, NEW usks, NEW public_keys, NEW shares, NEW seed, NEW request, NEW t, NEW n,
         NEW change, Sealing(eo, shares, seed, request, t, n, change),
         Opening(eo, usks, public_keys, BaseKey(seed)),
         public_keys # <<>>, DOMAIN public_keys[1] = 1..n,
         NEW r, VerifiedRandomness(eo, BaseKey(seed)) = Ok(r),
         NEW k \in (1..n) \ HeldPlaces(eo, usks)
  PROVE  OpenedSymbol(eo, r, FullIdOf(eo), public_keys[1], k) = MaskSymbol(seed, request, k)
<1> DEFINE m == HeldCount(eo, usks)
           s == HeldOrder(eo, usks)
           S == HeldPlaces(eo, usks)
           xs == HeldIndices(eo, usks)
           as == HeldShares(eo, usks)
           p == MaskSymbol(seed, request, k)
           q == OpenedSymbol(eo, r, FullIdOf(eo), public_keys[1], k)
           opened == OpenedShare(eo, r, FullIdOf(eo), public_keys[1], k)
<1>1. /\ n \in Nat
      /\ WithPlaces(eo, n)
      /\ DOMAIN eo.services = 1..n
      /\ DOMAIN eo.encrypted_shares = 1..n
      /\ \A i \in 1..n : eo.services[i][2] \in Byte
  <2>1. n \in 1..255 /\ WithPlaces(eo, n)
    BY DEF Sealing
  <2>2. n \in Nat
    BY <2>1
  <2> QED
    BY <2>1, <2>2, ArraysDomain DEF WithPlaces
<1>2. /\ m \in Nat /\ S \in SUBSET (1..n)
      /\ s \in [1..m -> S]
  BY <1>1, HeldOrderLists DEF HeldCount
<1>3. xs \in [1..m -> Byte] /\ Accepted(xs, m)
  <2>1. xs \in [1..m -> Byte]
    BY <1>1, HeldFacts
  <2> QED
    BY <2>1 DEF Opening
<1>4. IsHash(p)
  BY SymbolsAreHashes
<1>5. ASSUME NEW i \in 1..m PROVE ByteAt(as[i], p) = 0
  <2> HIDE DEF m, s, S
  <2>1. s[i] \in S /\ s[i] \in 1..n
    BY <1>2
  <2>2. as[i] = HeldShare(eo, usks, s[i])
    BY <1>2 DEF HeldShares, SharesAt, s
  <2>3. p # MaskSymbol(seed, request, s[i])
    BY <2>1 DEF MaskSymbol, S
  <2>4. PICK j \in S : HeldSymbol(eo, usks, s[i]) = MaskSymbol(seed, request, j)
    BY <2>1, KeysOfOpening DEF S
  <2>5. p # HeldSymbol(eo, usks, s[i])
    BY <2>4 DEF MaskSymbol, S
  <2> HIDE DEF p, as
  <2>6. ByteAt(eo.encrypted_shares[s[i]], p) = 0
    BY <1>4, <2>1, <2>3, HashByte DEF Mark
  <2>7. Mark(p, HeldSymbol(eo, usks, s[i])) = 0
    BY <2>5 DEF Mark
  <2>8. ByteAt(HeldShare(eo, usks, s[i]), p) = Add(0, 0)
    BY <2>6, <2>7, HeldByte
  <2> QED
    BY <2>2, <2>8, AddZero, SmallBytes
<1>6. ByteAt(opened, p) = 0
  <2>1. FitsAt(eo, usks, r, public_keys[1], k)
    <3>1. k \in Zipped(eo, public_keys[1])
      BY <1>1 DEF Zipped
    <3>2. VerifiedRandomness(eo, BaseKey(seed)).val = r
      BY OkOf
    <3> QED
      BY <3>1, <3>2 DEF Opening
  <2>2. ByteAt(opened, p) = LagrangeValue(xs, BytesAt(as, m, p), m, eo.services[k][2])
    BY <2>1 DEF FitsAt, Fits, ValueAt
  <2>3. eo.services[k][2] \in Byte
    BY <1>1
  <2> HIDE DEF m, xs, as, p, opened
  <2>4. LagrangeValue(xs, BytesAt(as, m, p), m, eo.services[k][2]) = 0
    BY <1>2, <1>3, <1>5, <2>3, NoBytes
  <2> QED
    BY <2>2, <2>4
<1>7. ByteAt(opened, p) = Add(Mark(p, p), Mark(p, q))
  <2>1. ByteAt(eo.encrypted_shares[k], p) = Mark(p, p)
    BY <1>4, HashByte
  <2> QED
    BY <2>1, OpenedByte
<1> HIDE DEF p, q, opened
<1> QED
  BY <1>6, <1>7, MarkSum DEF p, q

(* The shares that the caller has a key for fit the public keys passed.    *)
LEMMA OpenedHeld ==
  ASSUME NEW eo, NEW usks, NEW public_keys, NEW base_key, NEW n \in Nat, WithPlaces(eo, n),
         Opening(eo, usks, public_keys, base_key),
         public_keys # <<>>, DOMAIN public_keys[1] = 1..n,
         NEW r, VerifiedRandomness(eo, base_key) = Ok(r),
         NEW k \in HeldPlaces(eo, usks)
  PROVE  OpenedSymbol(eo, r, FullIdOf(eo), public_keys[1], k) = HeldSymbol(eo, usks, k)
<1> DEFINE m == HeldCount(eo, usks)
           s == HeldOrder(eo, usks)
           S == HeldPlaces(eo, usks)
           xs == HeldIndices(eo, usks)
           as == HeldShares(eo, usks)
           p == HeldSymbol(eo, usks, k)
           q == OpenedSymbol(eo, r, FullIdOf(eo), public_keys[1], k)
           opened == OpenedShare(eo, r, FullIdOf(eo), public_keys[1], k)
<1>1. DOMAIN eo.services = 1..n /\ DOMAIN eo.encrypted_shares = 1..n
  BY ArraysDomain DEF WithPlaces
<1>2. /\ m \in Nat /\ S \in SUBSET (1..n)
      /\ s \in [1..m -> S]
      /\ \E i \in 1..m : s[i] = k
  BY <1>1, HeldOrderLists DEF HeldCount
<1>3. xs \in [1..m -> Byte] /\ Apart(xs, m)
  BY HeldFacts DEF Opening, Accepted
<1>4. PICK i \in 1..m : s[i] = k
  BY <1>2
<1>5. FitsAt(eo, usks, r, public_keys[1], k)
  <2>1. k \in Zipped(eo, public_keys[1])
    BY <1>1, <1>2 DEF Zipped
  <2>2. VerifiedRandomness(eo, base_key).val = r
    BY OkOf
  <2> QED
    BY <2>1, <2>2 DEF Opening
<1>6. ByteAt(opened, p) = LagrangeValue(xs, BytesAt(as, m, p), m, eo.services[k][2])
  BY <1>5 DEF FitsAt, Fits, ValueAt
<1> HIDE DEF m, s, p, q, opened
<1>7. xs[i] = eo.services[k][2] /\ as[i] = HeldShare(eo, usks, k)
  BY <1>2, <1>4 DEF HeldIndices, HeldShares, IndicesAt, SharesAt, s
<1> HIDE DEF xs, as, S
<1>8. BytesAt(as, m, p) \in [1..m -> Byte] /\ BytesAt(as, m, p)[i] = ByteAt(as[i], p)
  BY <1>2, BytesAtBytes DEF BytesAt
<1>9. ByteAt(opened, p) = ByteAt(HeldShare(eo, usks, k), p)
  BY <1>2, <1>3, <1>6, <1>7, <1>8, InterpolateExact
<1>10. PICK b \in Byte : b = ByteAt(eo.encrypted_shares[k], p)
  BY ByteAtByte
<1>11. Add(b, Mark(p, p)) = Add(b, Mark(p, q))
  BY <1>9, <1>10, HeldByte, OpenedByte DEF opened, p, q
<1>12. Mark(p, p) \in Byte /\ Mark(p, q) \in Byte /\ Add(b, Mark(p, q)) \in Byte
  BY <1>10, MarkByte, AddClosed
<1>13. Add(Mark(p, p), Mark(p, q)) = 0
  <2>1. Add(Add(b, Mark(p, p)), Add(b, Mark(p, q))) = 0
    BY <1>11, <1>12, AddSelf
  <2>2. Add(Add(b, b), Add(Mark(p, p), Mark(p, q))) = 0
    BY <1>12, <2>1, AddSwap
  <2>3. Add(b, b) = 0 /\ Add(Mark(p, p), Mark(p, q)) \in Byte
    BY <1>12, AddSelf, AddClosed
  <2> QED
    BY <2>2, <2>3, AddZero
<1> QED
  BY <1>13, MarkSum DEF p, q

(* What an object that opens says of its places: those that the caller has *)
(* a key for were masked for the servers, the indices and the identity     *)
(* that the object names, in whichever order; and the key that unmasks a   *)
(* share fits the public key that it was masked for.                       *)
Answers(eo, usks, seed, request, k, j) ==
  /\ eo.services[k][1] = request.key_servers[j]
  /\ eo.services[k][2] = j
  /\ Gid(FullIdOf(eo)) = Gid(create_full_id(request.package_id, request.id))
  /\ Pairing(usks[eo.services[k][1]], eo.nonce)
       = Pairing(Gid(create_full_id(request.package_id, request.id)) * seed, request.public_keys[j])

LEMMA PlacesOfOpening ==
  ASSUME NEW eo, NEW usks, NEW public_keys, NEW shares, NEW seed, NEW request, NEW t, NEW n,
         NEW change, Sealing(eo, shares, seed, request, t, n, change),
         Opening(eo, usks, public_keys, BaseKey(seed))
  PROVE  LET S == HeldPlaces(eo, usks)
         IN  /\ \A k \in S : \E j \in S : Answers(eo, usks, seed, request, k, j)
             /\ \A j \in S : \E k \in S : Answers(eo, usks, seed, request, k, j)
<1>1. \A k, j : HeldSymbol(eo, usks, k) = MaskSymbol(seed, request, j)
                  => Answers(eo, usks, seed, request, k, j)
  BY DEF HeldSymbol, MaskSymbol, Answers
<1> QED
  BY <1>1, KeysOfOpening

(* With public keys, the others have the index they had. *)
LEMMA PlacesElsewhere ==
  ASSUME NEW eo, NEW usks, NEW public_keys, NEW shares, NEW seed, NEW request, NEW t, NEW n,
         NEW change, Sealing(eo, shares, seed, request, t, n, change),
         Opening(eo, usks, public_keys, BaseKey(seed)),
         public_keys # <<>>, DOMAIN public_keys[1] = 1..n,
         NEW r, VerifiedRandomness(eo, BaseKey(seed)) = Ok(r),
         NEW k \in (1..n) \ HeldPlaces(eo, usks)
  PROVE  eo.services[k][1] = request.key_servers[k] /\ eo.services[k][2] = k
<1>1. OpenedSymbol(eo, r, FullIdOf(eo), public_keys[1], k) = MaskSymbol(seed, request, k)
  BY OpenedElsewhere
<1> QED
  BY <1>1 DEF OpenedSymbol, MaskSymbol

LEMMA HeldApart ==
  ASSUME NEW n \in Nat, NEW eo, WithPlaces(eo, n), NEW usks, NEW public_keys, NEW base_key,
         Opening(eo, usks, public_keys, base_key),
         NEW i \in HeldPlaces(eo, usks), NEW j \in HeldPlaces(eo, usks),
         eo.services[i][2] = eo.services[j][2]
  PROVE  i = j
<1> DEFINE m == HeldCount(eo, usks)
           s == HeldOrder(eo, usks)
           S == HeldPlaces(eo, usks)
           xs == HeldIndices(eo, usks)
<1>1. /\ m \in Nat
      /\ s \in [1..m -> S]
      /\ \A k \in S : \E a \in 1..m : s[a] = k
  BY HeldOrderLists DEF HeldCount, WithPlaces
<1>2. Apart(xs, m)
  BY DEF Opening, Accepted
<1> HIDE DEF m, s, S
<1>3. xs = [a \in 1..m |-> eo.services[s[a]][2]]
  BY <1>1 DEF HeldIndices, IndicesAt, s
<1> HIDE DEF xs
<1>4. PICK a \in 1..m : s[a] = i
  BY <1>1 DEF S
<1>5. PICK b \in 1..m : s[b] = j
  BY <1>1 DEF S
<1>6. xs[a] = xs[b]
  BY <1>3, <1>4, <1>5
<1>7. a = b
  BY <1>2, <1>6 DEF Apart
<1> QED
  BY <1>4, <1>5, <1>7

LEMMA OpenedIsNumbered ==
  ASSUME NEW eo, NEW usks, NEW public_keys, NEW shares, NEW seed, NEW request, NEW t, NEW n,
         NEW change, Sealing(eo, shares, seed, request, t, n, change),
         Opening(eo, usks, public_keys, BaseKey(seed)),
         public_keys # <<>>, DOMAIN public_keys[1] = 1..n,
         NEW r, VerifiedRandomness(eo, BaseKey(seed)) = Ok(r)
  PROVE  Numbered(eo, n)
<1> DEFINE S == HeldPlaces(eo, usks)
<1>1. n \in Nat /\ WithPlaces(eo, n) /\ S \in SUBSET (1..n)
  BY DEF Sealing, WithPlaces, HeldPlaces
<1>2. \A k \in S : eo.services[k][2] \in S
  BY PlacesOfOpening DEF Answers
<1>3. \A k \in (1..n) \ S : eo.services[k][2] = k
  BY PlacesElsewhere
<1>4. \A i, j \in S : eo.services[i][2] = eo.services[j][2] => i = j
  BY <1>1, HeldApart
<1> HIDE DEF S
<1> QED
  BY <1>1, <1>2, <1>3, <1>4 DEF Numbered

-----------------------------------------------------------------------------
(* What seal_encrypt makes of a request opens. *)

LEMMA CoefficientArrays ==
  ASSUME NEW seed, NEW n
  PROVE  Arrays(Coefficients(seed, n), n) /\ IsArray(BaseKey(seed))
  BY OpaqueIsArray DEF Arrays, Coefficients, BaseKey

SharesWritten(val, shares, seed, request, n) ==
  /\ SharesMade(shares, seed, request.threshold, n)
  /\ val.services = [k \in 1..n |-> <<request.key_servers[k], k>>]
  /\ val.nonce = Generator * seed
  /\ MaskedShares(val.encrypted_shares, shares, seed, request, n, {})

LEMMA SharesOfMakes ==
  ASSUME NEW seed, NEW request, NEW n \in 1..255, request.threshold \in 1..n,
         SharesOf(seed, request, n).ok
  PROVE  \E shares : SharesWritten(SharesOf(seed, request, n).val, shares, seed, request, n)
<1> DEFINE t == request.threshold
           sharing == split(BaseKey(seed), Coefficients(seed, t - 1), t, n)
           services == [k \in DOMAIN sharing.val.indices |->
                          <<request.key_servers[k], sharing.val.indices[k]>>]
           full_id == create_full_id(request.package_id, request.id)
           batch == encrypt_batched_deterministic(
                      seed, sharing.val.shares, request.public_keys, full_id, services)
           value == [services |-> services, nonce |-> batch.val.nonce,
                     encrypted_shares |-> batch.val.ciphertexts]
           result == SharesOf(seed, request, n)
<1>1. result = IF sharing.ok
               THEN IF Len(request.public_keys) # n THEN Err("InvalidInput")
                    ELSE IF batch.ok THEN Ok(value) ELSE batch
               ELSE sharing
  BY DEF SharesOf, AndThen
<1>2. PICK shares : /\ Dealt(shares, BaseKey(seed), Coefficients(seed, t - 1), t, n)
                    /\ sharing = Ok([indices |-> ShareIndices(n), shares |-> shares])
  BY CoefficientArrays, SplitAll
<1>3. /\ sharing.ok /\ sharing.val.indices = ShareIndices(n) /\ sharing.val.shares = shares
  BY <1>2, OkOf
<1>4. /\ value.services = services
      /\ value.nonce = batch.val.nonce
      /\ value.encrypted_shares = batch.val.ciphertexts
  OBVIOUS
<1>5. services = [k \in 1..n |-> <<request.key_servers[k], k>>]
  BY <1>3 DEF ShareIndices
<1>6. DOMAIN shares = 1..n
  BY <1>2, ArraysDomain DEF Dealt
<1>7. batch.ok => /\ batch.val.nonce = Generator * seed
                  /\ batch.val.ciphertexts =
                       [k \in DOMAIN sharing.val.shares |->
                          xor(kdf(Pairing(Gid(full_id) * seed, request.public_keys[k]),
                                  Generator * seed, Gid(full_id), services[k]),
                              sharing.val.shares[k])]
  <2> HIDE DEF sharing, services, full_id
  <2> QED
    BY OkOf, ErrOf DEF encrypt_batched_deterministic, Gid
<1>8. result.ok
  OBVIOUS
<1> HIDE DEF result, batch, value
<1>9. /\ batch.ok
      /\ result.val = value
  BY <1>1, <1>3, <1>8, OkOf, ErrOf
<1>10. MaskedShares(batch.val.ciphertexts, shares, seed, request, n, {})
  <2>1. \A k \in 1..n :
          kdf(Pairing(Gid(full_id) * seed, request.public_keys[k]), Generator * seed,
              Gid(full_id), services[k]) = Opaque(MaskSymbol(seed, request, k))
    BY <1>5 DEF kdf, MaskSymbol
  <2>2. batch.val.ciphertexts =
          [k \in 1..n |-> xor(Opaque(MaskSymbol(seed, request, k)), shares[k])]
    <3> HIDE DEF sharing, services, full_id
    <3> QED
      BY <1>3, <1>6, <1>7, <1>9, <2>1
  <2>3. \A a, k : xor(a, Extra({}, k)) = a
    BY DEF xor, SymDiff, Extra
  <2> QED
    BY <2>2, <2>3 DEF MaskedShares
<1>11. SharesMade(shares, seed, t, n)
  BY <1>2 DEF SharesMade
<1> HIDE DEF services
<1> QED
  BY <1>4, <1>5, <1>7, <1>9, <1>10, <1>11 DEF SharesWritten, result

LEMMA DealtOnPolynomials ==
  ASSUME NEW eo, NEW shares, NEW seed, NEW t, NEW n \in Nat, SharesMade(shares, seed, t, n),
         \A k \in 1..n : eo.services[k][2] = k
  PROVE  OnPolynomials(eo, shares, BaseKey(seed), t, n)
<1>1. t \in 1..n /\ t \in Nat /\ t > 0
  BY DEF SharesMade
<1> SUFFICES ASSUME NEW p
             PROVE  \E poly \in Seq(Byte) :
                      Len(poly) <= t /\ Through(poly, eo, shares, BaseKey(seed), n, p)
  BY DEF OnPolynomials
<1> DEFINE poly == PolynomialAt(BaseKey(seed), Coefficients(seed, t - 1), t, p)
<1>2. /\ poly \in Seq(Byte)
      /\ Len(poly) = t
      /\ at(poly, 1) = ByteAt(BaseKey(seed), p)
  BY <1>1, PolynomialAtBytes
<1>3. \A k \in 1..n : ByteAt(shares[k], p) = evaluate(poly, k)
  BY DEF SharesMade, Dealt
<1> HIDE DEF poly
<1>4. evaluate(poly, 0) = ByteAt(BaseKey(seed), p)
  BY <1>2, EvaluateAtZero
<1>5. Through(poly, eo, shares, BaseKey(seed), n, p)
  BY <1>3, <1>4 DEF Through
<1> QED
  BY <1>1, <1>2, <1>5

(* A share is unmasked by the symbol it was masked with. *)
LEMMA Unmasked ==
  ASSUME NEW E, NEW shares, NEW seed, NEW request, NEW n,
         MaskedShares(E, shares, seed, request, n, {}), NEW k \in 1..n
  PROVE  xor(E[k], Opaque(MaskSymbol(seed, request, k))) = shares[k]
<1>1. E[k] = xor(xor(Opaque(MaskSymbol(seed, request, k)), shares[k]), {})
  BY DEF MaskedShares, Extra
<1>2. \A a, b : xor(xor(xor(a, b), {}), a) = b
  BY DEF xor, SymDiff
<1> QED
  BY <1>1, <1>2

LEMMA HonestOpens ==
  ASSUME NEW eo, NEW usks, NEW public_keys, NEW shares, NEW seed, NEW request, NEW t, NEW n,
         Sealing(eo, shares, seed, request, t, n, {}),
         \A k \in 1..n : eo.services[k][2] = k,
         VerifiedRandomness(eo, BaseKey(seed)) = Ok(seed),
         HeldCount(eo, usks) >= t,
         \A k \in HeldPlaces(eo, usks) :
           HeldSymbol(eo, usks, k) = MaskSymbol(seed, request, k),
         public_keys # <<>> =>
           /\ Len(public_keys[1]) = Len(eo.encrypted_shares)
           /\ \A k \in 1..n :
                OpenedSymbol(eo, seed, FullIdOf(eo), public_keys[1], k)
                  = MaskSymbol(seed, request, k)
  PROVE  Opening(eo, usks, public_keys, BaseKey(seed))
<1>1. /\ n \in 1..255 /\ n \in Nat
      /\ WithPlaces(eo, n)
      /\ SharesMade(shares, seed, t, n)
      /\ MaskedShares(eo.encrypted_shares, shares, seed, request, n, {})
  BY DEF Sealing
<1>2. t \in Nat /\ t > 0
  BY <1>1 DEF SharesMade
<1>3. HeldCount(eo, usks) \in Nat /\ HeldCount(eo, usks) > 0
  <2>1. HeldCount(eo, usks) \in 0..n
    BY <1>1, HeldFacts
  <2> QED
    BY <1>1, <1>2, <2>1
<1>4. HeldPlaces(eo, usks) \subseteq 1..n
  BY <1>1 DEF HeldPlaces, WithPlaces
<1>5. Numbered(eo, n)
  BY <1>1 DEF Numbered
<1>6. OnPolynomials(eo, shares, BaseKey(seed), t, n)
  BY <1>1, DealtOnPolynomials
<1>7. ASSUME NEW k \in HeldPlaces(eo, usks) PROVE HeldShare(eo, usks, k) = shares[k]
  <2>1. HeldShare(eo, usks, k) = xor(eo.encrypted_shares[k], Opaque(HeldSymbol(eo, usks, k)))
    BY DEF HeldShare, decrypt, kdf, HeldSymbol, Gid
  <2>2. k \in 1..n
    BY <1>4
  <2> QED
    BY <1>1, <2>1, <2>2, Unmasked
<1>8. Unmasks(eo, usks, shares)
  BY <1>7 DEF Unmasks
<1>9. ASSUME public_keys # <<>>, NEW k \in 1..n
      PROVE  OpenedShare(eo, seed, FullIdOf(eo), public_keys[1], k) = shares[k]
  <2>1. OpenedShare(eo, seed, FullIdOf(eo), public_keys[1], k)
          = xor(eo.encrypted_shares[k],
                Opaque(OpenedSymbol(eo, seed, FullIdOf(eo), public_keys[1], k)))
    BY DEF OpenedShare, decrypt_deterministic, kdf, OpenedSymbol, Gid
  <2> QED
    BY <1>1, <1>9, <2>1, Unmasked
<1> QED
  BY <1>1, <1>2, <1>3, <1>5, <1>6, <1>8, <1>9, OpensOnPolynomials

-----------------------------------------------------------------------------
(* Sequences whose elements are of no particular set. *)

IsSequence(s) == \E S : s \in Seq(S)

(* What is known of a sequence when nothing is known of its elements. *)
LEMMA SequenceFacts ==
  ASSUME NEW s, IsSequence(s)
  PROVE  Len(s) \in Nat /\ DOMAIN s = 1..Len(s)
BY LenProperties DEF IsSequence

(* The domain determines the length. *)
LEMMA LenDomain ==
  ASSUME NEW s, NEW n \in Nat, DOMAIN s = 1..n
  PROVE  Len(s) = n
OBVIOUS

(* Appending an element keeps the others. *)
LEMMA AppendFacts ==
  ASSUME NEW s, NEW e, IsSequence(s)
  PROVE  /\ IsSequence(Append(s, e))
         /\ Len(Append(s, e)) = Len(s) + 1
         /\ \A i \in 1..Len(s) : Append(s, e)[i] = s[i]
         /\ Append(s, e)[Len(s) + 1] = e
<1>1. PICK S : s \in Seq(S)
  BY DEF IsSequence
<1>2. s \in Seq(S \cup {e})
  BY <1>1, SeqMonotonic
<1> QED
  BY <1>2, AppendProperties DEF IsSequence

(* A sequence is the function of its elements. *)
LEMMA SequenceIsFunction ==
  ASSUME NEW s, IsSequence(s)
  PROVE  s = [k \in DOMAIN s |-> s[k]]
BY LenProperties DEF IsSequence

LEMMA FrontOfAppend ==
  ASSUME NEW s, IsSequence(s), NEW e
  PROVE  /\ Append(s, e) # <<>>
         /\ Last(Append(s, e)) = e
         /\ Front(Append(s, e)) = s
<1> DEFINE t == Append(s, e)
           n == Len(s)
<1>1. /\ IsSequence(t) /\ Len(t) = n + 1 /\ n \in Nat
      /\ \A i \in 1..n : t[i] = s[i]
      /\ t[n + 1] = e
  BY SequenceFacts, AppendFacts
<1> HIDE DEF t, n
<1>2. t # <<>>
  BY <1>1, EmptySeq
<1>3. Last(t) = e
  BY <1>1 DEF Last
<1>4. Len(t) - 1 = n
  BY <1>1
<1>5. PICK S : t \in Seq(S)
  BY <1>1 DEF IsSequence
<1>6. 1 \in Int /\ n \in Int /\ \A i \in 1..n : t[i] \in S
  <2>1. \A i \in 1..Len(t) : t[i] \in S
    BY <1>5
  <2> QED
    BY <1>1, <2>1
<1>7. /\ SubSeq(t, 1, n) \in Seq(S)
      /\ Len(SubSeq(t, 1, n)) = IF 1 <= n THEN n - 1 + 1 ELSE 0
      /\ \A i \in 1..(n - 1 + 1) : SubSeq(t, 1, n)[i] = t[1 + i - 1]
  BY <1>6, SubSeqProperties
<1>8. Len(SubSeq(t, 1, n)) = n /\ \A i \in 1..n : SubSeq(t, 1, n)[i] = t[i]
  <2>1. (IF 1 <= n THEN n - 1 + 1 ELSE 0) = n /\ n - 1 + 1 = n
        /\ \A i \in 1..n : 1 + i - 1 = i
    BY <1>1
  <2> QED
    BY <1>7, <2>1
<1>9. PICK T : s \in Seq(T)
  BY DEF IsSequence
<1>10. SubSeq(t, 1, n) = s
  <2>1. Len(s) = n
    BY DEF n
  <2>2. \A i \in 1..n : SubSeq(t, 1, n)[i] = s[i]
    BY <1>1, <1>8
  <2>3. s \in Seq(S \cup T) /\ SubSeq(t, 1, n) \in Seq(S \cup T)
    BY <1>7, <1>9
  <2> HIDE DEF n
  <2> DEFINE f == SubSeq(t, 1, n)
             U == S \cup T
  <2>4. f \in Seq(U) /\ s \in Seq(U) /\ Len(f) = Len(s) /\ \A i \in 1..Len(f) : f[i] = s[i]
    BY <1>8, <2>1, <2>2, <2>3
  <2> HIDE DEF f, U
  <2>5. f = s
    BY <2>4, SeqEqual
  <2> QED
    BY <2>5 DEF f
<1>11. Front(t) = s
  BY <1>4, <1>10 DEF Front
<1> QED
  BY <1>2, <1>3, <1>11 DEF t

-----------------------------------------------------------------------------
(* What a successful encryption consists of. *)

LEMMA ResultFacts ==
  /\ \A v : Ok(v).ok /\ Ok(v).val = v
  /\ \A kind : ~Err(kind).ok
BY DEF Ok, Err

(* A share for each index. *)
LEMMA SplitByteLength ==
  ASSUME NEW secret, NEW coefficients, NEW threshold, NEW indices,
         split_byte(secret, coefficients, threshold, indices).ok
  PROVE  DOMAIN split_byte(secret, coefficients, threshold, indices).val = DOMAIN indices
BY ResultFacts DEF split_byte

(* split_byte accepts the indices 1 to n and a threshold up to n. *)
LEMMA SplitByteAccepts ==
  ASSUME NEW secret, NEW coefficients, NEW n \in Nat, NEW threshold \in 1..n
  PROVE  split_byte(secret, coefficients, threshold, ShareIndices(n)).ok
<1> DEFINE indices == ShareIndices(n)
<1>1. /\ Len(indices) = n
      /\ \A k \in 1..n : indices[k] = k
      /\ DOMAIN indices = 1..n
  BY LenDomain DEF ShareIndices
<1>2. ~Contains(indices, 0) /\ AllUnique(indices)
  BY <1>1 DEF Contains, AllUnique
<1> HIDE DEF indices
<1>3. split_byte(secret, coefficients, threshold, indices).ok
  BY <1>1, <1>2, ResultFacts DEF split_byte
<1> QED
  BY <1>3 DEF indices

(* Rows of n bytes, at least one, make n arrays. *)
LEMMA TransposeLength ==
  ASSUME NEW rows, NEW n \in Nat, NEW p0 \in DOMAIN rows,
         \A p \in DOMAIN rows : Len(rows[p]) = n
  PROVE  transpose(rows).ok /\ DOMAIN transpose(rows).val = 1..n
<1> DEFINE lengths == {Len(rows[p]) : p \in DOMAIN rows}
           columns(m) == [k \in 1..m |-> FromBytes([p \in DOMAIN rows |-> rows[p][k]])]
<1>1. lengths = {n}
  OBVIOUS
<1>1a. Cardinality(lengths) = 1
  BY <1>1, FS_Singleton
<1>2. transpose(rows) = IF Cardinality(lengths) # 1 THEN Err("InvalidInput")
                        ELSE Ok(columns(CHOOSE m \in lengths : TRUE))
  BY DEF transpose
<1>3. (CHOOSE m \in lengths : TRUE) = n
  BY <1>1
<1>4. DOMAIN columns(n) = 1..n
  OBVIOUS
<1> HIDE DEF lengths, columns
<1> QED
  BY <1>1a, <1>2, <1>3, <1>4, ResultFacts

(* split refuses a threshold of 0 or above the number of shares, and makes *)
(* as many shares as it is asked for.                                      *)
LEMMA SplitFacts ==
  ASSUME NEW secret, NEW coefficients, NEW threshold \in Nat, NEW n \in Nat
  PROVE  LET result == split(secret, coefficients, threshold, n)
         IN  /\ result.ok => /\ DOMAIN result.val.shares = 1..n
                             /\ result.val.indices = ShareIndices(n)
             /\ result.ok <=> threshold \in 1..n
<1> DEFINE indices == ShareIndices(n)
           refused == threshold > n \/ threshold = 0
           positions == PositionsOf({secret} \cup Range(coefficients))
           byte_shares ==
             [p \in positions |->
                split_byte(ByteAt(secret, p),
                           [j \in 1..(threshold - 1) |-> ByteAt(coefficients[j], p)],
                           threshold, indices)]
           rows == [p \in positions |-> byte_shares[p].val]
           collected == CollectPositions(byte_shares)
           shares == transpose(collected.val)
           value == [indices |-> indices, shares |-> shares.val]
<1>1. split(secret, coefficients, threshold, n) =
        IF refused THEN Err("InvalidInput")
        ELSE IF collected.ok
             THEN IF shares.ok THEN Ok(value) ELSE shares
             ELSE collected
  BY DEF split, AndThen
<1>2. /\ collected.ok => (\A p \in positions : byte_shares[p].ok) /\ collected.val = rows
      /\ (\A p \in positions : byte_shares[p].ok) => collected.ok
  <2>1. DOMAIN byte_shares = positions
    OBVIOUS
  <2> HIDE DEF positions, byte_shares
  <2>2. collected = IF \E p \in positions : ~byte_shares[p].ok
                    THEN byte_shares[CHOOSE p \in positions : ~byte_shares[p].ok]
                    ELSE Ok(rows)
    BY <2>1 DEF CollectPositions
  <2>3. (\E p \in positions : ~byte_shares[p].ok) =>
          ~byte_shares[CHOOSE p \in positions : ~byte_shares[p].ok].ok
    OBVIOUS
  <2> HIDE DEF collected, rows
  <2> QED
    BY <2>2, <2>3, ResultFacts
<1>3. DOMAIN indices = 1..n
  BY DEF ShareIndices
<1>4. <<>> \in positions
  BY DEF PositionsOf
<1>5. ASSUME NEW p \in positions, byte_shares[p].ok
      PROVE  Len(rows[p]) = n
  <2> DEFINE value_at == byte_shares[p].val
  <2>1. DOMAIN value_at = 1..n
    <3> HIDE DEF positions, indices
    <3> QED BY <1>3, <1>5, SplitByteLength
  <2>2. rows[p] = value_at
    OBVIOUS
  <2> HIDE DEF value_at, rows
  <2> QED
    BY <2>1, <2>2, LenDomain
<1>6. ASSUME ~refused, NEW p \in positions
      PROVE  byte_shares[p].ok
  <2> DEFINE coefficients_at == [j \in 1..(threshold - 1) |-> ByteAt(coefficients[j], p)]
  <2>1. byte_shares[p] = split_byte(ByteAt(secret, p), coefficients_at, threshold, indices)
    OBVIOUS
  <2>2. split_byte(ByteAt(secret, p), coefficients_at, threshold, indices).ok
    <3>1. threshold \in 1..n
      BY <1>6
    <3> HIDE DEF positions, coefficients_at
    <3> QED BY <3>1, SplitByteAccepts
  <2> HIDE DEF byte_shares, coefficients_at, indices, positions
  <2> QED
    BY <2>1, <2>2
<1>7. DOMAIN rows = positions
  OBVIOUS
<1>8. value.shares = shares.val /\ value.indices = indices
  OBVIOUS
<1> HIDE DEF positions, byte_shares, rows, value, indices
<1>9. collected.ok => shares.ok /\ DOMAIN shares.val = 1..n
  <2> SUFFICES ASSUME collected.ok PROVE shares.ok /\ DOMAIN shares.val = 1..n
    OBVIOUS
  <2>1. shares = transpose(rows) /\ \A p \in positions : byte_shares[p].ok
    BY <1>2
  <2> QED
    BY <1>4, <1>5, <1>7, <2>1, TransposeLength
<1>9a. refused <=> threshold \notin 1..n
  OBVIOUS
<1> HIDE DEF collected, shares, refused
<1>10. ~refused => collected.ok
  BY <1>2, <1>6
<1>11. split(secret, coefficients, threshold, n) =
         IF refused THEN Err("InvalidInput") ELSE Ok(value)
  BY <1>1, <1>9, <1>10
<1> QED
  BY <1>8, <1>9, <1>9a, <1>10, <1>11, ResultFacts DEF indices

(* One batch of encryptions keeps the number of plaintexts, for each of    *)
(* which there is a public key and an info.                                *)
LEMMA BatchLength ==
  ASSUME NEW r, NEW plaintexts, NEW public_keys, NEW id, NEW infos
  PROVE  LET batch == encrypt_batched_deterministic(r, plaintexts, public_keys, id, infos)
         IN  /\ batch.ok => DOMAIN batch.val.ciphertexts = DOMAIN plaintexts
             /\ batch.ok <=> ~(\/ Len(plaintexts) # Len(public_keys)
                              \/ Len(plaintexts) # Len(infos))
BY ResultFacts DEF encrypt_batched_deterministic

(* SharesOf succeeds for a threshold of 1 to n and n public keys, and      *)
(* makes n shares.                                                         *)
LEMMA SharesFacts ==
  ASSUME NEW seed, NEW request, NEW n \in Nat, request.threshold \in Nat
  PROVE  LET result == SharesOf(seed, request, n)
         IN  /\ result.ok =>
                  /\ Len(result.val.encrypted_shares) = n
                  /\ result.val.services = [k \in 1..n |-> <<request.key_servers[k], k>>]
             /\ result.ok <=> /\ request.threshold \in 1..n
                              /\ Len(request.public_keys) = n
<1> DEFINE sharing == split(BaseKey(seed), Coefficients(seed, request.threshold - 1),
                            request.threshold, n)
           services == [k \in DOMAIN sharing.val.indices |->
                          <<request.key_servers[k], sharing.val.indices[k]>>]
           full_id == create_full_id(request.package_id, request.id)
           batch == encrypt_batched_deterministic(
                      seed, sharing.val.shares, request.public_keys, full_id, services)
           value == [services |-> services, nonce |-> batch.val.nonce,
                     encrypted_shares |-> batch.val.ciphertexts]
           fits == request.threshold \in 1..n
<1>1. SharesOf(seed, request, n) =
        IF sharing.ok
        THEN IF Len(request.public_keys) # n THEN Err("InvalidInput")
             ELSE IF batch.ok THEN Ok(value) ELSE batch
        ELSE sharing
  BY DEF SharesOf, AndThen
<1>2. value.encrypted_shares = batch.val.ciphertexts /\ value.services = services
  OBVIOUS
<1>3. /\ sharing.ok => DOMAIN sharing.val.shares = 1..n /\ sharing.val.indices = ShareIndices(n)
      /\ sharing.ok <=> fits
  BY SplitFacts
<1>4. sharing.ok =>
        /\ services = [k \in 1..n |-> <<request.key_servers[k], k>>]
        /\ Len(services) = n
  <2> HIDE DEF sharing
  <2>1. sharing.ok => services = [k \in 1..n |-> <<request.key_servers[k], k>>]
    BY <1>3 DEF ShareIndices
  <2> HIDE DEF services
  <2> QED
    BY <2>1, LenDomain
<1>5. sharing.ok => Len(sharing.val.shares) = n
  <2> HIDE DEF sharing
  <2> QED
    BY <1>3, LenDomain
<1>6. /\ batch.ok => DOMAIN batch.val.ciphertexts = DOMAIN sharing.val.shares
      /\ batch.ok <=> ~(\/ Len(sharing.val.shares) # Len(request.public_keys)
                       \/ Len(sharing.val.shares) # Len(services))
  <2> HIDE DEF sharing, services, full_id
  <2> QED
    BY BatchLength
<1> HIDE DEF sharing, batch, value, services, fits
<1>7. SharesOf(seed, request, n).ok <=> fits /\ Len(request.public_keys) = n
  BY <1>1, <1>3, <1>4, <1>5, <1>6, ResultFacts
<1>8. SharesOf(seed, request, n).ok =>
        /\ DOMAIN SharesOf(seed, request, n).val.encrypted_shares = 1..n
        /\ SharesOf(seed, request, n).val.services = services
        /\ sharing.ok
  BY <1>1, <1>2, <1>3, <1>6, ResultFacts
<1>9. SharesOf(seed, request, n).ok => Len(SharesOf(seed, request, n).val.encrypted_shares) = n
  BY <1>8, LenDomain
<1> QED
  BY <1>4, <1>7, <1>8, <1>9 DEF fits

(* The nonce of the batch is made from the randomness that the seed names. *)
LEMMA SharesNonce ==
  ASSUME NEW seed, NEW request, NEW n, SharesOf(seed, request, n).ok
  PROVE  SharesOf(seed, request, n).val.nonce = Generator * seed
<1> DEFINE sharing == split(BaseKey(seed), Coefficients(seed, request.threshold - 1),
                            request.threshold, n)
           services == [k \in DOMAIN sharing.val.indices |->
                          <<request.key_servers[k], sharing.val.indices[k]>>]
           full_id == create_full_id(request.package_id, request.id)
           batch == encrypt_batched_deterministic(
                      seed, sharing.val.shares, request.public_keys, full_id, services)
           value == [services |-> services, nonce |-> batch.val.nonce,
                     encrypted_shares |-> batch.val.ciphertexts]
<1>1. SharesOf(seed, request, n) =
        IF sharing.ok
        THEN IF Len(request.public_keys) # n THEN Err("InvalidInput")
             ELSE IF batch.ok THEN Ok(value) ELSE batch
        ELSE sharing
  BY DEF SharesOf, AndThen
<1>2. value.nonce = batch.val.nonce
  OBVIOUS
<1>3. batch.ok => batch.val.nonce = Generator * seed
  <2> HIDE DEF sharing, services, full_id
  <2> QED
    BY ResultFacts DEF encrypt_batched_deterministic
<1> HIDE DEF sharing, batch, value
<1> QED
  BY <1>1, <1>2, <1>3, ResultFacts

(* An object is assembled for a request from some encrypted shares. *)
Assembled(eo, seed, request) ==
  \E services, shares : eo = Assemble(seed, request, services, Generator * seed, shares)

(* core.rs:110 and bindings.rs:132: up to U8Max servers, the cast to u8 is *)
(* exact.                                                                  *)
LEMMA AsU8Exact ==
  ASSUME NEW n \in Nat, n <= U8Max
  PROVE  AsU8(n) = n
BY U8MaxAssumption DEF AsU8

-----------------------------------------------------------------------------
(* The data encapsulation. *)

LEMMA XorTwice == \A x, y : xor(xor(x, y), y) = x
BY DEF xor, SymDiff

(* A stream cipher that xors is its own inverse. *)
LEMMA CtrTwice ==
  ASSUME NEW key, NEW msg, IsSequence(msg)
  PROVE  encrypt_in_ctr_mode(key, encrypt_in_ctr_mode(key, msg)) = msg
<1> DEFINE once == encrypt_in_ctr_mode(key, msg)
           prf(k) == PrfByte(key, (k - 1) \div KEY_SIZE, (k - 1) % KEY_SIZE)
<1>1. once = [k \in DOMAIN msg |-> xor(msg[k], prf(k))]
  BY DEF encrypt_in_ctr_mode
<1>2. encrypt_in_ctr_mode(key, once) = [k \in DOMAIN once |-> xor(once[k], prf(k))]
  BY DEF encrypt_in_ctr_mode
<1> HIDE DEF once, prf
<1>3. DOMAIN once = DOMAIN msg /\ \A k \in DOMAIN msg : xor(once[k], prf(k)) = msg[k]
  BY <1>1, XorTwice
<1>4. encrypt_in_ctr_mode(key, once) = [k \in DOMAIN msg |-> msg[k]]
  BY <1>2, <1>3
<1> QED
  BY <1>4, SequenceIsFunction DEF once

LEMMA GcmTwice ==
  ASSUME NEW key, NEW msg, IsSequence(msg)
  PROVE  GcmStream(key, GcmStream(key, msg)) = msg
<1> DEFINE once == GcmStream(key, msg)
           prf(k) == Opaque(<<"GCM", key, k>>)
<1>1. once = [k \in DOMAIN msg |-> xor(msg[k], prf(k))]
  BY DEF GcmStream
<1>2. GcmStream(key, once) = [k \in DOMAIN once |-> xor(once[k], prf(k))]
  BY DEF GcmStream
<1> HIDE DEF once, prf
<1>3. DOMAIN once = DOMAIN msg /\ \A k \in DOMAIN msg : xor(once[k], prf(k)) = msg[k]
  BY <1>1, XorTwice
<1>4. GcmStream(key, once) = [k \in DOMAIN msg |-> msg[k]]
  BY <1>2, <1>3
<1> QED
  BY <1>4, SequenceIsFunction DEF once

(* The ciphers make sequences of sequences. *)
LEMMA StreamIsSequence ==
  ASSUME NEW key, NEW msg, IsSequence(msg)
  PROVE  /\ IsSequence(encrypt_in_ctr_mode(key, msg))
         /\ IsSequence(GcmStream(key, msg))
         /\ Len(GcmStream(key, msg)) = Len(msg)
<1>1. Len(msg) \in Nat /\ DOMAIN msg = 1..Len(msg)
  BY SequenceFacts
<1>2. ASSUME NEW f, DOMAIN f = 1..Len(msg), f = [k \in DOMAIN f |-> f[k]]
      PROVE  IsSequence(f) /\ Len(f) = Len(msg)
  <2>1. f \in Seq({f[k] : k \in 1..Len(msg)})
    BY <1>1, <1>2
  <2> QED
    BY <1>1, <1>2, <2>1, LenDomain DEF IsSequence
<1>3. /\ DOMAIN encrypt_in_ctr_mode(key, msg) = 1..Len(msg)
      /\ encrypt_in_ctr_mode(key, msg) =
           [k \in DOMAIN encrypt_in_ctr_mode(key, msg) |-> encrypt_in_ctr_mode(key, msg)[k]]
  BY <1>1 DEF encrypt_in_ctr_mode
<1>4. /\ DOMAIN GcmStream(key, msg) = 1..Len(msg)
      /\ GcmStream(key, msg) = [k \in DOMAIN GcmStream(key, msg) |-> GcmStream(key, msg)[k]]
  BY <1>1 DEF GcmStream
<1> QED
  BY <1>2, <1>3, <1>4

LEMMA DemEncryptFacts ==
  ASSUME NEW input, NEW key
  PROVE  /\ input.mode = "Aes256Gcm" =>
              /\ DemEncrypt(input, key).mode = "Aes256Gcm"
              /\ DemEncrypt(input, key).aad = input.aad
              /\ DemEncrypt(input, key).blob =
                   Aes256GcmEncrypt(input.data, unwrap_or_empty(input.aad), key)
         /\ input.mode = "Hmac256Ctr" =>
              /\ DemEncrypt(input, key).mode = "Hmac256Ctr"
              /\ DemEncrypt(input, key).aad = input.aad
              /\ DemEncrypt(input, key).blob = encrypt_in_ctr_mode(key, input.data)
              /\ DemEncrypt(input, key).mac =
                   Hmac256CtrEncrypt(input.data, unwrap_or_empty(input.aad), key).mac
         /\ input.mode = "Plain" =>
              /\ DemEncrypt(input, key).mode = "Plain"
              /\ DemEncrypt(input, key).aad = <<>>
              /\ DemEncrypt(input, key).blob = <<>>
<1> DEFINE aad == unwrap_or_empty(input.aad)
           sealed_input == Hmac256CtrEncrypt(input.data, aad, key)
           gcm == [mode |-> "Aes256Gcm", blob |-> Aes256GcmEncrypt(input.data, aad, key),
                   aad |-> input.aad, mac |-> {}]
           ctr == [mode |-> "Hmac256Ctr", blob |-> sealed_input.blob,
                   aad |-> input.aad, mac |-> sealed_input.mac]
           plain == [mode |-> "Plain", blob |-> <<>>, aad |-> <<>>, mac |-> {}]
<1>1. /\ input.mode = "Aes256Gcm" => DemEncrypt(input, key) = gcm
      /\ input.mode = "Hmac256Ctr" => DemEncrypt(input, key) = ctr
      /\ input.mode = "Plain" => DemEncrypt(input, key) = plain
  BY DEF DemEncrypt
<1>2. sealed_input.blob = encrypt_in_ctr_mode(key, input.data)
  BY DEF Hmac256CtrEncrypt
<1> HIDE DEF aad, sealed_input
<1> QED
  BY <1>1, <1>2 DEF aad, sealed_input

-----------------------------------------------------------------------------
(* What an encryptor writes into an object, and an object that still says  *)
(* it.                                                                     *)

(* The shares of the base key for threshold t among m servers; one of them *)
(* may be changed.                                                         *)
WritesWith(eo, request, seed, shares, t, m, change) ==
  /\ m \in 1..255
  /\ SharesMade(shares, seed, t, m)
  /\ eo.services = [k \in 1..m |-> <<request.key_servers[k], k>>]
  /\ MaskedShares(eo.encrypted_shares, shares, seed, request, m, change)
  /\ change \in {{}, Modification}

SomeWrites(eo, request, seed) ==
  \E shares, t, m, change : WritesWith(eo, request, seed, shares, t, m, change)

HonestWrites(eo, request, seed) ==
  \E shares : WritesWith(eo, request, seed, shares, request.threshold,
                         Len(request.key_servers), {})

LEMMA SharesWrite ==
  ASSUME NEW seed, NEW request, request.threshold \in Nat, NEW n \in Nat,
         SharesOf(seed, request, AsU8(n)).ok
  PROVE  /\ AsU8(n) \in 1..255
         /\ \E shares : SharesWritten(SharesOf(seed, request, AsU8(n)).val, shares, seed,
                                      request, AsU8(n))
<1>1. AsU8(n) \in 0..U8Max /\ U8Max \in 1..255
  BY U8MaxAssumption DEF AsU8
<1> DEFINE m == AsU8(n)
<1> HIDE DEF m
<1>2. m \in Nat /\ m <= 255
  BY <1>1 DEF m
<1>3. request.threshold \in 1..m
  BY <1>2, SharesFacts DEF m
<1>4. m \in 1..255
  BY <1>2, <1>3
<1>5. \E shares : SharesWritten(SharesOf(seed, request, m).val, shares, seed, request, m)
  BY <1>3, <1>4, SharesOfMakes DEF m
<1> QED
  BY <1>4, <1>5 DEF m

LEMMA MaskedAreArrays ==
  ASSUME NEW E, NEW shares, NEW seed, NEW request, NEW t, NEW n, NEW change,
         SharesMade(shares, seed, t, n), change \in {{}, Modification},
         MaskedShares(E, shares, seed, request, n, change)
  PROVE  Arrays(E, n)
<1> DEFINE mask(k) == xor(Opaque(MaskSymbol(seed, request, k)), shares[k])
<1>1. \A k \in 1..n : IsArray(mask(k))
  <2>1. \A k \in 1..n : IsArray(shares[k])
    BY DEF SharesMade, Dealt, Arrays
  <2> QED
    BY <2>1, OpaqueIsArray, XorIsArray
<1>2. \A a : IsArray(a) => IsArray(xor(a, Modification)) /\ IsArray(xor(a, {}))
  <2>1. \A a : xor(a, {}) = a
    BY DEF xor, SymDiff
  <2>2. IsArray(Modification)
    BY OpaqueIsArray DEF Modification
  <2> QED
    BY <2>1, <2>2, XorIsArray
<1>3. E = [k \in 1..n |-> xor(mask(k), Extra(change, k))]
  BY DEF MaskedShares
<1>4. \A k : Extra(change, k) \in {{}, Modification}
  BY DEF Extra
<1> HIDE DEF mask
<1>5. \A k \in 1..n : IsArray(xor(mask(k), Extra(change, k)))
  BY <1>1, <1>2, <1>4
<1>6. E = [k \in 1..n |-> E[k]]
  BY <1>3
<1>7. \A k \in 1..n : IsArray(E[k])
  BY <1>3, <1>5
<1> QED
  BY <1>6, <1>7 DEF Arrays

SomeServices(s) == \E D : s \in Seq(D \X Byte)

LEMMA WrittenServices ==
  ASSUME NEW eo, NEW request, NEW seed, SomeWrites(eo, request, seed)
  PROVE  SomeServices(eo.services)
<1>1. PICK m : m \in 1..255 /\ eo.services = [k \in 1..m |-> <<request.key_servers[k], k>>]
  BY DEF SomeWrites, WritesWith
<1> DEFINE D == {request.key_servers[k] : k \in 1..m}
<1>2. m \in Nat
  <2>1. \A i \in 1..255 : i \in Nat
    OBVIOUS
  <2> QED
    BY <1>1, <2>1
<1>3. \A k \in 1..m : request.key_servers[k] \in D /\ k \in Byte
  BY <1>1 DEF Byte
<1> DEFINE S == D \X Byte
<1>4. \A k \in 1..m : <<request.key_servers[k], k>> \in S
  BY <1>3
<1> HIDE DEF S
<1>5. eo.services \in Seq(S)
  BY <1>1, <1>2, <1>4
<1> QED
  BY <1>5 DEF S, SomeServices

LEMMA HonestIsSome ==
  ASSUME NEW eo, NEW request, NEW seed, HonestWrites(eo, request, seed)
  PROVE  SomeWrites(eo, request, seed)
BY DEF HonestWrites, SomeWrites

(* The fields that the keys are derived from, and those that are checked   *)
(* against each other, are the original ones.                              *)
Bound(eo, original, request) ==
  /\ Len(eo.encrypted_shares) = Len(eo.services)
  /\ SomeServices(eo.services)
  /\ eo.threshold = request.threshold
  /\ eo.encrypted_shares = original.encrypted_shares
  /\ ServerIds(eo.services) = request.key_servers
  /\ eo.nonce = original.nonce
  /\ eo.encrypted_randomness = original.encrypted_randomness

LEMMA SealingOf ==
  ASSUME NEW eo, NEW original, NEW request, NEW seed, NEW shares, NEW t, NEW m, NEW change,
         Bound(eo, original, request), Assembled(original, seed, request),
         WritesWith(original, request, seed, shares, t, m, change)
  PROVE  Sealing(eo, shares, seed, request, t, m, change)
<1>1. m \in 1..255 /\ SharesMade(shares, seed, t, m) /\ change \in {{}, Modification}
      /\ MaskedShares(original.encrypted_shares, shares, seed, request, m, change)
  BY DEF WritesWith
<1>2. m \in Nat
  <2>1. \A i \in 1..255 : i \in Nat
    OBVIOUS
  <2> QED
    BY <1>1, <2>1
<1>3. Arrays(eo.encrypted_shares, m)
  BY <1>1, MaskedAreArrays DEF Bound
<1>4. Len(eo.services) = m
  BY <1>2, <1>3, ArraysDomain, LenDomain DEF Bound
<1>5. PICK D : eo.services \in Seq(D \X Byte)
  BY DEF Bound, SomeServices
<1>6. DOMAIN eo.services = 1..m /\ \A k \in 1..m : eo.services[k] \in D \X Byte
  <2> DEFINE S == D \X Byte
  <2>1. eo.services \in Seq(S)
    BY <1>5
  <2> HIDE DEF S
  <2>2. DOMAIN eo.services = 1..m /\ \A k \in 1..m : eo.services[k] \in S
    BY <1>2, <1>4, <2>1
  <2> QED
    BY <2>2 DEF S
<1>7. \A k \in 1..m : eo.services[k][2] \in Byte
  BY <1>6
<1>8. WithPlaces(eo, m)
  BY <1>3, <1>6, <1>7 DEF WithPlaces
<1>9. eo.nonce = Generator * seed
  BY DEF Bound, Assembled, Assemble
<1>10. \A k \in 1..m : eo.services[k][1] = request.key_servers[k]
  <2>1. [k \in DOMAIN eo.services |-> eo.services[k][1]] = request.key_servers
    BY DEF Bound, ServerIds
  <2> QED
    BY <1>6, <2>1
<1>11. MaskedShares(eo.encrypted_shares, shares, seed, request, m, change)
  BY <1>1 DEF Bound
<1> QED
  BY <1>1, <1>8, <1>9, <1>10, <1>11, Zenon DEF Sealing

(* The encoding of a scalar is its own. *)
LEMMA ScalarAgain ==
  ASSUME NEW s \in Scalar
  PROVE  from_byte_array(to_byte_array(s)) = Ok(s)
<1>1. ASSUME NEW a, NEW b, to_byte_array(a) = to_byte_array(b)
      PROVE  a = b
  <2>1. {<<<<"scalar", a>>, 0>>} = {<<<<"scalar", b>>, 0>>}
    BY <1>1 DEF to_byte_array, Opaque
  <2>2. <<<<"scalar", a>>, 0>> = <<<<"scalar", b>>, 0>>
    BY <2>1, Zenon
  <2>3. <<"scalar", a>> = <<"scalar", b>>
    BY <2>2
  <2> QED
    BY <2>3
<1>2. \E a \in Scalar : to_byte_array(s) = to_byte_array(a)
  OBVIOUS
<1> DEFINE c == CHOOSE a \in Scalar : to_byte_array(s) = to_byte_array(a)
<1>3. c \in Scalar /\ to_byte_array(s) = to_byte_array(c)
  BY <1>2
<1>4. from_byte_array(to_byte_array(s)) = Ok(c)
  BY <1>2 DEF from_byte_array
<1> HIDE DEF c
<1> QED
  BY <1>1, <1>3, <1>4

LEMMA VerifiedOriginal ==
  ASSUME NEW eo, NEW original, NEW request, NEW seed \in Scalar,
         Bound(eo, original, request), Assembled(original, seed, request)
  PROVE  VerifiedRandomness(eo, BaseKey(seed)) = Ok(seed)
<1> DEFINE key == derive_key("EncryptedRandomness", BaseKey(seed), eo.encrypted_shares,
                             eo.threshold, ServerIds(eo.services))
           randomness == decrypt_randomness(eo.encrypted_randomness, key)
<1>1. eo.encrypted_randomness = xor(key, to_byte_array(seed))
  BY DEF Bound, Assembled, Assemble, encrypt_randomness
<1>2. eo.nonce = Generator * seed
  BY DEF Bound, Assembled, Assemble
<1>3. xor(key, eo.encrypted_randomness) = to_byte_array(seed)
  <2>1. \A a, b : xor(a, xor(a, b)) = b
    BY DEF xor, SymDiff
  <2> QED
    BY <1>1, <2>1, Zenon
<1>4. randomness = Ok(seed)
  BY <1>3, ScalarAgain DEF decrypt_randomness
<1>5. VerifiedRandomness(eo, BaseKey(seed)) =
        IF randomness.ok
        THEN IF verify_nonce(randomness.val, eo.nonce) THEN Ok(randomness.val)
             ELSE Err("Invalid randomness")
        ELSE randomness
  BY DEF VerifiedRandomness, AndThen
<1> HIDE DEF randomness
<1>6. randomness.ok /\ randomness.val = seed
  BY <1>4, ResultFacts
<1>7. verify_nonce(seed, eo.nonce)
  BY <1>2 DEF verify_nonce
<1> QED
  BY <1>5, <1>6, <1>7

(* core.rs:103-183: what a successful seal_encrypt returns is assembled    *)
(* for its arguments, with the shares of its base key.                     *)
LEMMA SealEncryptMakes ==
  ASSUME NEW seed, NEW request, Len(request.key_servers) \in Nat,
         Len(request.key_servers) <= U8Max, request.threshold \in Nat,
         seal_encrypt(seed, request).ok
  PROVE  LET eo == seal_encrypt(seed, request).val
         IN  /\ Assembled(eo, seed, request)
             /\ Len(eo.encrypted_shares) = Len(request.key_servers)
             /\ HonestWrites(eo, request, seed)
<1> DEFINE n == Len(request.key_servers)
           result == SharesOf(seed, request, AsU8(n))
           object == Assemble(seed, request, result.val.services, result.val.nonce,
                              result.val.encrypted_shares)
           inner == seal_encrypt(seed, request)
<1>1. n \in Nat /\ AsU8(n) = n /\ request.threshold \in Nat
  BY AsU8Exact
<1>2. inner = IF request.threshold > AsU8(n) \/ request.threshold = 0 THEN Err("InvalidInput")
              ELSE IF result.ok THEN Ok(object) ELSE result
  BY DEF seal_encrypt, AndThen
<1>3. object.services = result.val.services /\ object.encrypted_shares = result.val.encrypted_shares
  BY DEF Assemble
<1>4. result.ok => Assembled(object, seed, request)
  BY SharesNonce DEF Assembled
<1>5. result.ok => Len(result.val.encrypted_shares) = n
  <2> HIDE DEF n
  <2>1. SharesOf(seed, request, n).ok => Len(SharesOf(seed, request, n).val.encrypted_shares) = n
    BY <1>1, SharesFacts
  <2> QED
    BY <1>1, <2>1
<1>6. inner.ok
  OBVIOUS
<1> HIDE DEF n, result, object, inner
<1>7. result.ok /\ inner.val = object
  BY <1>2, <1>6, ResultFacts
<1>8. n \in 1..255 /\ \E shares : SharesWritten(result.val, shares, seed, request, n)
  BY <1>1, <1>7, SharesWrite DEF result
<1>9. PICK shares : SharesWritten(result.val, shares, seed, request, n)
  BY <1>8
<1>10. WritesWith(object, request, seed, shares, request.threshold, n, {})
  BY <1>3, <1>8, <1>9 DEF WritesWith, SharesWritten
<1>11. HonestWrites(object, request, seed)
  BY <1>10 DEF HonestWrites, n
<1> QED
  BY <1>3, <1>4, <1>5, <1>7, <1>11 DEF inner, n

(* What is known of an object as seal_encrypt made it. *)
Made(eo, seed, request, shares, n) ==
  /\ n \in Nat
  /\ Sealing(eo, shares, seed, request, request.threshold, n, {})
  /\ eo.services = [k \in 1..n |-> <<request.key_servers[k], k>>]

LEMMA HonestIsMade ==
  ASSUME NEW eo, NEW seed, NEW request, IsSequence(request.key_servers),
         Assembled(eo, seed, request), HonestWrites(eo, request, seed)
  PROVE  /\ Bound(eo, eo, request)
         /\ \E shares : Made(eo, seed, request, shares, Len(request.key_servers))
<1> DEFINE n == Len(request.key_servers)
<1>1. n \in Nat /\ DOMAIN request.key_servers = 1..n
  BY SequenceFacts
<1> HIDE DEF n
<1>2. PICK shares : WritesWith(eo, request, seed, shares, request.threshold, n, {})
  BY DEF HonestWrites, n
<1>3. eo.services = [k \in 1..n |-> <<request.key_servers[k], k>>]
  BY <1>2 DEF WritesWith
<1>4. Bound(eo, eo, request)
  <2>1. SomeServices(eo.services)
    BY HonestIsSome, WrittenServices
  <2>2. eo.threshold = request.threshold
    BY DEF Assembled, Assemble
  <2>3. DOMAIN eo.encrypted_shares = 1..n /\ DOMAIN eo.services = 1..n
    BY <1>2 DEF WritesWith, MaskedShares
  <2>4. Len(eo.encrypted_shares) = Len(eo.services)
    BY <1>1, <2>3, LenDomain
  <2>5. ServerIds(eo.services) = request.key_servers
    <3>1. \A k \in 1..n : eo.services[k][1] = request.key_servers[k]
      BY <1>3
    <3>2. ServerIds(eo.services) = [k \in 1..n |-> request.key_servers[k]]
      BY <2>3, <3>1 DEF ServerIds
    <3>3. request.key_servers = [k \in 1..n |-> request.key_servers[k]]
      BY <1>1, SequenceIsFunction
    <3> QED
      BY <3>2, <3>3
  <2> QED
    BY <2>1, <2>2, <2>4, <2>5 DEF Bound
<1>5. Sealing(eo, shares, seed, request, request.threshold, n, {})
  BY <1>2, <1>4, SealingOf
<1>6. Made(eo, seed, request, shares, n)
  BY <1>1, <1>3, <1>5 DEF Made
<1> QED
  BY <1>4, <1>6 DEF n

-----------------------------------------------------------------------------
(* Who has keys that fit opens an object as it was made. *)

(* A key that was verified unmasks what was masked for the public key. *)
LEMMA VerifiedPairing ==
  ASSUME NEW u \in Nat, NEW id \in FullId, NEW r \in Nat, NEW mk \in Nat,
         verify_user_secret_key(u, id, public_key_from_master_key(mk))
  PROVE  Pairing(u, Generator * r) = Pairing(Gid(id) * r, public_key_from_master_key(mk))
<1> DEFINE g == Gid(id)
<1>1. g \in Nat
  BY H1Assumption DEF Gid, hash_to_g1
<1>2. u * 1 = g * (1 * mk)
  BY DEF verify_user_secret_key, public_key_from_master_key, Pairing, Generator, Gid
<1> HIDE DEF g
<1>3. u = g * mk
  BY <1>1, <1>2
<1>4. u * (1 * r) = (g * r) * (1 * mk)
  BY <1>1, <1>3
<1> QED
  BY <1>4 DEF g, Pairing, Generator, public_key_from_master_key

(* The key for the server of place k unmasks what was masked for the k-th  *)
(* of some public keys.                                                    *)
FitsPublicKey(usks, public_keys, request, seed, k) ==
  Pairing(usks[request.key_servers[k]], Generator * seed)
    = Pairing(Gid(create_full_id(request.package_id, request.id)) * seed, public_keys[k])

KeysFit(eo, usks, request, seed) ==
  \A k \in HeldPlaces(eo, usks) :
    FitsPublicKey(usks, request.public_keys, request, seed, k)

(* public_keys is None or the list that the object was sealed with. *)
NoneOrOwn(public_keys, request) == public_keys \in {<<>>, <<request.public_keys>>}

(* The decryption of what was encrypted, under the same key. *)
OpensToInput(eo, usks, public_keys, request) ==
  \E key : seal_decrypt(eo, usks, public_keys) = DemDecrypt(DemEncrypt(request.input, key), key)

LEMMA MadeOpens ==
  ASSUME NEW eo, NEW seed \in Scalar, NEW request, NEW shares, NEW n,
         Bound(eo, eo, request), Assembled(eo, seed, request),
         Made(eo, seed, request, shares, n),
         Len(request.public_keys) = n,
         NEW usks, NEW public_keys, NoneOrOwn(public_keys, request),
         HeldCount(eo, usks) >= request.threshold,
         KeysFit(eo, usks, request, seed)
  PROVE  OpensToInput(eo, usks, public_keys, request)
<1> DEFINE id == create_full_id(request.package_id, request.id)
           gid == Gid(id)
           pks == request.public_keys
<1>1. /\ n \in Nat
      /\ Sealing(eo, shares, seed, request, request.threshold, n, {})
      /\ eo.services = [k \in 1..n |-> <<request.key_servers[k], k>>]
  BY DEF Made
<1>2. WithPlaces(eo, n) /\ eo.nonce = Generator * seed
  BY <1>1 DEF Sealing
<1>3. /\ \A k \in 1..n : eo.services[k][1] = request.key_servers[k]
      /\ \A k \in 1..n : eo.services[k][2] = k
  BY <1>1
<1>4. HeldPlaces(eo, usks) \subseteq 1..n
  BY <1>2 DEF HeldPlaces, WithPlaces
<1>5. FullIdOf(eo) = id /\ eo.version = 0 /\ eo.threshold = request.threshold
  BY DEF FullIdOf, Assembled, Assemble
<1>6. \A k \in HeldPlaces(eo, usks) :
        Pairing(usks[request.key_servers[k]], eo.nonce) = Pairing(gid * seed, pks[k])
  BY <1>2 DEF KeysFit, FitsPublicKey
<1>7. eo.ciphertext = DemEncrypt(request.input, DemKeyOf(eo, BaseKey(seed)))
  <2>1. ServerIds(eo.services) = request.key_servers
    BY DEF Bound
  <2> QED
    BY <2>1 DEF Assembled, Assemble, DemKeyOf
<1>8. DOMAIN eo.services = 1..n /\ Len(eo.services) = n /\ Len(eo.encrypted_shares) = n
  BY <1>1, <1>2, ArraysDomain, LenDomain DEF WithPlaces
<1> HIDE DEF id, pks
<1>9. VerifiedRandomness(eo, BaseKey(seed)) = Ok(seed)
  BY VerifiedOriginal
<1>10. \A k \in HeldPlaces(eo, usks) : HeldSymbol(eo, usks, k) = MaskSymbol(seed, request, k)
  BY <1>2, <1>3, <1>4, <1>5, <1>6 DEF HeldSymbol, MaskSymbol, id, pks
<1>11. \A k \in 1..n :
         OpenedSymbol(eo, seed, FullIdOf(eo), pks, k) = MaskSymbol(seed, request, k)
  BY <1>3, <1>5 DEF OpenedSymbol, MaskSymbol, id, pks
<1>12. public_keys # <<>> =>
         /\ Len(public_keys[1]) = Len(eo.encrypted_shares)
         /\ \A k \in 1..n :
              OpenedSymbol(eo, seed, FullIdOf(eo), public_keys[1], k)
                = MaskSymbol(seed, request, k)
  BY <1>8, <1>11 DEF pks, NoneOrOwn
<1>13. Opening(eo, usks, public_keys, BaseKey(seed))
  BY <1>1, <1>3, <1>9, <1>10, <1>12, HonestOpens
<1> DEFINE combined == Combined(eo, usks, public_keys)
<1>14. combined.ok /\ combined.val = BaseKey(seed)
  BY <1>1, <1>2, <1>13, CoefficientArrays, CombinedWhen
<1>15. HoldsEnough(eo, usks)
  BY <1>5 DEF HoldsEnough, HeldCount
<1>16. seal_decrypt(eo, usks, public_keys) = DemDecrypt(eo.ciphertext, DemKeyOf(eo, combined.val))
  <2>1. /\ n \in Nat /\ DOMAIN eo.services = 1..n
        /\ eo.version = 0 /\ Len(eo.encrypted_shares) = Len(eo.services)
        /\ Combined(eo, usks, public_keys).ok
    BY <1>1, <1>5, <1>8, <1>14
  <2> QED
    BY <1>15, <2>1, DecryptParts
<1> QED
  BY <1>7, <1>14, <1>16 DEF OpensToInput

(* dem.rs:30-78: who has the key decrypts what was encrypted. *)
LEMMA DemWorks ==
  ASSUME NEW input, NEW key, IsSequence(input.data),
         input.mode \in {"Aes256Gcm", "Hmac256Ctr", "Plain"}
  PROVE  DemDecrypt(DemEncrypt(input, key), key)
           = Ok(IF input.mode = "Plain" THEN <<key>> ELSE input.data)
<1> DEFINE c == DemEncrypt(input, key)
           aad == unwrap_or_empty(c.aad)
<1>1. /\ c.mode = "Aes256Gcm" => DemDecrypt(c, key) = Aes256GcmDecrypt(c.blob, aad, key)
      /\ c.mode = "Hmac256Ctr" => DemDecrypt(c, key) = Hmac256CtrDecrypt(c.blob, c.mac, aad, key)
      /\ c.mode = "Plain" => DemDecrypt(c, key) = Ok(<<key>>)
  <2> HIDE DEF c
  <2> QED
    BY DEF DemDecrypt
<1>2. CASE input.mode = "Aes256Gcm"
  <2> DEFINE stream == GcmStream(key, input.data)
             tag == GcmTag(key, aad, stream)
  <2>1. /\ c.mode = "Aes256Gcm" /\ c.aad = input.aad
        /\ c.blob = Aes256GcmEncrypt(input.data, unwrap_or_empty(input.aad), key)
    BY <1>2, DemEncryptFacts
  <2>2. c.blob = Append(stream, tag)
    BY <2>1 DEF Aes256GcmEncrypt
  <2>3. IsSequence(stream) /\ GcmStream(key, stream) = input.data
    BY StreamIsSequence, GcmTwice
  <2> HIDE DEF c, stream
  <2>4. c.blob # <<>> /\ Last(c.blob) = tag /\ Front(c.blob) = stream
    BY <2>2, <2>3, FrontOfAppend
  <2>5. Aes256GcmDecrypt(c.blob, aad, key) = Ok(GcmStream(key, stream))
    BY <2>4 DEF Aes256GcmDecrypt
  <2>6. DemDecrypt(c, key) = Ok(input.data)
    BY <1>1, <2>1, <2>3, <2>5
  <2> QED
    BY <1>2, <2>6 DEF c
<1>3. CASE input.mode = "Hmac256Ctr"
  <2>1. /\ c.mode = "Hmac256Ctr" /\ c.aad = input.aad
        /\ c.blob = encrypt_in_ctr_mode(key, input.data)
        /\ c.mac = Hmac256CtrEncrypt(input.data, unwrap_or_empty(input.aad), key).mac
    BY <1>3, DemEncryptFacts
  <2>2. c.mac = compute_mac(key, aad, c.blob)
    BY <2>1 DEF Hmac256CtrEncrypt
  <2>3. encrypt_in_ctr_mode(key, c.blob) = input.data
    BY <2>1, CtrTwice
  <2> HIDE DEF c
  <2>4. Hmac256CtrDecrypt(c.blob, c.mac, aad, key) = Ok(encrypt_in_ctr_mode(key, c.blob))
    BY <2>2 DEF Hmac256CtrDecrypt
  <2>5. DemDecrypt(c, key) = Ok(input.data)
    BY <1>1, <2>1, <2>3, <2>4
  <2> QED
    BY <1>3, <2>5 DEF c
<1>4. CASE input.mode = "Plain"
  <2>1. c.mode = "Plain"
    BY <1>4, DemEncryptFacts
  <2> QED
    BY <1>1, <1>4, <2>1
<1> QED
  BY <1>2, <1>3, <1>4
=============================================================================
