---------------------------- MODULE LoginProofs ----------------------------
(***************************************************************************)
(* Theorems about Login and the derivation of addresses in ZkLogin, for    *)
(* every value of their constants: bytes of any width, seeds of any length *)
(* that a byte can tell, issuers of any length. Induction and folds are    *)
(* those of FieldProofs.                                                   *)
(***************************************************************************)
EXTENDS Login, FieldProofs, SequenceTheorems

-----------------------------------------------------------------------------
(* Arithmetic. *)

(* Two numbers with one remainder are equal or at least the divisor apart. *)
LEMMA SameRemainder ==
  ASSUME NEW d \in Nat \ {0}, NEW a \in Nat, NEW b \in Nat, a % d = b % d, a < b
  PROVE  b - a >= d
<1> DEFINE p == a \div d
           q == b \div d
<1>1. p \in Nat /\ a = (d * p) + (a % d)
  OBVIOUS
<1>2. q \in Nat /\ b = (d * q) + (b % d)
  OBVIOUS
<1>3. b - a = d * (q - p)
  BY <1>1, <1>2
<1>4. q - p >= 1
  BY <1>1, <1>2, <1>3
<1> QED
  BY <1>3, <1>4, <1>1, <1>2

LEMMA SmallRemainder ==
  ASSUME NEW m \in Nat, NEW n \in 0..m
  PROVE  n % (m + 1) = n
OBVIOUS

LEMMA SameSum ==
  ASSUME NEW a \in Nat, NEW b \in Nat, NEW c \in Nat, NEW d \in Nat,
         2 + a + b = 2 + c + d
  PROVE  a + b = c + d
OBVIOUS

-----------------------------------------------------------------------------
(* Seeds. *)

(* strip_seed_leading_zeros keeps a suffix that is not empty, and takes    *)
(* only zeros away.                                                        *)
LEMMA StripKeepsSuffix ==
  ASSUME NEW seed \in Seq(U8), Len(seed) = SeedLength
  PROVE  \E k \in 1..SeedLength :
           /\ strip_seed_leading_zeros(seed) = SubSeq(seed, k, SeedLength)
           /\ strip_seed_leading_zeros(seed) \in Seq(U8)
           /\ Len(strip_seed_leading_zeros(seed)) = SeedLength - k + 1
           /\ \A j \in 1..SeedLength - k + 1 :
                strip_seed_leading_zeros(seed)[j] = seed[k + j - 1]
           /\ \A j \in 1..(k - 1) : seed[j] = 0
           /\ seed[k] # 0 \/ k = SeedLength
           /\ seed[1] # 0 => k = 1
<1> DEFINE Kept == {i \in 1..SeedLength : seed[i] # 0 \/ i = SeedLength}
<1>1. SeedLength \in Nat /\ SeedLength >= 1 /\ DOMAIN seed = 1..SeedLength
  BY SeedLengthAssumption, U8MaxAssumption, LenProperties
<1>2. SeedLength \in Kept /\ Kept \in SUBSET Nat
  BY <1>1
<1>3. PICK k \in Kept : \A i \in Kept : k <= i
  BY <1>2, LeastElement
<1>4. \A j \in 1..(k - 1) : seed[j] = 0
  BY <1>1, <1>3
<1>5. \E i \in DOMAIN seed : /\ \A j \in 1..(i - 1) : seed[j] = 0
                             /\ seed[i] # 0 \/ i = Len(seed)
  BY <1>1, <1>3, <1>4
<1> DEFINE f == FirstKept(seed)
<1>6. /\ f \in 1..SeedLength
      /\ \A j \in 1..(f - 1) : seed[j] = 0
      /\ seed[f] # 0 \/ f = SeedLength
  BY <1>1, <1>5 DEF FirstKept
<1>7. strip_seed_leading_zeros(seed) = SubSeq(seed, f, SeedLength)
  BY DEF strip_seed_leading_zeros
<1>8. /\ SubSeq(seed, f, SeedLength) \in Seq(U8)
      /\ Len(SubSeq(seed, f, SeedLength)) = SeedLength - f + 1
      /\ \A j \in 1..SeedLength - f + 1 :
           SubSeq(seed, f, SeedLength)[j] = seed[f + j - 1]
  BY <1>1, <1>6, SubSeqProperties
<1>9. seed[1] # 0 => f = 1
  BY <1>1, <1>6
<1> HIDE DEF f
<1> QED
  BY <1>6, <1>7, <1>8, <1>9

(* Seeds of one length that leave the same are the same. *)
LEMMA StripInjective ==
  ASSUME NEW a \in Seq(U8), NEW b \in Seq(U8), Len(a) = SeedLength, Len(b) = SeedLength,
         strip_seed_leading_zeros(a) = strip_seed_leading_zeros(b)
  PROVE  a = b
<1>0. SeedLength \in Nat /\ SeedLength >= 1
  BY SeedLengthAssumption, U8MaxAssumption
<1>1. PICK k \in 1..SeedLength :
        /\ Len(strip_seed_leading_zeros(a)) = SeedLength - k + 1
        /\ \A j \in 1..SeedLength - k + 1 : strip_seed_leading_zeros(a)[j] = a[k + j - 1]
        /\ \A j \in 1..(k - 1) : a[j] = 0
  BY StripKeepsSuffix
<1>2. PICK l \in 1..SeedLength :
        /\ Len(strip_seed_leading_zeros(b)) = SeedLength - l + 1
        /\ \A j \in 1..SeedLength - l + 1 : strip_seed_leading_zeros(b)[j] = b[l + j - 1]
        /\ \A j \in 1..(l - 1) : b[j] = 0
  BY StripKeepsSuffix
<1>3. k = l
  BY <1>0, <1>1, <1>2
<1>4. ASSUME NEW i \in 1..SeedLength PROVE a[i] = b[i]
  <2>1. CASE i < k
    BY <2>1, <1>0, <1>1, <1>2, <1>3
  <2>2. CASE i >= k
    <3>1. i - k + 1 \in 1..SeedLength - k + 1 /\ k + (i - k + 1) - 1 = i
      BY <2>2, <1>0
    <3> QED
      BY <3>1, <1>1, <1>2, <1>3
  <2> QED
    BY <2>1, <2>2, <1>0
<1> QED
  BY <1>4, SeqEqual, <1>0

(* What is hashed of a seed. *)
Hashed(seed, legacy) == IF legacy THEN seed ELSE strip_seed_leading_zeros(seed)

LEMMA HashedFacts ==
  ASSUME NEW seed \in Seq(U8), Len(seed) = SeedLength, NEW legacy
  PROVE  Hashed(seed, legacy) \in Seq(U8) /\ Len(Hashed(seed, legacy)) \in 1..SeedLength
<1>0. SeedLength \in Nat /\ SeedLength >= 1
  BY SeedLengthAssumption, U8MaxAssumption
<1>1. PICK k \in 1..SeedLength :
        /\ strip_seed_leading_zeros(seed) \in Seq(U8)
        /\ Len(strip_seed_leading_zeros(seed)) = SeedLength - k + 1
  BY StripKeepsSuffix
<1> QED
  BY <1>0, <1>1 DEF Hashed

(* A seed is hashed alike, legacy or not, exactly if it has no leading     *)
(* zero to strip.                                                          *)
LEMMA HashedAlike ==
  ASSUME NEW a \in Seq(U8), NEW b \in Seq(U8), Len(a) = SeedLength, Len(b) = SeedLength,
         NEW la \in BOOLEAN, NEW lb \in BOOLEAN
  PROVE  Hashed(a, la) = Hashed(b, lb) <=>
           a = b /\ (la = lb \/ SeedLength = 1 \/ a[1] # 0)
<1>0. SeedLength \in Nat /\ SeedLength >= 1
  BY SeedLengthAssumption, U8MaxAssumption
<1>1. ASSUME NEW seed \in Seq(U8), Len(seed) = SeedLength
      PROVE  (strip_seed_leading_zeros(seed) = seed) <=> (SeedLength = 1 \/ seed[1] # 0)
  <2>1. PICK k \in 1..SeedLength :
          /\ strip_seed_leading_zeros(seed) = SubSeq(seed, k, SeedLength)
          /\ Len(strip_seed_leading_zeros(seed)) = SeedLength - k + 1
          /\ \A j \in 1..(k - 1) : seed[j] = 0
          /\ seed[k] # 0 \/ k = SeedLength
    BY <1>1, StripKeepsSuffix
  <2>2. CASE k = 1
    <3>1. strip_seed_leading_zeros(seed) = seed
      BY <2>1, <2>2, <1>1, SubSeqFull
    <3> QED
      BY <3>1, <2>1, <2>2
  <2>3. CASE k # 1
    BY <2>1, <2>3, <1>0, <1>1
  <2> QED
    BY <2>2, <2>3
<1>2. ASSUME NEW x \in Seq(U8), NEW y \in Seq(U8), Len(x) = SeedLength, Len(y) = SeedLength,
             strip_seed_leading_zeros(x) = y
      PROVE  x = y /\ (SeedLength = 1 \/ x[1] # 0)
  <2>1. PICK k \in 1..SeedLength :
          /\ strip_seed_leading_zeros(x) = SubSeq(x, k, SeedLength)
          /\ Len(strip_seed_leading_zeros(x)) = SeedLength - k + 1
    BY <1>2, StripKeepsSuffix
  <2>2. k = 1
    BY <2>1, <1>2, <1>0
  <2>3. strip_seed_leading_zeros(x) = x
    BY <2>1, <2>2, <1>2, SubSeqFull
  <2> QED
    BY <2>3, <1>1, <1>2
<1>3. CASE la /\ lb
  BY <1>3 DEF Hashed
<1>4. CASE ~la /\ ~lb
  BY <1>4, StripInjective DEF Hashed
<1>5. CASE la /\ ~lb
  BY <1>5, <1>1, <1>2 DEF Hashed
<1>6. CASE ~la /\ lb
  BY <1>6, <1>1, <1>2 DEF Hashed
<1> QED
  BY <1>3, <1>4, <1>5, <1>6

-----------------------------------------------------------------------------
(* Numbers and their bytes. *)

Radix == U8Max + 1

LEMMA RadixFacts ==
  /\ U8Max \in Nat /\ Radix \in Nat \ {0} /\ SeedLength \in Nat /\ SeedLength >= 1
  /\ SeedLength \in 1..SeedLength
BY U8MaxAssumption, SeedLengthAssumption DEF Radix

LEMMA Divide ==
  ASSUME NEW d \in Nat \ {0}, NEW n \in Nat
  PROVE  /\ n \div d \in Nat /\ n % d \in 0..(d - 1)
         /\ n = (n \div d) * d + (n % d)
         /\ n \div d = 0 => n % d = n
OBVIOUS

IsQuotients(q, n, k) ==
  q = [i \in 0..k |-> IF i = 0 THEN n ELSE q[i - 1] \div Radix]

LEMMA QuotientsExist ==
  ASSUME NEW n \in Nat
  PROVE  \E q : IsQuotients(q, n, SeedLength)
<1> DEFINE Exists(k) == \E q : IsQuotients(q, n, k)
           S == {k \in 0..SeedLength : Exists(k)}
<1>1. Exists(0)
  <2> DEFINE q == [i \in 0..0 |-> n]
  <2>1. IsQuotients(q, n, 0)
    BY DEF IsQuotients
  <2> QED
    BY <2>1
<1>2. ASSUME NEW k \in 0..(SeedLength - 1), Exists(k) PROVE Exists(k + 1)
  <2>1. PICK q : IsQuotients(q, n, k)
    BY <1>2
  <2> DEFINE r == [i \in 0..(k + 1) |-> IF i = k + 1 THEN q[k] \div Radix ELSE q[i]]
  <2>2. k \in Nat
    BY RadixFacts
  <2>3. ASSUME NEW i \in 0..(k + 1)
        PROVE  r[i] = IF i = 0 THEN n ELSE r[i - 1] \div Radix
    <3>1. CASE i = k + 1
      BY <2>2, <3>1
    <3>2. CASE i # k + 1
      <4>1. i \in 0..k /\ r[i] = q[i] /\ (i # 0 => r[i - 1] = q[i - 1])
        BY <2>2, <3>2
      <4>2. q[i] = IF i = 0 THEN n ELSE q[i - 1] \div Radix
        BY <2>1, <4>1 DEF IsQuotients
      <4> QED
        BY <4>1, <4>2
    <3> QED
      BY <3>1, <3>2
  <2>4. IsQuotients(r, n, k + 1)
    BY <2>3 DEF IsQuotients
  <2> QED
    BY <2>4
<1> QED
  <2> HIDE DEF Exists
  <2>1. 0 \in S /\ \A k \in 0..(SeedLength - 1) : k \in S => k + 1 \in S
    BY <1>1, <1>2, RadixFacts
  <2>2. 0..SeedLength \subseteq S
    <3> HIDE DEF S
    <3> QED BY <2>1, UpToInduction, RadixFacts
  <2>3. Exists(SeedLength)
    BY <2>2, RadixFacts
  <2> QED
    BY <2>3 DEF Exists

LEMMA QuotientsFacts ==
  ASSUME NEW n \in Nat
  PROVE  /\ Quotients(n) \in [0..SeedLength -> Nat]
         /\ Quotients(n)[0] = n
         /\ \A k \in 1..SeedLength : Quotients(n)[k] = Quotients(n)[k - 1] \div Radix
<1> DEFINE q == Quotients(n)
           S == {k \in 0..SeedLength : q[k] \in Nat}
<1>1. IsQuotients(q, n, SeedLength)
  BY QuotientsExist DEF Quotients, IsQuotients, Radix
<1> HIDE DEF q
<1>2. \A k \in 0..SeedLength : q[k] = IF k = 0 THEN n ELSE q[k - 1] \div Radix
  BY <1>1 DEF IsQuotients
<1>3. q[0] = n /\ \A k \in 1..SeedLength : q[k] = q[k - 1] \div Radix
  BY <1>2, RadixFacts
<1>4. 0..SeedLength \subseteq S
  <2>1. 0 \in S
    BY <1>3, RadixFacts
  <2>2. ASSUME NEW k \in 0..(SeedLength - 1), k \in S PROVE k + 1 \in S
    <3>1. k + 1 \in 1..SeedLength /\ (k + 1) - 1 = k /\ q[k] \in Nat
      BY <2>2, RadixFacts
    <3>2. q[k + 1] = q[k] \div Radix
      BY <1>3, <3>1
    <3>3. q[k] \div Radix \in Nat
      BY <3>1, Divide, RadixFacts
    <3>4. k + 1 \in 0..SeedLength
      BY <2>2, RadixFacts
    <3> QED
      BY <3>2, <3>3, <3>4
  <2> HIDE DEF S
  <2> QED
    BY <2>1, <2>2, UpToInduction, RadixFacts
<1>5. q \in [0..SeedLength -> Nat]
  <2>1. q = [k \in 0..SeedLength |-> q[k]]
    BY <1>1 DEF IsQuotients
  <2> QED
    BY <1>4, <2>1
<1> QED
  BY <1>3, <1>5 DEF q

(* The bytes of a number, the shortest that say it.                        *)
BytesOf(s, n, length) ==
  /\ length \in 1..SeedLength
  /\ s \in Seq(U8) /\ Len(s) = length
  /\ \A i \in 1..length : s[i] = Quotients(n)[length - i] % Radix
  /\ Quotients(n)[length] = 0
  /\ length = 1 \/ s[1] # 0

LEMMA EncodingFacts ==
  ASSUME NEW n \in Nat, Quotients(n)[SeedLength] = 0
  PROVE  \E length : BytesOf(to_bytes_be(n), n, length)
<1> DEFINE q == Quotients(n)
           T == {k \in 1..SeedLength : q[k] = 0}
           Shortest(k) == q[k] = 0 /\ \A j \in 1..(k - 1) : q[j] # 0
           length == CHOOSE k \in 1..SeedLength : Shortest(k)
           s == [i \in 1..length |-> q[length - i] % Radix]
<1>1. /\ q \in [0..SeedLength -> Nat]
      /\ \A k \in 1..SeedLength : q[k] = q[k - 1] \div Radix
  BY QuotientsFacts
<1>2. to_bytes_be(n) = s
  BY DEF to_bytes_be, Radix
<1> HIDE DEF q
<1>3. \E k \in 1..SeedLength : Shortest(k)
  <2>1. T \in SUBSET Nat /\ SeedLength \in T
    BY RadixFacts DEF q
  <2>2. PICK m \in T : \A k \in T : m <= k
    BY <2>1, LeastElement
  <2>3. ASSUME NEW j \in 1..(m - 1) PROVE q[j] # 0
    <3>1. j \in 1..SeedLength /\ ~(m <= j)
      BY RadixFacts
    <3> QED
      BY <2>2, <3>1
  <2> QED
    BY <2>2, <2>3
<1>4. length \in 1..SeedLength /\ Shortest(length)
  BY <1>3
<1> HIDE DEF length
<1>5. length \in Nat /\ length >= 1
  BY <1>4
<1>6. ASSUME NEW i \in 1..length PROVE q[length - i] % Radix \in U8
  <2>1. length - i \in 0..SeedLength
    BY <1>4, <1>5, RadixFacts
  <2>2. q[length - i] % Radix \in 0..(Radix - 1)
    BY <1>1, <2>1, Divide, RadixFacts
  <2> QED
    BY <2>2, RadixFacts DEF U8, Radix
<1>7. s \in Seq(U8) /\ Len(s) = length /\ DOMAIN s = 1..length
  BY <1>5, <1>6
<1>8. \A i \in 1..length : s[i] = q[length - i] % Radix
  OBVIOUS
<1>9. ASSUME length # 1 PROVE s[1] # 0
  <2>1. length - 1 \in 1..(length - 1) /\ length - 1 \in 0..SeedLength /\ 1 \in 1..length
    BY <1>4, <1>5, <1>9, RadixFacts
  <2>2. q[length - 1] # 0 /\ q[length - 1] \in Nat
    BY <1>1, <1>4, <2>1
  <2>3. q[length - 1] \div Radix = 0
    BY <1>1, <1>4
  <2>4. q[length - 1] % Radix = q[length - 1]
    BY <2>2, <2>3, Divide, RadixFacts
  <2> QED
    BY <1>8, <2>1, <2>2, <2>4
<1> HIDE DEF s
<1>10. BytesOf(s, n, length)
  BY <1>4, <1>7, <1>8, <1>9 DEF BytesOf, q
<1> QED
  BY <1>2, <1>10

(* What from_bytes_be goes through. *)
LEMMA ValueSteps ==
  ASSUME NEW n \in Nat, NEW s \in [1..n -> U8]
  PROVE  \E F \in [0..n -> Nat] :
           /\ F[0] = 0
           /\ \A k \in 1..n : F[k] = F[k - 1] * Radix + s[k]
           /\ F[n] = from_bytes_be(s)
<1> DEFINE op == [i \in 1..n |-> [v \in Nat |-> v * Radix + s[i]]]
           IsFold(f) ==
             f = [t \in SUBSET (1..n) |->
                    IF t = {} THEN 0 ELSE f[t \ {Max(t)}] * Radix + s[Max(t)]]
           iter == CHOOSE f : IsFold(f)
<1>1. 0 \in Nat /\ op \in [1..n -> [Nat -> Nat]] /\ 1..n \in SUBSET (1..n)
  <2>1. \A i \in 1..n, v \in Nat : v * Radix + s[i] \in Nat
    <3>1. \A i \in 1..n : s[i] \in Nat
      BY RadixFacts DEF U8
    <3>2. \A a \in Nat, b \in Nat, c \in Nat : a * b + c \in Nat
      OBVIOUS
    <3> QED
      BY <3>1, <3>2, RadixFacts
  <2> QED
    BY <2>1
<1>2. \A t \in SUBSET (1..n), v \in Nat : t # {} => op[Max(t)][v] = v * Radix + s[Max(t)]
  BY MaxInSet
<1>3. \E f : IsFold(f)
  <2>1. PICK f \in [SUBSET (1..n) -> Nat] : FoldsUp(f, 1..n, 0, op)
    <3> HIDE DEF op
    <3> QED BY <1>1, FoldUpExists
  <2>2. \A t \in SUBSET (1..n) :
          t # {} => op[Max(t)][f[t \ {Max(t)}]] = f[t \ {Max(t)}] * Radix + s[Max(t)]
    BY <1>2, <2>1
  <2> HIDE DEF op
  <2>3. IsFold(f)
    BY <2>1, <2>2 DEF FoldsUp
  <2> QED
    BY <2>3
<1>4. IsFold(iter)
  BY <1>3
<1>5. from_bytes_be(s) = iter[1..n]
  BY DEF from_bytes_be, FoldLeft, MapThenFoldSet, Radix
<1>6. iter[{}] = 0 /\ StepsUp(iter, 1..n, Nat, op)
  <2> HIDE DEF op, iter
  <2> QED
    BY <1>2, <1>4 DEF StepsUp
<1>7. \A k \in 1..n, v \in Nat : op[k][v] = v * Radix + s[k]
  OBVIOUS
<1> HIDE DEF op, iter
<1>8. PICK F \in [0..n -> Nat] : RunsUp(F, n, 1..n, 0, op) /\ F[n] = iter[1..n]
  <2>1. \A V : /\ 0 \in V /\ op \in [1..n -> [V -> V]]
               /\ StepsUp(iter, 1..n, V, op)
               => \E F \in [0..n -> V] : RunsUp(F, n, 1..n, 0, op) /\ F[n] = iter[1..n]
    BY <1>1, <1>6, FoldUp
  <2> QED
    BY <1>1, <1>6, <2>1
<1>9. \A k \in 1..n : F[k - 1] \in Nat
  OBVIOUS
<1> QED
  BY <1>5, <1>7, <1>8, <1>9 DEF RunsUp

(* Bytes after zeros. *)
LEMMA PaddedFacts ==
  ASSUME NEW z \in Nat, NEW b \in Seq(U8)
  PROVE  /\ Zeros(z) \o b \in Seq(U8) /\ Len(Zeros(z) \o b) = z + Len(b)
         /\ \A i \in 1..z : (Zeros(z) \o b)[i] = 0
         /\ \A i \in 1..Len(b) : (Zeros(z) \o b)[z + i] = b[i]
<1>1. Zeros(z) \in Seq(U8) /\ Len(Zeros(z)) = z /\ \A i \in 1..z : Zeros(z)[i] = 0
  <2>1. 0 \in U8
    BY RadixFacts DEF U8
  <2> QED
    BY <2>1 DEF Zeros
<1>2. /\ Zeros(z) \o b \in Seq(U8) /\ Len(Zeros(z) \o b) = z + Len(b)
      /\ \A i \in 1..(z + Len(b)) :
           (Zeros(z) \o b)[i] = IF i <= z THEN Zeros(z)[i] ELSE b[i - z]
  BY <1>1, ConcatProperties
<1>3. Len(b) \in Nat
  BY LenProperties
<1>4. ASSUME NEW i \in 1..z PROVE (Zeros(z) \o b)[i] = 0
  <2>1. i \in 1..(z + Len(b)) /\ i <= z
    BY <1>3
  <2> QED
    BY <1>1, <1>2, <2>1
<1>5. ASSUME NEW i \in 1..Len(b) PROVE (Zeros(z) \o b)[z + i] = b[i]
  <2>1. z + i \in 1..(z + Len(b)) /\ ~(z + i <= z) /\ (z + i) - z = i
    BY <1>3
  <2> QED
    BY <1>2, <2>1
<1> QED
  BY <1>2, <1>4, <1>5

(* from_bytes_be reads what to_bytes_be wrote, whatever zeros precede it.  *)
LEMMA DecodeEncode ==
  ASSUME NEW n \in Nat, NEW b, NEW length, BytesOf(b, n, length), NEW z \in Nat
  PROVE  from_bytes_be(Zeros(z) \o b) = n
<1> DEFINE s == Zeros(z) \o b
           q == Quotients(n)
<1>1. /\ length \in 1..SeedLength /\ length \in Nat /\ b \in Seq(U8) /\ Len(b) = length
      /\ \A i \in 1..length : b[i] = q[length - i] % Radix
      /\ q[length] = 0
  BY RadixFacts DEF BytesOf
<1>2. /\ s \in Seq(U8) /\ Len(s) = z + length
      /\ \A i \in 1..z : s[i] = 0
      /\ \A i \in 1..length : s[z + i] = b[i]
  BY <1>1, PaddedFacts
<1>3. /\ q \in [0..SeedLength -> Nat] /\ q[0] = n
      /\ \A k \in 1..SeedLength : q[k] = q[k - 1] \div Radix
  BY QuotientsFacts
<1> HIDE DEF s, q
<1>4. s \in [1..(z + length) -> U8] /\ z + length \in Nat
  BY <1>1, <1>2, LenProperties
<1>5. PICK F \in [0..(z + length) -> Nat] :
        /\ F[0] = 0
        /\ \A k \in 1..(z + length) : F[k] = F[k - 1] * Radix + s[k]
        /\ F[z + length] = from_bytes_be(s)
  BY <1>4, ValueSteps
<1>6. F[z] = 0
  <2> DEFINE S == {k \in 0..z : F[k] = 0}
  <2>1. 0 \in S
    BY <1>5
  <2>2. ASSUME NEW k \in 0..(z - 1), k \in S PROVE k + 1 \in S
    <3>1. /\ k + 1 \in 1..(z + length) /\ k + 1 \in 1..z /\ (k + 1) - 1 = k /\ k + 1 \in 0..z
          /\ F[k] = 0
      BY <1>1, <2>2
    <3>2. F[k + 1] = 0 * Radix + 0
      BY <1>2, <1>5, <3>1
    <3> QED
      BY <3>1, <3>2, RadixFacts
  <2> HIDE DEF S
  <2>3. 0..z \subseteq S
    BY <2>1, <2>2, UpToInduction
  <2> QED
    BY <2>3 DEF S
<1>7. 0..length \subseteq {k \in 0..length : F[z + k] = q[length - k]}
  <2> DEFINE S == {k \in 0..length : F[z + k] = q[length - k]}
  <2>1. 0 \in S
    BY <1>1, <1>6
  <2>2. ASSUME NEW k \in 0..(length - 1), k \in S PROVE k + 1 \in S
    <3> DEFINE m == length - (k + 1)
    <3>1. /\ m \in 0..SeedLength /\ length - k \in 1..SeedLength /\ (length - k) - 1 = m
          /\ k + 1 \in 1..length /\ k + 1 \in 0..length
          /\ z + (k + 1) \in 1..(z + length) /\ (z + (k + 1)) - 1 = z + k
      BY <1>1, RadixFacts
    <3>2. F[z + k] = q[length - k] /\ q[length - k] = q[m] \div Radix /\ q[m] \in Nat
      BY <1>3, <2>2, <3>1
    <3>3. s[z + (k + 1)] = q[m] % Radix
      BY <1>1, <1>2, <3>1
    <3> HIDE DEF m
    <3>4. F[z + (k + 1)] = F[z + k] * Radix + s[z + (k + 1)]
      BY <1>5, <3>1
    <3>5. F[z + (k + 1)] = (q[m] \div Radix) * Radix + (q[m] % Radix)
      BY <3>2, <3>3, <3>4
    <3>6. F[z + (k + 1)] = q[m]
      BY <3>2, <3>5, Divide, RadixFacts
    <3> QED
      BY <3>1, <3>6 DEF m
  <2> HIDE DEF S
  <2>3. 0..length \subseteq S
    BY <1>1, <2>1, <2>2, UpToInduction
  <2> QED
    BY <2>3 DEF S
<1>8. F[z + length] = q[0]
  <2>1. length \in 0..length /\ length - length = 0
    BY <1>1
  <2> QED
    BY <1>7, <2>1
<1> QED
  BY <1>3, <1>5, <1>8 DEF s

(* The seed that compute_address_seed makes of a number: to be stripped to *)
(* the bytes, to be read as the number.                                    *)
SeedOf(n) == Zeros(SeedLength - Len(to_bytes_be(n))) \o to_bytes_be(n)

LEMMA SeedFacts ==
  ASSUME NEW n \in Nat, Quotients(n)[SeedLength] = 0
  PROVE  /\ to_bytes_be(n) \in Seq(U8)
         /\ SeedOf(n) \in Seq(U8) /\ Len(SeedOf(n)) = SeedLength
         /\ strip_seed_leading_zeros(SeedOf(n)) = to_bytes_be(n)
         /\ from_bytes_be(SeedOf(n)) = n
<1> DEFINE b == to_bytes_be(n)
           s == SeedOf(n)
<1>1. PICK length : BytesOf(b, n, length)
  BY EncodingFacts
<1> DEFINE z == SeedLength - length
<1>2. /\ b \in Seq(U8) /\ Len(b) = length /\ length \in 1..SeedLength /\ z \in Nat
      /\ length \in Nat /\ z + length = SeedLength
      /\ length = 1 \/ b[1] # 0
  BY <1>1, RadixFacts DEF BytesOf
<1>3. s = Zeros(z) \o b
  BY <1>2 DEF SeedOf
<1> HIDE DEF b, z, s
<1>4. from_bytes_be(s) = n
  BY <1>1, <1>2, <1>3, DecodeEncode
<1>5. /\ s \in Seq(U8) /\ Len(s) = SeedLength
      /\ \A i \in 1..z : s[i] = 0
      /\ \A i \in 1..length : s[z + i] = b[i]
  <2>1. /\ Zeros(z) \o b \in Seq(U8) /\ Len(Zeros(z) \o b) = z + Len(b)
        /\ \A i \in 1..z : (Zeros(z) \o b)[i] = 0
        /\ \A i \in 1..Len(b) : (Zeros(z) \o b)[z + i] = b[i]
    BY <1>2, PaddedFacts
  <2> QED
    BY <1>2, <1>3, <2>1
<1>6. PICK k \in 1..SeedLength :
        /\ strip_seed_leading_zeros(s) = SubSeq(s, k, SeedLength)
        /\ strip_seed_leading_zeros(s) \in Seq(U8)
        /\ Len(strip_seed_leading_zeros(s)) = SeedLength - k + 1
        /\ \A j \in 1..SeedLength - k + 1 : strip_seed_leading_zeros(s)[j] = s[k + j - 1]
        /\ \A j \in 1..(k - 1) : s[j] = 0
        /\ s[k] # 0 \/ k = SeedLength
        /\ s[1] # 0 => k = 1
  BY <1>5, StripKeepsSuffix
<1>7. k = z + 1
  <2>1. k >= z + 1
    <3>1. z < SeedLength
      BY <1>2, RadixFacts
    <3>2. ASSUME k \in 1..z PROVE FALSE
      <4>1. s[k] = 0 /\ k # SeedLength
        BY <1>2, <1>5, <3>1, <3>2
      <4> QED
        BY <1>6, <4>1
    <3> QED
      BY <1>2, <3>2, RadixFacts
  <2>2. CASE length = 1
    BY <1>2, <1>6, <2>1, <2>2, RadixFacts
  <2>3. CASE b[1] # 0
    <3>1. 1 \in 1..length
      BY <1>2
    <3>2. s[z + 1] # 0
      BY <1>5, <2>3, <3>1
    <3>3. ~(z + 1 \in 1..(k - 1))
      BY <1>6, <3>2
    <3> QED
      BY <1>2, <2>1, <3>3, RadixFacts
  <2> QED
    BY <1>2, <2>2, <2>3
<1>8. /\ Len(strip_seed_leading_zeros(s)) = length
      /\ \A j \in 1..length : strip_seed_leading_zeros(s)[j] = b[j]
  <2>1. SeedLength - k + 1 = length
    BY <1>2, <1>7, RadixFacts
  <2>2. \A j \in 1..length : k + j - 1 = z + j
    BY <1>2, <1>7
  <2>3. \A j \in 1..length : strip_seed_leading_zeros(s)[j] = s[k + j - 1]
    BY <1>6, <2>1
  <2>4. \A j \in 1..length : s[k + j - 1] = b[j]
    BY <1>5, <2>2
  <2> QED
    BY <1>6, <2>1, <2>3, <2>4
<1>9. strip_seed_leading_zeros(s) = b
  BY <1>2, <1>6, <1>8, SeqEqual
<1> QED
  BY <1>2, <1>4, <1>5, <1>9 DEF b, s

-----------------------------------------------------------------------------
(* Addresses. *)

LEMMA ConcatElements ==
  ASSUME NEW s \in Seq(Nat), NEW t \in Seq(Nat)
  PROVE  /\ s \o t \in Seq(Nat)
         /\ Len(s \o t) = Len(s) + Len(t)
         /\ \A i \in 1..Len(s) : (s \o t)[i] = s[i]
         /\ \A i \in 1..Len(t) : (s \o t)[Len(s) + i] = t[i]
<1>1. Len(s) \in Nat /\ Len(t) \in Nat
  BY LenProperties
<1>2. /\ s \o t \in Seq(Nat)
      /\ Len(s \o t) = Len(s) + Len(t)
      /\ \A i \in 1..Len(s) + Len(t) :
           (s \o t)[i] = IF i <= Len(s) THEN s[i] ELSE t[i - Len(s)]
  BY ConcatProperties
<1>3. ASSUME NEW i \in 1..Len(t) PROVE (s \o t)[Len(s) + i] = t[i]
  <2>1. Len(s) + i \in 1..Len(s) + Len(t) /\ ~(Len(s) + i <= Len(s))
        /\ (Len(s) + i) - Len(s) = i
    BY <1>1
  <2> QED
    BY <2>1, <1>2
<1>4. ASSUME NEW i \in 1..Len(s) PROVE (s \o t)[i] = s[i]
  BY <1>1, <1>2
<1> QED
  BY <1>2, <1>3, <1>4

(* The bytes that are hashed determine the issuer and the seed, although   *)
(* the length of the issuer is cast to a byte: a seed is too short to      *)
(* stand for what the cast loses.                                          *)
LEMMA HashInjective ==
  ASSUME NEW iss1 \in Seq(U8), NEW iss2 \in Seq(U8), NEW b1 \in Seq(U8), NEW b2 \in Seq(U8),
         Len(b1) \in 1..SeedLength, Len(b2) \in 1..SeedLength,
         hash_zklogin_address(iss1, b1) = hash_zklogin_address(iss2, b2)
  PROVE  iss1 = iss2 /\ b1 = b2
<1> DEFINE head(iss) == <<5, AsU8(Len(iss))>>
           bytes(iss, b) == (head(iss) \o iss) \o b
<1>0. /\ SeedLength \in Nat /\ U8Max \in Nat /\ SeedLength <= U8Max
      /\ Len(iss1) \in Nat /\ Len(iss2) \in Nat /\ Len(b1) \in Nat /\ Len(b2) \in Nat
  BY SeedLengthAssumption, U8MaxAssumption, LenProperties
<1>1. bytes(iss1, b1) = bytes(iss2, b2)
  BY DEF hash_zklogin_address
<1>2. ASSUME NEW iss \in Seq(U8), NEW b \in Seq(U8)
      PROVE  /\ Len(bytes(iss, b)) = 2 + Len(iss) + Len(b)
             /\ bytes(iss, b)[2] = AsU8(Len(iss))
             /\ \A i \in 1..Len(iss) : bytes(iss, b)[2 + i] = iss[i]
             /\ \A i \in 1..Len(b) : bytes(iss, b)[2 + Len(iss) + i] = b[i]
  <2>1. AsU8(Len(iss)) \in Nat /\ Len(iss) \in Nat /\ Len(b) \in Nat
    BY <1>0 DEF AsU8
  <2>2. head(iss) \in Seq(Nat) /\ Len(head(iss)) = 2 /\ head(iss)[2] = AsU8(Len(iss))
    BY <2>1
  <2>3. iss \in Seq(Nat) /\ b \in Seq(Nat)
    BY SeqMonotonic, <1>0 DEF U8
  <2> DEFINE h == head(iss)
             c == h \o iss
  <2>4. /\ c \in Seq(Nat) /\ Len(c) = 2 + Len(iss)
        /\ c[2] = AsU8(Len(iss))
        /\ \A i \in 1..Len(iss) : c[2 + i] = iss[i]
    <3> HIDE DEF h
    <3>1. /\ h \o iss \in Seq(Nat) /\ Len(h \o iss) = Len(h) + Len(iss)
          /\ \A i \in 1..Len(h) : (h \o iss)[i] = h[i]
          /\ \A i \in 1..Len(iss) : (h \o iss)[Len(h) + i] = iss[i]
      BY <2>2, <2>3, ConcatElements DEF h
    <3>2. Len(h) = 2 /\ h[2] = AsU8(Len(iss))
      BY <2>2 DEF h
    <3>3. \A i \in 1..Len(iss) : (h \o iss)[2 + i] = iss[i]
      BY <3>1, <3>2
    <3>4. (h \o iss)[2] = AsU8(Len(iss))
      BY <3>1, <3>2
    <3>5. Len(h \o iss) = 2 + Len(iss)
      BY <3>1, <3>2
    <3> QED
      BY <3>1, <3>3, <3>4, <3>5
  <2> HIDE DEF c
  <2>5. /\ Len(c \o b) = Len(c) + Len(b)
        /\ \A i \in 1..Len(c) : (c \o b)[i] = c[i]
        /\ \A i \in 1..Len(b) : (c \o b)[Len(c) + i] = b[i]
    BY <2>3, <2>4, ConcatElements
  <2>6. (c \o b)[2] = AsU8(Len(iss))
    BY <2>1, <2>4, <2>5
  <2>7. ASSUME NEW i \in 1..Len(iss) PROVE (c \o b)[2 + i] = iss[i]
    <3>1. 2 + i \in 1..Len(c)
      BY <2>1, <2>4
    <3> QED
      BY <3>1, <2>4, <2>5
  <2>8. Len(c \o b) = 2 + Len(iss) + Len(b)
        /\ \A i \in 1..Len(b) : (c \o b)[2 + Len(iss) + i] = b[i]
    BY <2>4, <2>5
  <2>9. bytes(iss, b) = c \o b
    BY DEF c
  <2> HIDE DEF bytes
  <2> QED
    BY <2>6, <2>7, <2>8, <2>9
<1>3. /\ Len(bytes(iss1, b1)) = 2 + Len(iss1) + Len(b1)
      /\ bytes(iss1, b1)[2] = AsU8(Len(iss1))
      /\ \A i \in 1..Len(iss1) : bytes(iss1, b1)[2 + i] = iss1[i]
      /\ \A i \in 1..Len(b1) : bytes(iss1, b1)[2 + Len(iss1) + i] = b1[i]
  BY <1>2
<1>4. /\ Len(bytes(iss2, b2)) = 2 + Len(iss2) + Len(b2)
      /\ bytes(iss2, b2)[2] = AsU8(Len(iss2))
      /\ \A i \in 1..Len(iss2) : bytes(iss2, b2)[2 + i] = iss2[i]
      /\ \A i \in 1..Len(b2) : bytes(iss2, b2)[2 + Len(iss2) + i] = b2[i]
  BY <1>2
<1> HIDE DEF bytes
<1>5. Len(iss1) + Len(b1) = Len(iss2) + Len(b2)
  <2>1. 2 + Len(iss1) + Len(b1) = 2 + Len(iss2) + Len(b2)
    BY <1>1, <1>3, <1>4
  <2>2. /\ Len(iss1) \in Nat /\ Len(iss2) \in Nat /\ Len(b1) \in Nat /\ Len(b2) \in Nat
    BY <1>0
  <2> DEFINE m1 == Len(iss1)
             m2 == Len(iss2)
             n1 == Len(b1)
             n2 == Len(b2)
  <2>3. 2 + m1 + n1 = 2 + m2 + n2
    BY <2>1
  <2>4. m1 \in Nat /\ m2 \in Nat /\ n1 \in Nat /\ n2 \in Nat
    BY <2>2
  <2> HIDE DEF m1, m2, n1, n2
  <2>5. m1 + n1 = m2 + n2
    BY <2>3, <2>4, SameSum
  <2> QED
    BY <2>5 DEF m1, m2, n1, n2
<1>6. Len(iss1) % (U8Max + 1) = Len(iss2) % (U8Max + 1)
  BY <1>1, <1>3, <1>4 DEF AsU8
<1>7. ~(Len(iss1) < Len(iss2)) /\ ~(Len(iss2) < Len(iss1))
  <2>1. /\ U8Max + 1 \in Nat \ {0}
        /\ ~(Len(iss2) - Len(iss1) >= U8Max + 1) /\ ~(Len(iss1) - Len(iss2) >= U8Max + 1)
    BY <1>0, <1>5
  <2> QED
    BY <1>0, <1>6, <2>1, SameRemainder
<1>8. Len(iss1) = Len(iss2) /\ Len(b1) = Len(b2)
  BY <1>0, <1>5, <1>7
<1>9. \A i \in 1..Len(iss1) : iss1[i] = iss2[i]
  <2>1. ASSUME NEW i \in 1..Len(iss1) PROVE iss1[i] = iss2[i]
    BY <1>1, <1>3, <1>4, <1>8
  <2> QED
    BY <2>1
<1>10. \A i \in 1..Len(b1) : b1[i] = b2[i]
  <2>1. ASSUME NEW i \in 1..Len(b1) PROVE b1[i] = b2[i]
    BY <1>1, <1>3, <1>4, <1>8
  <2> QED
    BY <2>1
<1> QED
  BY <1>8, <1>9, <1>10, SeqEqual

(* What is known of the calls of compute_zklogin_address.                  *)
DerivedRight ==
  \A call \in derived :
    /\ call.iss \in Seq(U8) /\ call.seed \in Seq(U8) /\ call.legacy \in BOOLEAN
    /\ call.result = compute_zklogin_address(call.iss, call.seed, call.legacy)

LEMMA DerivedRightHolds == Spec => []DerivedRight
<1>1. Init => DerivedRight
  BY DEF Init, DerivedRight
<1>2. DerivedRight /\ [Next]_vars => DerivedRight'
  <2> SUFFICES ASSUME DerivedRight, [Next]_vars PROVE DerivedRight'
    OBVIOUS
  <2>1. CASE derived' = derived
    BY <2>1 DEF DerivedRight
  <2>2. ASSUME NEW iss \in Issuers, NEW seed \in Seeds, NEW legacy \in BOOLEAN,
               Derive(iss, seed, legacy)
        PROVE  DerivedRight'
    BY <2>2, DerivedInputs DEF Derive, DerivedRight
  <2> QED
    BY <2>1, <2>2 DEF Next, vars, Begin, BeginWith, Issue, Complete, Sign
<1> QED
  BY <1>1, <1>2, PTL DEF Spec

(* compute_zklogin_address never gives two calls one address unless they   *)
(* are for one issuer and one seed, also for issuers whose length does not *)
(* fit the byte that is hashed (lib.rs:36-44, 154-168); and legacy and new *)
(* addresses of a seed differ exactly if the seed has a zero to strip.     *)
THEOREM AddressesAreDistinct == Spec => []AddressesDistinct
<1>1. DerivedRight => AddressesDistinct
  <2> SUFFICES ASSUME DerivedRight, NEW a \in derived, NEW b \in derived,
                      a.result.ok, b.result.ok
               PROVE  (a.result = b.result) <=>
                        (/\ a.iss = b.iss /\ a.seed = b.seed
                         /\ a.legacy = b.legacy \/ SeedLength = 1 \/ a.seed[1] # 0)
    BY DEF AddressesDistinct
  <2>1. ASSUME NEW c \in derived, c.result.ok
        PROVE  /\ c.iss \in Seq(U8) /\ c.seed \in Seq(U8) /\ c.legacy \in BOOLEAN
               /\ Len(c.seed) = SeedLength
               /\ c.result = Ok(hash_zklogin_address(c.iss, Hashed(c.seed, c.legacy)))
    BY <2>1 DEF DerivedRight, compute_zklogin_address, Ok, Err, Hashed
  <2> DEFINE ha == Hashed(a.seed, a.legacy)
             hb == Hashed(b.seed, b.legacy)
  <2>2. /\ a.iss \in Seq(U8) /\ b.iss \in Seq(U8) /\ ha \in Seq(U8) /\ hb \in Seq(U8)
        /\ Len(ha) \in 1..SeedLength /\ Len(hb) \in 1..SeedLength
    BY <2>1, HashedFacts
  <2>3. a.result = b.result <=>
          hash_zklogin_address(a.iss, ha) = hash_zklogin_address(b.iss, hb)
    <3>1. \A x, y : (Ok(x) = Ok(y)) <=> (x = y)
      BY DEF Ok
    <3>2. /\ a.result = Ok(hash_zklogin_address(a.iss, ha))
          /\ b.result = Ok(hash_zklogin_address(b.iss, hb))
      BY <2>1
    <3> HIDE DEF ha, hb
    <3> QED
      BY <3>1, <3>2, Zenon
  <2>4. ha = hb <=> a.seed = b.seed
                    /\ (a.legacy = b.legacy \/ SeedLength = 1 \/ a.seed[1] # 0)
    BY <2>1, HashedAlike
  <2> HIDE DEF ha, hb
  <2>5. hash_zklogin_address(a.iss, ha) = hash_zklogin_address(b.iss, hb) <=>
          a.iss = b.iss /\ ha = hb
    BY <2>2, HashInjective
  <2> QED
    BY <2>3, <2>4, <2>5
<1> QED
  BY <1>1, DerivedRightHolds, PTL

-----------------------------------------------------------------------------
(* Attempts, tokens and logins. *)

(* The attempts have their own keys and nonces; a token has the nonce of   *)
(* the attempt that it was requested for, or none; a login has the result  *)
(* of the client's steps; and a signature is built from a login that       *)
(* succeeded.                                                              *)
AttemptRight(n) ==
  /\ attempts[n].epk = EphemeralKey(n)
  /\ compute_nonce(EphemeralKey(n), attempts[n].max_epoch, attempts[n].randomness)
       = Ok(attempts[n].nonce)

AttemptsRight ==
  /\ attempts \in Seq(UNION {{attempts[n]} : n \in DOMAIN attempts})
  /\ \A n \in DOMAIN attempts : AttemptRight(n)

TokensRight ==
  \A token \in tokens :
    /\ token.attempt \in DOMAIN attempts
    /\ token.account \in Account /\ token.form \in Forms
    /\ token.jwt = TokenOf(token.account, attempts[token.attempt].nonce, token.form)

LoginsRight ==
  \A login \in logins :
    /\ login.attempt \in DOMAIN attempts
    /\ login.token \in tokens /\ login.salt \in Salts
    /\ login.result = Completed(attempts[login.attempt], login.token.jwt, login.salt, login.legacy)

SignedWith(signed, proof_json) ==
  \E epk, max_epoch :
    signed.result = build_zklogin_signature(proof_json, epk, signed.login.result.val.seed,
                                            max_epoch)

SignaturesRight ==
  \A signed \in signatures :
    /\ signed.login \in logins /\ signed.login.result.ok
    /\ \E proof_json \in {ProofJson(signed.login), NoProof} : SignedWith(signed, proof_json)

LoginInv == AttemptsRight /\ TokensRight /\ LoginsRight /\ SignaturesRight

(* Beginning an attempt leaves the earlier ones as they are.               *)
LEMMA BeginFacts ==
  ASSUME AttemptsRight, NEW flag, NEW max_epoch, NEW r, Begin(flag, max_epoch, r)
  PROVE  /\ AttemptsRight'
         /\ DOMAIN attempts \subseteq DOMAIN attempts'
         /\ \A n \in DOMAIN attempts : attempts'[n] = attempts[n]
<1> DEFINE S == UNION {{attempts[n]} : n \in DOMAIN attempts}
           k == Len(attempts) + 1
           nonce == compute_nonce(EphemeralKey(k), max_epoch, r)
           e == [flag |-> flag, epk |-> EphemeralKey(k), max_epoch |-> max_epoch,
                 randomness |-> r, nonce |-> nonce.val]
           T == S \cup {e}
<1>1. attempts' = Append(attempts, e) /\ nonce.ok
  BY DEF Begin, BeginWith
<1>0. nonce = Ok(nonce.val)
  BY <1>1 DEF compute_nonce, NonceError, get_nonce, Ok, Err
<1> HIDE DEF nonce
<1>2. attempts \in Seq(T) /\ e \in T
  <2>1. attempts \in Seq(S)
    BY DEF AttemptsRight
  <2> HIDE DEF S, e
  <2> QED
    BY <2>1, SeqMonotonic
<1>3. /\ e.epk = EphemeralKey(k)
      /\ compute_nonce(EphemeralKey(k), e.max_epoch, e.randomness) = Ok(e.nonce)
  BY <1>0 DEF nonce
<1> HIDE DEF e, T
<1>4. /\ Len(attempts) \in Nat /\ DOMAIN attempts = 1..Len(attempts)
      /\ DOMAIN attempts' = 1..k /\ attempts' \in Seq(T)
      /\ \A n \in 1..Len(attempts) : attempts'[n] = attempts[n]
      /\ attempts'[k] = e
  BY <1>1, <1>2, LenProperties, AppendProperties
<1>5. ASSUME NEW n \in DOMAIN attempts' PROVE AttemptRight(n)'
  <2>1. CASE n \in DOMAIN attempts
    BY <2>1, <1>4 DEF AttemptsRight, AttemptRight
  <2>2. CASE n = k
    BY <2>2, <1>3, <1>4 DEF AttemptRight
  <2> QED
    BY <2>1, <2>2, <1>4
<1>6. attempts' \in Seq(UNION {{attempts'[n]} : n \in DOMAIN attempts'})
  BY <1>4, SeqOfRange
<1> QED
  BY <1>4, <1>5, <1>6 DEF AttemptsRight

LEMMA LoginInvHolds == Spec => []LoginInv
<1>1. Init => LoginInv
  BY DEF Init, LoginInv, AttemptsRight, TokensRight, LoginsRight, SignaturesRight
<1>2. LoginInv /\ [Next]_vars => LoginInv'
  <2> SUFFICES ASSUME LoginInv, [Next]_vars PROVE LoginInv'
    OBVIOUS
  <2> USE DEF LoginInv
  <2>1. ASSUME NEW flag, NEW max_epoch, NEW r, Begin(flag, max_epoch, r) PROVE LoginInv'
    <3>1. /\ AttemptsRight'
          /\ DOMAIN attempts \subseteq DOMAIN attempts'
          /\ \A n \in DOMAIN attempts : attempts'[n] = attempts[n]
      BY <2>1, BeginFacts
    <3>2. tokens' = tokens /\ logins' = logins /\ signatures' = signatures
      BY <2>1 DEF Begin, BeginWith
    <3>3. TokensRight'
      BY <3>1, <3>2 DEF TokensRight
    <3>4. LoginsRight'
      BY <3>1, <3>2 DEF LoginsRight
    <3>5. SignaturesRight'
      BY <3>2 DEF SignaturesRight, ProofJson, SignedWith
    <3> QED
      BY <3>1, <3>3, <3>4, <3>5
  <2>2. ASSUME NEW n \in DOMAIN attempts, NEW account \in Account, NEW form \in Forms,
               Issue(n, account, form)
        PROVE  LoginInv'
    <3>1. TokensRight'
      BY <2>2 DEF Issue, TokensRight
    <3> QED
      BY <2>2, <3>1 DEF Issue, AttemptsRight, AttemptRight, LoginsRight, SignaturesRight, ProofJson, SignedWith
  <2>3. ASSUME NEW n \in DOMAIN attempts, NEW token \in tokens, NEW salt \in Salts,
               NEW legacy \in BOOLEAN, Complete(n, token, salt, legacy)
        PROVE  LoginInv'
    <3>1. LoginsRight'
      BY <2>3 DEF Complete, LoginsRight
    <3>2. SignaturesRight'
      BY <2>3 DEF Complete, SignaturesRight, ProofJson, SignedWith
    <3> QED
      BY <2>3, <3>1, <3>2 DEF Complete, AttemptsRight, AttemptRight, TokensRight
  <2>5. ASSUME NEW login \in logins, NEW proof_json \in {ProofJson(login), NoProof},
               Sign(login, proof_json)
        PROVE  LoginInv'
    <3> DEFINE attempt == attempts[login.attempt]
    <3>1. /\ login.result.ok /\ UNCHANGED <<attempts, tokens, logins>>
          /\ signatures' = signatures \cup
               {[login  |-> login,
                 result |-> build_zklogin_signature(proof_json, attempt.epk,
                                                    login.result.val.seed, attempt.max_epoch)]}
      BY <2>5 DEF Sign
    <3> DEFINE new == [login  |-> login,
                       result |-> build_zklogin_signature(proof_json, attempt.epk,
                                                          login.result.val.seed,
                                                          attempt.max_epoch)]
    <3>3. new.login = login /\ SignedWith(new, proof_json)
      BY DEF SignedWith
    <3> HIDE DEF new
    <3>4. ASSUME NEW signed \in signatures'
          PROVE  /\ signed.login \in logins /\ signed.login.result.ok
                 /\ \E json \in {ProofJson(signed.login), NoProof} : SignedWith(signed, json)
      <4>1. CASE signed \in signatures
        BY <4>1 DEF SignaturesRight
      <4>2. CASE signed = new
        BY <4>2, <3>1, <3>3
      <4> QED
        BY <4>1, <4>2, <3>1 DEF new
    <3>2. SignaturesRight'
      BY <3>1, <3>4 DEF SignaturesRight, ProofJson, NoProof, SignedWith
    <3> QED
      BY <3>1, <3>2 DEF AttemptsRight, AttemptRight, TokensRight, LoginsRight
  <2>4. CASE UNCHANGED <<attempts, tokens, logins, signatures>>
    BY <2>4 DEF AttemptsRight, AttemptRight, TokensRight, LoginsRight, SignaturesRight, ProofJson, SignedWith
  <2> QED
    BY <2>1, <2>2, <2>3, <2>4, <2>5 DEF Next, vars, Derive
<1> QED
  BY <1>1, <1>2, PTL DEF Spec

(* The state of Login is well formed: every attempt has a key of its own,  *)
(* tokens and logins belong to attempts, and signatures to logins.         *)
THEOREM LoginTypeCorrect == Spec => []TypeOK
<1>1. LoginInv => TypeOK
  BY DEF LoginInv, AttemptsRight, AttemptRight, TokensRight, LoginsRight, SignaturesRight, TypeOK
<1> QED
  BY <1>1, LoginInvHolds, PTL

(* What a client's steps say of the token if they get past the comparison  *)
(* of the nonces (google_zklogin.py:149-151).                              *)
LEMMA CompletedFacts ==
  ASSUME NEW attempt, NEW jwt, NEW salt, NEW legacy,
         NEW result, result = Completed(attempt, jwt, salt, legacy),
         result.ok \/ result = Err("HTTPError")
  PROVE  jwt.nonce # <<>> /\ jwt.nonce[1] = attempt.nonce
<1> DEFINE claims == extract_jwt_claims(jwt)
<1>1. claims.ok \/ claims = Err("ValueError")
  BY DEF extract_jwt_claims, Ok
<1>2. claims.ok
  BY <1>1 DEF Completed, AndThen, Err
<1>3. jwt.nonce # <<>> /\ claims.val.nonce = jwt.nonce[1]
  BY <1>2 DEF extract_jwt_claims, Ok, Err
<1> HIDE DEF claims
<1>4. claims.val.nonce = attempt.nonce
  <2> SUFFICES ASSUME claims.val.nonce # attempt.nonce PROVE FALSE
    OBVIOUS
  <2>1. result = Err("AssertionError")
    BY <1>2 DEF Completed, AndThen, claims
  <2> QED
    BY <2>1 DEF Err
<1> QED
  BY <1>3, <1>4

LEMMA NonceOfKey ==
  ASSUME NEW a, NEW b, NEW c, NEW d, NEW q, NEW r, NEW nonce,
         compute_nonce(a, c, q) = Ok(nonce), compute_nonce(b, d, r) = Ok(nonce)
  PROVE  build_nonce_key(a) = build_nonce_key(b)
<1>1. ASSUME NEW e, NEW f, NEW g, compute_nonce(e, f, g) = Ok(nonce)
      PROVE  nonce = <<"nonce", build_nonce_key(e), f, g>>
  BY <1>1 DEF compute_nonce, NonceError, get_nonce, Ok, Err
<1> QED
  BY <1>1

(* Only the attempt that a token was requested for gets past the           *)
(* comparison with it, in whatever order attempts begin and tokens arrive: *)
(* compute_nonce (lib.rs:128-133) binds the token to the ephemeral key.    *)
THEOREM TokensAreOwn == Spec => []OwnTokens
<1>1. LoginInv => OwnTokens
  <2> SUFFICES ASSUME LoginInv, NEW login \in logins,
                      login.result.ok \/ login.result = Err("HTTPError")
               PROVE  login.token.attempt = login.attempt
    BY DEF OwnTokens
  <2> DEFINE n == login.attempt
             m == login.token.attempt
  <2>1. /\ n \in DOMAIN attempts /\ m \in DOMAIN attempts
        /\ login.token.jwt = TokenOf(login.token.account, attempts[m].nonce, login.token.form)
        /\ login.result = Completed(attempts[n], login.token.jwt, login.salt, login.legacy)
    BY DEF LoginInv, LoginsRight, TokensRight
  <2>2. login.token.jwt.nonce # <<>> /\ login.token.jwt.nonce[1] = attempts[n].nonce
    BY <2>1, CompletedFacts
  <2>3. attempts[m].nonce = attempts[n].nonce
    BY <2>1, <2>2 DEF TokenOf
  <2>4. EphemeralKey(m) = EphemeralKey(n)
    <3>1. \A k \in {m, n} :
            compute_nonce(EphemeralKey(k), attempts[k].max_epoch, attempts[k].randomness)
              = Ok(attempts[k].nonce)
      BY <2>1 DEF LoginInv, AttemptsRight, AttemptRight
    <3>2. build_nonce_key(EphemeralKey(m)) = build_nonce_key(EphemeralKey(n))
      BY <2>3, <3>1, NonceOfKey
    <3>3. \A k : build_nonce_key(EphemeralKey(k))[2] = <<"key", k>>
      <4> TAKE k
      <4> DEFINE S == {Ed25519Flag, <<"key", k>>}
      <4>1. <<Ed25519Flag>> \in Seq(S) /\ <<<<"key", k>>>> \in Seq(S)
        OBVIOUS
      <4>2. (<<Ed25519Flag>> \o <<<<"key", k>>>>)[2] = <<"key", k>>
        BY <4>1, ConcatProperties
      <4> QED
        BY <4>2 DEF build_nonce_key, EphemeralKey
    <3> QED
      BY <3>2, <3>3 DEF EphemeralKey
  <2> QED
    BY <2>4 DEF EphemeralKey
<1> QED
  BY <1>1, LoginInvHolds, PTL

(* What a login with a token knows and has done when it has succeeded: the *)
(* claims are those of the token's identity, the number of the seed is     *)
(* fastcrypto's of these claims, and address and proof are of its bytes    *)
(* and its issuer.                                                         *)
Claim(salt, identity) == <<salt, "sub", identity.sub, identity.aud>>

NumberOf(salt, identity) == AddressSeed[Claim(salt, identity)]

Succeeded(result, salt, legacy, identity) ==
  /\ Claim(salt, identity) \in DOMAIN AddressSeed
  /\ result.val.address =
       hash_zklogin_address(identity.iss, Hashed(SeedOf(NumberOf(salt, identity)), legacy))
  /\ result.val.seed = SeedOf(NumberOf(salt, identity))
  /\ result.val.proof.iss = identity.iss

LEMMA IdentityFacts ==
  ASSUME NEW token
  PROVE  /\ Identity(token).iss = token.account.iss /\ Identity(token).sub = token.account.sub
         /\ Identity(token).aud = token.jwt.aud.values[1][1]
BY DEF Identity

LEMMA ClaimsOfToken ==
  ASSUME NEW token, NEW nonce, token.jwt = TokenOf(token.account, nonce, token.form),
         NEW claims, claims = extract_jwt_claims(token.jwt), claims.ok
  PROVE  /\ claims.val.iss = Identity(token).iss /\ claims.val.sub = Identity(token).sub
         /\ claims.val.aud = Identity(token).aud
<1> DEFINE jwt == token.jwt
           account == token.account
<1>1. jwt.iss = <<account.iss>> /\ jwt.sub \in {<<>>, <<account.sub>>}
  BY DEF TokenOf
<1> HIDE DEF jwt
<1> DEFINE aud == IF jwt.aud.kind \in {"string", "array"} /\ jwt.aud.values # <<>>
                  THEN jwt.aud.values[1]
                  ELSE <<>>
<1>2. /\ jwt.sub # <<>> /\ aud # <<>>
      /\ claims.val = [iss |-> jwt.iss[1], sub |-> jwt.sub[1],
                       aud |-> aud[1], nonce |-> jwt.nonce[1]]
  BY DEF extract_jwt_claims, Ok, Err, jwt
<1>3. aud = jwt.aud.values[1]
  BY <1>2
<1> HIDE DEF aud
<1>4. claims.val.iss = account.iss /\ claims.val.sub = account.sub
      /\ claims.val.aud = jwt.aud.values[1][1]
  BY <1>1, <1>2, <1>3
<1> QED
  BY <1>4, IdentityFacts DEF jwt

LEMMA SeedOfClaim ==
  ASSUME NEW identity, NEW salt, NEW result,
         result = compute_address_seed("sub", identity.sub, identity.aud, salt)
  PROVE  /\ result.ok => Claim(salt, identity) \in DOMAIN AddressSeed
         /\ Claim(salt, identity) \in DOMAIN AddressSeed =>
              result.ok /\ result.val = SeedOf(NumberOf(salt, identity))
BY DEF compute_address_seed, Claim, NumberOf, SeedOf, Ok, Err

LEMMA NumberFacts ==
  ASSUME NEW claim \in DOMAIN AddressSeed
  PROVE  AddressSeed[claim] \in Nat /\ Quotients(AddressSeed[claim])[SeedLength] = 0
BY AddressSeedAssumption

LEMMA SuccessFacts ==
  ASSUME NEW attempt, NEW salt, NEW legacy, NEW token, NEW nonce,
         token.jwt = TokenOf(token.account, nonce, token.form),
         NEW result, result = Completed(attempt, token.jwt, salt, legacy), result.ok
  PROVE  Succeeded(result, salt, legacy, Identity(token))
<1> DEFINE jwt == token.jwt
           identity == Identity(token)
           claims == extract_jwt_claims(jwt)
           seed == compute_address_seed("sub", claims.val.sub, claims.val.aud, salt)
           address == compute_zklogin_address(claims.val.iss, seed.val, legacy)
           proof == Prove(attempt, jwt)
<1>1. jwt.iss[1] = identity.iss
  BY IdentityFacts DEF TokenOf
<1> HIDE DEF jwt
<1>2. claims.ok /\ claims.val.nonce = attempt.nonce
  BY DEF Completed, AndThen, jwt, Err
<1>3. /\ claims.val.iss = identity.iss /\ claims.val.sub = identity.sub
      /\ claims.val.aud = identity.aud
  BY <1>2, ClaimsOfToken DEF jwt
<1> HIDE DEF claims, identity
<1>4. seed.ok
  BY <1>2 DEF Completed, AndThen, jwt, claims
<1>5. Claim(salt, identity) \in DOMAIN AddressSeed /\ seed.val = SeedOf(NumberOf(salt, identity))
  BY <1>3, <1>4, SeedOfClaim
<1> HIDE DEF seed
<1>6. address.ok
  BY <1>2, <1>4 DEF Completed, AndThen, jwt, claims, seed
<1>7. address.val = hash_zklogin_address(identity.iss, Hashed(seed.val, legacy))
  BY <1>3, <1>6 DEF compute_zklogin_address, Hashed, Ok, Err
<1> HIDE DEF address
<1>8. proof.ok
  BY <1>2, <1>4, <1>6 DEF Completed, AndThen, jwt, claims, seed, address
<1>9. proof.val.iss = identity.iss
  BY <1>1, <1>8 DEF Prove, Ok, Err
<1> HIDE DEF proof
<1>10. result = Ok([address |-> address.val, seed |-> seed.val, proof |-> proof.val])
  BY <1>2, <1>4, <1>6, <1>8 DEF Completed, AndThen, jwt, claims, seed, address, proof
<1> QED
  BY <1>5, <1>7, <1>9, <1>10 DEF Ok, Succeeded, identity

(* Every login that succeeded has succeeded as just said.                  *)
LEMMA LoginSucceeded ==
  ASSUME LoginInv, NEW login \in logins, login.result.ok
  PROVE  Succeeded(login.result, login.salt, login.legacy, Identity(login.token))
<1>1. /\ login.token \in tokens
      /\ login.result = Completed(attempts[login.attempt], login.token.jwt,
                                  login.salt, login.legacy)
  BY DEF LoginInv, LoginsRight
<1>2. login.token.jwt = TokenOf(login.token.account, attempts[login.token.attempt].nonce,
                                login.token.form)
  BY <1>1 DEF LoginInv, TokensRight
<1> QED
  BY <1>1, <1>2, SuccessFacts

(* A signature that was built has the number of the seed and the proof of  *)
(* the login that it belongs to.                                           *)
LEMMA SignedFacts ==
  ASSUME LoginInv, NEW signed \in signatures, signed.result.ok
  PROVE  /\ signed.login \in logins /\ signed.login.result.ok
         /\ signed.result.val.inputs.proof = signed.login.result.val.proof
         /\ signed.result.val.inputs.address_seed = from_bytes_be(signed.login.result.val.seed)
<1>1. signed.login \in logins /\ signed.login.result.ok
  BY DEF LoginInv, SignaturesRight
<1>2. PICK proof_json \in {ProofJson(signed.login), NoProof} : SignedWith(signed, proof_json)
  BY DEF LoginInv, SignaturesRight
<1>7. PICK epk, max_epoch :
        signed.result = build_zklogin_signature(proof_json, epk, signed.login.result.val.seed,
                                                max_epoch)
  BY <1>2 DEF SignedWith
<1>3. proof_json.parses
  BY <1>7 DEF build_zklogin_signature, ZkLoginInputs, Err
<1>4. proof_json = ProofJson(signed.login)
  BY <1>2, <1>3 DEF NoProof
<1>5. proof_json.proof = signed.login.result.val.proof
  BY <1>4 DEF ProofJson
<1>6. signed.result.val.inputs =
        [proof        |-> proof_json.proof,
         address_seed |-> from_bytes_be(signed.login.result.val.seed)]
  BY <1>7, <1>3 DEF build_zklogin_signature, ZkLoginInputs, Ok
<1> QED
  BY <1>1, <1>5, <1>6

(* The number in a signature is fastcrypto's of the claims, and an address *)
(* derived from that number, padded or not, is the client's: what          *)
(* compute_address_seed, compute_zklogin_address and                       *)
(* build_zklogin_signature (lib.rs:136-195) do to a seed loses nothing.    *)
THEOREM SignaturesHaveTheirAddress == Spec => []SignatureHasAddress
<1>1. LoginInv => SignatureHasAddress
  <2> SUFFICES ASSUME LoginInv, NEW signed \in signatures, signed.result.ok
               PROVE  LET inputs == signed.result.val.inputs
                          login == signed.login
                          identity == Identity(login.token)
                      IN  /\ inputs.address_seed =
                               AddressSeed[login.salt, "sub", identity.sub, identity.aud]
                          /\ login.result.val.address = ChainAddress(inputs, login.legacy)
    BY DEF SignatureHasAddress
  <2> DEFINE inputs == signed.result.val.inputs
             login == signed.login
             identity == Identity(login.token)
             n == NumberOf(login.salt, identity)
  <2>1. /\ Succeeded(login.result, login.salt, login.legacy, identity)
        /\ inputs.proof = login.result.val.proof
        /\ inputs.address_seed = from_bytes_be(login.result.val.seed)
    BY SignedFacts, LoginSucceeded
  <2>2. n \in Nat /\ Quotients(n)[SeedLength] = 0
    BY <2>1, NumberFacts DEF Succeeded, NumberOf
  <2>3. n = AddressSeed[login.salt, "sub", identity.sub, identity.aud]
    BY DEF NumberOf, Claim
  <2> HIDE DEF n, identity, inputs
  <2>4. /\ to_bytes_be(n) \in Seq(U8)
        /\ strip_seed_leading_zeros(SeedOf(n)) = to_bytes_be(n)
        /\ from_bytes_be(SeedOf(n)) = n
    BY <2>2, SeedFacts
  <2>5. /\ login.result.val.address =
             hash_zklogin_address(identity.iss, Hashed(SeedOf(n), login.legacy))
        /\ inputs.address_seed = n
        /\ inputs.proof.iss = identity.iss
    BY <2>1, <2>4 DEF Succeeded, n
  <2> HIDE DEF login
  <2>6. Hashed(SeedOf(n), login.legacy) =
          (IF login.legacy THEN Zeros(SeedLength - Len(to_bytes_be(n))) ELSE <<>>)
            \o to_bytes_be(n)
    <3>1. <<>> \o to_bytes_be(n) = to_bytes_be(n)
      BY <2>4, ConcatEmptySeq
    <3>2. CASE login.legacy
      BY <3>2 DEF Hashed, SeedOf
    <3>3. CASE ~login.legacy
      BY <2>4, <3>1, <3>3 DEF Hashed
    <3> QED
      BY <3>2, <3>3
  <2>7. login.result.val.address = ChainAddress(inputs, login.legacy)
    BY <2>5, <2>6 DEF ChainAddress
  <2> QED
    BY <2>3, <2>5, <2>7 DEF identity, inputs, login
<1> QED
  BY <1>1, LoginInvHolds, PTL

(* Seeds are hashed alike, in one way, exactly if their numbers are equal. *)
LEMMA SeedsHashedAlike ==
  ASSUME NEW m \in Nat, Quotients(m)[SeedLength] = 0,
         NEW n \in Nat, Quotients(n)[SeedLength] = 0,
         NEW legacy, Hashed(SeedOf(m), legacy) = Hashed(SeedOf(n), legacy)
  PROVE  m = n
<1>1. /\ SeedOf(m) \in Seq(U8) /\ Len(SeedOf(m)) = SeedLength /\ from_bytes_be(SeedOf(m)) = m
      /\ SeedOf(n) \in Seq(U8) /\ Len(SeedOf(n)) = SeedLength /\ from_bytes_be(SeedOf(n)) = n
  BY SeedFacts
<1> DEFINE s == SeedOf(m)
           t == SeedOf(n)
<1>2. /\ s \in Seq(U8) /\ Len(s) = SeedLength /\ t \in Seq(U8) /\ Len(t) = SeedLength
      /\ Hashed(s, legacy) = Hashed(t, legacy)
  BY <1>1
<1> HIDE DEF s, t
<1>3. s = t
  BY <1>2, StripInjective DEF Hashed
<1> QED
  BY <1>1, <1>3 DEF s, t

(* Two logins get one address exactly if their tokens are of one issuer,   *)
(* subject and first audience: neither the form of the token               *)
(* (lib.rs:104-112) nor what is stripped of the seed (lib.rs:161-166) nor  *)
(* the cast of the issuer's length (lib.rs:40) makes two users meet or one *)
(* user come apart.                                                        *)
THEOREM AddressesArePerAccount == Spec => []AddressPerAccount
<1>1. LoginInv => AddressPerAccount
  <2> SUFFICES ASSUME LoginInv, NEW a \in logins, NEW b \in logins,
                      a.result.ok, b.result.ok, a.salt = b.salt, a.legacy = b.legacy
               PROVE  (a.result.val.address = b.result.val.address)
                        <=> (Identity(a.token) = Identity(b.token))
    BY DEF AddressPerAccount
  <2> DEFINE Facts(login) ==
        /\ Succeeded(login.result, login.salt, login.legacy, Identity(login.token))
        /\ Identity(login.token).iss \in Seq(U8)
        /\ NumberOf(login.salt, Identity(login.token)) \in Nat
        /\ Quotients(NumberOf(login.salt, Identity(login.token)))[SeedLength] = 0
  <2>1. ASSUME NEW login \in logins, login.result.ok PROVE Facts(login)
    <3>1. Succeeded(login.result, login.salt, login.legacy, Identity(login.token))
      BY <2>1, LoginSucceeded
    <3>2. login.token.account \in Account
      BY <2>1 DEF LoginInv, LoginsRight, TokensRight
    <3>3. Identity(login.token).iss \in Seq(U8)
      BY <3>2, AccountAssumption, IdentityFacts
    <3> QED
      BY <3>1, <3>3, NumberFacts DEF Succeeded, NumberOf
  <2> DEFINE x == Identity(a.token)
             y == Identity(b.token)
             m == NumberOf(a.salt, x)
             n == NumberOf(b.salt, y)
  <2>2. /\ x.iss \in Seq(U8) /\ m \in Nat /\ Quotients(m)[SeedLength] = 0
        /\ Claim(a.salt, x) \in DOMAIN AddressSeed
        /\ a.result.val.address = hash_zklogin_address(x.iss, Hashed(SeedOf(m), a.legacy))
    BY <2>1 DEF Succeeded
  <2>3. /\ y.iss \in Seq(U8) /\ n \in Nat /\ Quotients(n)[SeedLength] = 0
        /\ Claim(b.salt, y) \in DOMAIN AddressSeed
        /\ b.result.val.address = hash_zklogin_address(y.iss, Hashed(SeedOf(n), b.legacy))
    BY <2>1 DEF Succeeded
  <2> HIDE DEF Facts
  <2>4. ASSUME x = y PROVE a.result.val.address = b.result.val.address
    BY <2>2, <2>3, <2>4
  <2>5. ASSUME a.result.val.address = b.result.val.address PROVE x = y
    <3>1. m = AddressSeed[Claim(a.salt, x)] /\ n = AddressSeed[Claim(b.salt, y)]
      BY DEF NumberOf
    <3> HIDE DEF x, y, m, n
    <3> DEFINE s == Hashed(SeedOf(m), a.legacy)
               t == Hashed(SeedOf(n), b.legacy)
    <3>2. x.iss \in Seq(U8) /\ y.iss \in Seq(U8)
      BY <2>2, <2>3
    <3>3. s \in Seq(U8) /\ Len(s) \in 1..SeedLength /\ t \in Seq(U8) /\ Len(t) \in 1..SeedLength
      BY <2>2, <2>3, SeedFacts, HashedFacts
    <3>4. hash_zklogin_address(x.iss, s) = hash_zklogin_address(y.iss, t)
      BY <2>2, <2>3, <2>5
    <3> HIDE DEF s, t
    <3>5. x.iss = y.iss /\ s = t
      BY <3>2, <3>3, <3>4, HashInjective
    <3>6. Hashed(SeedOf(m), a.legacy) = Hashed(SeedOf(n), a.legacy)
      BY <3>5 DEF s, t
    <3>7. m = n
      BY <2>2, <2>3, <3>6, SeedsHashedAlike
    <3>8. Claim(a.salt, x) = Claim(b.salt, y)
      BY <2>2, <2>3, <3>1, <3>7, AddressSeedAssumption
    <3>9. x.sub = y.sub /\ x.aud = y.aud
      BY <3>8 DEF Claim
    <3>10. /\ x = [iss |-> x.iss, sub |-> x.sub, aud |-> x.aud]
           /\ y = [iss |-> y.iss, sub |-> y.sub, aud |-> y.aud]
      BY DEF Identity, x, y
    <3> QED
      BY <3>5, <3>9, <3>10
  <2> QED
    BY <2>4, <2>5
<1> QED
  BY <1>1, LoginInvHolds, PTL

(* What a token that the provider makes says.                              *)
LEMMA GoodTokenClaims ==
  ASSUME NEW account \in Account, NEW nonce, NEW form \in Forms, GoodForm(form),
         Len(account.iss) <= U8Max, Len(account.aud) <= MaxAud
  PROVE  /\ extract_jwt_claims(TokenOf(account, nonce, form)).ok
         /\ extract_jwt_claims(TokenOf(account, nonce, form)).val.nonce = nonce
         /\ TokenOf(account, nonce, form).nonce = <<nonce>>
         /\ TokenOf(account, nonce, form).aud.values[1][1] = account.aud
<1> DEFINE jwt == TokenOf(account, nonce, form)
<1>1. /\ jwt.parts = 3 /\ jwt.decodes
      /\ jwt.header = form.header /\ jwt.payload = form.payload
      /\ jwt.iss = <<account.iss>> /\ jwt.sub = <<account.sub>> /\ jwt.nonce = <<nonce>>
      /\ jwt.aud = AudienceOf(account, form)
  BY DEF TokenOf, GoodForm
<1>9. /\ jwt.aud.kind \in {"string", "array"}
      /\ jwt.aud.values # <<>> /\ jwt.aud.values[1] = <<account.aud>>
  <2>1. CASE form.aud = "string"
    BY <1>1, <2>1 DEF AudienceOf
  <2>2. CASE form.aud = "client first"
    <3> DEFINE client == <<account.aud>>
               other == <<<<"x">>>>
               both == <<client, other>>
    <3>1. jwt.aud = [kind |-> "array", values |-> both]
      BY <1>1, <2>2 DEF AudienceOf
    <3>2. both # <<>> /\ both[1] = client
      <4> HIDE DEF client, other
      <4> QED
        OBVIOUS
    <3> HIDE DEF both
    <3> QED
      BY <3>1, <3>2
  <2> QED
    BY <2>1, <2>2 DEF GoodForm
<1>2. jwt.aud.kind \in {"string", "array"}
  BY <1>9
<1>3. jwt.aud.values # <<>> /\ jwt.aud.values[1] = <<account.aud>>
  BY <1>9
<1>4. /\ form.header \in Nat /\ form.payload \in Nat
      /\ MaxHeader \in Nat /\ MaxSigned \in Nat /\ MaxAud \in Nat /\ U8Max \in Nat
      /\ form.header <= MaxHeader /\ form.header + 1 + form.payload <= MaxSigned
  BY FormAssumption, LimitsAssumption, U8MaxAssumption DEF GoodForm
<1>5. Len(account.iss) \in Nat /\ Len(account.aud) \in Nat
  BY AccountAssumption, LenProperties
<1>6. ~(jwt.header > MaxHeader) /\ ~(jwt.header + 1 + jwt.payload > MaxSigned)
  BY <1>1, <1>4
<1>7. ~(Len(account.iss) > U8Max) /\ ~(Len(account.aud) > MaxAud)
  BY <1>4, <1>5
<1> HIDE DEF jwt
<1>8. extract_jwt_claims(jwt) = Ok([iss |-> jwt.iss[1], sub |-> jwt.sub[1],
                                    aud |-> account.aud, nonce |-> nonce])
  BY <1>1, <1>2, <1>3, <1>6, <1>7 DEF extract_jwt_claims
<1> QED
  BY <1>1, <1>3, <1>8 DEF Ok, jwt

(* An attempt with an Ed25519 key gets through with the token that was     *)
(* requested for it, in whatever order tokens come: the flag that          *)
(* build_nonce_key (lib.rs:27-32) puts before the key is the one of the    *)
(* extended key that the prover computes the nonce from.                   *)
THEOREM Ed25519LoginsWork == Spec => []Ed25519LoginWorks
<1>1. LoginInv => Ed25519LoginWorks
  <2> SUFFICES ASSUME LoginInv, NEW login \in logins, OwnGoodToken(login),
                      attempts[login.attempt].flag = Ed25519Flag
               PROVE  login.result.ok
    BY DEF Ed25519LoginWorks
  <2> DEFINE attempt == attempts[login.attempt]
             account == login.token.account
             identity == Identity(login.token)
             form == login.token.form
             jwt == login.token.jwt
             claims == extract_jwt_claims(jwt)
             seed == compute_address_seed("sub", claims.val.sub, claims.val.aud, login.salt)
             address == compute_zklogin_address(claims.val.iss, seed.val, login.legacy)
             proof == Prove(attempt, jwt)
  <2>1. /\ login.attempt \in DOMAIN attempts /\ login.token \in tokens /\ login.salt \in Salts
        /\ login.result = Completed(attempt, jwt, login.salt, login.legacy)
    BY DEF LoginInv, LoginsRight
  <2>2. account \in Account /\ form \in Forms /\ jwt = TokenOf(account, attempt.nonce, form)
    BY <2>1 DEF LoginInv, TokensRight, OwnGoodToken
  <2>3. /\ attempt.epk = EphemeralKey(login.attempt)
        /\ compute_nonce(attempt.epk, attempt.max_epoch, attempt.randomness) = Ok(attempt.nonce)
    BY <2>1 DEF LoginInv, AttemptsRight, AttemptRight
  <2>4. GoodForm(form) /\ Len(account.iss) <= U8Max /\ Len(account.aud) <= MaxAud
    BY DEF OwnGoodToken
  <2>5. attempt.flag = Ed25519Flag
    OBVIOUS
  <2> HIDE DEF attempt, account, form, jwt
  <2>6. /\ claims.ok /\ claims.val.nonce = attempt.nonce
        /\ jwt.nonce = <<attempt.nonce>> /\ jwt.aud.values[1][1] = account.aud
    BY <2>2, <2>4, GoodTokenClaims
  <2>7. /\ claims.val.iss = identity.iss /\ claims.val.sub = identity.sub
        /\ claims.val.aud = identity.aud
    BY <2>2, <2>6, ClaimsOfToken DEF account, form, jwt
  <2>14. identity.sub = account.sub /\ identity.aud = account.aud
    BY <2>6, IdentityFacts DEF account, jwt
  <2> HIDE DEF identity
  <2>8. proof.ok
    <3>1. get_nonce(<<attempt.flag>> \o attempt.epk, attempt.max_epoch, attempt.randomness)
            = Ok(attempt.nonce)
      BY <2>3, <2>5 DEF compute_nonce, NonceError, build_nonce_key, Ok, Err
    <3> QED
      BY <2>6, <3>1 DEF Prove, Ok
  <2> HIDE DEF claims
  <2>9. Claim(login.salt, identity) \in DOMAIN AddressSeed
    BY <2>1, <2>2, <2>4, <2>14, AccountAssumption DEF Claim
  <2>10. seed.ok /\ seed.val = SeedOf(NumberOf(login.salt, identity))
    BY <2>7, <2>9, SeedOfClaim
  <2> HIDE DEF seed
  <2>11. Len(seed.val) = SeedLength
    <3>1. /\ NumberOf(login.salt, identity) \in Nat
          /\ Quotients(NumberOf(login.salt, identity))[SeedLength] = 0
      BY <2>9, NumberFacts DEF NumberOf
    <3> QED
      BY <2>10, <3>1, SeedFacts
  <2>12. address.ok
    BY <2>11 DEF compute_zklogin_address, Ok
  <2> HIDE DEF address, proof
  <2>13. login.result = Ok([address |-> address.val, seed |-> seed.val, proof |-> proof.val])
    BY <2>1, <2>6, <2>8, <2>10, <2>12 DEF Completed, AndThen, claims, seed, address, proof
  <2> QED
    BY <2>13 DEF Ok
<1> QED
  BY <1>1, LoginInvHolds, PTL
=============================================================================
