------------------------------ MODULE TSSProofs ------------------------------
(***************************************************************************)
(* The secret sharing of module TSS and the polynomials it is built on     *)
(* (module Polynomial), for any number of shares: what the operations do   *)
(* to the values of a polynomial, Lagrange's interpolation, that a         *)
(* polynomial of m coefficients is determined by its values at m points,   *)
(* and what split, combine and tss_interpolate return, at each position of *)
(* the arrays.                                                             *)
(***************************************************************************)
EXTENDS TSS, FieldProofs, FiniteSetTheorems

-----------------------------------------------------------------------------
(* Sums and products of sequences of bytes, one term after the other. *)

LEMMA SumSteps ==
  ASSUME NEW n \in Nat, NEW s \in [1..n -> Byte]
  PROVE  \E F \in [0..n -> Byte] :
           /\ F[0] = 0
           /\ \A k \in 1..n : F[k] = Add(F[k - 1], s[k])
           /\ F[n] = Sum(s)
<1> DEFINE op == [i \in 1..n |-> [v \in Byte |-> Add(v, s[i])]]
           IsFold(f) ==
             f = [t \in SUBSET (1..n) |->
                    IF t = {} THEN 0 ELSE Add(f[t \ {Max(t)}], s[Max(t)])]
           iter == CHOOSE f : IsFold(f)
<1>1. 0 \in Byte /\ op \in [1..n -> [Byte -> Byte]] /\ 1..n \in SUBSET (1..n)
  BY SmallBytes, AddClosed
<1>2. \A t \in SUBSET (1..n), v \in Byte : t # {} => op[Max(t)][v] = Add(v, s[Max(t)])
  BY MaxInSet
<1>3. \E f : IsFold(f)
  <2>1. PICK f \in [SUBSET (1..n) -> Byte] : FoldsUp(f, 1..n, 0, op)
    <3> HIDE DEF op
    <3> QED BY <1>1, FoldUpExists
  <2>2. \A t \in SUBSET (1..n) :
          t # {} => op[Max(t)][f[t \ {Max(t)}]] = Add(f[t \ {Max(t)}], s[Max(t)])
    BY <1>2, <2>1
  <2> HIDE DEF op
  <2>3. IsFold(f)
    BY <2>1, <2>2 DEF FoldsUp
  <2> QED
    BY <2>3
<1>4. IsFold(iter)
  BY <1>3
<1>5. Sum(s) = iter[1..n]
  BY DEF Sum, FoldLeft, MapThenFoldSet
<1>6. iter[{}] = 0 /\ StepsUp(iter, 1..n, Byte, op)
  <2> HIDE DEF op, iter
  <2> QED
    BY <1>2, <1>4 DEF StepsUp
<1>7. \A k \in 1..n, v \in Byte : op[k][v] = Add(v, s[k])
  OBVIOUS
<1> HIDE DEF op, iter
<1>8. PICK F \in [0..n -> Byte] : RunsUp(F, n, 1..n, 0, op) /\ F[n] = iter[1..n]
  BY <1>1, <1>6, FoldUp
<1>9. \A k \in 1..n : F[k - 1] \in Byte
  OBVIOUS
<1> QED
  BY <1>5, <1>7, <1>8, <1>9 DEF RunsUp

LEMMA ProductSteps ==
  ASSUME NEW n \in Nat, NEW s \in [1..n -> Byte]
  PROVE  \E F \in [0..n -> Byte] :
           /\ F[0] = 1
           /\ \A k \in 1..n : F[k] = Mul(F[k - 1], s[k])
           /\ F[n] = Product(s)
<1> DEFINE op == [i \in 1..n |-> [v \in Byte |-> Mul(v, s[i])]]
           IsFold(f) ==
             f = [t \in SUBSET (1..n) |->
                    IF t = {} THEN 1 ELSE Mul(f[t \ {Max(t)}], s[Max(t)])]
           iter == CHOOSE f : IsFold(f)
<1>1. 1 \in Byte /\ op \in [1..n -> [Byte -> Byte]] /\ 1..n \in SUBSET (1..n)
  BY SmallBytes, MulClosed
<1>2. \A t \in SUBSET (1..n), v \in Byte : t # {} => op[Max(t)][v] = Mul(v, s[Max(t)])
  BY MaxInSet
<1>3. \E f : IsFold(f)
  <2>1. PICK f \in [SUBSET (1..n) -> Byte] : FoldsUp(f, 1..n, 1, op)
    <3> HIDE DEF op
    <3> QED BY <1>1, FoldUpExists
  <2>2. \A t \in SUBSET (1..n) :
          t # {} => op[Max(t)][f[t \ {Max(t)}]] = Mul(f[t \ {Max(t)}], s[Max(t)])
    BY <1>2, <2>1
  <2> HIDE DEF op
  <2>3. IsFold(f)
    BY <2>1, <2>2 DEF FoldsUp
  <2> QED
    BY <2>3
<1>4. IsFold(iter)
  BY <1>3
<1>5. Product(s) = iter[1..n]
  BY DEF Product, FoldLeft, MapThenFoldSet
<1>6. iter[{}] = 1 /\ StepsUp(iter, 1..n, Byte, op)
  <2> HIDE DEF op, iter
  <2> QED
    BY <1>2, <1>4 DEF StepsUp
<1>7. \A k \in 1..n, v \in Byte : op[k][v] = Mul(v, s[k])
  OBVIOUS
<1> HIDE DEF op, iter
<1>8. PICK F \in [0..n -> Byte] : RunsUp(F, n, 1..n, 1, op) /\ F[n] = iter[1..n]
  BY <1>1, <1>6, FoldUp
<1>9. \A k \in 1..n : F[k - 1] \in Byte
  OBVIOUS
<1> QED
  BY <1>5, <1>7, <1>8, <1>9 DEF RunsUp

LEMMA SumByte == \A n \in Nat : \A s \in [1..n -> Byte] : Sum(s) \in Byte
<1> SUFFICES ASSUME NEW n \in Nat, NEW s \in [1..n -> Byte] PROVE Sum(s) \in Byte
  OBVIOUS
<1>1. PICK F \in [0..n -> Byte] : F[n] = Sum(s)
  BY SumSteps
<1> QED
  BY <1>1

LEMMA ProductByte == \A n \in Nat : \A s \in [1..n -> Byte] : Product(s) \in Byte
<1> SUFFICES ASSUME NEW n \in Nat, NEW s \in [1..n -> Byte] PROVE Product(s) \in Byte
  OBVIOUS
<1>1. PICK F \in [0..n -> Byte] : F[n] = Product(s)
  BY ProductSteps
<1> QED
  BY <1>1

LEMMA SumAdd ==
  ASSUME NEW n \in Nat, NEW s \in [1..n -> Byte], NEW t \in [1..n -> Byte],
         NEW u \in [1..n -> Byte], \A i \in 1..n : u[i] = Add(s[i], t[i])
  PROVE  Sum(u) = Add(Sum(s), Sum(t))
<1>1. PICK F \in [0..n -> Byte] :
        F[0] = 0 /\ F[n] = Sum(s) /\ \A k \in 1..n : F[k] = Add(F[k - 1], s[k])
  BY SumSteps
<1>2. PICK G \in [0..n -> Byte] :
        G[0] = 0 /\ G[n] = Sum(t) /\ \A k \in 1..n : G[k] = Add(G[k - 1], t[k])
  BY SumSteps
<1>3. PICK H \in [0..n -> Byte] :
        H[0] = 0 /\ H[n] = Sum(u) /\ \A k \in 1..n : H[k] = Add(H[k - 1], u[k])
  BY SumSteps
<1> DEFINE S == {k \in 0..n : H[k] = Add(F[k], G[k])}
<1>4. 0 \in S
  BY <1>1, <1>2, <1>3, AddZero, SmallBytes
<1>5. ASSUME NEW k \in 0..(n - 1), k \in S PROVE k + 1 \in S
  <2>1. k + 1 \in 1..n /\ k \in 0..n /\ k + 1 \in 0..n /\ (k + 1) - 1 = k
    OBVIOUS
  <2>2. /\ F[k + 1] = Add(F[k], s[k + 1]) /\ G[k + 1] = Add(G[k], t[k + 1])
        /\ H[k + 1] = Add(Add(F[k], G[k]), Add(s[k + 1], t[k + 1]))
    BY <1>1, <1>2, <1>3, <1>5, <2>1
  <2>3. F[k] \in Byte /\ G[k] \in Byte /\ s[k + 1] \in Byte /\ t[k + 1] \in Byte
    BY <2>1
  <2> QED
    BY <2>1, <2>2, <2>3, AddSwap
<1>6. 0..n \subseteq S
  <2> HIDE DEF S
  <2> QED BY <1>4, <1>5, UpToInduction
<1>7. n \in S
  BY <1>6
<1> QED
  BY <1>1, <1>2, <1>3, <1>7

LEMMA SumScale ==
  ASSUME NEW n \in Nat, NEW s \in [1..n -> Byte], NEW c \in Byte,
         NEW u \in [1..n -> Byte], \A i \in 1..n : u[i] = Mul(c, s[i])
  PROVE  Sum(u) = Mul(c, Sum(s))
<1>1. PICK F \in [0..n -> Byte] :
        F[0] = 0 /\ F[n] = Sum(s) /\ \A k \in 1..n : F[k] = Add(F[k - 1], s[k])
  BY SumSteps
<1>2. PICK H \in [0..n -> Byte] :
        H[0] = 0 /\ H[n] = Sum(u) /\ \A k \in 1..n : H[k] = Add(H[k - 1], u[k])
  BY SumSteps
<1> DEFINE S == {k \in 0..n : H[k] = Mul(c, F[k])}
<1>3. 0 \in S
  BY <1>1, <1>2, MulZero
<1>4. ASSUME NEW k \in 0..(n - 1), k \in S PROVE k + 1 \in S
  <2>1. k + 1 \in 1..n /\ k \in 0..n /\ k + 1 \in 0..n /\ (k + 1) - 1 = k
    OBVIOUS
  <2>2. F[k + 1] = Add(F[k], s[k + 1]) /\ H[k + 1] = Add(Mul(c, F[k]), Mul(c, s[k + 1]))
    BY <1>1, <1>2, <1>4, <2>1
  <2>3. F[k] \in Byte /\ s[k + 1] \in Byte
    BY <2>1
  <2> QED
    BY <2>1, <2>2, <2>3, Distributive
<1>5. 0..n \subseteq S
  <2> HIDE DEF S
  <2> QED BY <1>3, <1>4, UpToInduction
<1>6. n \in S
  BY <1>5
<1> QED
  BY <1>1, <1>2, <1>6

(* All terms but one are zero. *)
LEMMA SumSingle ==
  ASSUME NEW n \in Nat, NEW s \in [1..n -> Byte], NEW j \in 1..n,
         \A i \in (1..n) \ {j} : s[i] = 0
  PROVE  Sum(s) = s[j]
<1>1. PICK F \in [0..n -> Byte] :
        F[0] = 0 /\ F[n] = Sum(s) /\ \A k \in 1..n : F[k] = Add(F[k - 1], s[k])
  BY SumSteps
<1> DEFINE S == {k \in 0..n : F[k] = IF k < j THEN 0 ELSE s[j]}
<1>2. 0 \in S
  BY <1>1
<1>3. ASSUME NEW k \in 0..(n - 1), k \in S PROVE k + 1 \in S
  <2>1. k + 1 \in 1..n /\ k \in 0..n /\ k + 1 \in 0..n /\ (k + 1) - 1 = k
    OBVIOUS
  <2>2. F[k + 1] = Add(F[k], s[k + 1])
    BY <1>1, <2>1
  <2>3. CASE k + 1 = j
    <3>1. F[k] = 0 /\ s[k + 1] = s[j] /\ s[j] \in Byte
      BY <1>3, <2>3
    <3> QED
      BY <2>1, <2>2, <2>3, <3>1, AddZero
  <2>4. CASE k + 1 # j
    <3>1. s[k + 1] = 0 /\ (k + 1 < j <=> k < j)
      BY <2>1, <2>4
    <3>2. F[k + 1] = F[k]
      BY <2>1, <2>2, <3>1, AddZero
    <3> QED
      BY <1>3, <2>1, <3>1, <3>2
  <2> QED
    BY <2>3, <2>4
<1>4. 0..n \subseteq S
  <2> HIDE DEF S
  <2> QED BY <1>2, <1>3, UpToInduction
<1>5. n \in S
  BY <1>4
<1> QED
  BY <1>1, <1>5

LEMMA MulSwap ==
  ASSUME NEW a \in Byte, NEW b \in Byte, NEW c \in Byte, NEW d \in Byte
  PROVE  Mul(Mul(a, b), Mul(c, d)) = Mul(Mul(a, c), Mul(b, d))
<1>1. Mul(a, b) \in Byte /\ Mul(c, d) \in Byte /\ Mul(a, c) \in Byte /\ Mul(b, d) \in Byte
  BY MulClosed
<1>2. Mul(Mul(a, b), Mul(c, d)) = Mul(a, Mul(b, Mul(c, d)))
  BY <1>1, MulAssoc
<1>3. Mul(Mul(a, c), Mul(b, d)) = Mul(a, Mul(c, Mul(b, d)))
  BY <1>1, MulAssoc
<1>4. Mul(b, Mul(c, d)) = Mul(Mul(b, c), d)
  BY MulAssoc
<1>5. Mul(c, Mul(b, d)) = Mul(Mul(c, b), d)
  BY MulAssoc
<1> QED
  BY <1>2, <1>3, <1>4, <1>5, MulComm

LEMMA ProductMul ==
  ASSUME NEW n \in Nat, NEW s \in [1..n -> Byte], NEW t \in [1..n -> Byte],
         NEW u \in [1..n -> Byte], \A i \in 1..n : u[i] = Mul(s[i], t[i])
  PROVE  Product(u) = Mul(Product(s), Product(t))
<1>1. PICK F \in [0..n -> Byte] :
        F[0] = 1 /\ F[n] = Product(s) /\ \A k \in 1..n : F[k] = Mul(F[k - 1], s[k])
  BY ProductSteps
<1>2. PICK G \in [0..n -> Byte] :
        G[0] = 1 /\ G[n] = Product(t) /\ \A k \in 1..n : G[k] = Mul(G[k - 1], t[k])
  BY ProductSteps
<1>3. PICK H \in [0..n -> Byte] :
        H[0] = 1 /\ H[n] = Product(u) /\ \A k \in 1..n : H[k] = Mul(H[k - 1], u[k])
  BY ProductSteps
<1> DEFINE S == {k \in 0..n : H[k] = Mul(F[k], G[k])}
<1>4. 0 \in S
  BY <1>1, <1>2, <1>3, MulOne, SmallBytes
<1>5. ASSUME NEW k \in 0..(n - 1), k \in S PROVE k + 1 \in S
  <2>1. k + 1 \in 1..n /\ k \in 0..n /\ k + 1 \in 0..n /\ (k + 1) - 1 = k
    OBVIOUS
  <2>2. /\ F[k + 1] = Mul(F[k], s[k + 1]) /\ G[k + 1] = Mul(G[k], t[k + 1])
        /\ H[k + 1] = Mul(Mul(F[k], G[k]), Mul(s[k + 1], t[k + 1]))
    BY <1>1, <1>2, <1>3, <1>5, <2>1
  <2>3. F[k] \in Byte /\ G[k] \in Byte /\ s[k + 1] \in Byte /\ t[k + 1] \in Byte
    BY <2>1
  <2> QED
    BY <2>1, <2>2, <2>3, MulSwap
<1>6. 0..n \subseteq S
  <2> HIDE DEF S
  <2> QED BY <1>4, <1>5, UpToInduction
<1>7. n \in S
  BY <1>6
<1> QED
  BY <1>1, <1>2, <1>3, <1>7

(* A product is zero if and only if one of its factors is. *)
LEMMA ProductZero ==
  ASSUME NEW n \in Nat, NEW s \in [1..n -> Byte]
  PROVE  Product(s) = 0 <=> \E i \in 1..n : s[i] = 0
<1>1. PICK F \in [0..n -> Byte] :
        F[0] = 1 /\ F[n] = Product(s) /\ \A k \in 1..n : F[k] = Mul(F[k - 1], s[k])
  BY ProductSteps
<1> DEFINE S == {k \in 0..n : F[k] = 0 <=> \E i \in 1..k : s[i] = 0}
<1>2. 0 \in S
  BY <1>1, SmallBytes
<1>3. ASSUME NEW k \in 0..(n - 1), k \in S PROVE k + 1 \in S
  <2>1. k + 1 \in 1..n /\ k \in 0..n /\ k + 1 \in 0..n /\ (k + 1) - 1 = k
    OBVIOUS
  <2>2. F[k + 1] = Mul(F[k], s[k + 1])
    BY <1>1, <2>1
  <2>3. F[k + 1] = 0 <=> F[k] = 0 \/ s[k + 1] = 0
    BY <2>1, <2>2, MulZero, MulNonzero
  <2>4. 1..(k + 1) = (1..k) \cup {k + 1}
    OBVIOUS
  <2> QED
    BY <1>3, <2>1, <2>3, <2>4
<1>4. 0..n \subseteq S
  <2> HIDE DEF S
  <2> QED BY <1>2, <1>3, UpToInduction
<1>5. n \in S
  BY <1>4
<1> QED
  BY <1>1, <1>5

LEMMA ProductOnes ==
  ASSUME NEW n \in Nat, NEW s \in [1..n -> Byte], \A i \in 1..n : s[i] = 1
  PROVE  Product(s) = 1
<1>1. PICK F \in [0..n -> Byte] :
        F[0] = 1 /\ F[n] = Product(s) /\ \A k \in 1..n : F[k] = Mul(F[k - 1], s[k])
  BY ProductSteps
<1> DEFINE S == {k \in 0..n : F[k] = 1}
<1>2. 0 \in S
  BY <1>1
<1>3. ASSUME NEW k \in 0..(n - 1), k \in S PROVE k + 1 \in S
  <2>1. k + 1 \in 1..n /\ k + 1 \in 0..n /\ (k + 1) - 1 = k
    OBVIOUS
  <2> QED
    BY <1>1, <1>3, <2>1, MulOne, SmallBytes
<1>4. 0..n \subseteq S
  <2> HIDE DEF S
  <2> QED BY <1>2, <1>3, UpToInduction
<1>5. n \in S
  BY <1>4
<1> QED
  BY <1>1, <1>5

(* A product without its j-th factor, if that is 1. *)
LEMMA ProductSkip ==
  ASSUME NEW n \in Nat, NEW j \in 1..n, NEW s \in [1..n -> Byte], s[j] = 1,
         NEW t \in [1..(n - 1) -> Byte],
         \A k \in 1..(n - 1) : t[k] = s[IF k < j THEN k ELSE k + 1]
  PROVE  Product(t) = Product(s)
<1>1. PICK F \in [0..n -> Byte] :
        F[0] = 1 /\ F[n] = Product(s) /\ \A k \in 1..n : F[k] = Mul(F[k - 1], s[k])
  BY ProductSteps
<1>2. n - 1 \in Nat
  OBVIOUS
<1>3. PICK G \in [0..(n - 1) -> Byte] :
        /\ G[0] = 1 /\ G[n - 1] = Product(t)
        /\ \A k \in 1..(n - 1) : G[k] = Mul(G[k - 1], t[k])
  BY <1>2, ProductSteps
<1> DEFINE S == {k \in 0..(n - 1) : G[k] = F[IF k < j THEN k ELSE k + 1]}
<1>4. 0 \in S
  BY <1>1, <1>3
<1>5. ASSUME NEW k \in 0..((n - 1) - 1), k \in S PROVE k + 1 \in S
  <2>1. /\ k + 1 \in 1..(n - 1) /\ k + 1 \in 1..n /\ k + 2 \in 1..n /\ k + 1 \in 0..(n - 1)
        /\ (k + 1) - 1 = k /\ (k + 2) - 1 = k + 1 /\ (k + 1) + 1 = k + 2
    OBVIOUS
  <2>2. G[k + 1] = Mul(G[k], t[k + 1])
    BY <1>3, <2>1
  <2>3. F[k + 1] = Mul(F[k], s[k + 1]) /\ F[k + 2] = Mul(F[k + 1], s[k + 2])
    BY <1>1, <2>1
  <2>4. CASE k + 1 < j
    <3>1. k < j /\ G[k] = F[k] /\ t[k + 1] = s[k + 1]
      BY <1>5, <2>1, <2>4
    <3> QED
      BY <2>1, <2>2, <2>3, <2>4, <3>1
  <2>5. CASE k + 1 = j
    <3>1. k < j /\ G[k] = F[k] /\ t[k + 1] = s[k + 2]
      BY <1>5, <2>1, <2>5
    <3>2. F[k + 1] = F[k]
      BY <2>3, <2>5, MulOne
    <3> QED
      BY <2>1, <2>2, <2>3, <2>5, <3>1, <3>2
  <2>6. CASE k + 1 > j
    <3>1. ~(k < j) /\ G[k] = F[k + 1] /\ t[k + 1] = s[k + 2]
      BY <1>5, <2>1, <2>6
    <3> QED
      BY <2>1, <2>2, <2>3, <2>6, <3>1
  <2> QED
    BY <2>4, <2>5, <2>6
<1>6. 0..(n - 1) \subseteq S
  <2> HIDE DEF S
  <2> QED BY <1>2, <1>4, <1>5, UpToInduction
<1>7. n - 1 \in S
  BY <1>2, <1>6
<1>8. CASE n - 1 < j
  <2>1. j = n /\ Product(t) = F[n - 1]
    BY <1>3, <1>7, <1>8
  <2>2. F[n] = Mul(F[n - 1], 1) /\ F[n - 1] \in Byte
    BY <1>1, <2>1
  <2> QED
    BY <1>1, <2>1, <2>2, MulOne
<1>9. CASE ~(n - 1 < j)
  <2>1. (n - 1) + 1 = n
    OBVIOUS
  <2> QED
    BY <1>1, <1>3, <1>7, <1>9, <2>1
<1> QED
  BY <1>8, <1>9

-----------------------------------------------------------------------------
(* The value of a polynomial, by Horner's rule. *)

at(p, k) == IF k \in DOMAIN p THEN p[k] ELSE 0

(* H goes from the highest of N coefficients down. *)
Horner(H, p, x, N) ==
  /\ H[N + 1] = 0
  /\ \A k \in 1..N : H[k] = Add(Mul(H[k + 1], x), at(p, k))

LEMMA AtByte == \A p \in Seq(Byte) : \A k : at(p, k) \in Byte
<1> SUFFICES ASSUME NEW p \in Seq(Byte), NEW k PROVE at(p, k) \in Byte
  OBVIOUS
<1>1. CASE k \in DOMAIN p
  BY <1>1 DEF at
<1>2. CASE k \notin DOMAIN p
  BY <1>2, SmallBytes DEF at
<1> QED
  BY <1>1, <1>2

LEMMA EvaluateSteps ==
  ASSUME NEW p \in Seq(Byte), NEW x \in Byte
  PROVE  \E H \in [1..(Len(p) + 1) -> Byte] :
           Horner(H, p, x, Len(p)) /\ H[1] = evaluate(p, x)
<1> DEFINE n == Len(p)
           op == [i \in 1..n |-> [v \in Byte |-> Add(Mul(v, x), p[i])]]
           IsFold(f) ==
             f = [t \in SUBSET (DOMAIN p) |->
                    IF t = {} THEN 0 ELSE Add(Mul(f[t \ {Min(t)}], x), p[Min(t)])]
           iter == CHOOSE f : IsFold(f)
<1>1. n \in Nat /\ DOMAIN p = 1..n /\ \A i \in 1..n : p[i] \in Byte
  OBVIOUS
<1>2. \A i \in 1..n, v \in Byte : Add(Mul(v, x), p[i]) \in Byte
  BY <1>1, AddClosed, MulClosed
<1>3. 0 \in Byte /\ op \in [1..n -> [Byte -> Byte]]
  BY <1>2, SmallBytes
<1>4. \A t \in SUBSET (1..n) : t # {} => Min(t) \in t
  BY <1>1, MinInSet
<1>5. \A t \in SUBSET (1..n), v \in Byte :
        t # {} => op[Min(t)][v] = Add(Mul(v, x), p[Min(t)])
  BY <1>4
<1>6. \E f : IsFold(f)
  <2>1. PICK f \in [SUBSET (1..n) -> Byte] : FoldsDown(f, 1..n, 0, op)
    <3> HIDE DEF op, n
    <3> QED BY <1>1, <1>3, FoldDownExists
  <2>2. \A t \in SUBSET (1..n) :
          t # {} => op[Min(t)][f[t \ {Min(t)}]] = Add(Mul(f[t \ {Min(t)}], x), p[Min(t)])
    BY <1>5, <2>1
  <2> HIDE DEF op
  <2>3. IsFold(f)
    BY <1>1, <2>1, <2>2 DEF FoldsDown
  <2> QED
    BY <2>3
<1>7. IsFold(iter)
  BY <1>6
<1>8. evaluate(p, x) = iter[DOMAIN p]
  BY DEF evaluate, FoldRight, MapThenFoldSet
<1>9. iter[{}] = 0 /\ StepsDown(iter, 1..n, Byte, op)
  <2> HIDE DEF op, iter
  <2> QED
    BY <1>1, <1>5, <1>7 DEF StepsDown
<1>10. \A k \in 1..n, v \in Byte : op[k][v] = Add(Mul(v, x), at(p, k))
  BY <1>1 DEF at
<1> HIDE DEF op, iter, n
<1>11. PICK H \in [1..(n + 1) -> Byte] : RunsDown(H, n, 0, op) /\ H[1] = iter[1..n]
  BY <1>1, <1>3, <1>9, FoldDown
<1>12. \A k \in 1..n : H[k + 1] \in Byte
  BY <1>1
<1>13. Horner(H, p, x, n)
  BY <1>10, <1>11, <1>12 DEF RunsDown, Horner
<1> QED
  BY <1>1, <1>8, <1>11, <1>13 DEF n

(* Zeros may be added at the high end. *)
LEMMA EvaluatePadded ==
  ASSUME NEW p \in Seq(Byte), NEW x \in Byte, NEW N \in Nat, N >= Len(p)
  PROVE  \E H \in [1..(N + 1) -> Byte] : Horner(H, p, x, N) /\ H[1] = evaluate(p, x)
<1>1. PICK G \in [1..(Len(p) + 1) -> Byte] :
        Horner(G, p, x, Len(p)) /\ G[1] = evaluate(p, x)
  BY EvaluateSteps
<1> DEFINE H == [k \in 1..(N + 1) |-> IF k <= Len(p) THEN G[k] ELSE 0]
<1>2. Len(p) \in Nat /\ DOMAIN p = 1..Len(p)
  OBVIOUS
<1>3. H \in [1..(N + 1) -> Byte]
  BY <1>2, SmallBytes
<1>4. H[N + 1] = 0 /\ H[1] = G[1]
  BY <1>1, <1>2 DEF Horner
<1>5. ASSUME NEW k \in 1..N PROVE H[k] = Add(Mul(H[k + 1], x), at(p, k))
  <2>1. k \in 1..(N + 1) /\ k + 1 \in 1..(N + 1)
    OBVIOUS
  <2>2. CASE k <= Len(p)
    <3>1. k \in 1..Len(p) /\ H[k] = G[k]
      BY <1>2, <2>1, <2>2
    <3>2. H[k + 1] = G[k + 1]
      <4>1. CASE k + 1 <= Len(p)
        BY <2>1, <4>1
      <4>2. CASE ~(k + 1 <= Len(p))
        <5>1. k + 1 = Len(p) + 1
          BY <1>2, <3>1, <4>2
        <5> QED
          BY <1>1, <2>1, <4>2, <5>1 DEF Horner
      <4> QED
        BY <4>1, <4>2
    <3> QED
      BY <1>1, <3>1, <3>2 DEF Horner
  <2>3. CASE ~(k <= Len(p))
    <3>1. ~(k + 1 <= Len(p)) /\ k \notin DOMAIN p
      BY <1>2, <2>3
    <3>2. H[k] = 0 /\ H[k + 1] = 0 /\ at(p, k) = 0
      BY <2>1, <2>3, <3>1 DEF at
    <3> QED
      BY <3>2, MulZero, AddZero, SmallBytes
  <2> QED
    BY <2>2, <2>3
<1> HIDE DEF H
<1> QED
  BY <1>1, <1>3, <1>4, <1>5 DEF Horner

(* The value depends on the coefficients only, not on zeros that follow. *)
LEMMA EvaluateSame ==
  ASSUME NEW p \in Seq(Byte), NEW q \in Seq(Byte), NEW x \in Byte,
         NEW N \in Nat, N >= Len(p), N >= Len(q), \A k \in 1..N : at(p, k) = at(q, k)
  PROVE  evaluate(p, x) = evaluate(q, x)
<1>1. PICK F \in [1..(N + 1) -> Byte] : Horner(F, p, x, N) /\ F[1] = evaluate(p, x)
  BY EvaluatePadded
<1>2. PICK G \in [1..(N + 1) -> Byte] : Horner(G, q, x, N) /\ G[1] = evaluate(q, x)
  BY EvaluatePadded
<1> DEFINE S == {k \in 1..(N + 1) : F[k] = G[k]}
<1>3. N + 1 \in S
  BY <1>1, <1>2 DEF Horner
<1>4. ASSUME NEW k \in 1..N, k + 1 \in S PROVE k \in S
  BY <1>1, <1>2, <1>4 DEF Horner
<1>5. 1..(N + 1) \subseteq S
  <2> HIDE DEF S
  <2> QED BY <1>3, <1>4, DownInduction
<1>6. 1 \in S
  BY <1>5
<1> QED
  BY <1>1, <1>2, <1>6

LEMMA EvaluateByte ==
  ASSUME NEW p \in Seq(Byte), NEW x \in Byte
  PROVE  evaluate(p, x) \in Byte
<1>1. PICK H \in [1..(Len(p) + 1) -> Byte] : H[1] = evaluate(p, x)
  BY EvaluateSteps
<1>2. 1 \in 1..(Len(p) + 1)
  OBVIOUS
<1> QED
  BY <1>1, <1>2

LEMMA EvaluateAtZero ==
  ASSUME NEW p \in Seq(Byte)
  PROVE  evaluate(p, 0) = at(p, 1)
<1>1. 0 \in Byte /\ Len(p) \in Nat /\ Len(p) + 1 \in Nat /\ Len(p) + 1 >= Len(p)
  BY SmallBytes
<1>2. PICK H \in [1..((Len(p) + 1) + 1) -> Byte] :
        Horner(H, p, 0, Len(p) + 1) /\ H[1] = evaluate(p, 0)
  BY <1>1, EvaluatePadded
<1>3. 1 \in 1..(Len(p) + 1)
  BY <1>1
<1> QED
  BY <1>2, <1>3, MulZero, AtByte, AddZero DEF Horner

LEMMA EvaluateZero ==
  ASSUME NEW x \in Byte
  PROVE  evaluate(<<>>, x) = 0
<1>1. <<>> \in Seq(Byte) /\ Len(<<>>) = 0
  OBVIOUS
<1>2. PICK H \in [1..(0 + 1) -> Byte] : Horner(H, <<>>, x, 0) /\ H[1] = evaluate(<<>>, x)
  BY <1>1, EvaluateSteps
<1> QED
  BY <1>2 DEF Horner

-----------------------------------------------------------------------------
(* Sums and multiples. *)

LEMMA MaxOfSet ==
  ASSUME NEW n \in Nat, NEW T \in SUBSET (0..n), T # {}
  PROVE  Max(T) \in T /\ \A k \in T : k <= Max(T)
<1> DEFINE U == {n - k : k \in T}
<1>1. U \in SUBSET Nat /\ U # {}
  <2>1. \A k \in T : n - k \in Nat
    OBVIOUS
  <2> QED
    BY <2>1
<1>2. PICK m \in U : \A k \in U : m <= k
  <2> HIDE DEF U
  <2> QED BY <1>1, LeastElement
<1>3. PICK x \in T : m = n - x
  BY <1>2
<1>4. \A y \in T : x >= y
  <2> SUFFICES ASSUME NEW y \in T PROVE x >= y
    OBVIOUS
  <2>1. n - x <= n - y
    BY <1>2, <1>3
  <2> QED
    BY <2>1
<1> QED
  BY <1>3, <1>4 DEF Max

LEMMA Strip ==
  ASSUME NEW p \in Seq(Byte)
  PROVE  LET s == strip_trailing_zeros(p)
         IN  /\ s \in Seq(Byte)
             /\ Len(s) <= Len(p)
             /\ \A k : at(s, k) = at(p, k)
             /\ (Len(p) > 0 /\ p[Len(p)] # 0) => s = p
<1> DEFINE n == Len(p)
           T == {0} \cup {k \in DOMAIN p : p[k] # 0}
           m == Max(T)
<1>1. n \in Nat /\ DOMAIN p = 1..n
  OBVIOUS
<1>2. T \in SUBSET (0..n) /\ T # {}
  BY <1>1
<1>3. m \in T /\ \A k \in T : k <= m
  <2> HIDE DEF T, n
  <2> QED BY <1>1, <1>2, MaxOfSet
<1>4. m \in 0..n /\ \A k \in 1..n : k > m => p[k] = 0
  <2>1. m \in 0..n
    BY <1>2, <1>3
  <2>2. ASSUME NEW k \in 1..n, k > m, p[k] # 0 PROVE FALSE
    <3>1. k \in T
      BY <1>1, <2>2
    <3>2. k <= m
      BY <1>3, <3>1
    <3> HIDE DEF m
    <3> QED
      BY <2>1, <2>2, <3>2
  <2> QED
    BY <2>1, <2>2
<1>5. strip_trailing_zeros(p) = SubSeq(p, 1, m)
  BY DEF strip_trailing_zeros
<1> HIDE DEF m, T
<1> DEFINE s == SubSeq(p, 1, m)
<1>6. s \in Seq(Byte) /\ Len(s) = m /\ \A k \in 1..m : s[k] = p[k]
  BY <1>1, <1>4
<1>7. \A k : at(s, k) = at(p, k)
  <2> SUFFICES ASSUME NEW k PROVE at(s, k) = at(p, k)
    OBVIOUS
  <2>1. DOMAIN s = 1..m
    BY <1>6
  <2> HIDE DEF s
  <2> QED
    BY <1>1, <1>4, <1>6, <2>1 DEF at
<1>8. ASSUME n > 0, p[n] # 0 PROVE s = p
  <2>1. n \in 1..n /\ ~(n > m)
    BY <1>1, <1>4, <1>8
  <2>2. m = n
    <3> HIDE DEF n
    <3> QED
      BY <1>1, <1>4, <2>1
  <2> QED
    BY <2>2
<1>9. m <= n
  BY <1>1, <1>4
<1> HIDE DEF s
<1> QED
  BY <1>5, <1>6, <1>7, <1>8, <1>9 DEF s

LEMMA MaxOfTwo ==
  ASSUME NEW m \in Nat, NEW n \in Nat
  PROVE  /\ Max({m, n}) \in Nat
         /\ Max({m, n}) >= m /\ Max({m, n}) >= n
         /\ Max({m, n}) = m \/ Max({m, n}) = n
<1>1. CASE m <= n
  <2>1. {m, n} \in SUBSET (0..n) /\ {m, n} # {}
    BY <1>1
  <2> QED
    BY <1>1, <2>1, MaxOfSet
<1>2. CASE n <= m
  <2>1. {m, n} \in SUBSET (0..m) /\ {m, n} # {}
    BY <1>2
  <2> QED
    BY <1>2, <2>1, MaxOfSet
<1> QED
  BY <1>1, <1>2

LEMMA AddPolynomials ==
  ASSUME NEW p \in Seq(Byte), NEW q \in Seq(Byte)
  PROVE  /\ PolyAdd(p, q) \in Seq(Byte)
         /\ \A n \in Nat : Len(p) <= n /\ Len(q) <= n => Len(PolyAdd(p, q)) <= n
         /\ \A k : at(PolyAdd(p, q), k) = Add(at(p, k), at(q, k))
<1> DEFINE n == Max({Len(p), Len(q)})
           sum == [k \in 1..n |-> Add(at(p, k), at(q, k))]
<1>1. /\ Len(p) \in Nat /\ Len(q) \in Nat
      /\ DOMAIN p = 1..Len(p) /\ DOMAIN q = 1..Len(q)
  OBVIOUS
<1>2. n \in Nat /\ n >= Len(p) /\ n >= Len(q) /\ (n = Len(p) \/ n = Len(q))
  BY <1>1, MaxOfTwo
<1>3. PolyAdd(p, q) = strip_trailing_zeros(sum)
  BY DEF PolyAdd, at
<1> HIDE DEF n
<1>4. sum \in Seq(Byte) /\ Len(sum) = n /\ DOMAIN sum = 1..n
  BY <1>2, AtByte, AddClosed
<1>5. ASSUME NEW k PROVE at(sum, k) = Add(at(p, k), at(q, k))
  <2>1. CASE k \in 1..n
    BY <2>1, <1>4 DEF at
  <2>2. CASE k \notin 1..n
    <3>1. 1..Len(p) \subseteq 1..n /\ 1..Len(q) \subseteq 1..n
      <4>1. \A i, j \in Nat : i >= j => 1..j \subseteq 1..i
        OBVIOUS
      <4> QED
        BY <1>1, <1>2, <4>1
    <3>2. k \notin DOMAIN p /\ k \notin DOMAIN q /\ k \notin DOMAIN sum
      BY <1>1, <1>4, <2>2, <3>1, Zenon
    <3>3. at(p, k) = 0 /\ at(q, k) = 0 /\ at(sum, k) = 0
      BY <3>2, Zenon DEF at
    <3> QED
      BY <3>3, AddZero, SmallBytes
  <2> QED
    BY <2>1, <2>2
<1> HIDE DEF sum
<1>6. /\ strip_trailing_zeros(sum) \in Seq(Byte)
      /\ Len(strip_trailing_zeros(sum)) <= n
      /\ \A k : at(strip_trailing_zeros(sum), k) = at(sum, k)
  BY <1>4, Strip
<1>7. Len(strip_trailing_zeros(sum)) \in Nat
  BY <1>6
<1>8. ASSUME NEW b \in Nat, Len(p) <= b, Len(q) <= b PROVE Len(PolyAdd(p, q)) <= b
  <2>1. n <= b /\ Len(sum) = n
    BY <1>2, <1>4, <1>8
  <2>2. \A i, j, k \in Nat : i <= j /\ j <= k => i <= k
    OBVIOUS
  <2> QED
    BY <1>2, <1>3, <1>6, <1>7, <2>1, <2>2
<1> QED
  BY <1>3, <1>5, <1>6, <1>8

LEMMA MulPolynomial ==
  ASSUME NEW p \in Seq(Byte), NEW c \in Byte
  PROVE  /\ ScalarMul(p, c) \in Seq(Byte)
         /\ Len(ScalarMul(p, c)) <= Len(p)
         /\ \A k : at(ScalarMul(p, c), k) = Mul(at(p, k), c)
         /\ (c # 0 /\ Len(p) > 0 /\ p[Len(p)] # 0) => Len(ScalarMul(p, c)) = Len(p)
<1> DEFINE n == Len(p)
           product == [k \in DOMAIN p |-> Mul(p[k], c)]
<1>1. n \in Nat /\ DOMAIN p = 1..n
  OBVIOUS
<1>2. product \in Seq(Byte) /\ Len(product) = n /\ DOMAIN product = 1..n
  BY <1>1, MulClosed
<1>3. \A k : at(product, k) = Mul(at(p, k), c)
  BY <1>1, MulZero DEF at
<1>4. ScalarMul(p, c) = strip_trailing_zeros(product)
  BY DEF ScalarMul
<1>5. ASSUME c # 0, n > 0, p[n] # 0 PROVE product[Len(product)] # 0
  <2>1. n \in DOMAIN p /\ p[n] \in Byte
    BY <1>1, <1>5
  <2> QED
    BY <1>2, <1>5, <2>1, MulNonzero
<1> HIDE DEF product, n
<1>6. /\ strip_trailing_zeros(product) \in Seq(Byte)
      /\ Len(strip_trailing_zeros(product)) <= Len(product)
      /\ \A k : at(strip_trailing_zeros(product), k) = at(product, k)
      /\ (Len(product) > 0 /\ product[Len(product)] # 0) => strip_trailing_zeros(product) = product
  BY <1>2, Strip
<1> QED
  BY <1>2, <1>3, <1>4, <1>5, <1>6 DEF n

(* The value of a sum is the sum of the values. *)
LEMMA EvaluateAdd ==
  ASSUME NEW p \in Seq(Byte), NEW q \in Seq(Byte), NEW x \in Byte,
         NEW r \in Seq(Byte), \A k : at(r, k) = Add(at(p, k), at(q, k))
  PROVE  evaluate(r, x) = Add(evaluate(p, x), evaluate(q, x))
<1> DEFINE N == Len(p) + Len(q) + Len(r)
<1>1. N \in Nat /\ N >= Len(p) /\ N >= Len(q) /\ N >= Len(r)
  OBVIOUS
<1> HIDE DEF N
<1>2. PICK F \in [1..(N + 1) -> Byte] : Horner(F, p, x, N) /\ F[1] = evaluate(p, x)
  BY <1>1, EvaluatePadded
<1>3. PICK G \in [1..(N + 1) -> Byte] : Horner(G, q, x, N) /\ G[1] = evaluate(q, x)
  BY <1>1, EvaluatePadded
<1>4. PICK H \in [1..(N + 1) -> Byte] : Horner(H, r, x, N) /\ H[1] = evaluate(r, x)
  BY <1>1, EvaluatePadded
<1> DEFINE S == {k \in 1..(N + 1) : H[k] = Add(F[k], G[k])}
<1>5. N + 1 \in S
  BY <1>1, <1>2, <1>3, <1>4, AddZero, SmallBytes DEF Horner
<1>6. ASSUME NEW k \in 1..N, k + 1 \in S PROVE k \in S
  <2>1. k \in 1..(N + 1) /\ k + 1 \in 1..(N + 1)
    BY <1>1
  <2>2. /\ F[k] = Add(Mul(F[k + 1], x), at(p, k))
        /\ G[k] = Add(Mul(G[k + 1], x), at(q, k))
        /\ H[k] = Add(Mul(Add(F[k + 1], G[k + 1]), x), Add(at(p, k), at(q, k)))
    BY <1>2, <1>3, <1>4, <1>6 DEF Horner
  <2>3. /\ F[k + 1] \in Byte /\ G[k + 1] \in Byte
        /\ at(p, k) \in Byte /\ at(q, k) \in Byte
    BY <2>1, AtByte
  <2>4. /\ Mul(F[k + 1], x) \in Byte /\ Mul(G[k + 1], x) \in Byte
        /\ Mul(Add(F[k + 1], G[k + 1]), x) = Add(Mul(F[k + 1], x), Mul(G[k + 1], x))
    BY <2>3, Distributive, MulClosed
  <2> QED
    BY <2>1, <2>2, <2>3, <2>4, AddSwap
<1>7. 1..(N + 1) \subseteq S
  <2> HIDE DEF S
  <2> QED BY <1>1, <1>5, <1>6, DownInduction
<1>8. 1 \in S
  BY <1>1, <1>7
<1> QED
  BY <1>2, <1>3, <1>4, <1>8

LEMMA EvaluateScale ==
  ASSUME NEW p \in Seq(Byte), NEW c \in Byte, NEW x \in Byte,
         NEW r \in Seq(Byte), \A k : at(r, k) = Mul(at(p, k), c)
  PROVE  evaluate(r, x) = Mul(evaluate(p, x), c)
<1> DEFINE N == Len(p) + Len(r)
<1>1. N \in Nat /\ N >= Len(p) /\ N >= Len(r)
  OBVIOUS
<1> HIDE DEF N
<1>2. PICK F \in [1..(N + 1) -> Byte] : Horner(F, p, x, N) /\ F[1] = evaluate(p, x)
  BY <1>1, EvaluatePadded
<1>3. PICK H \in [1..(N + 1) -> Byte] : Horner(H, r, x, N) /\ H[1] = evaluate(r, x)
  BY <1>1, EvaluatePadded
<1> DEFINE S == {k \in 1..(N + 1) : H[k] = Mul(F[k], c)}
<1>4. N + 1 \in S
  BY <1>1, <1>2, <1>3, MulZero DEF Horner
<1>5. ASSUME NEW k \in 1..N, k + 1 \in S PROVE k \in S
  <2>1. k \in 1..(N + 1) /\ k + 1 \in 1..(N + 1)
    BY <1>1
  <2>2. /\ F[k] = Add(Mul(F[k + 1], x), at(p, k))
        /\ H[k] = Add(Mul(Mul(F[k + 1], c), x), Mul(at(p, k), c))
    BY <1>2, <1>3, <1>5 DEF Horner
  <2>3. F[k + 1] \in Byte /\ at(p, k) \in Byte /\ Mul(F[k + 1], x) \in Byte
    BY <2>1, AtByte, MulClosed
  <2>4. Mul(Mul(F[k + 1], c), x) = Mul(Mul(F[k + 1], x), c)
    BY <2>3, MulAssoc, MulComm
  <2>5. Mul(F[k], c) = Add(Mul(Mul(F[k + 1], x), c), Mul(at(p, k), c))
    BY <2>2, <2>3, Distributive
  <2> QED
    BY <2>1, <2>2, <2>4, <2>5
<1>6. 1..(N + 1) \subseteq S
  <2> HIDE DEF S
  <2> QED BY <1>1, <1>4, <1>5, DownInduction
<1>7. 1 \in S
  BY <1>1, <1>6
<1> QED
  BY <1>2, <1>3, <1>7

-----------------------------------------------------------------------------
(* Products with a linear polynomial: the ones that interpolation needs. *)

Degrees(p, q, k) == {j \in 1..k : j - 1 <= degree(p) /\ k - j <= degree(q)}

Collects(F, p, q, k) ==
  /\ F[0] = 0
  /\ \A j \in 1..k :
       F[j] = IF j \in Degrees(p, q, k) THEN Add(Mul(p[j], q[k - j + 1]), F[j - 1])
                                        ELSE F[j - 1]

(* A coefficient of a product is the sum of the products of coefficients   *)
(* whose degrees add up to its own.                                        *)
LEMMA ProductCoefficient ==
  ASSUME NEW p \in Seq(Byte), NEW q \in Seq(Byte), Len(p) > 0, Len(q) > 0,
         NEW k \in 1..(degree(p) + degree(q) + 1)
  PROVE  \E F \in [0..k -> Byte] : Collects(F, p, q, k) /\ F[k] = PolyMul(p, q)[k]
<1> DEFINE js == Degrees(p, q, k)
           op == [i \in 1..k |-> [v \in Byte |-> Add(Mul(at(p, i), at(q, k - i + 1)), v)]]
           IsFold(f) ==
             f = [t \in SUBSET js |->
                    IF t = {} THEN 0
                    ELSE Add(Mul(p[Max(t)], q[k - Max(t) + 1]), f[t \ {Max(t)}])]
           iter == CHOOSE f : IsFold(f)
<1>1. /\ k \in Nat /\ Len(p) \in Nat /\ Len(q) \in Nat
      /\ DOMAIN p = 1..Len(p) /\ DOMAIN q = 1..Len(q)
  BY DEF degree
<1>2. \A i \in js : i \in DOMAIN p /\ k - i + 1 \in DOMAIN q
  BY <1>1 DEF degree, Degrees
<1>3. 0 \in Byte /\ op \in [1..k -> [Byte -> Byte]] /\ js \in SUBSET (1..k)
  BY SmallBytes, AddClosed, MulClosed, AtByte DEF Degrees
<1>4. \A i \in js, v \in Byte : op[i][v] = Add(Mul(p[i], q[k - i + 1]), v)
  BY <1>2 DEF at
<1>5. \A t \in SUBSET js : t # {} => Max(t) \in t
  BY <1>1, <1>3, MaxInSet
<1> HIDE DEF js, op
<1>6. \A t \in SUBSET js, v \in Byte :
        t # {} => op[Max(t)][v] = Add(Mul(p[Max(t)], q[k - Max(t) + 1]), v)
  BY <1>4, <1>5
<1>7. \E f : IsFold(f)
  <2>1. PICK f \in [SUBSET js -> Byte] : FoldsUp(f, js, 0, op)
    BY <1>1, <1>3, FoldUpExists
  <2>2. \A t \in SUBSET js :
          t # {} => op[Max(t)][f[t \ {Max(t)}]]
                      = Add(Mul(p[Max(t)], q[k - Max(t) + 1]), f[t \ {Max(t)}])
    BY <1>6, <2>1
  <2>3. IsFold(f)
    BY <2>1, <2>2 DEF FoldsUp
  <2> QED
    BY <2>3
<1>8. IsFold(iter)
  BY <1>7
<1>9. PolyMul(p, q)[k] = iter[js]
  BY DEF PolyMul, MapThenFoldSet, js, Degrees
<1> HIDE DEF iter
<1>10. iter[{}] = 0 /\ StepsUp(iter, js, Byte, op)
  BY <1>6, <1>8 DEF StepsUp
<1>11. PICK F \in [0..k -> Byte] : RunsUp(F, k, js, 0, op) /\ F[k] = iter[js]
  BY <1>1, <1>3, <1>10, FoldUp
<1>12. \A j \in 1..k : F[j - 1] \in Byte
  OBVIOUS
<1>13. \A j \in 1..k : F[j] = IF j \in js THEN Add(Mul(p[j], q[k - j + 1]), F[j - 1])
                                          ELSE F[j - 1]
  BY <1>4, <1>11, <1>12 DEF RunsUp
<1> QED
  BY <1>9, <1>11, <1>13 DEF RunsUp, Collects, js

LEMMA TimesLinear ==
  ASSUME NEW p \in Seq(Byte), NEW q \in Seq(Byte), Len(p) > 0, Len(q) = 2
  PROVE  /\ PolyMul(p, q) \in Seq(Byte)
         /\ Len(PolyMul(p, q)) = Len(p) + 1
         /\ \A k \in 1..(Len(p) + 1) :
              PolyMul(p, q)[k] = Add(Mul(at(p, k), q[1]), Mul(at(p, k - 1), q[2]))
<1> DEFINE n == Len(p)
           r == PolyMul(p, q)
<1>1. n \in Nat /\ DOMAIN p = 1..n /\ degree(p) = n - 1 /\ degree(q) = 1
  BY DEF degree
<1>2. degree(p) + degree(q) + 1 = n + 1
  BY <1>1
<1>3. r = [k \in 1..(n + 1) |-> r[k]]
  BY <1>2 DEF PolyMul
<1>4. q[1] \in Byte /\ q[2] \in Byte
  <2>1. 1 \in DOMAIN q /\ 2 \in DOMAIN q
    OBVIOUS
  <2>2. at(q, 1) \in Byte /\ at(q, 2) \in Byte
    BY AtByte
  <2> QED
    BY <2>1, <2>2 DEF at
<1>5. ASSUME NEW k \in 1..(n + 1)
      PROVE  r[k] = Add(Mul(at(p, k), q[1]), Mul(at(p, k - 1), q[2]))
  <2> DEFINE js == Degrees(p, q, k)
  <2>1. PICK F \in [0..k -> Byte] :
          /\ F[0] = 0
          /\ \A j \in 1..k :
               F[j] = IF j \in js THEN Add(Mul(p[j], q[k - j + 1]), F[j - 1]) ELSE F[j - 1]
          /\ F[k] = r[k]
    <3>1. k \in 1..(degree(p) + degree(q) + 1) /\ Len(q) > 0
      BY <1>2
    <3>2. PICK F \in [0..k -> Byte] : Collects(F, p, q, k) /\ F[k] = PolyMul(p, q)[k]
      BY <3>1, ProductCoefficient
    <3> QED
      BY <3>2 DEF Collects
  <2>2. \A j \in 1..k : j \in js <=> j <= n /\ k <= j + 1
    BY <1>1 DEF Degrees
  <2> HIDE DEF js, r
  <2> DEFINE S == {j \in 0..k : j + 1 < k => F[j] = 0}
  <2>3. 0 \in S
    BY <2>1
  <2>4. ASSUME NEW j \in 0..(k - 1), j \in S PROVE j + 1 \in S
    <3>1. j + 1 \in 1..k /\ (j + 1) - 1 = j /\ j + 1 \in 0..k
      OBVIOUS
    <3>2. (j + 1) + 1 < k => j + 1 \notin js /\ F[j] = 0
      BY <2>2, <2>4, <3>1
    <3> QED
      BY <2>1, <3>1, <3>2
  <2>5. 0..k \subseteq S
    <3> HIDE DEF S
    <3>1. k \in Nat
      BY <1>1
    <3> QED BY <2>3, <2>4, <3>1, UpToInduction
  <2>6. F[k - 1] = Mul(at(p, k - 1), q[2])
    <3>1. CASE k = 1
      <4>1. k - 1 \notin DOMAIN p /\ F[k - 1] = 0
        BY <1>1, <2>1, <3>1
      <4> QED
        BY <4>1, MulZero DEF at
    <3>2. CASE k # 1
      <4>1. /\ k - 1 \in 1..k /\ k - 2 \in 0..k /\ (k - 1) - 1 = k - 2 /\ (k - 2) + 1 < k
            /\ k - (k - 1) + 1 = 2 /\ k - 1 \in 1..n /\ k - 1 <= n /\ k <= (k - 1) + 1
        BY <1>1, <3>2
      <4>2. F[k - 2] = 0 /\ k - 1 \in js
        BY <2>2, <2>5, <4>1
      <4>3. F[k - 1] = Add(Mul(p[k - 1], q[2]), 0)
        BY <2>1, <4>1, <4>2
      <4>4. p[k - 1] \in Byte /\ at(p, k - 1) = p[k - 1]
        BY <1>1, <4>1 DEF at
      <4> QED
        BY <1>4, <4>3, <4>4, MulClosed, AddZero
    <3> QED
      BY <3>1, <3>2
  <2>7. F[k] = Add(Mul(at(p, k), q[1]), F[k - 1])
    <3>1. k \in 1..k /\ k - k + 1 = 1 /\ k <= k + 1
      OBVIOUS
    <3>2. CASE k <= n
      <4>1. k \in js /\ k \in DOMAIN p
        BY <1>1, <2>2, <3>1, <3>2
      <4> QED
        BY <2>1, <3>1, <4>1 DEF at
    <3>3. CASE ~(k <= n)
      <4>1. k \notin js /\ k \notin DOMAIN p
        BY <1>1, <2>2, <3>1, <3>3
      <4>2. F[k] = F[k - 1] /\ F[k - 1] \in Byte
        BY <2>1, <3>1, <4>1
      <4> QED
        BY <4>1, <4>2, MulZero, AddZero DEF at
    <3> QED
      BY <3>2, <3>3
  <2> QED
    BY <2>1, <2>6, <2>7
<1> HIDE DEF r
<1>6. \A k \in 1..(n + 1) : r[k] \in Byte
  BY <1>4, <1>5, AtByte, MulClosed, AddClosed
<1>7. r \in Seq(Byte) /\ Len(r) = n + 1
  BY <1>1, <1>3, <1>6
<1> QED
  BY <1>5, <1>7 DEF r

-----------------------------------------------------------------------------
(* Lagrange's interpolation. *)

LEMMA EvaluateLinear ==
  ASSUME NEW q \in Seq(Byte), NEW x \in Byte, Len(q) = 2
  PROVE  evaluate(q, x) = Add(q[1], Mul(q[2], x))
<1>1. PICK H \in [1..(2 + 1) -> Byte] : Horner(H, q, x, 2) /\ H[1] = evaluate(q, x)
  BY EvaluateSteps
<1>2. 1 \in 1..2 /\ 2 \in 1..2 /\ 1 + 1 = 2 /\ 2 + 1 = 3 /\ 1 \in DOMAIN q /\ 2 \in DOMAIN q
  OBVIOUS
<1>3. at(q, 1) = q[1] /\ at(q, 2) = q[2] /\ at(q, 1) \in Byte /\ at(q, 2) \in Byte
  BY <1>2, AtByte DEF at
<1>4. /\ H[3] = 0 /\ H[2] = Add(Mul(H[3], x), q[2])
      /\ H[1] = Add(Mul(H[2], x), q[1])
  BY <1>1, <1>2, <1>3 DEF Horner
<1>5. H[2] = q[2]
  BY <1>3, <1>4, MulZero, AddZero
<1>6. Mul(q[2], x) \in Byte
  BY <1>3, MulClosed
<1> QED
  BY <1>1, <1>3, <1>4, <1>5, <1>6, AddComm

(* One step of Horner's rule for c times one polynomial plus d times       *)
(* another.                                                                *)
Linear(a, b, c, d, x, u, v) ==
  Add(Mul(Add(Mul(c, a), Mul(d, b)), x), Add(Mul(u, c), Mul(v, d)))
    = Add(Mul(c, Add(Mul(a, x), u)), Mul(d, Add(Mul(b, x), v)))

LEMMA LinearStep ==
  ASSUME NEW a \in Byte, NEW b \in Byte, NEW c \in Byte, NEW d \in Byte,
         NEW x \in Byte, NEW u \in Byte, NEW v \in Byte
  PROVE  Linear(a, b, c, d, x, u, v)
<1>1. /\ Mul(c, a) \in Byte /\ Mul(d, b) \in Byte /\ Mul(a, x) \in Byte /\ Mul(b, x) \in Byte
      /\ Mul(u, c) \in Byte /\ Mul(v, d) \in Byte
      /\ Mul(Mul(c, a), x) \in Byte /\ Mul(Mul(d, b), x) \in Byte
  BY MulClosed
<1>2. Mul(Add(Mul(c, a), Mul(d, b)), x) = Add(Mul(Mul(c, a), x), Mul(Mul(d, b), x))
  BY <1>1, Distributive
<1>3. Mul(c, Add(Mul(a, x), u)) = Add(Mul(c, Mul(a, x)), Mul(c, u))
  BY <1>1, Distributive
<1>4. Mul(d, Add(Mul(b, x), v)) = Add(Mul(d, Mul(b, x)), Mul(d, v))
  BY <1>1, Distributive
<1>5. /\ Mul(c, Mul(a, x)) = Mul(Mul(c, a), x) /\ Mul(d, Mul(b, x)) = Mul(Mul(d, b), x)
      /\ Mul(c, u) = Mul(u, c) /\ Mul(d, v) = Mul(v, d)
  BY MulAssoc, MulComm
<1>6. Add(Add(Mul(Mul(c, a), x), Mul(Mul(d, b), x)), Add(Mul(u, c), Mul(v, d)))
        = Add(Add(Mul(Mul(c, a), x), Mul(u, c)), Add(Mul(Mul(d, b), x), Mul(v, d)))
  BY <1>1, AddSwap
<1> QED
  BY <1>2, <1>3, <1>4, <1>5, <1>6 DEF Linear

(* The value of a product with a linear polynomial is the product of the   *)
(* values.                                                                 *)
LEMMA EvaluateTimesLinear ==
  ASSUME NEW p \in Seq(Byte), NEW q \in Seq(Byte), Len(p) > 0, Len(q) = 2, NEW x \in Byte
  PROVE  evaluate(PolyMul(p, q), x) = Mul(evaluate(p, x), evaluate(q, x))
<1> DEFINE n == Len(p)
           r == PolyMul(p, q)
           c == q[1]
           d == q[2]
<1>1. n \in Nat /\ n > 0 /\ n + 1 \in Nat /\ n + 1 >= n /\ (n + 1) + 1 = n + 2
  OBVIOUS
<1>2. c \in Byte /\ d \in Byte
  <2>1. 1 \in DOMAIN q /\ 2 \in DOMAIN q
    OBVIOUS
  <2>2. at(q, 1) \in Byte /\ at(q, 2) \in Byte
    BY AtByte
  <2> QED
    BY <2>1, <2>2 DEF at
<1>3. r \in Seq(Byte) /\ Len(r) = n + 1 /\ DOMAIN r = 1..(n + 1)
  BY TimesLinear
<1>4. ASSUME NEW k \in 1..(n + 1)
      PROVE  at(r, k) = Add(Mul(at(p, k), c), Mul(at(p, k - 1), d))
  <2>1. r[k] = Add(Mul(at(p, k), c), Mul(at(p, k - 1), d))
    BY TimesLinear
  <2> HIDE DEF r
  <2> QED
    BY <1>3, <2>1 DEF at
<1> HIDE DEF r
<1>5. PICK H \in [1..(n + 2) -> Byte] : Horner(H, p, x, n + 1) /\ H[1] = evaluate(p, x)
  <2> HIDE DEF n
  <2>1. \E H \in [1..((n + 1) + 1) -> Byte] : Horner(H, p, x, n + 1) /\ H[1] = evaluate(p, x)
    BY <1>1, EvaluatePadded DEF n
  <2> QED
    BY <1>1, <2>1
<1>6. PICK R \in [1..(n + 2) -> Byte] : Horner(R, r, x, n + 1) /\ R[1] = evaluate(r, x)
  BY <1>1, <1>3, EvaluateSteps
<1> HIDE DEF c, d, n
<1> DEFINE S == {k \in 1..(n + 1) : R[k + 1] = Add(Mul(c, H[k + 1]), Mul(d, H[k]))}
<1>7. n + 1 \in S
  <2>1. n + 1 \in 1..(n + 1) /\ n + 1 \notin DOMAIN p /\ (n + 1) + 1 = n + 2
    BY <1>1 DEF n
  <2>2. H[n + 2] = 0 /\ R[n + 2] = 0 /\ H[n + 1] = Add(Mul(H[n + 2], x), at(p, n + 1))
    BY <1>5, <1>6, <2>1 DEF Horner
  <2>3. H[n + 1] = 0
    BY <2>1, <2>2, MulZero, AddZero, SmallBytes DEF at
  <2> QED
    BY <2>1, <2>2, <2>3, MulZero, AddZero, SmallBytes
<1>8. ASSUME NEW k \in 1..n, k + 1 \in S PROVE k \in S
  <2>1. /\ k \in 1..(n + 1) /\ k + 1 \in 1..(n + 1) /\ (k + 1) + 1 = k + 2
        /\ k + 2 \in 1..(n + 2) /\ k + 1 \in 1..(n + 2) /\ k \in 1..(n + 2) /\ (k + 1) - 1 = k
    BY <1>1
  <2>2. R[k + 2] = Add(Mul(c, H[k + 2]), Mul(d, H[k + 1]))
    BY <1>8, <2>1
  <2>3. R[k + 1] = Add(Mul(R[k + 2], x), at(r, k + 1))
    BY <1>6, <2>1 DEF Horner
  <2>4. at(r, k + 1) = Add(Mul(at(p, k + 1), c), Mul(at(p, k), d))
    BY <1>4, <2>1
  <2>5. /\ H[k + 1] = Add(Mul(H[k + 2], x), at(p, k + 1))
        /\ H[k] = Add(Mul(H[k + 1], x), at(p, k))
    BY <1>5, <2>1 DEF Horner
  <2>6. H[k + 2] \in Byte /\ H[k + 1] \in Byte /\ at(p, k + 1) \in Byte /\ at(p, k) \in Byte
    BY <2>1, AtByte
  <2>7. Linear(H[k + 2], H[k + 1], c, d, x, at(p, k + 1), at(p, k))
    BY <1>2, <2>6, LinearStep
  <2>8. R[k + 1] = Add(Mul(c, H[k + 1]), Mul(d, H[k]))
    BY <2>2, <2>3, <2>4, <2>5, <2>7, Zenon DEF Linear
  <2> QED
    BY <2>1, <2>8
<1>9. 1..(n + 1) \subseteq S
  <2> HIDE DEF S
  <2> QED BY <1>1, <1>7, <1>8, DownInduction
<1>10. R[2] = Add(Mul(c, H[2]), Mul(d, H[1]))
  <2>1. 1 \in S /\ 1 + 1 = 2
    BY <1>1, <1>9
  <2> QED
    BY <2>1
<1>11. R[1] = Add(Mul(Add(Mul(c, H[2]), Mul(d, H[1])), x), Add(Mul(at(p, 1), c), Mul(0, d)))
  <2>1. 1 \in 1..(n + 1) /\ 1 + 1 = 2 /\ 1 - 1 = 0 /\ 0 \notin DOMAIN p
    BY <1>1
  <2>2. R[1] = Add(Mul(R[2], x), at(r, 1))
    BY <1>6, <2>1 DEF Horner
  <2>3. at(p, 0) = 0
    BY <2>1 DEF at
  <2>4. at(r, 1) = Add(Mul(at(p, 1), c), Mul(0, d))
    BY <1>4, <2>1, <2>3
  <2> QED
    BY <1>10, <2>2, <2>4
<1>12. H[1] = Add(Mul(H[2], x), at(p, 1))
  <2>1. 1 \in 1..(n + 1) /\ 1 + 1 = 2
    BY <1>1
  <2> QED
    BY <1>5, <2>1 DEF Horner
<1>13. /\ H[1] \in Byte /\ H[2] \in Byte /\ at(p, 1) \in Byte /\ 0 \in Byte
       /\ Mul(H[1], x) \in Byte /\ Mul(d, x) \in Byte
  <2>1. 1 \in 1..(n + 2) /\ 2 \in 1..(n + 2)
    BY <1>1
  <2> QED
    BY <1>2, <2>1, AtByte, SmallBytes, MulClosed
<1>14. R[1] = Add(Mul(c, H[1]), Mul(d, Mul(H[1], x)))
  <2>1. Linear(H[2], H[1], c, d, x, at(p, 1), 0)
    BY <1>2, <1>13, LinearStep
  <2> QED
    BY <1>11, <1>12, <1>13, <2>1, AddZero DEF Linear
<1>15. Mul(d, Mul(H[1], x)) = Mul(Mul(d, x), H[1])
  BY <1>2, <1>13, MulAssoc, MulComm
<1>16. R[1] = Mul(Add(c, Mul(d, x)), H[1])
  BY <1>2, <1>13, <1>14, <1>15, Distributive
<1>17. evaluate(q, x) = Add(c, Mul(d, x)) /\ evaluate(q, x) \in Byte
  BY EvaluateLinear, EvaluateByte DEF c, d
<1> QED
  BY <1>5, <1>6, <1>13, <1>16, <1>17, MulComm DEF r

-----------------------------------------------------------------------------
(* Products of linear polynomials and sums of polynomials. *)

NonEmpty == {p \in Seq(Byte) : Len(p) > 0}

Linears == {p \in Seq(Byte) : Len(p) = 2}

LEMMA ProductNonEmpty == \A p \in NonEmpty, q \in Linears : PolyMul(p, q) \in NonEmpty
<1> SUFFICES ASSUME NEW p \in NonEmpty, NEW q \in Linears PROVE PolyMul(p, q) \in NonEmpty
  OBVIOUS
<1>1. p \in Seq(Byte) /\ Len(p) > 0 /\ q \in Seq(Byte) /\ Len(q) = 2 /\ Len(p) \in Nat
  BY DEF NonEmpty, Linears
<1>2. PolyMul(p, q) \in Seq(Byte) /\ Len(PolyMul(p, q)) = Len(p) + 1
  BY <1>1, TimesLinear
<1> QED
  BY <1>1, <1>2 DEF NonEmpty

LEMMA OneNonEmpty == one \in NonEmpty
  BY SmallBytes DEF one, NonEmpty

Polynomials == Seq(Byte)

LEMMA SumOfPolynomials ==
  zero \in Polynomials /\ \A p, q \in Polynomials : PolyAdd(p, q) \in Polynomials
<1>1. zero \in Seq(Byte)
  BY DEF zero
<1>2. \A p, q \in Seq(Byte) : PolyAdd(p, q) \in Seq(Byte)
  BY AddPolynomials
<1> QED
  BY <1>1, <1>2 DEF Polynomials

LEMMA MulSteps ==
  ASSUME NEW n \in Nat, NEW s \in [1..n -> Linears]
  PROVE  \E F \in [0..n -> NonEmpty] :
           /\ F[0] = one
           /\ \A k \in 1..n : F[k] = PolyMul(F[k - 1], s[k])
           /\ F[n] = FoldLeft(PolyMul, one, s)
<1> DEFINE op == [i \in 1..n |-> [v \in NonEmpty |-> PolyMul(v, s[i])]]
           IsFold(f) ==
             f = [t \in SUBSET (1..n) |->
                    IF t = {} THEN one ELSE PolyMul(f[t \ {Max(t)}], s[Max(t)])]
           iter == CHOOSE f : IsFold(f)
<1>1. one \in NonEmpty /\ op \in [1..n -> [NonEmpty -> NonEmpty]] /\ 1..n \in SUBSET (1..n)
  BY OneNonEmpty, ProductNonEmpty
<1>2. \A t \in SUBSET (1..n), v \in NonEmpty : t # {} => op[Max(t)][v] = PolyMul(v, s[Max(t)])
  BY MaxInSet
<1>3. \E f : IsFold(f)
  <2>1. PICK f \in [SUBSET (1..n) -> NonEmpty] : FoldsUp(f, 1..n, one, op)
    <3> HIDE DEF op
    <3> QED BY <1>1, FoldUpExists
  <2>2. \A t \in SUBSET (1..n) :
          t # {} => op[Max(t)][f[t \ {Max(t)}]] = PolyMul(f[t \ {Max(t)}], s[Max(t)])
    BY <1>2, <2>1
  <2> HIDE DEF op
  <2>3. IsFold(f)
    BY <2>1, <2>2 DEF FoldsUp
  <2> QED
    BY <2>3
<1>4. IsFold(iter)
  BY <1>3
<1>5. FoldLeft(PolyMul, one, s) = iter[1..n]
  BY DEF FoldLeft, MapThenFoldSet
<1>6. iter[{}] = one /\ StepsUp(iter, 1..n, NonEmpty, op)
  <2> HIDE DEF op, iter
  <2> QED
    BY <1>2, <1>4 DEF StepsUp
<1>7. \A k \in 1..n, v \in NonEmpty : op[k][v] = PolyMul(v, s[k])
  OBVIOUS
<1> HIDE DEF op, iter
<1>8. PICK F \in [0..n -> NonEmpty] : RunsUp(F, n, 1..n, one, op) /\ F[n] = iter[1..n]
  BY <1>1, <1>6, FoldUp
<1>9. \A k \in 1..n : F[k - 1] \in NonEmpty
  OBVIOUS
<1> QED
  BY <1>5, <1>7, <1>8, <1>9 DEF RunsUp

LEMMA AddSteps ==
  ASSUME NEW n \in Nat, NEW s \in [1..n -> Polynomials]
  PROVE  \E F \in [0..n -> Polynomials] :
           /\ F[0] = zero
           /\ \A k \in 1..n : F[k] = PolyAdd(F[k - 1], s[k])
           /\ F[n] = FoldLeft(PolyAdd, zero, s)
<1> DEFINE op == [i \in 1..n |-> [v \in Polynomials |-> PolyAdd(v, s[i])]]
           IsFold(f) ==
             f = [t \in SUBSET (1..n) |->
                    IF t = {} THEN zero ELSE PolyAdd(f[t \ {Max(t)}], s[Max(t)])]
           iter == CHOOSE f : IsFold(f)
<1>1. zero \in Polynomials /\ op \in [1..n -> [Polynomials -> Polynomials]] /\ 1..n \in SUBSET (1..n)
  BY SumOfPolynomials
<1>2. \A t \in SUBSET (1..n), v \in Polynomials : t # {} => op[Max(t)][v] = PolyAdd(v, s[Max(t)])
  BY MaxInSet
<1>3. \E f : IsFold(f)
  <2>1. PICK f \in [SUBSET (1..n) -> Polynomials] : FoldsUp(f, 1..n, zero, op)
    <3> HIDE DEF op
    <3> QED BY <1>1, FoldUpExists
  <2>2. \A t \in SUBSET (1..n) :
          t # {} => op[Max(t)][f[t \ {Max(t)}]] = PolyAdd(f[t \ {Max(t)}], s[Max(t)])
    BY <1>2, <2>1
  <2> HIDE DEF op
  <2>3. IsFold(f)
    BY <2>1, <2>2 DEF FoldsUp
  <2> QED
    BY <2>3
<1>4. IsFold(iter)
  BY <1>3
<1>5. FoldLeft(PolyAdd, zero, s) = iter[1..n]
  BY DEF FoldLeft, MapThenFoldSet
<1>6. iter[{}] = zero /\ StepsUp(iter, 1..n, Polynomials, op)
  <2> HIDE DEF op, iter
  <2> QED
    BY <1>2, <1>4 DEF StepsUp
<1>7. \A k \in 1..n, v \in Polynomials : op[k][v] = PolyAdd(v, s[k])
  OBVIOUS
<1> HIDE DEF op, iter
<1>8. PICK F \in [0..n -> Polynomials] : RunsUp(F, n, 1..n, zero, op) /\ F[n] = iter[1..n]
  BY <1>1, <1>6, FoldUp
<1>9. \A k \in 1..n : F[k - 1] \in Polynomials
  OBVIOUS
<1> QED
  BY <1>5, <1>7, <1>8, <1>9 DEF RunsUp

LEMMA ProductOfLinears ==
  ASSUME NEW n \in Nat, NEW s \in [1..n -> Linears]
  PROVE  /\ FoldLeft(PolyMul, one, s) \in Seq(Byte)
         /\ Len(FoldLeft(PolyMul, one, s)) = n + 1
         /\ \A x \in Byte :
              evaluate(FoldLeft(PolyMul, one, s), x) = Product([i \in 1..n |-> evaluate(s[i], x)])
<1>1. PICK F \in [0..n -> NonEmpty] :
        /\ F[0] = one
        /\ \A k \in 1..n : F[k] = PolyMul(F[k - 1], s[k])
        /\ F[n] = FoldLeft(PolyMul, one, s)
  BY MulSteps
<1>2. \A k \in 0..n : F[k] \in Seq(Byte) /\ Len(F[k]) > 0
  BY DEF NonEmpty
<1>3. \A k \in 1..n : s[k] \in Seq(Byte) /\ Len(s[k]) = 2
  BY DEF Linears
<1>4. ASSUME NEW k \in 0..(n - 1) PROVE k + 1 \in 1..n /\ (k + 1) - 1 = k /\ k \in 0..n /\ k + 1 \in 0..n
  OBVIOUS
<1> DEFINE S == {k \in 0..n : Len(F[k]) = k + 1}
<1>5. 0 \in S
  BY <1>1 DEF one
<1>6. ASSUME NEW k \in 0..(n - 1), k \in S PROVE k + 1 \in S
  <2>1. F[k + 1] = PolyMul(F[k], s[k + 1])
    BY <1>1, <1>4
  <2>2. Len(F[k + 1]) = Len(F[k]) + 1
    BY <1>2, <1>3, <1>4, <2>1, TimesLinear
  <2> QED
    BY <1>4, <1>6, <2>2
<1>7. n \in S
  <2>1. 0..n \subseteq S
    <3> HIDE DEF S
    <3> QED BY <1>5, <1>6, UpToInduction
  <2> QED
    BY <2>1
<1>8. ASSUME NEW x \in Byte
      PROVE  evaluate(F[n], x) = Product([i \in 1..n |-> evaluate(s[i], x)])
  <2> DEFINE v == [i \in 1..n |-> evaluate(s[i], x)]
  <2>1. v \in [1..n -> Byte] /\ \A i \in 1..n : v[i] = evaluate(s[i], x)
    BY <1>3, EvaluateByte
  <2> HIDE DEF v
  <2>2. PICK G \in [0..n -> Byte] :
          G[0] = 1 /\ (\A k \in 1..n : G[k] = Mul(G[k - 1], v[k])) /\ G[n] = Product(v)
    BY <2>1, ProductSteps
  <2> DEFINE T == {k \in 0..n : evaluate(F[k], x) = G[k]}
  <2>3. 0 \in T
    <3>1. one \in Seq(Byte) /\ Len(one) > 0 /\ at(one, 1) = 1
      BY SmallBytes DEF one, at
    <3>2. evaluate(one, x) = 1
      <4>1. PICK H \in [1..(1 + 1) -> Byte] : Horner(H, one, x, 1) /\ H[1] = evaluate(one, x)
        <5>1. Len(one) = 1
          BY DEF one
        <5> QED
          BY <3>1, <5>1, EvaluateSteps
      <4>2. H[1] = Add(Mul(H[1 + 1], x), at(one, 1)) /\ H[1 + 1] = 0
        BY <4>1 DEF Horner
      <4> QED
        BY <3>1, <4>1, <4>2, MulZero, AddZero, SmallBytes
    <3> QED
      BY <1>1, <2>2, <3>2
  <2>4. ASSUME NEW k \in 0..(n - 1), k \in T PROVE k + 1 \in T
    <3>1. F[k + 1] = PolyMul(F[k], s[k + 1]) /\ G[k + 1] = Mul(G[k], v[k + 1])
      BY <1>1, <1>4, <2>2
    <3>2. evaluate(F[k + 1], x) = Mul(evaluate(F[k], x), evaluate(s[k + 1], x))
      BY <1>2, <1>3, <1>4, <3>1, EvaluateTimesLinear
    <3> QED
      BY <1>4, <2>1, <2>4, <3>1, <3>2
  <2>5. 0..n \subseteq T
    <3> HIDE DEF T
    <3> QED BY <2>3, <2>4, UpToInduction
  <2>6. n \in T
    BY <2>5
  <2> QED
    BY <2>2, <2>6 DEF v
<1> QED
  BY <1>1, <1>2, <1>7, <1>8

LEMMA SumOfValues ==
  ASSUME NEW n \in Nat, NEW b \in Nat, NEW s \in [1..n -> Seq(Byte)],
         \A k \in 1..n : Len(s[k]) <= b
  PROVE  /\ FoldLeft(PolyAdd, zero, s) \in Seq(Byte)
         /\ Len(FoldLeft(PolyAdd, zero, s)) <= b
         /\ \A x \in Byte :
              evaluate(FoldLeft(PolyAdd, zero, s), x) = Sum([i \in 1..n |-> evaluate(s[i], x)])
<1>1. PICK F \in [0..n -> Polynomials] :
        /\ F[0] = zero
        /\ \A k \in 1..n : F[k] = PolyAdd(F[k - 1], s[k])
        /\ F[n] = FoldLeft(PolyAdd, zero, s)
  BY AddSteps DEF Polynomials
<1>2. \A k \in 0..n : F[k] \in Seq(Byte)
  BY DEF Polynomials
<1>3. \A k \in 1..n : s[k] \in Seq(Byte)
  OBVIOUS
<1>4. ASSUME NEW k \in 0..(n - 1) PROVE k + 1 \in 1..n /\ (k + 1) - 1 = k /\ k \in 0..n /\ k + 1 \in 0..n
  OBVIOUS
<1> DEFINE S == {k \in 0..n : Len(F[k]) <= b}
<1>5. 0 \in S
  BY <1>1 DEF zero
<1>6. ASSUME NEW k \in 0..(n - 1), k \in S PROVE k + 1 \in S
  <2>1. F[k + 1] = PolyAdd(F[k], s[k + 1])
    BY <1>1, <1>4
  <2>2. Len(F[k]) <= b /\ Len(s[k + 1]) <= b
    BY <1>4, <1>6
  <2>3. Len(F[k + 1]) <= b
    BY <1>2, <1>3, <1>4, <2>1, <2>2, AddPolynomials
  <2> QED
    BY <1>4, <2>3
<1>7. n \in S
  <2>1. 0..n \subseteq S
    <3> HIDE DEF S
    <3> QED BY <1>5, <1>6, UpToInduction
  <2> QED
    BY <2>1
<1>8. ASSUME NEW x \in Byte
      PROVE  evaluate(F[n], x) = Sum([i \in 1..n |-> evaluate(s[i], x)])
  <2> DEFINE v == [i \in 1..n |-> evaluate(s[i], x)]
  <2>1. v \in [1..n -> Byte] /\ \A i \in 1..n : v[i] = evaluate(s[i], x)
    BY <1>3, EvaluateByte
  <2> HIDE DEF v
  <2>2. PICK G \in [0..n -> Byte] :
          G[0] = 0 /\ (\A k \in 1..n : G[k] = Add(G[k - 1], v[k])) /\ G[n] = Sum(v)
    BY <2>1, SumSteps
  <2> DEFINE T == {k \in 0..n : evaluate(F[k], x) = G[k]}
  <2>3. 0 \in T
    BY <1>1, <2>2, EvaluateZero DEF zero
  <2>4. ASSUME NEW k \in 0..(n - 1), k \in T PROVE k + 1 \in T
    <3>1. F[k + 1] = PolyAdd(F[k], s[k + 1]) /\ G[k + 1] = Add(G[k], v[k + 1])
      BY <1>1, <1>4, <2>2
    <3>2. /\ F[k] \in Seq(Byte) /\ s[k + 1] \in Seq(Byte) /\ F[k + 1] \in Seq(Byte)
          /\ \A i : at(F[k + 1], i) = Add(at(F[k], i), at(s[k + 1], i))
      BY <1>2, <1>3, <1>4, <3>1, AddPolynomials
    <3>3. evaluate(F[k + 1], x) = Add(evaluate(F[k], x), evaluate(s[k + 1], x))
      BY <3>2, EvaluateAdd
    <3> QED
      BY <1>4, <2>1, <2>4, <3>1, <3>3
  <2>5. 0..n \subseteq T
    <3> HIDE DEF T
    <3> QED BY <2>3, <2>4, UpToInduction
  <2>6. n \in T
    BY <2>5
  <2> QED
    BY <2>2, <2>6 DEF v
<1> QED
  BY <1>1, <1>2, <1>7, <1>8

-----------------------------------------------------------------------------
(* Lagrange's interpolation. *)

Apart(xs, n) == \A i, j \in 1..n : xs[i] = xs[j] => i = j

Inverse1(a) == Div(1, a).val

(* The factors of the j-th basis polynomial, and their values. *)
Factor(xs, j, i) == ScalarDiv(monic_linear(Neg(xs[i])), Sub(xs[j], xs[i]))

FactorValue(xs, j, i, x) == Mul(Add(xs[i], x), Inverse1(Add(xs[j], xs[i])))

Others(n, j) == [k \in 1..(n - 1) |-> IF k < j THEN k ELSE k + 1]

LEMMA OkOf == \A v : Ok(v).ok /\ Ok(v).val = v
  BY DEF Ok

LEMMA InverseOf ==
  ASSUME NEW a \in Byte, a # 0
  PROVE  Inverse1(a) \in Byte /\ Inverse1(a) # 0 /\ Mul(a, Inverse1(a)) = 1 /\ Div(1, a) = Ok(Inverse1(a))
<1>1. Div(1, a).ok /\ Div(1, a).val \in Byte /\ Mul(Div(1, a).val, a) = 1
  BY DivResult, SmallBytes
<1>2. Div(1, a) = Ok(Div(1, a).val)
  BY SmallBytes, OkOf DEF Div
<1> QED
  BY <1>1, <1>2, MulComm, MulZero, SmallBytes DEF Inverse1

LEMMA CollectOk ==
  ASSUME NEW n \in Int, NEW results, DOMAIN results = 1..n, \A k \in 1..n : results[k].ok
  PROVE  Collect(results) = Ok([k \in 1..n |-> results[k].val])
  BY DEF Collect

LEMMA FactorOk ==
  ASSUME NEW n \in Nat, NEW xs \in [1..n -> Byte], Apart(xs, n),
         NEW i \in 1..n, NEW j \in 1..n, i # j
  PROVE  /\ Factor(xs, j, i).ok
         /\ Factor(xs, j, i).val \in Linears
         /\ \A x \in Byte : /\ evaluate(Factor(xs, j, i).val, x) = FactorValue(xs, j, i, x)
                            /\ FactorValue(xs, j, i, x) \in Byte
<1> DEFINE c == xs[i]
           d == Add(xs[j], xs[i])
           m == <<c, 1>>
           inv == Inverse1(d)
<1>1. c \in Byte /\ xs[j] \in Byte /\ d \in Byte /\ d # 0
  <2>1. xs[i] \in Byte /\ xs[j] \in Byte /\ xs[i] # xs[j]
    BY DEF Apart
  <2> QED
    BY <2>1, AddClosed, AddZeroEqual
<1>2. monic_linear(Neg(xs[i])) = m /\ Sub(xs[j], xs[i]) = d
  BY <1>1, AddZero DEF monic_linear, Neg, Sub
<1> HIDE DEF d
<1>3. inv \in Byte /\ inv # 0 /\ Div(1, d) = Ok(inv)
  BY <1>1, InverseOf
<1> HIDE DEF inv
<1>4. Factor(xs, j, i) = Ok(ScalarMul(m, inv))
  <2>1. Factor(xs, j, i) = ScalarDiv(m, d)
    BY <1>2 DEF Factor
  <2> HIDE DEF m
  <2>2. ScalarDiv(m, d) = Ok(ScalarMul(m, inv))
    BY <1>3, OkOf DEF ScalarDiv, AndThen
  <2> QED
    BY <2>1, <2>2
<1>5. m \in Seq(Byte) /\ Len(m) = 2 /\ m[1] = c /\ m[2] = 1 /\ m[Len(m)] # 0
  BY <1>1, SmallBytes
<1> HIDE DEF m
<1> DEFINE q == ScalarMul(m, inv)
<1>6. q \in Seq(Byte) /\ Len(q) = 2 /\ \A k : at(q, k) = Mul(at(m, k), inv)
  <2>1. Len(m) > 0
    BY <1>5
  <2> QED
    BY <1>3, <1>5, <2>1, MulPolynomial
<1> HIDE DEF q
<1>7. ASSUME NEW x \in Byte
      PROVE  /\ evaluate(q, x) = FactorValue(xs, j, i, x)
             /\ FactorValue(xs, j, i, x) \in Byte
  <2>1. evaluate(q, x) = Mul(evaluate(m, x), inv)
    BY <1>3, <1>5, <1>6, EvaluateScale
  <2>2. evaluate(m, x) = Add(c, x)
    BY <1>5, EvaluateLinear, MulOne
  <2>3. Add(c, x) \in Byte
    BY <1>1, AddClosed
  <2> QED
    BY <1>3, <2>1, <2>2, <2>3, MulClosed DEF FactorValue, inv, d
<1> QED
  BY <1>4, <1>6, <1>7, OkOf DEF q, Linears

LEMMA OthersRange ==
  ASSUME NEW n \in Nat, NEW j \in 1..n
  PROVE  \A k \in 1..(n - 1) : Others(n, j)[k] \in 1..n /\ Others(n, j)[k] # j
  BY DEF Others

(* The j-th basis polynomial times the j-th value, as the code computes it. *)
Term(xs, ys, n, j) ==
  AndThen(Collect([k \in DOMAIN Others(n, j) |-> Factor(xs, j, Others(n, j)[k])]),
          LAMBDA factors : Ok(ScalarMul(FoldLeft(PolyMul, one, factors), ys[j])))

Fraction(xs, j, i, x) == IF i = j THEN 1 ELSE FactorValue(xs, j, i, x)

Basis(xs, n, j, x) == Product([i \in 1..n |-> Fraction(xs, j, i, x)])

LEMMA FractionByte ==
  ASSUME NEW n \in Nat, NEW xs \in [1..n -> Byte], Apart(xs, n), NEW j \in 1..n, NEW x \in Byte
  PROVE  [i \in 1..n |-> Fraction(xs, j, i, x)] \in [1..n -> Byte]
  BY FactorOk, SmallBytes DEF Fraction

LEMMA TermOk ==
  ASSUME NEW n \in Nat, NEW xs \in [1..n -> Byte], NEW ys \in [1..n -> Byte], Apart(xs, n),
         NEW j \in 1..n
  PROVE  /\ Term(xs, ys, n, j).ok
         /\ Term(xs, ys, n, j).val \in Seq(Byte)
         /\ Len(Term(xs, ys, n, j).val) <= n
         /\ \A x \in Byte :
              evaluate(Term(xs, ys, n, j).val, x) = Mul(Basis(xs, n, j, x), ys[j])
<1> DEFINE m == n - 1
           o == Others(n, j)
           results == [k \in DOMAIN o |-> Factor(xs, j, o[k])]
           s == [k \in 1..m |-> results[k].val]
           P == FoldLeft(PolyMul, one, s)
<1>1. m \in Nat /\ DOMAIN o = 1..m /\ ys[j] \in Byte
  BY DEF Others
<1>2. \A k \in 1..m : o[k] \in 1..n /\ o[k] # j
  BY OthersRange
<1> HIDE DEF m, o
<1>3. \A k \in 1..m : results[k] = Factor(xs, j, o[k])
  BY <1>1
<1>4. \A k \in 1..m :
        /\ results[k].ok /\ results[k].val \in Linears
        /\ \A x \in Byte : evaluate(results[k].val, x) = FactorValue(xs, j, o[k], x)
  <2> SUFFICES ASSUME NEW k \in 1..m
               PROVE  /\ results[k].ok /\ results[k].val \in Linears
                      /\ \A x \in Byte : evaluate(results[k].val, x) = FactorValue(xs, j, o[k], x)
    OBVIOUS
  <2>1. results[k] = Factor(xs, j, o[k]) /\ o[k] \in 1..n /\ j # o[k]
    BY <1>2, <1>3
  <2> HIDE DEF results
  <2> QED
    BY <2>1, FactorOk
<1>5. DOMAIN results = 1..m
  BY <1>1
<1>6. Term(xs, ys, n, j) = AndThen(Collect(results), LAMBDA factors : Ok(ScalarMul(FoldLeft(PolyMul, one, factors), ys[j])))
  BY DEF Term, o
<1> HIDE DEF results
<1>7. Collect(results) = Ok(s)
  BY <1>1, <1>4, <1>5, CollectOk
<1>8. s \in [1..m -> Linears] /\ \A k \in 1..m : s[k] = results[k].val
  BY <1>4
<1> HIDE DEF s
<1>9. Term(xs, ys, n, j) = Ok(ScalarMul(P, ys[j]))
  BY <1>6, <1>7, OkOf DEF AndThen
<1>10. /\ P \in Seq(Byte) /\ Len(P) = m + 1
       /\ \A x \in Byte : evaluate(P, x) = Product([k \in 1..m |-> evaluate(s[k], x)])
  BY <1>1, <1>8, ProductOfLinears
<1> HIDE DEF P
<1>11. /\ ScalarMul(P, ys[j]) \in Seq(Byte) /\ Len(ScalarMul(P, ys[j])) <= m + 1
       /\ \A x \in Byte : evaluate(ScalarMul(P, ys[j]), x) = Mul(evaluate(P, x), ys[j])
  BY <1>1, <1>10, MulPolynomial, EvaluateScale
<1>12. ASSUME NEW x \in Byte
       PROVE  evaluate(P, x) = Basis(xs, n, j, x)
  <2> DEFINE t == [k \in 1..(n - 1) |-> evaluate(s[k], x)]
             f == [i \in 1..n |-> Fraction(xs, j, i, x)]
  <2>1. evaluate(P, x) = Product(t)
    BY <1>10 DEF m
  <2>2. f \in [1..n -> Byte] /\ f[j] = 1
    BY FractionByte DEF Fraction
  <2>3. \A k \in 1..(n - 1) : t[k] = f[IF k < j THEN k ELSE k + 1]
    <3> SUFFICES ASSUME NEW k \in 1..(n - 1) PROVE t[k] = f[IF k < j THEN k ELSE k + 1]
      OBVIOUS
    <3>1. k \in 1..m /\ o[k] = IF k < j THEN k ELSE k + 1
      BY DEF m, o, Others
    <3>2. t[k] = FactorValue(xs, j, o[k], x)
      BY <1>4, <1>8, <3>1
    <3>3. f[o[k]] = FactorValue(xs, j, o[k], x)
      BY <1>2, <3>1 DEF Fraction
    <3> QED
      BY <3>1, <3>2, <3>3
  <2>4. t \in [1..(n - 1) -> Byte]
    <3>1. \A k \in 1..(n - 1) : s[k] \in Seq(Byte)
      BY <1>8 DEF Linears, m
    <3> QED
      BY <3>1, EvaluateByte
  <2> HIDE DEF t, f
  <2>5. Product(t) = Product(f)
    BY <2>2, <2>3, <2>4, ProductSkip
  <2> QED
    BY <2>1, <2>5 DEF f, Basis
<1>13. m + 1 = n
  BY DEF m
<1> QED
  BY <1>9, <1>11, <1>12, <1>13, OkOf

(* The value at x of the polynomial that interpolate returns. *)
LagrangeValue(xs, ys, n, x) == Sum([j \in 1..n |-> Mul(Basis(xs, n, j, x), ys[j])])

PointsOf(xs, ys, n) == [k \in 1..n |-> <<xs[k], ys[k]>>]

LEMMA BasisByte ==
  ASSUME NEW n \in Nat, NEW xs \in [1..n -> Byte], Apart(xs, n), NEW j \in 1..n, NEW x \in Byte
  PROVE  Basis(xs, n, j, x) \in Byte
  BY FractionByte, ProductByte DEF Basis

(* interpolate succeeds on points with distinct x, with a polynomial of at *)
(* most as many coefficients as there are points.                          *)
LEMMA InterpolateOk ==
  ASSUME NEW n \in Nat, NEW xs \in [1..n -> Byte], NEW ys \in [1..n -> Byte], Apart(xs, n)
  PROVE  LET result == interpolate(PointsOf(xs, ys, n))
         IN  /\ result.ok
             /\ result.val \in Seq(Byte)
             /\ Len(result.val) <= n
             /\ \A x \in Byte : evaluate(result.val, x) = LagrangeValue(xs, ys, n, x)
<1> DEFINE points == PointsOf(xs, ys, n)
           results == [j \in 1..n |-> Term(xs, ys, n, j)]
           s == [j \in 1..n |-> results[j].val]
           P == FoldLeft(PolyAdd, zero, s)
<1>1. /\ DOMAIN points = 1..n /\ Len(points) = n
      /\ \A k \in 1..n : points[k][1] = xs[k] /\ points[k][2] = ys[k]
  <2>1. points \in Seq(Byte \X Byte)
    BY DEF PointsOf
  <2> QED
    BY <2>1 DEF PointsOf
<1>2. interpolate(points) = AndThen(Collect(results), LAMBDA terms : Ok(FoldLeft(PolyAdd, zero, terms)))
  <2> DEFINE X(k) == points[k][1]
             factor(j, i) == ScalarDiv(monic_linear(Neg(X(i))), Sub(X(j), X(i)))
             term(j) ==
               AndThen(Collect([k \in DOMAIN Others(Len(points), j) |->
                                  factor(j, Others(Len(points), j)[k])]),
                       LAMBDA factors : Ok(ScalarMul(FoldLeft(PolyMul, one, factors), points[j][2])))
  <2>1. interpolate(points)
          = AndThen(Collect([j \in DOMAIN points |-> term(j)]),
                    LAMBDA terms : Ok(FoldLeft(PolyAdd, zero, terms)))
    BY DEF interpolate, Others
  <2>2. ASSUME NEW j \in 1..n PROVE term(j) = Term(xs, ys, n, j)
    <3>1. \A k \in DOMAIN Others(n, j) : Others(n, j)[k] \in 1..n
      BY OthersRange DEF Others
    <3> HIDE DEF points
    <3>2. \A k \in DOMAIN Others(n, j) : factor(j, Others(n, j)[k]) = Factor(xs, j, Others(n, j)[k])
      BY <1>1, <3>1 DEF Factor
    <3> HIDE DEF factor
    <3>3. [k \in DOMAIN Others(n, j) |-> factor(j, Others(n, j)[k])]
            = [k \in DOMAIN Others(n, j) |-> Factor(xs, j, Others(n, j)[k])]
      BY <3>2
    <3>4. Len(points) = n /\ points[j][2] = ys[j]
      BY <1>1
    <3> DEFINE c == Collect([k \in DOMAIN Others(n, j) |-> Factor(xs, j, Others(n, j)[k])])
               body(collected, y) ==
                 IF collected.ok
                 THEN Ok(ScalarMul(FoldLeft(PolyMul, one, collected.val), y))
                 ELSE collected
    <3>5. Term(xs, ys, n, j) = body(c, ys[j])
      BY DEF Term, AndThen
    <3>6. term(j) = body(Collect([k \in DOMAIN Others(Len(points), j) |->
                                    factor(j, Others(Len(points), j)[k])]), points[j][2])
      BY DEF AndThen
    <3> HIDE DEF body, term
    <3> QED
      BY <3>3, <3>4, <3>5, <3>6, Zenon
  <2>3. [j \in DOMAIN points |-> term(j)] = results
    <3> HIDE DEF term, points
    <3> QED
      BY <1>1, <2>2
  <2> QED
    BY <2>1, <2>3
<1>3. \A j \in 1..n :
        /\ results[j].ok /\ results[j].val \in Seq(Byte) /\ Len(results[j].val) <= n
        /\ \A x \in Byte : evaluate(results[j].val, x) = Mul(Basis(xs, n, j, x), ys[j])
  <2> SUFFICES ASSUME NEW j \in 1..n
               PROVE  /\ results[j].ok /\ results[j].val \in Seq(Byte) /\ Len(results[j].val) <= n
                      /\ \A x \in Byte : evaluate(results[j].val, x) = Mul(Basis(xs, n, j, x), ys[j])
    OBVIOUS
  <2>1. results[j] = Term(xs, ys, n, j)
    OBVIOUS
  <2> HIDE DEF results
  <2> QED
    BY <2>1, TermOk
<1>4. DOMAIN results = 1..n
  OBVIOUS
<1> HIDE DEF results, points
<1>5. Collect(results) = Ok(s)
  BY <1>3, <1>4, CollectOk
<1>6. s \in [1..n -> Seq(Byte)] /\ \A j \in 1..n : s[j] = results[j].val
  BY <1>3
<1> HIDE DEF s
<1>7. interpolate(points) = Ok(P)
  BY <1>2, <1>5, OkOf DEF AndThen
<1>8. /\ P \in Seq(Byte) /\ Len(P) <= n
      /\ \A x \in Byte : evaluate(P, x) = Sum([j \in 1..n |-> evaluate(s[j], x)])
  BY <1>3, <1>6, SumOfValues
<1> HIDE DEF P
<1>9. ASSUME NEW x \in Byte PROVE evaluate(P, x) = LagrangeValue(xs, ys, n, x)
  <2>1. \A j \in 1..n : evaluate(s[j], x) = Mul(Basis(xs, n, j, x), ys[j])
    BY <1>3, <1>6
  <2>2. [j \in 1..n |-> evaluate(s[j], x)] = [j \in 1..n |-> Mul(Basis(xs, n, j, x), ys[j])]
    BY <2>1
  <2> QED
    BY <1>8, <2>2 DEF LagrangeValue
<1> QED
  BY <1>7, <1>8, <1>9, OkOf DEF points

(* The polynomial passes through its points. *)
LEMMA InterpolateExact ==
  ASSUME NEW n \in Nat, NEW xs \in [1..n -> Byte], NEW ys \in [1..n -> Byte], Apart(xs, n),
         NEW j \in 1..n
  PROVE  LagrangeValue(xs, ys, n, xs[j]) = ys[j]
<1> DEFINE x == xs[j]
           v == [k \in 1..n |-> Mul(Basis(xs, n, k, x), ys[k])]
<1>1. x \in Byte /\ ys[j] \in Byte
  OBVIOUS
<1>2. Basis(xs, n, j, x) = 1
  <2> DEFINE f == [i \in 1..n |-> Fraction(xs, j, i, x)]
  <2>1. f \in [1..n -> Byte]
    BY <1>1, FractionByte
  <2>2. ASSUME NEW i \in 1..n PROVE Fraction(xs, j, i, x) = 1
    <3>1. CASE i = j
      BY <3>1 DEF Fraction
    <3>2. CASE i # j
      <4>1. xs[i] \in Byte /\ xs[j] \in Byte /\ xs[i] # xs[j]
        BY <3>2 DEF Apart
      <4>2. Add(xs[i], xs[j]) \in Byte /\ Add(xs[i], xs[j]) = Add(xs[j], xs[i]) /\ Add(xs[i], xs[j]) # 0
        BY <4>1, AddClosed, AddComm, AddZeroEqual
      <4> QED
        BY <3>2, <4>2, InverseOf DEF Fraction, FactorValue
    <3> QED
      BY <3>1, <3>2
  <2>3. \A i \in 1..n : f[i] = 1
    BY <2>2
  <2> HIDE DEF f
  <2>4. Product(f) = 1
    BY <2>1, <2>3, ProductOnes
  <2> QED
    BY <2>4 DEF Basis, f
<1>3. ASSUME NEW k \in 1..n, k # j PROVE Basis(xs, n, k, x) = 0
  <2> DEFINE f == [i \in 1..n |-> Fraction(xs, k, i, x)]
  <2>1. f \in [1..n -> Byte]
    BY <1>1, FractionByte
  <2>2. f[j] = 0
    BY <1>1, <1>3, AddSelf, MulZero DEF Fraction, FactorValue
  <2> HIDE DEF f
  <2>3. Product(f) = 0
    BY <2>1, <2>2, ProductZero
  <2> QED
    BY <2>3 DEF Basis, f
<1>4. v[j] = ys[j] /\ \A k \in (1..n) \ {j} : v[k] = 0
  BY <1>1, <1>2, <1>3, MulOne, MulZero
<1>5. v \in [1..n -> Byte]
  <2>1. \A k \in 1..n : Basis(xs, n, k, x) \in Byte /\ ys[k] \in Byte
    BY <1>1, BasisByte
  <2> QED
    BY <2>1, MulClosed
<1> HIDE DEF v
<1>6. Sum(v) = v[j]
  BY <1>4, <1>5, SumSingle
<1> QED
  BY <1>4, <1>6 DEF LagrangeValue, v

-----------------------------------------------------------------------------
(* A polynomial of m coefficients that is zero at m points is zero. *)

Roots(p, xs, n) == \A i \in 1..n : evaluate(p, xs[i]) = 0

(* Division by X - r, where p(r) = 0. *)
LEMMA DivideByRoot ==
  ASSUME NEW m \in Nat, m > 0, NEW p \in Seq(Byte), Len(p) = m + 1, NEW r \in Byte,
         evaluate(p, r) = 0
  PROVE  \E q \in Seq(Byte) : Len(q) = m /\ p = PolyMul(q, <<r, 1>>)
<1>1. PICK H \in [1..((m + 1) + 1) -> Byte] : Horner(H, p, r, m + 1) /\ H[1] = evaluate(p, r)
  BY EvaluateSteps
<1> DEFINE q == [k \in 1..m |-> H[k + 1]]
           l == <<r, 1>>
<1>2. \A k \in 1..((m + 1) + 1) : H[k] \in Byte
  OBVIOUS
<1>3. q \in Seq(Byte) /\ Len(q) = m /\ DOMAIN q = 1..m /\ \A k \in 1..m : q[k] = H[k + 1]
  OBVIOUS
<1>4. l \in Seq(Byte) /\ Len(l) = 2 /\ l[1] = r /\ l[2] = 1
  BY SmallBytes
<1> HIDE DEF q, l
<1>5. ASSUME NEW k \in 1..(m + 1)
      PROVE  at(q, k) = H[k + 1] /\ at(q, k - 1) = H[k]
  <2>1. at(q, k) = H[k + 1]
    <3>1. CASE k \in 1..m
      BY <1>3, <3>1 DEF at
    <3>2. CASE k \notin 1..m
      <4>1. k + 1 = (m + 1) + 1
        BY <3>2
      <4> QED
        BY <1>1, <1>3, <3>2, <4>1 DEF at, Horner
    <3> QED
      BY <3>1, <3>2
  <2>2. at(q, k - 1) = H[k]
    <3>1. CASE k = 1
      BY <1>1, <1>3, <3>1 DEF at
    <3>2. CASE k # 1
      <4>1. k - 1 \in 1..m /\ (k - 1) + 1 = k
        BY <3>2
      <4> QED
        BY <1>3, <4>1 DEF at
    <3> QED
      BY <3>1, <3>2
  <2> QED
    BY <2>1, <2>2
<1>6. /\ PolyMul(q, l) \in Seq(Byte) /\ Len(PolyMul(q, l)) = m + 1
      /\ \A k \in 1..(m + 1) :
           PolyMul(q, l)[k] = Add(Mul(at(q, k), r), Mul(at(q, k - 1), 1))
  <2>1. Len(q) > 0
    BY <1>3
  <2>2. /\ PolyMul(q, l) \in Seq(Byte) /\ Len(PolyMul(q, l)) = Len(q) + 1
        /\ \A k \in 1..(Len(q) + 1) :
             PolyMul(q, l)[k] = Add(Mul(at(q, k), l[1]), Mul(at(q, k - 1), l[2]))
    BY <1>3, <1>4, <2>1, TimesLinear
  <2> QED
    BY <1>3, <1>4, <2>2
<1>7. ASSUME NEW k \in 1..(m + 1) PROVE PolyMul(q, l)[k] = p[k]
  <2>1. k \in 1..((m + 1) + 1) /\ k + 1 \in 1..((m + 1) + 1) /\ k \in DOMAIN p
    OBVIOUS
  <2>2. H[k] = Add(Mul(H[k + 1], r), p[k])
    BY <1>1, <2>1 DEF Horner, at
  <2>3. PolyMul(q, l)[k] = Add(Mul(H[k + 1], r), Mul(H[k], 1))
    BY <1>5, <1>6
  <2>4. H[k] \in Byte /\ H[k + 1] \in Byte /\ p[k] \in Byte /\ Mul(H[k + 1], r) \in Byte
    <3>1. at(p, k) \in Byte
      BY AtByte
    <3> QED
      BY <1>2, <2>1, <3>1, MulClosed DEF at
  <2>5. PolyMul(q, l)[k] = Add(Mul(H[k + 1], r), Add(Mul(H[k + 1], r), p[k]))
    BY <2>2, <2>3, <2>4, MulOne
  <2> QED
    BY <2>4, <2>5, AddAssoc, AddSelf, AddZero
<1>8. p = PolyMul(q, l)
  <2> HIDE DEF l
  <2>1. DOMAIN p = 1..(m + 1)
    OBVIOUS
  <2> DEFINE s == PolyMul(q, l)
  <2>2. s \in Seq(Byte) /\ Len(s) = m + 1 /\ \A k \in 1..(m + 1) : s[k] = p[k]
    BY <1>6, <1>7
  <2> HIDE DEF s
  <2>3. s = p
    BY <2>2
  <2> QED
    BY <2>3 DEF s
<1> QED
  BY <1>3, <1>8 DEF l

LEMMA ManyRoots ==
  ASSUME NEW m \in Nat
  PROVE  \A p \in Seq(Byte), xs \in [1..m -> Byte] :
           (Len(p) = m /\ Apart(xs, m) /\ Roots(p, xs, m)) => \A k \in 1..m : p[k] = 0
<1> DEFINE P(n) == \A p \in Seq(Byte), xs \in [1..n -> Byte] :
                     (Len(p) = n /\ Apart(xs, n) /\ Roots(p, xs, n)) => \A k \in 1..n : p[k] = 0
           S == {n \in 0..m : P(n)}
<1>1. 0 \in S
  OBVIOUS
<1>2. ASSUME NEW n \in 0..(m - 1), P(n) PROVE P(n + 1)
  <2> SUFFICES ASSUME NEW p \in Seq(Byte), NEW xs \in [1..(n + 1) -> Byte],
                      Len(p) = n + 1, Apart(xs, n + 1), Roots(p, xs, n + 1)
               PROVE  \A k \in 1..(n + 1) : p[k] = 0
    OBVIOUS
  <2> DEFINE r == xs[n + 1]
  <2>1. /\ n + 1 \in 1..(n + 1) /\ n \in Nat /\ r \in Byte /\ evaluate(p, r) = 0
        /\ \A k \in 1..n : k \in 1..(n + 1) /\ k # n + 1
    BY DEF Roots
  <2> HIDE DEF r, P
  <2>2. CASE n = 0
    <3>1. PICK H \in [1..(1 + 1) -> Byte] : Horner(H, p, r, 1) /\ H[1] = evaluate(p, r)
      <4>1. Len(p) = 1
        BY <2>2
      <4> QED
        BY <2>1, <4>1, EvaluateSteps
    <3>2. 1 \in DOMAIN p /\ 1 \in 1..1
      BY <2>2
    <3>3. H[1] = Add(Mul(H[1 + 1], r), p[1]) /\ H[1 + 1] = 0
      BY <3>1, <3>2 DEF Horner, at
    <3>4. p[1] \in Byte
      BY <3>2, AtByte DEF at
    <3>5. p[1] = 0
      BY <2>1, <3>1, <3>3, <3>4, MulZero, AddZero
    <3> QED
      BY <2>2, <3>5
  <2>3. CASE n # 0
    <3>1. PICK q \in Seq(Byte) : Len(q) = n /\ p = PolyMul(q, <<r, 1>>)
      <4>1. /\ n \in Nat /\ n > 0 /\ r \in Byte
            /\ p \in Seq(Byte) /\ Len(p) = n + 1 /\ evaluate(p, r) = 0
        BY <2>1, <2>3
      <4> QED
        BY ONLY <4>1, DivideByRoot
    <3> DEFINE l == <<r, 1>>
               ys == [k \in 1..n |-> xs[k]]
    <3>2. l \in Seq(Byte) /\ Len(l) = 2 /\ l[1] = r /\ l[2] = 1 /\ Len(q) > 0
      BY <2>1, <2>3, <3>1, SmallBytes
    <3>3. ys \in [1..n -> Byte] /\ Apart(ys, n)
      BY <2>1 DEF Apart
    <3>4. ASSUME NEW k \in 1..n PROVE evaluate(q, ys[k]) = 0
      <4>1. xs[k] \in Byte /\ xs[k] # r /\ evaluate(p, xs[k]) = 0
        BY <2>1 DEF Apart, Roots, r
      <4> HIDE DEF l
      <4>2. evaluate(p, xs[k]) = Mul(evaluate(q, xs[k]), evaluate(l, xs[k]))
        BY <3>1, <3>2, <4>1, EvaluateTimesLinear DEF l
      <4>3. evaluate(l, xs[k]) = Add(r, xs[k])
        BY <3>2, <4>1, EvaluateLinear, MulOne
      <4>4. evaluate(l, xs[k]) # 0 /\ evaluate(l, xs[k]) \in Byte /\ evaluate(q, xs[k]) \in Byte
        BY <2>1, <3>2, <4>1, <4>3, AddZeroEqual, EvaluateByte
      <4> QED
        BY <4>1, <4>2, <4>4, MulNonzero
    <3>5. Roots(q, ys, n)
      BY <3>4 DEF Roots
    <3> HIDE DEF ys, l
    <3>6. \A k \in 1..n : q[k] = 0
      BY <1>2, <3>1, <3>3, <3>5 DEF P
    <3>7. \A k : at(q, k) = 0
      BY <3>1, <3>6 DEF at
    <3>8. ASSUME NEW k \in 1..(n + 1) PROVE p[k] = 0
      <4>1. PolyMul(q, l)[k] = Add(Mul(at(q, k), r), Mul(at(q, k - 1), 1))
        <5>1. PolyMul(q, l)[k] = Add(Mul(at(q, k), l[1]), Mul(at(q, k - 1), l[2]))
          BY <3>1, <3>2, TimesLinear
        <5> QED
          BY <3>2, <5>1
      <4> QED
        BY <3>1, <3>7, <4>1, MulZero, AddZero, SmallBytes DEF l
    <3> QED
      BY <3>8
  <2> QED
    BY <2>2, <2>3
<1>3. 0..m \subseteq S
  <2>1. \A n \in 0..(m - 1) : n \in S => n + 1 \in S
    <3> SUFFICES ASSUME NEW n \in 0..(m - 1), n \in S PROVE n + 1 \in S
      OBVIOUS
    <3>1. P(n) /\ n + 1 \in 0..m
      OBVIOUS
    <3>2. P(n + 1)
      BY <1>2, <3>1
    <3> QED
      BY <3>1, <3>2
  <2> HIDE DEF S
  <2> QED BY <1>1, <2>1, UpToInduction
<1>4. m \in S
  BY <1>3
<1> QED
  BY <1>4

(* Two polynomials of at most m coefficients that agree at m points have   *)
(* the same coefficients, and the same values everywhere.                  *)
LEMMA Determined ==
  ASSUME NEW m \in Nat, NEW p \in Seq(Byte), NEW q \in Seq(Byte), Len(p) <= m, Len(q) <= m,
         NEW xs \in [1..m -> Byte], Apart(xs, m),
         \A i \in 1..m : evaluate(p, xs[i]) = evaluate(q, xs[i])
  PROVE  /\ \A k : at(p, k) = at(q, k)
         /\ \A x \in Byte : evaluate(p, x) = evaluate(q, x)
<1> DEFINE r == [k \in 1..m |-> Add(at(p, k), at(q, k))]
<1>1. \A k : at(p, k) \in Byte /\ at(q, k) \in Byte
  BY AtByte
<1>2. /\ r \in Seq(Byte) /\ Len(r) = m /\ DOMAIN r = 1..m
      /\ \A k \in 1..m : r[k] = Add(at(p, k), at(q, k))
  BY <1>1, AddClosed
<1> HIDE DEF r
<1>3. \A k : k \notin 1..m => at(p, k) = 0 /\ at(q, k) = 0
  <2>1. DOMAIN p = 1..Len(p) /\ DOMAIN q = 1..Len(q) /\ Len(p) \in Nat /\ Len(q) \in Nat
    OBVIOUS
  <2>2. 1..Len(p) \subseteq 1..m /\ 1..Len(q) \subseteq 1..m
    BY <2>1
  <2>3. DOMAIN p \subseteq 1..m /\ DOMAIN q \subseteq 1..m
    BY <2>1, <2>2
  <2> QED
    BY <2>3, Zenon DEF at
<1>4. \A k : at(r, k) = Add(at(p, k), at(q, k))
  <2> SUFFICES ASSUME NEW k PROVE at(r, k) = Add(at(p, k), at(q, k))
    OBVIOUS
  <2>1. CASE k \in 1..m
    BY <1>2, <2>1 DEF at
  <2>2. CASE k \notin 1..m
    BY <1>2, <1>3, <2>2, AddZero, SmallBytes DEF at
  <2> QED
    BY <2>1, <2>2
<1>5. Roots(r, xs, m)
  <2> SUFFICES ASSUME NEW i \in 1..m PROVE evaluate(r, xs[i]) = 0
    BY DEF Roots
  <2>1. xs[i] \in Byte
    OBVIOUS
  <2>2. evaluate(r, xs[i]) = Add(evaluate(p, xs[i]), evaluate(q, xs[i]))
    BY <1>2, <1>4, <2>1, EvaluateAdd
  <2>3. evaluate(p, xs[i]) \in Byte
    BY <2>1, EvaluateByte
  <2> QED
    BY <2>2, <2>3, AddSelf
<1>6. \A k \in 1..m : r[k] = 0
  BY <1>2, <1>5, ManyRoots
<1>7. \A k : at(p, k) = at(q, k)
  <2> SUFFICES ASSUME NEW k PROVE at(p, k) = at(q, k)
    OBVIOUS
  <2>1. CASE k \in 1..m
    BY <1>1, <1>2, <1>6, <2>1, AddZeroEqual
  <2>2. CASE k \notin 1..m
    BY <1>3, <2>2
  <2> QED
    BY <2>1, <2>2
<1> QED
  BY <1>7, EvaluateSame

(* polynomial.rs:54-77: interpolate, given points with different x, returns *)
(* the one polynomial of at most as many coefficients as there are points   *)
(* that passes through all of them.                                         *)
THEOREM InterpolatesUniquely ==
  ASSUME NEW n \in Nat, NEW xs \in [1..n -> Byte], NEW ys \in [1..n -> Byte], Apart(xs, n)
  PROVE  LET result == interpolate(PointsOf(xs, ys, n))
         IN  /\ result.ok /\ result.val \in Seq(Byte) /\ Len(result.val) <= n
             /\ \A i \in 1..n : evaluate(result.val, xs[i]) = ys[i]
             /\ \A q \in Seq(Byte) :
                  /\ Len(q) <= n
                  /\ \A i \in 1..n : evaluate(q, xs[i]) = ys[i]
                  => \A k : at(q, k) = at(result.val, k)
<1> DEFINE result == interpolate(PointsOf(xs, ys, n))
           p == result.val
<1>1. /\ result.ok /\ p \in Seq(Byte) /\ Len(p) <= n
      /\ \A x \in Byte : evaluate(p, x) = LagrangeValue(xs, ys, n, x)
  BY InterpolateOk
<1>2. \A i \in 1..n : xs[i] \in Byte
  OBVIOUS
<1> HIDE DEF result
<1>3. \A i \in 1..n : evaluate(p, xs[i]) = ys[i]
  BY <1>1, <1>2, InterpolateExact
<1>4. ASSUME NEW q \in Seq(Byte), Len(q) <= n,
             \A i \in 1..n : evaluate(q, xs[i]) = ys[i]
      PROVE  \A k : at(q, k) = at(p, k)
  <2>1. \A i \in 1..n : evaluate(q, xs[i]) = evaluate(p, xs[i])
    BY <1>3, <1>4
  <2> HIDE DEF p
  <2> QED
    BY <1>1, <1>4, <2>1, Determined
<1> QED
  BY <1>1, <1>3, <1>4 DEF result

-----------------------------------------------------------------------------
(* Arrays of bytes. *)

ArraysOver(places) == SUBSET (places \X (0..7))

LEMMA NoBits == FromBits({}) = 0
<1>1. Bits(FromBits({})) = {}
  BY BitsOfFromBits
<1> QED
  BY <1>1, FromBitsByte, ZeroBits, BitsInjective

LEMMA ByteAtByte == \A a, p : ByteAt(a, p) \in Byte
  BY FromBitsByte DEF ByteAt

LEMMA ByteAtFromBytes ==
  ASSUME NEW bytes, NEW p \in DOMAIN bytes, bytes[p] \in Byte
  PROVE  ByteAt(FromBytes(bytes), p) = bytes[p]
<1> DEFINE s == {i \in 0..7 : <<p, i>> \in FromBytes(bytes)}
<1>1. ASSUME NEW i, NEW q PROVE <<q, i>> \in FromBytes(bytes) <=> q \in DOMAIN bytes /\ i \in Bits(bytes[q])
  BY DEF FromBytes
<1>2. s = Bits(bytes[p])
  <2>1. \A i : i \in s <=> i \in 0..7 /\ i \in Bits(bytes[p])
    BY <1>1
  <2> HIDE DEF s
  <2> QED
    BY <2>1, BitsSubset
<1> QED
  BY <1>2, FromBitsOfBits DEF ByteAt

LEMMA ByteAtOutside ==
  ASSUME NEW bytes, NEW p, p \notin DOMAIN bytes
  PROVE  ByteAt(FromBytes(bytes), p) = 0
<1>1. {i \in 0..7 : <<p, i>> \in FromBytes(bytes)} = {}
  BY DEF FromBytes
<1> QED
  BY <1>1, NoBits DEF ByteAt

LEMMA FromBytesArray ==
  ASSUME NEW places, NEW bytes, DOMAIN bytes \subseteq places
  PROVE  FromBytes(bytes) \in ArraysOver(places)
<1>1. ASSUME NEW bit \in FromBytes(bytes) PROVE bit \in places \X (0..7)
  <2>1. PICK q \in DOMAIN bytes : bit \in {<<q, i>> : i \in Bits(bytes[q])}
    BY <1>1 DEF FromBytes
  <2>2. PICK i \in Bits(bytes[q]) : bit = <<q, i>>
    BY <2>1
  <2>3. i \in 0..7 /\ q \in places
    BY <2>2, BitsSubset
  <2> QED
    BY <2>2, <2>3
<1> QED
  BY <1>1 DEF ArraysOver

(* Arrays with the same bytes are the same. *)
LEMMA SameBytes ==
  ASSUME NEW places, NEW a \in ArraysOver(places), NEW b \in ArraysOver(places),
         \A p \in places : ByteAt(a, p) = ByteAt(b, p)
  PROVE  a = b
<1> DEFINE bits(c, p) == {i \in 0..7 : <<p, i>> \in c}
<1>1. ASSUME NEW p \in places PROVE bits(a, p) = bits(b, p)
  <2>1. bits(a, p) \in SUBSET (0..7) /\ bits(b, p) \in SUBSET (0..7)
    OBVIOUS
  <2>2. FromBits(bits(a, p)) = FromBits(bits(b, p))
    BY DEF ByteAt
  <2> HIDE DEF bits
  <2> QED
    BY <2>1, <2>2, BitsOfFromBits
<1>2. \A p \in places, i \in 0..7 : <<p, i>> \in a <=> <<p, i>> \in b
  <2> SUFFICES ASSUME NEW p \in places, NEW i \in 0..7 PROVE <<p, i>> \in a <=> <<p, i>> \in b
    OBVIOUS
  <2>1. i \in bits(a, p) <=> i \in bits(b, p)
    BY <1>1
  <2> QED
    BY <2>1
<1>3. ASSUME NEW bit \in places \X (0..7) PROVE bit \in a <=> bit \in b
  <2>1. PICK p \in places, i \in 0..7 : bit = <<p, i>>
    OBVIOUS
  <2> QED
    BY <1>2, <2>1
<1>4. a \subseteq places \X (0..7) /\ b \subseteq places \X (0..7)
  BY DEF ArraysOver
<1> QED
  BY <1>3, <1>4

LEMMA ByteAtXor ==
  ASSUME NEW a, NEW b, NEW p
  PROVE  ByteAt(xor(a, b), p) = Add(ByteAt(a, p), ByteAt(b, p))
<1> DEFINE bits(c) == {i \in 0..7 : <<p, i>> \in c}
<1>1. bits(a) \in SUBSET (0..7) /\ bits(b) \in SUBSET (0..7) /\ bits(xor(a, b)) \in SUBSET (0..7)
  OBVIOUS
<1>2. bits(xor(a, b)) = SymDiff(bits(a), bits(b))
  BY DEF xor, SymDiff
<1>3. /\ ByteAt(a, p) = FromBits(bits(a)) /\ ByteAt(b, p) = FromBits(bits(b))
      /\ ByteAt(xor(a, b), p) = FromBits(bits(xor(a, b)))
  BY DEF ByteAt
<1> HIDE DEF bits
<1>4. Bits(ByteAt(xor(a, b), p)) = SymDiff(Bits(ByteAt(a, p)), Bits(ByteAt(b, p)))
  BY <1>1, <1>2, <1>3, BitsOfFromBits
<1>5. /\ ByteAt(a, p) \in Byte /\ ByteAt(b, p) \in Byte /\ ByteAt(xor(a, b), p) \in Byte
  BY ByteAtByte
<1> QED
  BY <1>4, <1>5, BitsOfAdd, BitsInjective

LEMMA XorArray ==
  ASSUME NEW places, NEW a \in ArraysOver(places), NEW b \in ArraysOver(places)
  PROVE  xor(a, b) \in ArraysOver(places)
  BY DEF xor, SymDiff, ArraysOver

LEMMA EmptyArray ==
  /\ \A places : {} \in ArraysOver(places)
  /\ \A p : ByteAt({}, p) = 0
<1>1. \A p : {i \in 0..7 : <<p, i>> \in {}} = {}
  OBVIOUS
<1> QED
  BY <1>1, NoBits DEF ArraysOver, ByteAt

(* Where no array of a set has a bit, all have the byte 0. *)
LEMMA OutsidePositions ==
  ASSUME NEW arrays, NEW a \in arrays, NEW p, p \notin PositionsOf(arrays)
  PROVE  ByteAt(a, p) = 0
<1>1. ASSUME NEW i \in 0..7, <<p, i>> \in a PROVE FALSE
  <2>1. <<p, i>> \in UNION arrays
    BY <1>1
  <2>2. p \in {bit[1] : bit \in UNION arrays}
    BY <2>1
  <2> QED
    BY <2>2 DEF PositionsOf, Support
<1>2. {i \in 0..7 : <<p, i>> \in a} = {}
  BY <1>1
<1> QED
  BY <1>2, NoBits DEF ByteAt

LEMMA PositionsInPlaces ==
  ASSUME NEW places, <<>> \in places, NEW arrays \in SUBSET ArraysOver(places)
  PROVE  PositionsOf(arrays) \subseteq places /\ <<>> \in PositionsOf(arrays)
<1>1. \A bit \in UNION arrays : bit[1] \in places
  BY DEF ArraysOver
<1> QED
  BY <1>1 DEF PositionsOf, Support

-----------------------------------------------------------------------------
(* combine_byte is Lagrange's polynomial at 0. *)

LEMMA ProductSingle ==
  ASSUME NEW n \in Nat, NEW s \in [1..n -> Byte], NEW j \in 1..n,
         \A i \in (1..n) \ {j} : s[i] = 1
  PROVE  Product(s) = s[j]
<1>1. PICK F \in [0..n -> Byte] :
        F[0] = 1 /\ F[n] = Product(s) /\ \A k \in 1..n : F[k] = Mul(F[k - 1], s[k])
  BY ProductSteps
<1> DEFINE S == {k \in 0..n : F[k] = IF k < j THEN 1 ELSE s[j]}
<1>2. 0 \in S
  BY <1>1
<1>3. ASSUME NEW k \in 0..(n - 1), k \in S PROVE k + 1 \in S
  <2>1. k + 1 \in 1..n /\ k \in 0..n /\ k + 1 \in 0..n /\ (k + 1) - 1 = k
    OBVIOUS
  <2>2. F[k + 1] = Mul(F[k], s[k + 1])
    BY <1>1, <2>1
  <2>3. CASE k + 1 = j
    <3>1. F[k] = 1 /\ s[k + 1] = s[j] /\ s[j] \in Byte
      BY <1>3, <2>3
    <3> QED
      BY <2>1, <2>2, <2>3, <3>1, MulOne
  <2>4. CASE k + 1 # j
    <3>1. s[k + 1] = 1 /\ (k + 1 < j <=> k < j)
      BY <2>1, <2>4
    <3>2. F[k + 1] = F[k]
      BY <2>1, <2>2, <3>1, MulOne
    <3> QED
      BY <1>3, <2>1, <3>1, <3>2
  <2> QED
    BY <2>3, <2>4
<1>4. 0..n \subseteq S
  <2> HIDE DEF S
  <2> QED BY <1>2, <1>3, UpToInduction
<1>5. n \in S
  BY <1>4
<1> QED
  BY <1>1, <1>5

(* The differences x_j - x_k, and 1 for k itself. *)
Differences(xs, n, k) == [j \in 1..n |-> IF xs[j] = xs[k] THEN 1 ELSE Sub(xs[j], xs[k])]

Denominator(xs, n, k) == Mul(xs[k], Product(Differences(xs, n, k)))

LEMMA DenominatorNonzero ==
  ASSUME NEW n \in Nat, NEW xs \in [1..n -> Byte], \A i \in 1..n : xs[i] # 0, NEW k \in 1..n
  PROVE  /\ Differences(xs, n, k) \in [1..n -> Byte]
         /\ Product(Differences(xs, n, k)) \in Byte
         /\ Denominator(xs, n, k) \in Byte
         /\ Denominator(xs, n, k) # 0
<1> DEFINE D == Differences(xs, n, k)
<1>1. D \in [1..n -> Byte] /\ \A j \in 1..n : D[j] # 0
  <2>1. ASSUME NEW j \in 1..n
        PROVE  (IF xs[j] = xs[k] THEN 1 ELSE Sub(xs[j], xs[k])) \in Byte \ {0}
    <3>1. xs[j] \in Byte /\ xs[k] \in Byte
      OBVIOUS
    <3>2. xs[j] # xs[k] => Sub(xs[j], xs[k]) \in Byte \ {0}
      BY <3>1, AddClosed, AddZeroEqual DEF Sub
    <3> QED
      BY <3>2, SmallBytes
  <2> QED
    BY <2>1 DEF Differences
<1> HIDE DEF D
<1>2. Product(D) \in Byte /\ Product(D) # 0
  BY <1>1, ProductByte, ProductZero
<1>3. xs[k] \in Byte /\ xs[k] # 0
  OBVIOUS
<1>4. Mul(xs[k], Product(D)) \in Byte \ {0}
  BY <1>2, <1>3, MulNonzero
<1> QED
  BY <1>1, <1>2, <1>4 DEF D, Denominator

(* The coefficient of y_k in the value at 0 is the product of all x over   *)
(* the denominator that combine_byte computes.                             *)
LEMMA BasisAtZero ==
  ASSUME NEW n \in Nat, NEW xs \in [1..n -> Byte], Apart(xs, n), \A i \in 1..n : xs[i] # 0,
         NEW k \in 1..n
  PROVE  Mul(Basis(xs, n, k, 0), Denominator(xs, n, k)) = Product(xs)
<1> DEFINE f == [i \in 1..n |-> Fraction(xs, k, i, 0)]
           D == Differences(xs, n, k)
           e == [i \in 1..n |-> IF i = k THEN 1 ELSE xs[i]]
           o == [i \in 1..n |-> IF i = k THEN xs[k] ELSE 1]
<1>1. xs[k] \in Byte /\ 0 \in Byte /\ 1 \in Byte
  BY SmallBytes
<1>2. f \in [1..n -> Byte] /\ \A i \in 1..n : f[i] = Fraction(xs, k, i, 0)
  BY <1>1, FractionByte
<1>3. D \in [1..n -> Byte] /\ Product(D) \in Byte
      /\ \A i \in 1..n : D[i] = IF xs[i] = xs[k] THEN 1 ELSE Sub(xs[i], xs[k])
  BY DenominatorNonzero DEF Differences
<1>4. /\ e \in [1..n -> Byte] /\ \A i \in 1..n : e[i] = IF i = k THEN 1 ELSE xs[i]
      /\ o \in [1..n -> Byte] /\ \A i \in 1..n : o[i] = IF i = k THEN xs[k] ELSE 1
  BY <1>1
<1> HIDE DEF f, D, e, o
<1>5. ASSUME NEW i \in 1..n PROVE e[i] = Mul(f[i], D[i])
  <2>1. CASE i = k
    BY <1>1, <1>2, <1>3, <1>4, <2>1, MulOne DEF Fraction
  <2>2. CASE i # k
    <3> DEFINE d == Add(xs[i], xs[k])
    <3>1. xs[i] \in Byte /\ xs[k] \in Byte /\ xs[i] # xs[k]
      BY <2>2 DEF Apart
    <3>2. d \in Byte /\ d # 0 /\ Add(xs[k], xs[i]) = d
      BY <3>1, AddClosed, AddComm, AddZeroEqual
    <3>3. D[i] = d
      BY <1>3, <3>1 DEF Sub
    <3>4. f[i] = Mul(Add(xs[i], 0), Inverse1(Add(xs[k], xs[i])))
      BY <1>2, <2>2 DEF Fraction, FactorValue
    <3> HIDE DEF d
    <3>5. Inverse1(d) \in Byte /\ Mul(d, Inverse1(d)) = 1
      BY <3>2, InverseOf
    <3>6. f[i] = Mul(xs[i], Inverse1(d))
      BY <3>1, <3>2, <3>4, AddZero
    <3>7. Mul(f[i], D[i]) = Mul(xs[i], Mul(Inverse1(d), d))
      BY <3>1, <3>2, <3>3, <3>5, <3>6, MulAssoc
    <3>8. Mul(Inverse1(d), d) = 1
      BY <3>2, <3>5, MulComm
    <3> QED
      BY <1>4, <2>2, <3>1, <3>7, <3>8, MulOne
  <2> QED
    BY <2>1, <2>2
<1>6. Product(e) = Mul(Product(f), Product(D))
  BY <1>2, <1>3, <1>4, <1>5, ProductMul
<1>7. Product(o) = xs[k]
  <2>1. \A i \in (1..n) \ {k} : o[i] = 1
    BY <1>4
  <2>2. Product(o) = o[k]
    BY <1>4, <2>1, ProductSingle
  <2> QED
    BY <1>4, <2>2
<1>8. Product(xs) = Mul(Product(e), Product(o))
  <2>1. \A i \in 1..n : xs[i] = Mul(e[i], o[i])
    <3> SUFFICES ASSUME NEW i \in 1..n PROVE xs[i] = Mul(e[i], o[i])
      OBVIOUS
    <3>1. xs[i] \in Byte
      OBVIOUS
    <3> QED
      BY <1>4, <3>1, MulOne
  <2> QED
    BY <1>4, <2>1, ProductMul
<1>9. Product(f) \in Byte /\ Product(f) = Basis(xs, n, k, 0)
  BY <1>2, ProductByte DEF Basis, f
<1>10. Mul(Product(f), Mul(xs[k], Product(D))) = Mul(Mul(Product(f), Product(D)), xs[k])
  BY <1>1, <1>3, <1>9, MulAssoc, MulComm
<1> QED
  BY <1>6, <1>7, <1>8, <1>9, <1>10 DEF Denominator, D

LEMMA BasisAtZeroNonzero ==
  ASSUME NEW n \in Nat, NEW xs \in [1..n -> Byte], Apart(xs, n), \A i \in 1..n : xs[i] # 0,
         NEW k \in 1..n
  PROVE  Basis(xs, n, k, 0) # 0
<1>1. Product(xs) # 0
  BY ProductZero
<1> QED
  BY <1>1, BasisAtZero, MulZero

LEMMA CombineByte ==
  ASSUME NEW n \in Nat, n > 0, NEW xs \in [1..n -> Byte], NEW ys \in [1..n -> Byte],
         Apart(xs, n), \A i \in 1..n : xs[i] # 0
  PROVE  combine_byte(PointsOf(xs, ys, n)) = Ok(LagrangeValue(xs, ys, n, 0))
<1> DEFINE points == PointsOf(xs, ys, n)
           q == [k \in 1..n |-> Div(ys[k], Denominator(xs, n, k)).val]
           v == [k \in 1..n |-> Mul(Basis(xs, n, k, 0), ys[k])]
           product == Product(xs)
<1>1. /\ DOMAIN points = 1..n /\ points # <<>>
      /\ \A k \in 1..n : points[k][1] = xs[k] /\ points[k][2] = ys[k]
  <2>1. points \in Seq(Byte \X Byte) /\ Len(points) = n
    BY DEF PointsOf
  <2> QED
    BY <2>1 DEF PointsOf
<1>2. Indices(points) = xs
  <2> HIDE DEF points
  <2> QED
    BY <1>1 DEF Indices
<1>3. AllUnique(xs) /\ ~Contains(xs, 0)
  <2>1. DOMAIN xs = 1..n /\ Len(xs) = n
    OBVIOUS
  <2> QED
    BY <2>1 DEF AllUnique, Contains, Apart
<1>4. combine_byte(points) = Ok(Mul(product, Sum(q)))
  <2> HIDE DEF points
  <2> DEFINE index(k) == points[k][1]
             differences(k) ==
               [j \in DOMAIN points |-> IF index(j) = index(k) THEN 1 ELSE Sub(index(j), index(k))]
             denominator(k) == Mul(index(k), Product(differences(k)))
             quotients == [k \in DOMAIN points |-> Div(points[k][2], denominator(k)).val]
  <2>1. combine_byte(points) = Ok(Mul(Product(Indices(points)), Sum(quotients)))
    BY <1>1, <1>2, <1>3 DEF combine_byte
  <2>2. ASSUME NEW k \in 1..n PROVE differences(k) = Differences(xs, n, k)
    BY <1>1 DEF Differences
  <2>3. \A k \in 1..n : denominator(k) = Denominator(xs, n, k)
    <3> HIDE DEF differences
    <3> QED
      BY <1>1, <2>2 DEF Denominator
  <2>4. quotients = q
    <3> HIDE DEF denominator
    <3> QED
      BY <1>1, <2>3
  <2> QED
    BY <1>2, <2>1, <2>4
<1>5. product \in Byte
  BY ProductByte
<1>6. ASSUME NEW k \in 1..n
      PROVE  /\ Div(ys[k], Denominator(xs, n, k)).val \in Byte
             /\ Mul(Basis(xs, n, k, 0), ys[k]) \in Byte
             /\ Mul(Basis(xs, n, k, 0), ys[k]) = Mul(product, Div(ys[k], Denominator(xs, n, k)).val)
  <2> DEFINE d == Denominator(xs, n, k)
             b == Basis(xs, n, k, 0)
             i == Inverse1(d)
  <2>1. d \in Byte /\ d # 0 /\ b \in Byte /\ ys[k] \in Byte /\ Mul(b, d) = product
    BY DenominatorNonzero, BasisByte, BasisAtZero, SmallBytes
  <2> HIDE DEF d, b, product
  <2>2. i \in Byte /\ Mul(d, i) = 1
    BY <2>1, InverseOf
  <2>3. Div(ys[k], d).val = Mul(ys[k], i)
    BY <2>1, DivIsMul DEF Inverse1
  <2> HIDE DEF i
  <2>4. Mul(Mul(b, d), Mul(ys[k], i)) = Mul(Mul(b, ys[k]), Mul(d, i))
    BY <2>1, <2>2, MulSwap
  <2>5. Mul(b, ys[k]) \in Byte /\ Mul(ys[k], i) \in Byte
    BY <2>1, <2>2, MulClosed
  <2>6. Mul(b, ys[k]) = Mul(product, Mul(ys[k], i))
    BY <2>1, <2>2, <2>4, <2>5, MulOne
  <2> QED
    BY <2>3, <2>5, <2>6 DEF d, b
<1>7. /\ q \in [1..n -> Byte] /\ v \in [1..n -> Byte]
      /\ \A k \in 1..n : v[k] = Mul(product, q[k])
  BY <1>6
<1> HIDE DEF q, v, product
<1>8. Sum(v) = Mul(product, Sum(q))
  BY <1>5, <1>7, SumScale
<1> QED
  BY <1>4, <1>8 DEF LagrangeValue, v

-----------------------------------------------------------------------------
(* combine and tss_interpolate, at each position. *)

Indexed(xs, as, n) == [k \in 1..n |-> <<xs[k], as[k]>>]

BytesAt(as, n, p) == [k \in 1..n |-> ByteAt(as[k], p)]

Accepted(xs, n) == n > 0 /\ Apart(xs, n) /\ \A i \in 1..n : xs[i] # 0

LEMMA BytesAtBytes == \A as, p : \A n \in Nat : BytesAt(as, n, p) \in [1..n -> Byte]
  BY ByteAtByte DEF BytesAt

LEMMA AtPositionOf ==
  ASSUME NEW n \in Nat, NEW xs, NEW as, NEW p
  PROVE  AtPosition(Indexed(xs, as, n), p) = PointsOf(xs, BytesAt(as, n, p), n)
<1>1. /\ DOMAIN Indexed(xs, as, n) = 1..n
      /\ \A k \in 1..n : Indexed(xs, as, n)[k][1] = xs[k] /\ Indexed(xs, as, n)[k][2] = as[k]
  BY DEF Indexed
<1>2. \A k \in 1..n : BytesAt(as, n, p)[k] = ByteAt(as[k], p)
  BY DEF BytesAt
<1> QED
  BY <1>1, <1>2 DEF AtPosition, PointsOf

LEMMA LagrangeByte ==
  ASSUME NEW n \in Nat, NEW xs \in [1..n -> Byte], NEW ys \in [1..n -> Byte], Apart(xs, n),
         NEW x \in Byte
  PROVE  LagrangeValue(xs, ys, n, x) \in Byte
<1> DEFINE v == [j \in 1..n |-> Mul(Basis(xs, n, j, x), ys[j])]
<1>1. v \in [1..n -> Byte]
  <2>1. \A j \in 1..n : Basis(xs, n, j, x) \in Byte /\ ys[j] \in Byte
    BY BasisByte
  <2> QED
    BY <2>1, MulClosed
<1> HIDE DEF v
<1>2. Sum(v) \in Byte
  BY <1>1, SumByte
<1> QED
  BY <1>2 DEF LagrangeValue, v

LEMMA LagrangeZero ==
  ASSUME NEW n \in Nat, NEW xs \in [1..n -> Byte], NEW ys \in [1..n -> Byte], Apart(xs, n),
         NEW x \in Byte, \A i \in 1..n : ys[i] = 0
  PROVE  LagrangeValue(xs, ys, n, x) = 0
<1> DEFINE v == [j \in 1..n |-> Mul(Basis(xs, n, j, x), ys[j])]
<1>1. \A j \in 1..n : v[j] = 0
  BY MulZero
<1>2. v \in [1..n -> Byte]
  BY <1>1, SmallBytes
<1> HIDE DEF v
<1>3. \A j \in 1..n : v[j] = Mul(0, v[j])
  BY <1>1, MulZero
<1>4. Sum(v) = Mul(0, Sum(v))
  BY <1>2, <1>3, SmallBytes, SumScale
<1> QED
  BY <1>4, MulZero DEF LagrangeValue, v

LEMMA CollectPositionsOk ==
  ASSUME NEW results, \A p \in DOMAIN results : results[p].ok
  PROVE  CollectPositions(results) = Ok([p \in DOMAIN results |-> results[p].val])
  BY DEF CollectPositions

(* The positions of the shares are all within the places, and each share   *)
(* is zero elsewhere.                                                      *)
OnlyIn(D, places, as, n) ==
  /\ D \subseteq places
  /\ <<>> \in D
  /\ \A p : p \notin D => \A k \in 1..n : BytesAt(as, n, p)[k] = 0

LEMMA SharePositions ==
  ASSUME NEW places, <<>> \in places, NEW n \in Nat, NEW xs,
         NEW as \in [1..n -> ArraysOver(places)]
  PROVE  OnlyIn(Positions(Indexed(xs, as, n)), places, as, n)
<1> DEFINE arrays == {as[k] : k \in 1..n}
<1>1. Positions(Indexed(xs, as, n)) = PositionsOf(arrays)
  <2>1. {Indexed(xs, as, n)[k][2] : k \in DOMAIN Indexed(xs, as, n)} = arrays
    BY DEF Indexed
  <2> QED
    BY <2>1 DEF Positions
<1>2. arrays \in SUBSET ArraysOver(places) /\ \A k \in 1..n : as[k] \in arrays
  OBVIOUS
<1> HIDE DEF arrays
<1>3. \A p : p \notin PositionsOf(arrays) => \A k \in 1..n : ByteAt(as[k], p) = 0
  BY <1>2, OutsidePositions
<1>4. \A p : \A k \in 1..n : BytesAt(as, n, p)[k] = ByteAt(as[k], p)
  BY DEF BytesAt
<1>5. PositionsOf(arrays) \subseteq places /\ <<>> \in PositionsOf(arrays)
  BY <1>2, PositionsInPlaces
<1>6. OnlyIn(PositionsOf(arrays), places, as, n)
  BY <1>3, <1>4, <1>5 DEF OnlyIn
<1> QED
  BY <1>1, <1>6

LEMMA CombineArrays ==
  ASSUME NEW places, <<>> \in places, NEW n \in Nat, NEW xs \in [1..n -> Byte],
         NEW as \in [1..n -> ArraysOver(places)], Accepted(xs, n)
  PROVE  \E a \in ArraysOver(places) :
           /\ combine(Indexed(xs, as, n)) = Ok(a)
           /\ \A p \in places : ByteAt(a, p) = LagrangeValue(xs, BytesAt(as, n, p), n, 0)
<1> DEFINE shares == Indexed(xs, as, n)
           D == Positions(shares)
           value(p) == LagrangeValue(xs, BytesAt(as, n, p), n, 0)
           results == [p \in D |-> combine_byte(AtPosition(shares, p))]
           bytes == [p \in D |-> results[p].val]
<1>0. n > 0 /\ Apart(xs, n) /\ (\A i \in 1..n : xs[i] # 0) /\ 0 \in Byte
  BY SmallBytes DEF Accepted
<1>1. ASSUME NEW p PROVE combine_byte(AtPosition(shares, p)) = Ok(value(p)) /\ value(p) \in Byte
  <2>1. BytesAt(as, n, p) \in [1..n -> Byte]
    BY BytesAtBytes
  <2>2. AtPosition(shares, p) = PointsOf(xs, BytesAt(as, n, p), n)
    BY AtPositionOf
  <2>3. combine_byte(AtPosition(shares, p)) = Ok(value(p))
    BY <1>0, <2>1, <2>2, CombineByte
  <2>4. value(p) \in Byte
    BY <1>0, <2>1, LagrangeByte
  <2> QED
    BY ONLY <2>3, <2>4
<1>2. D \subseteq places /\ \A p \in places : p \notin D => value(p) = 0
  <2>1. OnlyIn(D, places, as, n)
    BY SharePositions
  <2> HIDE DEF D
  <2>2. ASSUME NEW p, p \notin D PROVE value(p) = 0
    <3>1. /\ BytesAt(as, n, p) \in [1..n -> Byte]
          /\ \A k \in 1..n : BytesAt(as, n, p)[k] = 0
      BY <2>1, <2>2, BytesAtBytes DEF OnlyIn
    <3> QED
      BY <1>0, <3>1, LagrangeZero
  <2> QED
    BY <2>1, <2>2 DEF OnlyIn
<1>3. combine(shares) = AndThen(CollectPositions(results), LAMBDA b : Ok(FromBytes(b)))
  BY DEF combine
<1> HIDE DEF value, D, shares
<1>4. \A p \in D : results[p] = Ok(value(p))
  BY <1>1
<1>5. DOMAIN results = D
  OBVIOUS
<1> HIDE DEF results
<1>6. CollectPositions(results) = Ok(bytes)
  <2>1. \A p \in DOMAIN results : results[p].ok
    BY <1>4, <1>5, OkOf
  <2> QED
    BY <1>5, <2>1, CollectPositionsOk
<1>7. DOMAIN bytes = D /\ \A p \in D : bytes[p] = value(p) /\ value(p) \in Byte
  BY <1>1, <1>4, OkOf
<1> HIDE DEF bytes
<1>8. combine(shares) = Ok(FromBytes(bytes))
  BY <1>3, <1>6, OkOf DEF AndThen
<1>9. FromBytes(bytes) \in ArraysOver(places)
  BY <1>2, <1>7, FromBytesArray
<1>10. \A p \in places : ByteAt(FromBytes(bytes), p) = value(p)
  BY <1>2, <1>7, ByteAtFromBytes, ByteAtOutside
<1> QED
  BY <1>8, <1>9, <1>10 DEF value, shares

LEMMA InterpolateArrays ==
  ASSUME NEW places, <<>> \in places, NEW n \in Nat, NEW xs \in [1..n -> Byte],
         NEW as \in [1..n -> ArraysOver(places)], Accepted(xs, n)
  PROVE  LET result == tss_interpolate(Indexed(xs, as, n))
         IN  /\ result.ok
             /\ \A x \in Byte :
                  /\ EvaluateAt(result.val, x) \in ArraysOver(places)
                  /\ \A p \in places : ByteAt(EvaluateAt(result.val, x), p)
                                         = LagrangeValue(xs, BytesAt(as, n, p), n, x)
<1> DEFINE shares == Indexed(xs, as, n)
           D == Positions(shares)
           results == [p \in D |-> interpolate(AtPosition(shares, p))]
           polynomials == [p \in D |-> results[p].val]
<1>0. n > 0 /\ Apart(xs, n) /\ (\A i \in 1..n : xs[i] # 0)
  BY DEF Accepted
<1>1. ASSUME NEW p
      PROVE  LET result == interpolate(AtPosition(shares, p))
             IN  /\ result.ok
                 /\ \A x \in Byte :
                      evaluate(result.val, x) = LagrangeValue(xs, BytesAt(as, n, p), n, x)
  <2>1. BytesAt(as, n, p) \in [1..n -> Byte]
    BY BytesAtBytes
  <2>2. AtPosition(shares, p) = PointsOf(xs, BytesAt(as, n, p), n)
    BY AtPositionOf
  <2> QED
    BY <1>0, <2>1, <2>2, InterpolateOk
<1>2. /\ D \subseteq places
      /\ \A p : p \notin D => \A k \in 1..n : BytesAt(as, n, p)[k] = 0
  <2>1. OnlyIn(D, places, as, n)
    BY SharePositions
  <2> HIDE DEF D
  <2> QED
    BY <2>1 DEF OnlyIn
<1>3. tss_interpolate(shares) = CollectPositions(results)
  <2>1. /\ DOMAIN shares = 1..n /\ \A k \in 1..n : shares[k][1] = xs[k]
    BY DEF Indexed
  <2>2. shares # <<>>
    <3>1. 1 \in 1..n /\ 1 \notin DOMAIN <<>>
      BY <1>0
    <3> QED
      BY <2>1, <3>1
  <2>3. Indices(shares) = xs
    <3> HIDE DEF shares
    <3> QED
      BY <2>1 DEF Indices
  <2>4. AllUnique(xs) /\ ~Contains(xs, 0)
    <3>1. DOMAIN xs = 1..n /\ Len(xs) = n
      OBVIOUS
    <3> QED
      BY <1>0, <3>1 DEF AllUnique, Contains, Apart
  <2> HIDE DEF shares
  <2> QED
    BY <2>2, <2>3, <2>4 DEF tss_interpolate
<1> HIDE DEF D, shares
<1>4. DOMAIN results = D /\ \A p \in D : results[p] = interpolate(AtPosition(shares, p))
  OBVIOUS
<1> HIDE DEF results
<1>5. CollectPositions(results) = Ok(polynomials)
  BY <1>1, <1>4, CollectPositionsOk
<1>6. DOMAIN polynomials = D /\ \A p \in D : polynomials[p] = results[p].val
  OBVIOUS
<1> HIDE DEF polynomials
<1>7. ASSUME NEW x \in Byte
      PROVE  /\ EvaluateAt(polynomials, x) \in ArraysOver(places)
             /\ \A p \in places : ByteAt(EvaluateAt(polynomials, x), p)
                                    = LagrangeValue(xs, BytesAt(as, n, p), n, x)
  <2> DEFINE bytes == [p \in D |-> evaluate(polynomials[p], x)]
             value(p) == LagrangeValue(xs, BytesAt(as, n, p), n, x)
  <2>1. EvaluateAt(polynomials, x) = FromBytes(bytes)
    BY <1>6 DEF EvaluateAt
  <2>2. \A p : value(p) \in Byte
    BY <1>0, BytesAtBytes, LagrangeByte
  <2>3. \A p : p \notin D => value(p) = 0
    <3> SUFFICES ASSUME NEW p, p \notin D PROVE value(p) = 0
      OBVIOUS
    <3> QED
      BY <1>0, <1>2, BytesAtBytes, LagrangeZero
  <2> HIDE DEF value
  <2>4. DOMAIN bytes = D /\ \A p \in D : bytes[p] = value(p)
    BY <1>1, <1>4, <1>6 DEF value
  <2> HIDE DEF bytes
  <2>5. FromBytes(bytes) \in ArraysOver(places)
    BY <1>2, <2>4, FromBytesArray
  <2>6. \A p \in places : ByteAt(FromBytes(bytes), p) = value(p)
    BY <2>2, <2>3, <2>4, ByteAtFromBytes, ByteAtOutside
  <2> QED
    BY <2>1, <2>5, <2>6 DEF value
<1> QED
  BY <1>3, <1>5, <1>7, OkOf DEF shares

(* Both refuse an empty list, an index twice and the index 0.              *)
LEMMA BothRefuse ==
  ASSUME NEW shares,
         shares = <<>> \/ ~AllUnique(Indices(shares)) \/ Contains(Indices(shares), 0)
  PROVE  combine(shares) = Err("InvalidInput") /\ tss_interpolate(shares) = Err("InvalidInput")
<1>1. tss_interpolate(shares) = Err("InvalidInput")
  BY DEF tss_interpolate
<1>2. ASSUME NEW p PROVE combine_byte(AtPosition(shares, p)) = Err("InvalidInput")
  <2>1. /\ DOMAIN AtPosition(shares, p) = DOMAIN shares
        /\ \A k \in DOMAIN shares : AtPosition(shares, p)[k][1] = shares[k][1]
    BY DEF AtPosition
  <2>2. Indices(AtPosition(shares, p)) = Indices(shares)
    BY <2>1 DEF Indices
  <2>3. shares = <<>> => AtPosition(shares, p) = <<>>
    <3>1. [k \in DOMAIN <<>> |-> <<shares[k][1], ByteAt(shares[k][2], p)>>] = <<>>
      OBVIOUS
    <3> QED
      BY <3>1 DEF AtPosition
  <2> QED
    BY <2>2, <2>3 DEF combine_byte
<1> DEFINE D == Positions(shares)
           results == [p \in D |-> combine_byte(AtPosition(shares, p))]
<1>3. <<>> \in D
  BY DEF Positions, PositionsOf
<1>4. combine(shares) = AndThen(CollectPositions(results), LAMBDA b : Ok(FromBytes(b)))
  BY DEF combine
<1> HIDE DEF D
<1>5. DOMAIN results = D /\ \A p \in D : results[p] = Err("InvalidInput")
  BY <1>2
<1> HIDE DEF results
<1>6. ~Err("InvalidInput").ok
  BY DEF Err
<1>7. CollectPositions(results) = Err("InvalidInput")
  BY <1>3, <1>5, <1>6 DEF CollectPositions
<1> QED
  BY <1>1, <1>4, <1>6, <1>7 DEF AndThen

-----------------------------------------------------------------------------
(* split. *)

(* The polynomial that shares the byte of the secret at a position. *)
PolynomialAt(secret, coefficients, threshold, p) ==
  <<ByteAt(secret, p)>> \o [j \in 1..(threshold - 1) |-> ByteAt(coefficients[j], p)]

LEMMA PolynomialAtBytes ==
  ASSUME NEW secret, NEW threshold \in Nat, threshold > 0, NEW coefficients, NEW p
  PROVE  /\ PolynomialAt(secret, coefficients, threshold, p) \in Seq(Byte)
         /\ Len(PolynomialAt(secret, coefficients, threshold, p)) = threshold
         /\ at(PolynomialAt(secret, coefficients, threshold, p), 1) = ByteAt(secret, p)
<1> DEFINE c == [j \in 1..(threshold - 1) |-> ByteAt(coefficients[j], p)]
           b == ByteAt(secret, p)
<1>1. threshold - 1 \in Nat /\ b \in Byte
  BY ByteAtByte
<1>2. c \in Seq(Byte) /\ Len(c) = threshold - 1
  BY <1>1, ByteAtByte
<1> HIDE DEF c, b
<1>3. <<b>> \in Seq(Byte) /\ Len(<<b>>) = 1
  BY <1>1
<1>4. <<b>> \o c \in Seq(Byte) /\ Len(<<b>> \o c) = threshold /\ (<<b>> \o c)[1] = b
  BY <1>1, <1>2, <1>3
<1> QED
  BY <1>4 DEF PolynomialAt, at, c, b

LEMMA SplitByteOk ==
  ASSUME NEW n \in Nat, NEW threshold \in 1..n, NEW b, NEW c
  PROVE  split_byte(b, c, threshold, ShareIndices(n))
           = Ok([k \in 1..n |-> evaluate(<<b>> \o c, k)])
<1> DEFINE indices == ShareIndices(n)
<1>1. /\ DOMAIN indices = 1..n /\ Len(indices) = n /\ \A k \in 1..n : indices[k] = k
  <2>1. indices \in Seq(Nat)
    BY DEF ShareIndices
  <2> QED
    BY <2>1 DEF ShareIndices
<1> HIDE DEF indices
<1>2. ~(threshold = 0 \/ Len(indices) = 0 \/ threshold > Len(indices))
  BY <1>1
<1>3. ~Contains(indices, 0) /\ AllUnique(indices)
  BY <1>1 DEF Contains, AllUnique
<1>4. [k \in DOMAIN indices |-> evaluate(<<b>> \o c, indices[k])]
        = [k \in 1..n |-> evaluate(<<b>> \o c, k)]
  BY <1>1
<1>5. split_byte(b, c, threshold, indices)
        = Ok([k \in DOMAIN indices |-> evaluate(<<b>> \o c, indices[k])])
  BY <1>2, <1>3, Zenon DEF split_byte
<1> QED
  BY <1>4, <1>5 DEF indices

LEMMA SplitRefuses ==
  ASSUME NEW secret, NEW coefficients, NEW threshold \in Nat, NEW n \in Nat,
         threshold > n \/ threshold = 0
  PROVE  ~split(secret, coefficients, threshold, n).ok
  BY DEF split, Err

(* The shares are the values of the polynomials at the indices 1, 2, ... *)
Deals(shares, secret, coefficients, threshold, n, places) ==
  /\ shares \in [1..n -> ArraysOver(places)]
  /\ \A p \in places, i \in 1..n :
       ByteAt(shares[i], p) = evaluate(PolynomialAt(secret, coefficients, threshold, p), i)

LEMMA EvaluateZeros ==
  ASSUME NEW p \in Seq(Byte), NEW x \in Byte, \A k : at(p, k) = 0
  PROVE  evaluate(p, x) = 0
<1>1. \A k : at(p, k) = Mul(at(p, k), 0)
  BY MulZero
<1> QED
  BY <1>1, SmallBytes, EvaluateScale, MulZero

LEMMA SplitOk ==
  ASSUME NEW places, <<>> \in places, NEW n \in 1..255, NEW threshold \in 1..n,
         NEW secret \in ArraysOver(places),
         NEW coefficients \in [1..(threshold - 1) -> ArraysOver(places)]
  PROVE  \E shares :
           /\ Deals(shares, secret, coefficients, threshold, n, places)
           /\ split(secret, coefficients, threshold, n)
                = Ok([indices |-> ShareIndices(n), shares |-> shares])
<1> DEFINE indices == ShareIndices(n)
           arrays == {secret} \cup Range(coefficients)
           D == PositionsOf(arrays)
           poly(p) == PolynomialAt(secret, coefficients, threshold, p)
           byte_shares ==
             [p \in D |->
                split_byte(ByteAt(secret, p),
                           [j \in 1..(threshold - 1) |-> ByteAt(coefficients[j], p)],
                           threshold, indices)]
           rows == [p \in D |-> [k \in 1..n |-> evaluate(poly(p), k)]]
           shares == [k \in 1..n |-> FromBytes([p \in D |-> rows[p][k]])]
<1>1. /\ n \in Nat /\ threshold \in Nat /\ threshold > 0 /\ ~(threshold > n \/ threshold = 0)
      /\ \A k \in 1..n : k \in Byte
  BY DEF Byte
<1>2. /\ arrays \in SUBSET ArraysOver(places) /\ secret \in arrays
      /\ \A j \in 1..(threshold - 1) : coefficients[j] \in arrays
  BY DEF Range
<1>3. D \subseteq places /\ <<>> \in D
  <2> HIDE DEF arrays
  <2> QED
    BY <1>2, PositionsInPlaces
<1>4. ASSUME NEW p
      PROVE  /\ poly(p) \in Seq(Byte)
             /\ Len(poly(p)) = threshold
             /\ p \notin D => \A k : at(poly(p), k) = 0
  <2>1. poly(p) \in Seq(Byte) /\ Len(poly(p)) = threshold /\ at(poly(p), 1) = ByteAt(secret, p)
    BY <1>1, PolynomialAtBytes
  <2>2. ASSUME p \notin D, NEW k PROVE at(poly(p), k) = 0
    <3> DEFINE c == [j \in 1..(threshold - 1) |-> ByteAt(coefficients[j], p)]
    <3>1. ByteAt(secret, p) = 0
      BY <1>2, <2>2, OutsidePositions
    <3>2. \A j \in 1..(threshold - 1) : ByteAt(coefficients[j], p) = 0
      BY <1>2, <2>2, OutsidePositions
    <3>3. c \in Seq(Byte) /\ Len(c) = threshold - 1 /\ \A j \in 1..(threshold - 1) : c[j] = 0
      BY <1>1, <3>2, ByteAtByte
    <3>4. poly(p) = <<0>> \o c
      BY <3>1 DEF PolynomialAt
    <3> HIDE DEF c, poly
    <3>5. \A j \in DOMAIN (<<0>> \o c) : (<<0>> \o c)[j] = 0
      BY <1>1, <3>3
    <3> QED
      BY <3>4, <3>5 DEF at
  <2> QED
    BY <2>1, <2>2
<1>5. \A p \in D : byte_shares[p] = Ok(rows[p])
  <2> SUFFICES ASSUME NEW p \in D PROVE byte_shares[p] = Ok(rows[p])
    OBVIOUS
  <2> DEFINE b == ByteAt(secret, p)
             c == [j \in 1..(threshold - 1) |-> ByteAt(coefficients[j], p)]
  <2>1. byte_shares[p] = split_byte(b, c, threshold, indices)
    OBVIOUS
  <2>2. rows[p] = [k \in 1..n |-> evaluate(<<b>> \o c, k)]
    BY DEF PolynomialAt
  <2> HIDE DEF b, c, byte_shares, rows
  <2> QED
    BY <1>1, <2>1, <2>2, SplitByteOk
<1>6. split(secret, coefficients, threshold, n)
        = AndThen(CollectPositions(byte_shares), LAMBDA r :
            AndThen(transpose(r), LAMBDA s : Ok([indices |-> indices, shares |-> s])))
  BY <1>1 DEF split
<1>7. DOMAIN byte_shares = D
  OBVIOUS
<1> HIDE DEF D, poly, indices
<1>8. /\ DOMAIN rows = D
      /\ \A p \in D : rows[p] = [k \in 1..n |-> evaluate(poly(p), k)]
  OBVIOUS
<1> HIDE DEF byte_shares, rows
<1>9. CollectPositions(byte_shares) = Ok(rows)
  <2>1. \A p \in DOMAIN byte_shares : byte_shares[p].ok
    BY <1>5, <1>7, OkOf
  <2>2. [p \in DOMAIN byte_shares |-> byte_shares[p].val] = rows
    <3>1. rows = [p \in D |-> rows[p]]
      BY <1>8 DEF rows
    <3> QED
      BY <1>5, <1>7, <3>1, OkOf
  <2> QED
    BY <2>1, <2>2, CollectPositionsOk
<1>10. transpose(rows) = Ok(shares)
  <2> DEFINE lengths == {Len(rows[p]) : p \in DOMAIN rows}
  <2>1. \A p \in D : Len(rows[p]) = n
    <3> SUFFICES ASSUME NEW p \in D PROVE Len(rows[p]) = n
      OBVIOUS
    <3>1. \A k \in 1..n : evaluate(poly(p), k) \in Byte
      BY <1>1, <1>4, EvaluateByte
    <3>2. rows[p] = [k \in 1..n |-> evaluate(poly(p), k)]
      BY <1>8
    <3>3. rows[p] \in Seq(Byte)
      BY <1>1, <3>1, <3>2
    <3> QED
      BY <1>1, <3>2, <3>3
  <2>2. lengths = {n}
    BY <1>3, <1>8, <2>1
  <2>3. Cardinality(lengths) = 1
    BY <2>2, FS_Singleton
  <2>4. (CHOOSE m \in lengths : TRUE) = n
    BY <2>2
  <2>5. transpose(rows) = Ok([k \in 1..(CHOOSE m \in lengths : TRUE) |->
                                FromBytes([p \in DOMAIN rows |-> rows[p][k]])])
    BY <2>3, Zenon DEF transpose
  <2> QED
    BY <1>8, <2>4, <2>5
<1>11. Deals(shares, secret, coefficients, threshold, n, places)
  <2>1. ASSUME NEW k \in 1..n
        PROVE  /\ shares[k] \in ArraysOver(places)
               /\ \A p \in places : ByteAt(shares[k], p) = evaluate(poly(p), k)
    <3> DEFINE bytes == [p \in D |-> rows[p][k]]
    <3>1. shares[k] = FromBytes(bytes)
      OBVIOUS
    <3>2. DOMAIN bytes = D /\ \A p \in D : bytes[p] = evaluate(poly(p), k)
      BY <1>8
    <3> HIDE DEF bytes, shares
    <3>3. \A p : evaluate(poly(p), k) \in Byte
      BY <1>1, <1>4, EvaluateByte
    <3>4. \A p : p \notin D => evaluate(poly(p), k) = 0
      BY <1>1, <1>4, EvaluateZeros
    <3>5. FromBytes(bytes) \in ArraysOver(places)
      BY <1>3, <3>2, FromBytesArray
    <3>6. ASSUME NEW p \in places PROVE ByteAt(FromBytes(bytes), p) = evaluate(poly(p), k)
      <4>1. CASE p \in D
        BY <3>2, <3>3, <4>1, ByteAtFromBytes
      <4>2. CASE p \notin D
        BY <3>2, <3>4, <4>2, ByteAtOutside
      <4> QED
        BY <4>1, <4>2
    <3> QED
      BY <3>1, <3>5, <3>6
  <2>2. shares \in [1..n -> ArraysOver(places)]
    BY <2>1
  <2> HIDE DEF shares
  <2> QED
    BY <2>1, <2>2 DEF Deals, poly
<1> HIDE DEF shares
<1>12. split(secret, coefficients, threshold, n) = Ok([indices |-> indices, shares |-> shares])
  BY <1>6, <1>9, <1>10, OkOf DEF AndThen
<1> QED
  BY <1>11, <1>12 DEF indices

-----------------------------------------------------------------------------
(* Shares of a polynomial: enough of them determine it, and one wrong byte *)
(* changes what they give at 0.                                            *)

LEMMA LagrangeOfPolynomial ==
  ASSUME NEW n \in Nat, NEW xs \in [1..n -> Byte], NEW ys \in [1..n -> Byte], Apart(xs, n),
         NEW poly \in Seq(Byte), Len(poly) <= n, \A i \in 1..n : ys[i] = evaluate(poly, xs[i]),
         NEW x \in Byte
  PROVE  LagrangeValue(xs, ys, n, x) = evaluate(poly, x)
<1> DEFINE P == interpolate(PointsOf(xs, ys, n)).val
<1>1. /\ P \in Seq(Byte) /\ Len(P) <= n
      /\ \A y \in Byte : evaluate(P, y) = LagrangeValue(xs, ys, n, y)
  BY InterpolateOk
<1> HIDE DEF P
<1>2. ASSUME NEW i \in 1..n PROVE evaluate(P, xs[i]) = evaluate(poly, xs[i])
  <2>1. xs[i] \in Byte
    OBVIOUS
  <2> QED
    BY <1>1, <2>1, InterpolateExact
<1>3. evaluate(P, x) = evaluate(poly, x)
  BY <1>1, <1>2, Determined
<1> QED
  BY <1>1, <1>3

LEMMA LagrangeDamaged ==
  ASSUME NEW n \in Nat, NEW xs \in [1..n -> Byte], Apart(xs, n), \A i \in 1..n : xs[i] # 0,
         NEW ys \in [1..n -> Byte], NEW zs \in [1..n -> Byte],
         NEW k \in 1..n, ys[k] # zs[k], \A i \in (1..n) \ {k} : ys[i] = zs[i]
  PROVE  LagrangeValue(xs, ys, n, 0) # LagrangeValue(xs, zs, n, 0)
<1> DEFINE s == [j \in 1..n |-> Mul(Basis(xs, n, j, 0), ys[j])]
           t == [j \in 1..n |-> Mul(Basis(xs, n, j, 0), zs[j])]
           u == [j \in 1..n |-> Add(s[j], t[j])]
<1>1. \A j \in 1..n : Basis(xs, n, j, 0) \in Byte /\ ys[j] \in Byte /\ zs[j] \in Byte
  BY BasisByte, SmallBytes
<1>2. /\ s \in [1..n -> Byte] /\ t \in [1..n -> Byte]
      /\ \A j \in 1..n : /\ s[j] = Mul(Basis(xs, n, j, 0), ys[j])
                         /\ t[j] = Mul(Basis(xs, n, j, 0), zs[j])
  BY <1>1, MulClosed
<1>3. LagrangeValue(xs, ys, n, 0) = Sum(s) /\ LagrangeValue(xs, zs, n, 0) = Sum(t)
  BY DEF LagrangeValue
<1> HIDE DEF s, t
<1>4. u \in [1..n -> Byte] /\ \A j \in 1..n : u[j] = Add(s[j], t[j])
  BY <1>2, AddClosed
<1> HIDE DEF u
<1>5. \A j \in (1..n) \ {k} : u[j] = 0
  <2> SUFFICES ASSUME NEW j \in (1..n) \ {k} PROVE u[j] = 0
    OBVIOUS
  <2>1. s[j] = t[j] /\ s[j] \in Byte
    BY <1>2
  <2> QED
    BY <1>4, <2>1, AddSelf
<1>6. u[k] # 0
  <2>1. u[k] = Mul(Basis(xs, n, k, 0), Add(ys[k], zs[k]))
    BY <1>1, <1>2, <1>4, Distributive
  <2>2. Add(ys[k], zs[k]) \in Byte /\ Add(ys[k], zs[k]) # 0
    BY <1>1, AddClosed, AddZeroEqual
  <2>3. Basis(xs, n, k, 0) # 0
    BY BasisAtZeroNonzero
  <2>4. Basis(xs, n, k, 0) \in Byte
    BY <1>1
  <2>5. Mul(Basis(xs, n, k, 0), Add(ys[k], zs[k])) \in Byte \ {0}
    BY <2>2, <2>3, <2>4, MulNonzero
  <2> QED
    BY <2>1, <2>5
<1>7. Sum(u) = u[k]
  BY <1>4, <1>5, SumSingle
<1>8. Sum(u) = Add(Sum(s), Sum(t)) /\ Sum(s) \in Byte
  <2>1. Sum(s) \in Byte
    BY <1>2, SumByte
  <2>2. /\ s \in [1..n -> Byte] /\ t \in [1..n -> Byte] /\ u \in [1..n -> Byte]
        /\ \A i \in 1..n : u[i] = Add(s[i], t[i])
    BY <1>2, <1>4
  <2>3. Sum(u) = Add(Sum(s), Sum(t))
    BY <2>2, SumAdd, ZenonT(60)
  <2> QED
    BY <2>1, <2>3
<1> QED
  BY <1>3, <1>6, <1>7, <1>8, AddSelf
=============================================================================
