---------------------------- MODULE FieldProofs -----------------------------
(***************************************************************************)
(* The bytes with the Add and Mul of module GF256 are a field: what the    *)
(* polynomials and the secret sharing built on them rely on.               *)
(*                                                                         *)
(* Addition is taken back to the symmetric difference of sets of bits. The *)
(* two tables are evaluated by the SMT solver, entry by entry; what holds  *)
(* for all pairs of bytes is proved from facts about single bytes.         *)
(***************************************************************************)
EXTENDS GF256, Integers, FiniteSetsExt, WellFoundedInduction, TLAPS

-----------------------------------------------------------------------------
(* Induction over the natural numbers, with a set in the place of the      *)
(* predicate: to show P(n) for all n, take the set of the n with P(n).     *)

(* A set of natural numbers that is not empty has a least element. *)
LEMMA LeastElement ==
  ASSUME NEW T \in SUBSET Nat, T # {}
  PROVE  \E m \in T : \A n \in T : m <= n
<1>1. PICK m \in T : \A n \in T : <<n, m>> \notin OpToRel(<, Nat)
  BY NatLessThanWellFounded, WFMin, Zenon
<1>2. \A n \in T : ~(n < m)
  BY <1>1, Zenon DEF OpToRel
<1> QED
  BY <1>2

(* What holds for 0, and with a number for the next one, holds for all. *)
LEMMA NatSetInduction ==
  ASSUME NEW S, 0 \in S, \A n \in Nat : n \in S => n + 1 \in S
  PROVE  Nat \subseteq S
<1> SUFFICES ASSUME Nat \ S # {} PROVE FALSE
  OBVIOUS
<1>1. PICK m \in Nat \ S : \A n \in Nat \ S : m <= n
  BY LeastElement
<1>2. m # 0 /\ m - 1 \in Nat
  BY <1>1
<1>3. m - 1 \in S
  BY <1>1, <1>2
<1> QED
  BY <1>1, <1>2, <1>3

(* The same for the numbers from 0 to a bound. *)
LEMMA UpToInduction ==
  ASSUME NEW N \in Nat, NEW S, 0 \in S, \A n \in 0..(N - 1) : n \in S => n + 1 \in S
  PROVE  0..N \subseteq S
<1> DEFINE T == {n \in Nat : n <= N => n \in S}
<1>1. 0 \in T
  OBVIOUS
<1>2. \A n \in Nat : n \in T => n + 1 \in T
  OBVIOUS
<1>3. Nat \subseteq T
  <2> HIDE DEF T
  <2> QED BY <1>1, <1>2, NatSetInduction
<1> QED
  BY <1>3

(* The same from a bound down to 1. *)
LEMMA DownInduction ==
  ASSUME NEW N \in Nat, NEW S, N + 1 \in S, \A n \in 1..N : n + 1 \in S => n \in S
  PROVE  1..(N + 1) \subseteq S
<1> DEFINE T == {k \in 0..N : N + 1 - k \in S}
<1>1. 0 \in T
  OBVIOUS
<1>2. \A k \in 0..(N - 1) : k \in T => k + 1 \in T
  <2> SUFFICES ASSUME NEW k \in 0..(N - 1), k \in T PROVE k + 1 \in T
    OBVIOUS
  <2>1. N + 1 - (k + 1) \in 1..N /\ (N + 1 - (k + 1)) + 1 = N + 1 - k
    OBVIOUS
  <2> QED
    BY <2>1
<1>3. 0..N \subseteq T
  <2> HIDE DEF T
  <2> QED BY <1>1, <1>2, UpToInduction
<1>4. ASSUME NEW n \in 1..(N + 1) PROVE n \in S
  <2>1. N + 1 - n \in T
    BY <1>3
  <2>2. N + 1 - (N + 1 - n) = n
    OBVIOUS
  <2> QED BY <2>1, <2>2
<1> QED
  BY <1>4

-----------------------------------------------------------------------------
(* Folds. FoldLeft, FoldRight and MapThenFoldSet are defined by a recursive *)
(* function on the subsets of a set of numbers. It exists, and it follows   *)
(* the numbers in their order: upwards if the greatest element is split off *)
(* first, downwards if it is the least one. op is a function, since a lemma *)
(* about an operator could not be applied.                                  *)

FoldsUp(f, D, base, op) ==
  f = [t \in SUBSET D |-> IF t = {} THEN base ELSE op[Max(t)][f[t \ {Max(t)}]]]

FoldsDown(f, D, base, op) ==
  f = [t \in SUBSET D |-> IF t = {} THEN base ELSE op[Min(t)][f[t \ {Min(t)}]]]

(* f satisfies the recursion wherever it stays within V. *)
StepsUp(f, D, V, op) ==
  \A t \in SUBSET D : t # {} /\ f[t \ {Max(t)}] \in V =>
                        f[t] = op[Max(t)][f[t \ {Max(t)}]]

StepsDown(f, D, V, op) ==
  \A t \in SUBSET D : t # {} /\ f[t \ {Min(t)}] \in V =>
                        f[t] = op[Min(t)][f[t \ {Min(t)}]]

(* The intermediate results of a fold. *)
RunsUp(F, n, D, base, op) ==
  /\ F[0] = base
  /\ \A k \in 1..n : F[k] = IF k \in D THEN op[k][F[k - 1]] ELSE F[k - 1]

RunsDown(F, n, base, op) ==
  /\ F[n + 1] = base
  /\ \A k \in 1..n : F[k] = op[k][F[k + 1]]

LEMMA MaxOfInterval ==
  ASSUME NEW n \in Nat, NEW t \in SUBSET (1..(n + 1)), n + 1 \in t
  PROVE  Max(t) = n + 1
<1>1. \A x \in t : (\A y \in t : x >= y) => x = n + 1
  OBVIOUS
<1>2. \A y \in t : n + 1 >= y
  OBVIOUS
<1> QED
  BY <1>1, <1>2 DEF Max

LEMMA MaxInSet ==
  ASSUME NEW n \in Nat
  PROVE  \A t \in SUBSET (1..n) : t # {} => Max(t) \in t
<1> DEFINE P(k) == \A t \in SUBSET (1..k) : t # {} => Max(t) \in t
           S == {k \in 0..n : P(k)}
<1>1. P(0)
  <2>1. \A t \in SUBSET (1..0) : t = {}
    OBVIOUS
  <2> QED
    BY <2>1
<1>2. ASSUME NEW k \in 0..(n - 1), P(k) PROVE P(k + 1)
  <2> SUFFICES ASSUME NEW t \in SUBSET (1..(k + 1)), t # {} PROVE Max(t) \in t
    OBVIOUS
  <2>1. CASE k + 1 \in t
    BY <2>1, MaxOfInterval
  <2>2. CASE k + 1 \notin t
    <3>1. t \in SUBSET (1..k)
      BY <2>2
    <3> QED
      BY <3>1, <1>2
  <2> QED
    BY <2>1, <2>2
<1>3. P(n)
  <2> HIDE DEF P
  <2>1. 0 \in S /\ \A k \in 0..(n - 1) : k \in S => k + 1 \in S
    BY <1>1, <1>2
  <2>2. 0..n \subseteq S
    <3> HIDE DEF S
    <3> QED BY <2>1, UpToInduction
  <2> QED
    BY <2>2
<1> QED
  BY <1>3

LEMMA FoldUpExists ==
  ASSUME NEW n \in Nat, NEW D \in SUBSET (1..n), NEW V, NEW base \in V,
         NEW op \in [1..n -> [V -> V]]
  PROVE  \E f \in [SUBSET D -> V] : FoldsUp(f, D, base, op)
<1> DEFINE IsFold(f, k) ==
             f = [t \in SUBSET (D \cap (1..k)) |->
                    IF t = {} THEN base ELSE op[Max(t)][f[t \ {Max(t)}]]]
           Exists(k) == \E f \in [SUBSET (D \cap (1..k)) -> V] : IsFold(f, k)
           S == {k \in 0..n : Exists(k)}
<1>1. Exists(0)
  <2> DEFINE f == [t \in SUBSET (D \cap (1..0)) |-> base]
  <2>1. \A t \in SUBSET (D \cap (1..0)) : t = {}
    OBVIOUS
  <2>2. f \in [SUBSET (D \cap (1..0)) -> V] /\ IsFold(f, 0)
    BY <2>1
  <2> QED
    BY <2>2
<1>2. ASSUME NEW k \in 0..(n - 1), Exists(k) PROVE Exists(k + 1)
  <2>1. PICK f \in [SUBSET (D \cap (1..k)) -> V] : IsFold(f, k)
    BY <1>2
  <2> DEFINE E == D \cap (1..k)
             E2 == D \cap (1..(k + 1))
             g == [t \in SUBSET E2 |->
                     IF k + 1 \in t THEN op[k + 1][f[t \ {k + 1}]] ELSE f[t]]
  <2>2. \A t \in SUBSET E2 : /\ k + 1 \notin t => t \in SUBSET E
                             /\ t \ {k + 1} \in SUBSET E
    OBVIOUS
  <2>3. g \in [SUBSET E2 -> V]
    BY <2>2
  <2>4. ASSUME NEW t \in SUBSET E2
        PROVE  g[t] = IF t = {} THEN base ELSE op[Max(t)][g[t \ {Max(t)}]]
    <3>1. CASE k + 1 \in t
      <4>1. Max(t) = k + 1
        BY <3>1, MaxOfInterval
      <4>2. t \ {k + 1} \in SUBSET E2 /\ k + 1 \notin t \ {k + 1}
        OBVIOUS
      <4>3. g[t \ {k + 1}] = f[t \ {k + 1}]
        BY <4>2
      <4> QED
        BY <3>1, <4>1, <4>3
    <3>2. CASE k + 1 \notin t
      <4>1. t \in SUBSET E /\ g[t] = f[t]
        BY <2>2, <3>2
      <4>2. f[t] = IF t = {} THEN base ELSE op[Max(t)][f[t \ {Max(t)}]]
        BY <2>1, <4>1
      <4>3. t # {} => t \ {Max(t)} \in SUBSET E2 /\ k + 1 \notin t \ {Max(t)}
        BY <3>2
      <4> QED
        BY <4>1, <4>2, <4>3
    <3> QED
      BY <3>1, <3>2
  <2>5. IsFold(g, k + 1)
    BY <2>3, <2>4
  <2> QED
    BY <2>3, <2>5
<1>3. Exists(n)
  <2> HIDE DEF Exists
  <2>1. 0 \in S /\ \A k \in 0..(n - 1) : k \in S => k + 1 \in S
    BY <1>1, <1>2
  <2>2. 0..n \subseteq S
    <3> HIDE DEF S
    <3> QED BY <2>1, UpToInduction
  <2> QED
    BY <2>2
<1>4. D \cap (1..n) = D
  OBVIOUS
<1> QED
  BY <1>3, <1>4 DEF FoldsUp

(* What a fold upwards goes through. *)
LEMMA FoldUp ==
  ASSUME NEW n \in Nat, NEW D \in SUBSET (1..n), NEW V, NEW base \in V,
         NEW op \in [1..n -> [V -> V]],
         NEW f, f[{}] = base, StepsUp(f, D, V, op)
  PROVE  \E F \in [0..n -> V] : RunsUp(F, n, D, base, op) /\ F[n] = f[D]
<1> DEFINE F == [k \in 0..n |-> f[D \cap (1..k)]]
           step(k) == F[k] = IF k \in D THEN op[k][F[k - 1]] ELSE F[k - 1]
<1>1. \A k \in 0..n : F[k] = f[D \cap (1..k)]
  OBVIOUS
<1>2. F = [k \in 0..n |-> F[k]]
  OBVIOUS
<1> HIDE DEF F
<1>3. F[0] = base
  <2>1. D \cap (1..0) = {} /\ 0 \in 0..n
    OBVIOUS
  <2> QED
    BY <1>1, <2>1
<1>4. F[n] = f[D]
  <2>1. D \subseteq 1..n /\ n \in 0..n
    OBVIOUS
  <2>2. D \cap (1..n) = D
    BY <2>1, Zenon
  <2> QED
    BY <1>1, <2>1, <2>2
<1>5. ASSUME NEW k \in 1..n, F[k - 1] \in V
      PROVE  step(k) /\ F[k] \in V
  <2> DEFINE t == D \cap (1..k)
  <2>1. F[k] = f[t] /\ F[k - 1] = f[D \cap (1..(k - 1))]
    BY <1>1
  <2>2. CASE k \in D
    <3>1. Max(t) = k
      <4>1. k - 1 \in Nat /\ t \in SUBSET (1..((k - 1) + 1)) /\ (k - 1) + 1 = k /\ k \in t
        BY <2>2
      <4> HIDE DEF t
      <4> QED
        BY <4>1, MaxOfInterval
    <3>2. t \ {k} = D \cap (1..(k - 1)) /\ t \in SUBSET D /\ t # {}
      BY <2>2
    <3> HIDE DEF t
    <3>3. f[t \ {Max(t)}] = F[k - 1]
      BY <2>1, <3>1, <3>2
    <3>4. f[t] = op[k][F[k - 1]]
      BY <1>5, <3>1, <3>2, <3>3 DEF StepsUp
    <3>5. op[k][F[k - 1]] \in V
      BY <1>5
    <3> QED
      BY <2>1, <2>2, <3>4, <3>5
  <2>3. CASE k \notin D
    <3>1. t = D \cap (1..(k - 1))
      BY <2>3
    <3> QED
      BY <1>5, <2>1, <2>3, <3>1
  <2> QED
    BY <2>2, <2>3
<1> DEFINE S == {k \in 0..n : F[k] \in V}
<1>6. 0..n \subseteq S
  <2>1. 0 \in S
    BY <1>3
  <2>2. ASSUME NEW k \in 0..(n - 1), k \in S PROVE k + 1 \in S
    <3>1. k + 1 \in 1..n /\ (k + 1) - 1 = k /\ F[k] \in V
      BY <2>2
    <3>2. F[(k + 1) - 1] \in V
      BY <3>1
    <3>3. F[k + 1] \in V
      BY <3>1, <3>2, <1>5
    <3> QED
      BY <3>1, <3>3
  <2> HIDE DEF S
  <2> QED
    BY <2>1, <2>2, UpToInduction
<1>7. F \in [0..n -> V]
  BY <1>2, <1>6
<1>8. ASSUME NEW k \in 1..n PROVE step(k)
  <2>1. F[k - 1] \in V
    BY <1>6
  <2> QED
    BY <2>1, <1>5
<1> QED
  BY <1>3, <1>4, <1>7, <1>8 DEF RunsUp

LEMMA MinOfInterval ==
  ASSUME NEW n \in Nat, NEW k \in 1..n, NEW t \in SUBSET (k..n), k \in t
  PROVE  Min(t) = k
<1>1. \A x \in t : (\A y \in t : x =< y) => x = k
  OBVIOUS
<1>2. \A y \in t : k =< y
  OBVIOUS
<1> QED
  BY <1>1, <1>2 DEF Min

LEMMA MinInSet ==
  ASSUME NEW n \in Nat
  PROVE  \A t \in SUBSET (1..n) : t # {} => Min(t) \in t
<1> SUFFICES ASSUME NEW t \in SUBSET (1..n), t # {} PROVE Min(t) \in t
  OBVIOUS
<1>1. t \in SUBSET Nat
  OBVIOUS
<1>2. PICK m \in t : \A k \in t : m <= k
  BY <1>1, LeastElement
<1> QED
  BY <1>2 DEF Min

(* A fold downwards goes through the final parts of an interval. *)
LEMMA FoldDownExists ==
  ASSUME NEW n \in Nat, NEW V, NEW base \in V, NEW op \in [1..n -> [V -> V]]
  PROVE  \E f \in [SUBSET (1..n) -> V] : FoldsDown(f, 1..n, base, op)
<1> DEFINE IsFold(f, k) ==
             f = [t \in SUBSET (k..n) |->
                    IF t = {} THEN base ELSE op[Min(t)][f[t \ {Min(t)}]]]
           Exists(k) == /\ \A t \in SUBSET (k..n) : t # {} => Min(t) \in t
                        /\ \E f \in [SUBSET (k..n) -> V] : IsFold(f, k)
           S == {k \in 1..(n + 1) : Exists(k)}
<1>1. Exists(n + 1)
  <2> DEFINE f == [t \in SUBSET ((n + 1)..n) |-> base]
  <2>1. \A t \in SUBSET ((n + 1)..n) : t = {}
    OBVIOUS
  <2>2. f \in [SUBSET ((n + 1)..n) -> V] /\ IsFold(f, n + 1)
    BY <2>1
  <2> QED
    BY <2>1, <2>2
<1>2. ASSUME NEW k \in 1..n, Exists(k + 1) PROVE Exists(k)
  <2> DEFINE E == (k + 1)..n
             E2 == k..n
  <2>1. PICK f \in [SUBSET E -> V] : IsFold(f, k + 1)
    BY <1>2
  <2> DEFINE g == [t \in SUBSET E2 |-> IF k \in t THEN op[k][f[t \ {k}]] ELSE f[t]]
  <2>2. \A t \in SUBSET E2 : /\ k \notin t => t \in SUBSET E
                             /\ t \ {k} \in SUBSET E
    OBVIOUS
  <2>3. g \in [SUBSET E2 -> V]
    BY <2>2
  <2>4. ASSUME NEW t \in SUBSET E2
        PROVE  /\ t # {} => Min(t) \in t
               /\ g[t] = IF t = {} THEN base ELSE op[Min(t)][g[t \ {Min(t)}]]
    <3>1. CASE k \in t
      <4>1. Min(t) = k
        BY <3>1, MinOfInterval
      <4>2. t \ {k} \in SUBSET E2 /\ k \notin t \ {k}
        OBVIOUS
      <4>3. g[t \ {k}] = f[t \ {k}]
        BY <4>2
      <4> QED
        BY <3>1, <4>1, <4>3
    <3>2. CASE k \notin t
      <4>1. t \in SUBSET E /\ g[t] = f[t]
        BY <2>2, <3>2
      <4>2. f[t] = IF t = {} THEN base ELSE op[Min(t)][f[t \ {Min(t)}]]
        BY <2>1, <4>1
      <4>3. t # {} => t \ {Min(t)} \in SUBSET E2 /\ k \notin t \ {Min(t)}
        BY <3>2
      <4>4. t # {} => Min(t) \in t
        BY <1>2, <4>1
      <4>5. t # {} => g[t \ {Min(t)}] = f[t \ {Min(t)}]
        <5> SUFFICES ASSUME t # {} PROVE g[t \ {Min(t)}] = f[t \ {Min(t)}]
          OBVIOUS
        <5> DEFINE r == t \ {Min(t)}
        <5>1. r \in SUBSET E2 /\ k \notin r
          BY <4>3
        <5> HIDE DEF r
        <5>2. g[r] = f[r]
          BY <5>1
        <5> QED
          BY <5>2 DEF r
      <4> QED
        BY ONLY <4>1, <4>2, <4>4, <4>5
    <3> QED
      BY <3>1, <3>2
  <2>5. IsFold(g, k)
    <3>1. \A t \in SUBSET E2 :
            g[t] = IF t = {} THEN base ELSE op[Min(t)][g[t \ {Min(t)}]]
      BY <2>4
    <3> HIDE DEF g
    <3> QED
      BY ONLY <2>3, <3>1 DEF IsFold
  <2> QED
    BY <2>3, <2>4, <2>5
<1>3. Exists(1)
  <2> HIDE DEF Exists
  <2>1. n + 1 \in S /\ \A k \in 1..n : k + 1 \in S => k \in S
    BY <1>1, <1>2
  <2>2. 1..(n + 1) \subseteq S
    <3> HIDE DEF S
    <3> QED BY <2>1, DownInduction
  <2> QED
    BY <2>2
<1> QED
  BY <1>3 DEF FoldsDown

LEMMA FoldDown ==
  ASSUME NEW n \in Nat, NEW V, NEW base \in V, NEW op \in [1..n -> [V -> V]],
         NEW f, f[{}] = base, StepsDown(f, 1..n, V, op)
  PROVE  \E F \in [1..(n + 1) -> V] : RunsDown(F, n, base, op) /\ F[1] = f[1..n]
<1> DEFINE F == [k \in 1..(n + 1) |-> f[k..n]]
<1>1. \A k \in 1..(n + 1) : F[k] = f[k..n]
  OBVIOUS
<1>2. F = [k \in 1..(n + 1) |-> F[k]]
  OBVIOUS
<1> HIDE DEF F
<1>3. F[n + 1] = base
  <2>1. (n + 1)..n = {} /\ n + 1 \in 1..(n + 1)
    OBVIOUS
  <2> QED
    BY <1>1, <2>1
<1>4. F[1] = f[1..n]
  BY <1>1
<1>5. ASSUME NEW k \in 1..n, F[k + 1] \in V
      PROVE  F[k] = op[k][F[k + 1]] /\ F[k] \in V
  <2> DEFINE t == k..n
  <2>1. F[k] = f[t] /\ F[k + 1] = f[(k + 1)..n]
    BY <1>1
  <2>2. Min(t) = k
    <3>1. t \in SUBSET (k..n) /\ k \in t
      OBVIOUS
    <3> HIDE DEF t
    <3> QED
      BY <3>1, MinOfInterval
  <2>3. t \ {k} = (k + 1)..n /\ t \in SUBSET (1..n) /\ t # {}
    <3>1. t \ {k} = (k + 1)..n
      OBVIOUS
    <3>2. \A i \in t : i \in 1..n
      OBVIOUS
    <3>3. k \in t
      OBVIOUS
    <3> QED
      BY <3>1, <3>2, <3>3, Zenon
  <2> HIDE DEF t
  <2>4. f[t \ {Min(t)}] = F[k + 1]
    BY <2>1, <2>2, <2>3
  <2>5. f[t] = op[k][F[k + 1]]
    BY <1>5, <2>2, <2>3, <2>4 DEF StepsDown
  <2>6. op[k][F[k + 1]] \in V
    BY <1>5
  <2> QED
    BY <2>1, <2>5, <2>6
<1> DEFINE S == {k \in 1..(n + 1) : F[k] \in V}
<1>6. 1..(n + 1) \subseteq S
  <2>1. n + 1 \in S
    BY <1>3
  <2>2. ASSUME NEW k \in 1..n, k + 1 \in S PROVE k \in S
    <3>1. F[k] \in V
      BY <2>2, <1>5
    <3> QED
      BY <3>1
  <2> HIDE DEF S
  <2> QED
    BY <2>1, <2>2, DownInduction
<1>7. F \in [1..(n + 1) -> V]
  BY <1>2, <1>6
<1>8. ASSUME NEW k \in 1..n PROVE F[k] = op[k][F[k + 1]]
  <2>1. F[k + 1] \in V
    BY <1>6
  <2> QED
    BY <2>1, <1>5
<1> QED
  BY <1>3, <1>4, <1>7, <1>8 DEF RunsDown

-----------------------------------------------------------------------------
(* A byte is the sum of its bits. *)
LEMMA SumOfBits ==
  \A b \in Byte :
    b = (b % 2) + 2 * ((b \div 2) % 2) + 4 * ((b \div 4) % 2) + 8 * ((b \div 8) % 2)
        + 16 * ((b \div 16) % 2) + 32 * ((b \div 32) % 2)
        + 64 * ((b \div 64) % 2) + 128 * ((b \div 128) % 2)
  BY SMTT(30) DEF Byte

LEMMA Weights ==
  /\ Weight[0] = 1  /\ Weight[1] = 2  /\ Weight[2] = 4  /\ Weight[3] = 8
  /\ Weight[4] = 16 /\ Weight[5] = 32 /\ Weight[6] = 64 /\ Weight[7] = 128
  BY DEF Weight

LEMMA FromBitsByte == \A s : FromBits(s) \in Byte
  BY Weights DEF FromBits, Byte

(* The bits of a sum of powers of two. *)
LEMMA BitsOfSum ==
  ASSUME NEW v \in [0..7 -> 0..1]
  PROVE  LET x == v[0] + 2 * v[1] + 4 * v[2] + 8 * v[3] + 16 * v[4] + 32 * v[5]
                    + 64 * v[6] + 128 * v[7]
         IN  /\ x \in Byte
             /\ x % 2 = v[0]               /\ (x \div 2) % 2 = v[1]
             /\ (x \div 4) % 2 = v[2]      /\ (x \div 8) % 2 = v[3]
             /\ (x \div 16) % 2 = v[4]     /\ (x \div 32) % 2 = v[5]
             /\ (x \div 64) % 2 = v[6]     /\ (x \div 128) % 2 = v[7]
<1>0. PICK a \in 0..1 : a = v[0] OBVIOUS
<1>1. PICK b \in 0..1 : b = v[1] OBVIOUS
<1>2. PICK c \in 0..1 : c = v[2] OBVIOUS
<1>3. PICK d \in 0..1 : d = v[3] OBVIOUS
<1>4. PICK e \in 0..1 : e = v[4] OBVIOUS
<1>5. PICK f \in 0..1 : f = v[5] OBVIOUS
<1>6. PICK g \in 0..1 : g = v[6] OBVIOUS
<1>7. PICK h \in 0..1 : h = v[7] OBVIOUS
<1>8. LET x == a + 2 * b + 4 * c + 8 * d + 16 * e + 32 * f + 64 * g + 128 * h
      IN  /\ x \in Byte
          /\ x % 2 = a               /\ (x \div 2) % 2 = b
          /\ (x \div 4) % 2 = c      /\ (x \div 8) % 2 = d
          /\ (x \div 16) % 2 = e     /\ (x \div 32) % 2 = f
          /\ (x \div 64) % 2 = g     /\ (x \div 128) % 2 = h
  BY SMTT(30) DEF Byte
<1> QED
  BY <1>0, <1>1, <1>2, <1>3, <1>4, <1>5, <1>6, <1>7, <1>8

(* A set of bits is that of its byte. *)
LEMMA BitsOfFromBits ==
  ASSUME NEW s \in SUBSET (0..7)
  PROVE  Bits(FromBits(s)) = s
<1> DEFINE v == [i \in 0..7 |-> IF i \in s THEN 1 ELSE 0]
           x == v[0] + 2 * v[1] + 4 * v[2] + 8 * v[3] + 16 * v[4] + 32 * v[5]
                  + 64 * v[6] + 128 * v[7]
<1>1. x = FromBits(s)
  BY Weights DEF FromBits
<1>2. v \in [0..7 -> 0..1] /\ \A i \in 0..7 : v[i] = 1 <=> i \in s
  OBVIOUS
<1>3. x \div 1 = x
  BY <1>1, FromBitsByte DEF Byte
<1>4. /\ x % 2 = v[0]               /\ (x \div 2) % 2 = v[1]
      /\ (x \div 4) % 2 = v[2]      /\ (x \div 8) % 2 = v[3]
      /\ (x \div 16) % 2 = v[4]     /\ (x \div 32) % 2 = v[5]
      /\ (x \div 64) % 2 = v[6]     /\ (x \div 128) % 2 = v[7]
  <2> HIDE DEF v
  <2> QED
    BY <1>2, BitsOfSum
<1> HIDE DEF v, x
<1>5. \A i \in 0..7 : (x \div Weight[i]) % 2 = v[i]
  <2> SUFFICES ASSUME NEW i \in 0..7 PROVE (x \div Weight[i]) % 2 = v[i]
    OBVIOUS
  <2>1. i = 0 \/ i = 1 \/ i = 2 \/ i = 3 \/ i = 4 \/ i = 5 \/ i = 6 \/ i = 7
    OBVIOUS
  <2> QED
    BY <2>1, <1>3, <1>4, Weights
<1> QED
  BY <1>1, <1>2, <1>5 DEF Bits

(* A byte is that of its bits. *)
LEMMA FromBitsOfBits ==
  ASSUME NEW b \in Byte
  PROVE  FromBits(Bits(b)) = b
<1> DEFINE bit(i) == IF i \in Bits(b) THEN Weight[i] ELSE 0
<1>1. b \in Int /\ b \div 1 = b
  BY DEF Byte
<1>2. /\ bit(0) = b % 2                  /\ bit(1) = 2 * ((b \div 2) % 2)
      /\ bit(2) = 4 * ((b \div 4) % 2)   /\ bit(3) = 8 * ((b \div 8) % 2)
      /\ bit(4) = 16 * ((b \div 16) % 2) /\ bit(5) = 32 * ((b \div 32) % 2)
      /\ bit(6) = 64 * ((b \div 64) % 2) /\ bit(7) = 128 * ((b \div 128) % 2)
  BY <1>1, Weights DEF Bits
<1> QED
  BY <1>2, SumOfBits DEF FromBits

LEMMA LowestBit ==
  ASSUME NEW b \in Byte
  PROVE  0 \in Bits(b) <=> b % 2 = 1
<1>1. b \in Int /\ b \div 1 = b
  BY DEF Byte
<1> QED
  BY <1>1, Weights DEF Bits

(* The bits of a byte are those of its two halves. *)
LEMMA BitsOfHalves ==
  ASSUME NEW h \in 0..15, NEW l \in 0..15
  PROVE  /\ 16 * h + l \in Byte
         /\ \A i \in 0..3 : i \in Bits(16 * h + l) <=> i \in Bits(l)
         /\ \A i \in 0..3 : i + 4 \in Bits(16 * h + l) <=> i \in Bits(h)
<1>1. LET b == 16 * h + l
      IN  /\ b \in Byte
          /\ (b \div 1) % 2 = (l \div 1) % 2    /\ (b \div 2) % 2 = (l \div 2) % 2
          /\ (b \div 4) % 2 = (l \div 4) % 2    /\ (b \div 8) % 2 = (l \div 8) % 2
          /\ (b \div 16) % 2 = (h \div 1) % 2   /\ (b \div 32) % 2 = (h \div 2) % 2
          /\ (b \div 64) % 2 = (h \div 4) % 2   /\ (b \div 128) % 2 = (h \div 8) % 2
  BY SMTT(30) DEF Byte
<1>2. \A i \in 0..3 : i = 0 \/ i = 1 \/ i = 2 \/ i = 3
  OBVIOUS
<1>3. ASSUME NEW i \in 0..3
      PROVE  /\ i \in Bits(16 * h + l) <=> i \in Bits(l)
             /\ i + 4 \in Bits(16 * h + l) <=> i \in Bits(h)
  <2>1. CASE i = 0
    <3>1. /\ l \in Byte /\ l % 2 = (l \div 1) % 2
          /\ h \in Byte /\ h % 2 = (h \div 1) % 2
          /\ (16 * h + l) % 2 = l % 2
      BY DEF Byte
    <3> QED
      BY <1>1, <2>1, <3>1, LowestBit, Weights DEF Bits
  <2>2. CASE i = 1 BY <1>1, <2>2, Weights DEF Bits
  <2>3. CASE i = 2 BY <1>1, <2>3, Weights DEF Bits
  <2>4. CASE i = 3 BY <1>1, <2>4, Weights DEF Bits
  <2> QED BY <1>2, <2>1, <2>2, <2>3, <2>4
<1> QED
  BY <1>1, <1>3

(* The bits of half a byte. *)
LEMMA BitsOfHalf ==
  ASSUME NEW h \in 0..15
  PROVE  Bits(h) \subseteq 0..3
<1>1. (h \div 16) % 2 = 0 /\ (h \div 32) % 2 = 0 /\ (h \div 64) % 2 = 0 /\ (h \div 128) % 2 = 0
  OBVIOUS
<1>2. 4 \notin Bits(h) /\ 5 \notin Bits(h) /\ 6 \notin Bits(h) /\ 7 \notin Bits(h)
  BY <1>1, Weights DEF Bits
<1> QED
  BY <1>2 DEF Bits

LEMMA HalfFromBits ==
  ASSUME NEW s \in SUBSET (0..3)
  PROVE  FromBits(s) \in 0..15
  BY Weights DEF FromBits

(* Addition is the symmetric difference of the bits. *)
LEMMA BitsOfAdd ==
  ASSUME NEW a \in Byte, NEW b \in Byte
  PROVE  /\ Add(a, b) \in Byte
         /\ Bits(Add(a, b)) = SymDiff(Bits(a), Bits(b))
<1> DEFINE half(x, y) == FromBits(SymDiff(Bits(x), Bits(y)))
<1>1. ASSUME NEW x \in 0..15, NEW y \in 0..15
      PROVE  /\ NibbleXor[x][y] = half(x, y)
             /\ half(x, y) \in 0..15
             /\ Bits(half(x, y)) = SymDiff(Bits(x), Bits(y))
  <2>1. NibbleXor[x][y] = half(x, y)
    BY DEF NibbleXor
  <2>2. SymDiff(Bits(x), Bits(y)) \in SUBSET (0..3)
    BY BitsOfHalf DEF SymDiff
  <2> QED
    BY <2>1, <2>2, HalfFromBits, BitsOfFromBits
<1>2. /\ a \div 16 \in 0..15 /\ a % 16 \in 0..15 /\ a = 16 * (a \div 16) + (a % 16)
      /\ b \div 16 \in 0..15 /\ b % 16 \in 0..15 /\ b = 16 * (b \div 16) + (b % 16)
  BY DEF Byte
<1>3. Add(a, b) = 16 * half(a \div 16, b \div 16) + half(a % 16, b % 16)
  BY <1>1, <1>2 DEF Add
<1> HIDE DEF half
<1> DEFINE ah == a \div 16  al == a % 16  bh == b \div 16  bl == b % 16
           sh == half(ah, bh)  sl == half(al, bl)
<1>4. /\ ah \in 0..15 /\ al \in 0..15 /\ bh \in 0..15 /\ bl \in 0..15
      /\ sh \in 0..15 /\ sl \in 0..15
      /\ a = 16 * ah + al /\ b = 16 * bh + bl /\ Add(a, b) = 16 * sh + sl
      /\ Bits(sh) = SymDiff(Bits(ah), Bits(bh)) /\ Bits(sl) = SymDiff(Bits(al), Bits(bl))
  BY <1>1, <1>2, <1>3
<1> HIDE DEF ah, al, bh, bl, sh, sl
<1>5. Add(a, b) \in Byte
  BY <1>4, BitsOfHalves
<1>6. \A i \in 0..3 : /\ i \in Bits(Add(a, b)) <=> i \in SymDiff(Bits(a), Bits(b))
                      /\ i + 4 \in Bits(Add(a, b)) <=> i + 4 \in SymDiff(Bits(a), Bits(b))
  <2>1. \A i \in 0..3 : /\ i \in Bits(a) <=> i \in Bits(al)
                        /\ i + 4 \in Bits(a) <=> i \in Bits(ah)
    BY <1>4, BitsOfHalves
  <2>2. \A i \in 0..3 : /\ i \in Bits(b) <=> i \in Bits(bl)
                        /\ i + 4 \in Bits(b) <=> i \in Bits(bh)
    BY <1>4, BitsOfHalves
  <2>3. \A i \in 0..3 : /\ i \in Bits(Add(a, b)) <=> i \in Bits(sl)
                        /\ i + 4 \in Bits(Add(a, b)) <=> i \in Bits(sh)
    BY <1>4, BitsOfHalves
  <2> QED
    BY <2>1, <2>2, <2>3, <1>4 DEF SymDiff
<1>7. \A i \in 0..7 : i \in Bits(Add(a, b)) <=> i \in SymDiff(Bits(a), Bits(b))
  <2> SUFFICES ASSUME NEW i \in 0..7
               PROVE  i \in Bits(Add(a, b)) <=> i \in SymDiff(Bits(a), Bits(b))
    OBVIOUS
  <2>1. CASE i \in 0..3
    BY <2>1, <1>6
  <2>2. CASE i \in 4..7
    <3>1. i - 4 \in 0..3 /\ i - 4 + 4 = i
      BY <2>2
    <3> QED
      BY <3>1, <1>6
  <2> QED
    BY <2>1, <2>2
<1> QED
  BY <1>5, <1>7 DEF Bits, SymDiff

LEMMA BitsSubset == \A b : Bits(b) \in SUBSET (0..7)
  BY DEF Bits

(* Bytes with the same bits are the same. *)
LEMMA BitsInjective ==
  ASSUME NEW a \in Byte, NEW b \in Byte, Bits(a) = Bits(b)
  PROVE  a = b
  BY FromBitsOfBits

(* The bytes with Add are an abelian group, each byte its own inverse. *)
LEMMA AddClosed == \A a, b \in Byte : Add(a, b) \in Byte
  BY BitsOfAdd

LEMMA AddComm ==
  ASSUME NEW a \in Byte, NEW b \in Byte
  PROVE  Add(a, b) = Add(b, a)
<1>1. SymDiff(Bits(a), Bits(b)) = SymDiff(Bits(b), Bits(a))
  BY DEF SymDiff
<1> QED
  BY <1>1, BitsOfAdd, BitsInjective

LEMMA AddAssoc ==
  ASSUME NEW a \in Byte, NEW b \in Byte, NEW c \in Byte
  PROVE  Add(Add(a, b), c) = Add(a, Add(b, c))
<1>1. Add(a, b) \in Byte /\ Add(b, c) \in Byte
  BY AddClosed
<1>2. Add(Add(a, b), c) \in Byte /\ Add(a, Add(b, c)) \in Byte
  BY <1>1, AddClosed
<1>3. /\ Bits(Add(Add(a, b), c)) = SymDiff(SymDiff(Bits(a), Bits(b)), Bits(c))
      /\ Bits(Add(a, Add(b, c))) = SymDiff(Bits(a), SymDiff(Bits(b), Bits(c)))
  BY <1>1, BitsOfAdd
<1>4. SymDiff(SymDiff(Bits(a), Bits(b)), Bits(c)) = SymDiff(Bits(a), SymDiff(Bits(b), Bits(c)))
  BY DEF SymDiff
<1> QED
  BY <1>2, <1>3, <1>4, BitsInjective

LEMMA ZeroBits == 0 \in Byte /\ Bits(0) = {}
<1>1. /\ 0 \div 1 = 0 /\ 0 \div 2 = 0 /\ 0 \div 4 = 0 /\ 0 \div 8 = 0
      /\ 0 \div 16 = 0 /\ 0 \div 32 = 0 /\ 0 \div 64 = 0 /\ 0 \div 128 = 0
  OBVIOUS
<1>2. ASSUME NEW i \in 0..7 PROVE (0 \div Weight[i]) % 2 = 0
  <2>1. i = 0 \/ i = 1 \/ i = 2 \/ i = 3 \/ i = 4 \/ i = 5 \/ i = 6 \/ i = 7
    OBVIOUS
  <2> QED
    BY <2>1, <1>1, Weights
<1> QED
  BY <1>2 DEF Bits, Byte

LEMMA AddZero ==
  ASSUME NEW a \in Byte
  PROVE  Add(a, 0) = a /\ Add(0, a) = a
<1>1. Bits(Add(a, 0)) = Bits(a) /\ Bits(Add(0, a)) = Bits(a)
  BY BitsOfAdd, ZeroBits DEF SymDiff
<1> QED
  BY <1>1, ZeroBits, AddClosed, BitsInjective

LEMMA AddSelf ==
  ASSUME NEW a \in Byte
  PROVE  Add(a, a) = 0
<1>1. Bits(Add(a, a)) = Bits(0)
  BY BitsOfAdd, ZeroBits DEF SymDiff
<1> QED
  BY <1>1, ZeroBits, AddClosed, BitsInjective

(* A sum is zero only if its terms are equal. *)
LEMMA AddZeroEqual ==
  ASSUME NEW a \in Byte, NEW b \in Byte, Add(a, b) = 0
  PROVE  a = b
<1>1. Add(Add(a, b), b) = Add(a, Add(b, b))
  BY AddAssoc
<1> QED
  BY <1>1, AddSelf, AddZero

(* The sum of two sums, term by term. *)
LEMMA AddSwap ==
  ASSUME NEW a \in Byte, NEW b \in Byte, NEW c \in Byte, NEW d \in Byte
  PROVE  Add(Add(a, b), Add(c, d)) = Add(Add(a, c), Add(b, d))
<1>1. Add(a, b) \in Byte /\ Add(c, d) \in Byte /\ Add(a, c) \in Byte /\ Add(b, d) \in Byte
  BY AddClosed
<1>2. Add(Add(a, b), Add(c, d)) = Add(a, Add(b, Add(c, d)))
  BY <1>1, AddAssoc
<1>3. Add(Add(a, c), Add(b, d)) = Add(a, Add(c, Add(b, d)))
  BY <1>1, AddAssoc
<1>4. Add(b, Add(c, d)) = Add(Add(b, c), d)
  BY AddAssoc
<1>5. Add(c, Add(b, d)) = Add(Add(c, b), d)
  BY AddAssoc
<1> QED
  BY <1>2, <1>3, <1>4, <1>5, AddComm

-----------------------------------------------------------------------------
(* The tables. *)

LEMMA ExpRange == \A i \in 1..255 : EXP[i] \in 1..255
  BY SMTT(60) DEF EXP

LEMMA LogRange == \A x \in 1..255 : LOG[x] \in 0..254
  BY SMTT(60) DEF LOG

LEMMA LogOfExp == \A i \in 1..255 : LOG[EXP[i]] = i - 1
  BY SMTT(60) DEF LOG, EXP

LEMMA ExpOfLog == \A x \in 1..255 : EXP[LOG[x] + 1] = x
  BY SMTT(60) DEF LOG, EXP

(* Each entry of EXP is the one before times g = 3, that is, x + 1: the    *)
(* bits are those of the entry before, xor the same shifted by one, where  *)
(* a bit shifted out comes back as the modulus x^8 + x^4 + x^3 + x + 1     *)
(* without its highest bit.                                                *)
TimesThree(x, y) ==
  /\ y % 2 = (x + (x \div 128)) % 2
  /\ (y \div 2) % 2 = ((x \div 2) + x + (x \div 128)) % 2
  /\ (y \div 4) % 2 = ((x \div 4) + (x \div 2)) % 2
  /\ (y \div 8) % 2 = ((x \div 8) + (x \div 4) + (x \div 128)) % 2
  /\ (y \div 16) % 2 = ((x \div 16) + (x \div 8) + (x \div 128)) % 2
  /\ (y \div 32) % 2 = ((x \div 32) + (x \div 16)) % 2
  /\ (y \div 64) % 2 = ((x \div 64) + (x \div 32)) % 2
  /\ (y \div 128) % 2 = ((x \div 128) + (x \div 64)) % 2

LEMMA ExpSteps == \A i \in 1..255 : TimesThree(EXP[i], EXP[(i % 255) + 1])
  BY SMTT(120) DEF EXP, TimesThree

(* exp takes every power of g to a byte that is not zero, and log takes it *)
(* back, up to multiples of 255.                                           *)
LEMMA ExpLog ==
  /\ \A n \in Nat : exp(n) \in 1..255 /\ log(exp(n)) = n % 255
  /\ \A a \in 1..255 : log(a) \in 0..254 /\ exp(log(a)) = a
<1>1. ASSUME NEW n \in Nat
      PROVE  exp(n) \in 1..255 /\ log(exp(n)) = n % 255
  <2>1. PICK i \in 1..255 : i = (n % 255) + 1
    OBVIOUS
  <2>2. i - 1 = n % 255
    BY <2>1
  <2>3. EXP[i] \in 1..255 /\ LOG[EXP[i]] = n % 255
    BY <2>2, ExpRange, LogOfExp
  <2> QED
    BY <2>1, <2>3 DEF exp, log
<1>2. ASSUME NEW a \in 1..255
      PROVE  log(a) \in 0..254 /\ exp(log(a)) = a
  <2>1. LOG[a] \in 0..254
    BY LogRange
  <2>2. \A x \in 0..254 : x % 255 = x
    OBVIOUS
  <2>3. LOG[a] % 255 = LOG[a]
    BY <2>1, <2>2
  <2>4. EXP[LOG[a] + 1] = a
    BY ExpOfLog
  <2> QED
    BY ONLY <2>1, <2>3, <2>4 DEF exp, log
<1> QED
  BY <1>1, <1>2

LEMMA ModAdd ==
  ASSUME NEW m \in Nat, NEW n \in Nat
  PROVE  ((m % 255) + n) % 255 = (m + n) % 255
  OBVIOUS

LEMMA ExpMod ==
  ASSUME NEW m \in Nat, NEW n \in Nat
  PROVE  exp((m % 255) + n) = exp(m + n)
  BY ModAdd DEF exp

LEMMA ExpByte == \A n \in Nat : exp(n) \in Byte /\ exp(n) # 0
<1>1. ASSUME NEW n \in Nat PROVE exp(n) \in Byte /\ exp(n) # 0
  <2>1. exp(n) \in 1..255
    BY ExpLog, Zenon
  <2> QED
    BY <2>1 DEF Byte
<1> QED
  BY <1>1

(* Multiplication, where no factor is zero, adds the exponents. *)
LEMMA MulExp ==
  ASSUME NEW m \in Nat, NEW n \in Nat
  PROVE  Mul(exp(m), exp(n)) = exp(m + n)
<1>1. ASSUME NEW k \in Nat PROVE exp(k) # 0 /\ log(exp(k)) = k % 255
  <2>1. exp(k) \in 1..255 /\ log(exp(k)) = k % 255
    BY ExpLog, Zenon
  <2> QED
    BY <2>1
<1>2. Mul(exp(m), exp(n)) = exp((m % 255) + (n % 255))
  BY <1>1, Zenon DEF Mul
<1>3. n % 255 \in Nat /\ (m % 255) + (n % 255) = (n % 255) + (m % 255)
  OBVIOUS
<1>4. exp((m % 255) + (n % 255)) = exp(m + (n % 255))
  BY <1>3, ExpMod
<1>5. exp((n % 255) + m) = exp(n + m)
  BY ExpMod
<1>6. m + (n % 255) = (n % 255) + m /\ n + m = m + n
  OBVIOUS
<1> QED
  BY <1>2, <1>4, <1>5, <1>6

(* A byte that is not zero is a power of g. *)
LEMMA PowerOf ==
  ASSUME NEW a \in Byte, a # 0
  PROVE  \E n \in 0..254 : a = exp(n)
<1>1. a \in 1..255
  BY DEF Byte
<1> QED
  BY <1>1, ExpLog

LEMMA SmallBytes == 0 \in Byte /\ 1 \in Byte /\ 3 \in Byte /\ 1 # 0
  BY DEF Byte

LEMMA MulZero == \A a : Mul(a, 0) = 0 /\ Mul(0, a) = 0
  BY DEF Mul

LEMMA MulNonzero ==
  ASSUME NEW a \in Byte, NEW b \in Byte, a # 0, b # 0
  PROVE  Mul(a, b) \in Byte \ {0}
<1>1. PICK m \in 0..254 : a = exp(m)
  BY PowerOf
<1>2. PICK n \in 0..254 : b = exp(n)
  BY PowerOf
<1>3. m \in Nat /\ n \in Nat /\ m + n \in Nat
  OBVIOUS
<1>4. Mul(a, b) = exp(m + n)
  BY <1>1, <1>2, <1>3, MulExp
<1>5. exp(m + n) \in 1..255
  BY <1>3, ExpLog
<1>6. \A x \in 1..255 : x \in Byte \ {0}
  BY DEF Byte
<1> QED
  BY ONLY <1>4, <1>5, <1>6

LEMMA MulClosed == \A a, b \in Byte : Mul(a, b) \in Byte
<1> SUFFICES ASSUME NEW a \in Byte, NEW b \in Byte
             PROVE  Mul(a, b) \in Byte
  OBVIOUS
<1>1. CASE a # 0 /\ b # 0
  BY <1>1, MulNonzero
<1>2. CASE a = 0 \/ b = 0
  <2>1. 0 \in Byte
    BY DEF Byte
  <2> QED
    BY <1>2, <2>1, MulZero
<1> QED
  BY <1>1, <1>2

LEMMA MulComm ==
  ASSUME NEW a \in Byte, NEW b \in Byte
  PROVE  Mul(a, b) = Mul(b, a)
<1>1. CASE a = 0 \/ b = 0
  BY <1>1, MulZero
<1>2. CASE a # 0 /\ b # 0
  <2>1. PICK m \in 0..254 : a = exp(m)
    BY <1>2, PowerOf
  <2>2. PICK n \in 0..254 : b = exp(n)
    BY <1>2, PowerOf
  <2>3. m \in Nat /\ n \in Nat /\ m + n = n + m
    OBVIOUS
  <2> QED
    BY <2>1, <2>2, <2>3, MulExp
<1> QED
  BY <1>1, <1>2

LEMMA MulAssoc ==
  ASSUME NEW a \in Byte, NEW b \in Byte, NEW c \in Byte
  PROVE  Mul(Mul(a, b), c) = Mul(a, Mul(b, c))
<1>1. CASE a = 0 \/ b = 0 \/ c = 0
  BY <1>1, MulZero
<1>2. CASE a # 0 /\ b # 0 /\ c # 0
  <2>1. PICK m \in 0..254 : a = exp(m)
    BY <1>2, PowerOf
  <2>2. PICK n \in 0..254 : b = exp(n)
    BY <1>2, PowerOf
  <2>3. PICK k \in 0..254 : c = exp(k)
    BY <1>2, PowerOf
  <2>4. /\ m \in Nat /\ n \in Nat /\ k \in Nat /\ m + n \in Nat /\ n + k \in Nat
        /\ (m + n) + k = m + (n + k)
    OBVIOUS
  <2>5. Mul(Mul(a, b), c) = exp((m + n) + k)
    BY <2>1, <2>2, <2>3, <2>4, MulExp
  <2>6. Mul(a, Mul(b, c)) = exp(m + (n + k))
    BY <2>1, <2>2, <2>3, <2>4, MulExp
  <2> QED
    BY <2>4, <2>5, <2>6
<1> QED
  BY <1>1, <1>2

LEMMA ExpZero == exp(0) = 1 /\ exp(1) = 3
<1>1. EXP[1] = 1 /\ EXP[2] = 3
  BY DEF EXP
<1>2. (0 % 255) + 1 = 1 /\ (1 % 255) + 1 = 2
  OBVIOUS
<1> QED
  BY <1>1, <1>2 DEF exp

LEMMA MulOne ==
  ASSUME NEW a \in Byte
  PROVE  Mul(a, 1) = a /\ Mul(1, a) = a
<1>1. CASE a = 0
  BY <1>1, MulZero
<1>2. CASE a # 0
  <2>1. PICK m \in 0..254 : a = exp(m)
    BY <1>2, PowerOf
  <2>2. m \in Nat /\ m + 0 = m /\ 0 + m = m
    OBVIOUS
  <2> QED
    BY <2>1, <2>2, MulExp, ExpZero
<1> QED
  BY <1>1, <1>2

LEMMA DivByLogarithms ==
  ASSUME NEW a, NEW b, b # 0, a # 0
  PROVE  Div(a, b) = Ok(exp(255 + log(a) - log(b)))
  BY DEF Div

(* Division undoes multiplication. *)
LEMMA DivResult ==
  ASSUME NEW a \in Byte, NEW b \in Byte, b # 0
  PROVE  /\ Div(a, b).ok
         /\ Div(a, b).val \in Byte
         /\ Mul(Div(a, b).val, b) = a
         /\ Mul(b, Div(a, b).val) = a
         /\ a # 0 => Div(a, b).val # 0
<1>1. CASE a = 0
  <2>1. Div(a, b) = Ok(0)
    BY <1>1 DEF Div
  <2> QED
    BY <1>1, <2>1, MulZero DEF Ok, Byte
<1>2. CASE a # 0
  <2>1. PICK m \in 0..254 : a = exp(m)
    BY <1>2, PowerOf
  <2>2. PICK n \in 0..254 : b = exp(n)
    BY PowerOf
  <2>3. m \in Nat /\ n \in Nat /\ 255 + m \in Nat
    OBVIOUS
  <2>4. log(a) = m /\ log(b) = n
    <3>1. m % 255 = m /\ n % 255 = n
      BY SMTT(30)
    <3> QED
      BY <2>1, <2>2, <2>3, <3>1, ExpLog
  <2>5. PICK d \in Nat : d = (255 + m) - n /\ d + n = 255 + m
    OBVIOUS
  <2>6. Div(a, b) = Ok(exp(d))
    <3>1. 255 + log(a) - log(b) = d
      BY <2>4, <2>5
    <3>2. Div(a, b) = Ok(exp(255 + log(a) - log(b)))
      BY <1>2, DivByLogarithms
    <3> QED
      BY ONLY <3>1, <3>2
  <2>7. exp(255 + m) = a
    <3>1. (255 + m) % 255 = m % 255
      BY SMTT(30)
    <3> QED
      BY <3>1, <2>1 DEF exp
  <2>8. Mul(exp(d), b) = a
    <3>1. Mul(exp(d), exp(n)) = exp(d + n)
      BY ONLY <2>3, <2>5, MulExp
    <3> QED
      BY ONLY <3>1, <2>2, <2>5, <2>7
  <2>9. exp(d) \in Byte /\ exp(d) # 0
    BY ExpByte
  <2>10. Mul(b, exp(d)) = a
    BY <2>8, <2>9, MulComm
  <2> QED
    BY <2>6, <2>8, <2>9, <2>10 DEF Ok
<1> QED
  BY <1>1, <1>2

LEMMA MulCancel ==
  ASSUME NEW a \in Byte, NEW b \in Byte, NEW c \in Byte, c # 0, Mul(a, c) = Mul(b, c)
  PROVE  a = b
<1> DEFINE i == Div(1, c).val
<1>1. i \in Byte /\ Mul(c, i) = 1
  BY SmallBytes, DivResult
<1> HIDE DEF i
<1>2. Mul(Mul(a, c), i) = Mul(a, Mul(c, i)) /\ Mul(Mul(b, c), i) = Mul(b, Mul(c, i))
  BY <1>1, MulAssoc
<1> QED
  BY <1>1, <1>2, MulOne

LEMMA DivOfMul ==
  ASSUME NEW a \in Byte, NEW b \in Byte, b # 0
  PROVE  Div(Mul(a, b), b).val = a
<1>1. Mul(a, b) \in Byte
  BY MulClosed
<1> QED
  BY <1>1, DivResult, MulCancel

(* Division is multiplication with the inverse. *)
LEMMA DivIsMul ==
  ASSUME NEW a \in Byte, NEW b \in Byte, b # 0
  PROVE  Div(a, b).val = Mul(a, Div(1, b).val)
<1> DEFINE i == Div(1, b).val
<1>1. i \in Byte /\ Mul(i, b) = 1 /\ 1 \in Byte
  BY SmallBytes, DivResult
<1> HIDE DEF i
<1>2. Mul(Mul(a, i), b) = a
  BY <1>1, MulAssoc, MulOne
<1>3. Mul(a, i) \in Byte
  BY <1>1, MulClosed
<1> QED
  BY <1>2, <1>3, DivResult, MulCancel DEF i

-----------------------------------------------------------------------------
(* Multiplication by g distributes over addition, as it does on the bits;  *)
(* and so does multiplication by its powers, which are all there is.       *)

(* The bits of x times g. *)
Shifted(s) ==
  {k \in 0..7 : ((k \in s) # (k - 1 \in s)) # (k \in {0, 1, 3, 4} /\ 7 \in s)}

LEMMA ShiftedDifference ==
  ASSUME NEW s \in SUBSET (0..7), NEW t \in SUBSET (0..7)
  PROVE  Shifted(SymDiff(s, t)) = SymDiff(Shifted(s), Shifted(t))
  BY DEF Shifted, SymDiff

LEMMA BitAt ==
  ASSUME NEW b \in Byte
  PROVE  /\ 0 \in Bits(b) <=> b % 2 = 1
         /\ 1 \in Bits(b) <=> (b \div 2) % 2 = 1
         /\ 2 \in Bits(b) <=> (b \div 4) % 2 = 1
         /\ 3 \in Bits(b) <=> (b \div 8) % 2 = 1
         /\ 4 \in Bits(b) <=> (b \div 16) % 2 = 1
         /\ 5 \in Bits(b) <=> (b \div 32) % 2 = 1
         /\ 6 \in Bits(b) <=> (b \div 64) % 2 = 1
         /\ 7 \in Bits(b) <=> (b \div 128) % 2 = 1
<1>1. b \in Int /\ b \div 1 = b
  BY DEF Byte
<1> QED
  BY <1>1, Weights DEF Bits

LEMMA OddSums ==
  ASSUME NEW x \in Int, NEW y \in Int, NEW z \in Int
  PROVE  /\ (x + y) % 2 = 1 <=> ((x % 2 = 1) # (y % 2 = 1))
         /\ (x + y + z) % 2 = 1 <=> (((x % 2 = 1) # (y % 2 = 1)) # (z % 2 = 1))
  OBVIOUS

(* Times g = 3 is a step in the table of powers. *)
LEMMA TimesG ==
  ASSUME NEW x \in Byte
  PROVE  Bits(Mul(3, x)) = Shifted(Bits(x))
<1>1. CASE x = 0
  BY <1>1, MulZero, ZeroBits DEF Shifted
<1>2. CASE x # 0
  <2> DEFINE y == Mul(3, x)
  <2>1. PICK n \in 0..254 : x = exp(n)
    BY <1>2, PowerOf
  <2>2. PICK i \in 1..255 : i = n + 1
    OBVIOUS
  <2>3. y = exp(n + 1)
    <3>1. 1 \in Nat /\ n \in Nat /\ 1 + n = n + 1
      OBVIOUS
    <3> QED
      BY <2>1, <3>1, MulExp, ExpZero
  <2>4. x = EXP[i] /\ y = EXP[(i % 255) + 1]
    <3>1. (n % 255) + 1 = i /\ ((n + 1) % 255) + 1 = (i % 255) + 1
      BY <2>2
    <3> QED
      BY <3>1, <2>1, <2>3 DEF exp
  <2>5. y \in Byte
    BY <2>3, ExpByte
  <2> HIDE DEF y
  <2>6. TimesThree(x, y)
    BY <2>4, ExpSteps, Zenon
  <2>7. /\ x \in Int           /\ x \div 2 \in Int   /\ x \div 4 \in Int
        /\ x \div 8 \in Int    /\ x \div 16 \in Int  /\ x \div 32 \in Int
        /\ x \div 64 \in Int   /\ x \div 128 \in Int
    BY DEF Byte
  <2> DEFINE b(k) == k \in Bits(x)
  <2>8. /\ 0 \in Bits(y) <=> (b(0) # b(7))
        /\ 1 \in Bits(y) <=> ((b(1) # b(0)) # b(7))
        /\ 2 \in Bits(y) <=> (b(2) # b(1))
        /\ 3 \in Bits(y) <=> ((b(3) # b(2)) # b(7))
        /\ 4 \in Bits(y) <=> ((b(4) # b(3)) # b(7))
        /\ 5 \in Bits(y) <=> (b(5) # b(4))
        /\ 6 \in Bits(y) <=> (b(6) # b(5))
        /\ 7 \in Bits(y) <=> (b(7) # b(6))
    <3>1. 0 \in Bits(y) <=> (b(0) # b(7))
      <4>1. (x + (x \div 128)) % 2 = 1
              <=> ((x % 2 = 1) # ((x \div 128) % 2 = 1))
        BY <2>7, OddSums
      <4> QED
        BY <4>1, <2>5, <2>6, BitAt DEF TimesThree
    <3>2. 1 \in Bits(y) <=> ((b(1) # b(0)) # b(7))
      <4>1. ((x \div 2) + x + (x \div 128)) % 2 = 1
              <=> ((((x \div 2) % 2 = 1) # (x % 2 = 1)) # ((x \div 128) % 2 = 1))
        BY <2>7, OddSums
      <4> QED
        BY <4>1, <2>5, <2>6, BitAt DEF TimesThree
    <3>3. 2 \in Bits(y) <=> (b(2) # b(1))
      <4>1. ((x \div 4) + (x \div 2)) % 2 = 1
              <=> (((x \div 4) % 2 = 1) # ((x \div 2) % 2 = 1))
        BY <2>7, OddSums
      <4> QED
        BY <4>1, <2>5, <2>6, BitAt DEF TimesThree
    <3>4. 3 \in Bits(y) <=> ((b(3) # b(2)) # b(7))
      <4>1. ((x \div 8) + (x \div 4) + (x \div 128)) % 2 = 1
              <=> ((((x \div 8) % 2 = 1) # ((x \div 4) % 2 = 1)) # ((x \div 128) % 2 = 1))
        BY <2>7, OddSums
      <4> QED
        BY <4>1, <2>5, <2>6, BitAt DEF TimesThree
    <3>5. 4 \in Bits(y) <=> ((b(4) # b(3)) # b(7))
      <4>1. ((x \div 16) + (x \div 8) + (x \div 128)) % 2 = 1
              <=> ((((x \div 16) % 2 = 1) # ((x \div 8) % 2 = 1)) # ((x \div 128) % 2 = 1))
        BY <2>7, OddSums
      <4> QED
        BY <4>1, <2>5, <2>6, BitAt DEF TimesThree
    <3>6. 5 \in Bits(y) <=> (b(5) # b(4))
      <4>1. ((x \div 32) + (x \div 16)) % 2 = 1
              <=> (((x \div 32) % 2 = 1) # ((x \div 16) % 2 = 1))
        BY <2>7, OddSums
      <4> QED
        BY <4>1, <2>5, <2>6, BitAt DEF TimesThree
    <3>7. 6 \in Bits(y) <=> (b(6) # b(5))
      <4>1. ((x \div 64) + (x \div 32)) % 2 = 1
              <=> (((x \div 64) % 2 = 1) # ((x \div 32) % 2 = 1))
        BY <2>7, OddSums
      <4> QED
        BY <4>1, <2>5, <2>6, BitAt DEF TimesThree
    <3>8. 7 \in Bits(y) <=> (b(7) # b(6))
      <4>1. ((x \div 128) + (x \div 64)) % 2 = 1
              <=> (((x \div 128) % 2 = 1) # ((x \div 64) % 2 = 1))
        BY <2>7, OddSums
      <4> QED
        BY <4>1, <2>5, <2>6, BitAt DEF TimesThree
    <3> QED
      BY <3>1, <3>2, <3>3, <3>4, <3>5, <3>6, <3>7, <3>8
  <2>9. ASSUME NEW k \in 0..7 PROVE k \in Bits(y) <=> k \in Shifted(Bits(x))
    <3>1. k = 0 \/ k = 1 \/ k = 2 \/ k = 3 \/ k = 4 \/ k = 5 \/ k = 6 \/ k = 7
      OBVIOUS
    <3>2. -1 \notin Bits(x)
      BY DEF Bits
    <3> QED
      BY <3>1, <3>2, <2>8 DEF Shifted
  <2> QED
    BY <2>9 DEF Bits, Shifted, y
<1> QED
  BY <1>1, <1>2

LEMMA TimesGDistributes ==
  ASSUME NEW x \in Byte, NEW y \in Byte
  PROVE  Mul(3, Add(x, y)) = Add(Mul(3, x), Mul(3, y))
<1>1. /\ 3 \in Byte /\ Add(x, y) \in Byte /\ Mul(3, x) \in Byte /\ Mul(3, y) \in Byte
      /\ Mul(3, Add(x, y)) \in Byte /\ Add(Mul(3, x), Mul(3, y)) \in Byte
  <2>1. 3 \in Byte /\ Add(x, y) \in Byte
    BY AddClosed, SmallBytes
  <2> QED
    BY <2>1, AddClosed, MulClosed
<1>2. Bits(Mul(3, Add(x, y))) = Shifted(SymDiff(Bits(x), Bits(y)))
  BY <1>1, TimesG, BitsOfAdd
<1>3. Bits(Add(Mul(3, x), Mul(3, y))) = SymDiff(Shifted(Bits(x)), Shifted(Bits(y)))
  BY <1>1, TimesG, BitsOfAdd
<1> QED
  BY <1>1, <1>2, <1>3, BitsSubset, ShiftedDifference, BitsInjective

LEMMA Distributive ==
  ASSUME NEW a \in Byte, NEW x \in Byte, NEW y \in Byte
  PROVE  /\ Mul(a, Add(x, y)) = Add(Mul(a, x), Mul(a, y))
         /\ Mul(Add(x, y), a) = Add(Mul(x, a), Mul(y, a))
<1> DEFINE D(c) == Mul(c, Add(x, y)) = Add(Mul(c, x), Mul(c, y))
           S == {n \in Nat : D(exp(n))}
<1>1. Add(x, y) \in Byte
  BY AddClosed
<1>2. D(0)
  BY MulZero, AddZero, SmallBytes
<1>3. D(1)
  BY <1>1, MulOne
<1>4. ASSUME NEW n \in Nat, D(exp(n)) PROVE D(exp(n + 1))
  <2> DEFINE e == exp(n)
  <2>1. e \in Byte /\ 3 \in Byte
    BY ExpByte, SmallBytes
  <2>2. exp(n + 1) = Mul(3, e)
    <3>1. 1 \in Nat /\ 1 + n = n + 1
      OBVIOUS
    <3> QED
      BY <3>1, MulExp, ExpZero
  <2> HIDE DEF e
  <2>3. \A z \in Byte : Mul(Mul(3, e), z) = Mul(3, Mul(e, z)) /\ Mul(e, z) \in Byte
    BY <2>1, MulAssoc, MulClosed
  <2>4. Mul(e, Add(x, y)) = Add(Mul(e, x), Mul(e, y))
    BY <1>4 DEF e
  <2>5. Mul(3, Add(Mul(e, x), Mul(e, y))) = Add(Mul(3, Mul(e, x)), Mul(3, Mul(e, y)))
    BY <2>3, TimesGDistributes
  <2> QED
    BY <1>1, <2>2, <2>3, <2>4, <2>5
<1> HIDE DEF D
<1>5. Nat \subseteq S
  <2>1. 0 \in S
    BY <1>3, ExpZero
  <2>2. \A n \in Nat : n \in S => n + 1 \in S
    BY <1>4
  <2> HIDE DEF S
  <2> QED
    BY <2>1, <2>2, NatSetInduction
<1>6. D(a)
  <2>1. CASE a = 0
    BY <2>1, <1>2
  <2>2. CASE a # 0
    <3>1. PICK n \in 0..254 : a = exp(n)
      BY <2>2, PowerOf
    <3> QED
      BY <3>1, <1>5
  <2> QED
    BY <2>1, <2>2
<1> QED
  BY <1>1, <1>6, MulComm, MulClosed DEF D

-----------------------------------------------------------------------------

(* The laws of a field, with Neg and Sub, Div where it is defined.         *)
FieldLaws(x, y, z) ==
  /\ Add(x, y) \in Byte /\ Mul(x, y) \in Byte
  /\ Add(x, y) = Add(y, x) /\ Mul(x, y) = Mul(y, x)
  /\ Add(Add(x, y), z) = Add(x, Add(y, z))
  /\ Mul(Mul(x, y), z) = Mul(x, Mul(y, z))
  /\ Mul(x, Add(y, z)) = Add(Mul(x, y), Mul(x, z))
  /\ Add(x, 0) = x /\ Mul(x, 1) = x
  /\ Add(x, Neg(x)) = 0 /\ Add(Sub(x, y), y) = x
  /\ y # 0 => Div(x, y).ok /\ Mul(Div(x, y).val, y) = x

(* gf256.rs:66-123: the operators that the crate defines on GF256 with its *)
(* two tables satisfy the laws of a field, for all elements.               *)
THEOREM BytesAreAField == \A x, y, z \in Byte : FieldLaws(x, y, z)
<1> SUFFICES ASSUME NEW x \in Byte, NEW y \in Byte, NEW z \in Byte
             PROVE  FieldLaws(x, y, z)
  OBVIOUS
<1>1. Add(x, y) \in Byte /\ Mul(x, y) \in Byte
  BY AddClosed, MulClosed
<1>2. Add(x, y) = Add(y, x) /\ Mul(x, y) = Mul(y, x)
  BY AddComm, MulComm
<1>3. /\ Add(Add(x, y), z) = Add(x, Add(y, z))
      /\ Mul(Mul(x, y), z) = Mul(x, Mul(y, z))
  BY AddAssoc, MulAssoc
<1>4. Mul(x, Add(y, z)) = Add(Mul(x, y), Mul(x, z))
  BY Distributive
<1>5. Add(x, 0) = x /\ Add(0, x) = x /\ Mul(x, 1) = x
  BY AddZero, MulOne
<1>6. Add(x, Neg(x)) = 0
  BY <1>5, AddSelf DEF Neg, Sub
<1>7. Add(Sub(x, y), y) = x
  <2>1. Add(Add(x, y), y) = Add(x, Add(y, y))
    BY AddAssoc
  <2> QED
    BY <1>5, <2>1, AddSelf DEF Sub
<1>8. y # 0 => Div(x, y).ok /\ Mul(Div(x, y).val, y) = x
  BY DivResult
<1> QED
  BY <1>1, <1>2, <1>3, <1>4, <1>5, <1>6, <1>7, <1>8 DEF FieldLaws
=============================================================================
