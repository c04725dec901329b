-------------------------- MODULE FieldCheckProofs --------------------------
(***************************************************************************)
(* Multiplication and division by the tables are those of the field with   *)
(* 256 elements, for every pair of bytes.                                  *)
(***************************************************************************)
EXTENDS FieldCheck, FieldProofs

-----------------------------------------------------------------------------
(* Doubling. *)

LEMMA EightBits ==
  \A k \in 0..7 :
    k = 0 \/ k = 1 \/ k = 2 \/ k = 3 \/ k = 4 \/ k = 5 \/ k = 6 \/ k = 7
  OBVIOUS

(* The bits of 2 * x, as long as it is a byte: all move up by one. *)
LEMMA BitsOfDouble ==
  ASSUME NEW x \in 0..127
  PROVE  /\ x \in Byte /\ 2 * x \in Byte /\ 7 \notin Bits(x)
         /\ Bits(2 * x) = {k \in 0..7 : k - 1 \in Bits(x)}
<1>1. x \in Byte /\ 2 * x \in Byte
  BY DEF Byte
<1>2. /\ (2 * x) % 2 = 0            /\ (2 * x) \div 2 = x
      /\ (2 * x) \div 4 = x \div 2    /\ (2 * x) \div 8 = x \div 4
      /\ (2 * x) \div 16 = x \div 8   /\ (2 * x) \div 32 = x \div 16
      /\ (2 * x) \div 64 = x \div 32  /\ (2 * x) \div 128 = x \div 64
      /\ x \div 128 = 0
  OBVIOUS
<1>3. 7 \notin Bits(x)
  BY <1>1, <1>2, BitAt
<1>4. /\ 0 \notin Bits(2 * x)
      /\ 1 \in Bits(2 * x) <=> 0 \in Bits(x)
      /\ 2 \in Bits(2 * x) <=> 1 \in Bits(x)
      /\ 3 \in Bits(2 * x) <=> 2 \in Bits(x)
      /\ 4 \in Bits(2 * x) <=> 3 \in Bits(x)
      /\ 5 \in Bits(2 * x) <=> 4 \in Bits(x)
      /\ 6 \in Bits(2 * x) <=> 5 \in Bits(x)
      /\ 7 \in Bits(2 * x) <=> 6 \in Bits(x)
  <2> DEFINE y == 2 * x
  <2>1. y \in Byte
    BY <1>1
  <2>2. y % 2 = 0 /\ y \div 2 = x
        /\ y \div 4 = x \div 2 /\ y \div 8 = x \div 4 /\ y \div 16 = x \div 8
        /\ y \div 32 = x \div 16 /\ y \div 64 = x \div 32 /\ y \div 128 = x \div 64
    BY <1>2
  <2> HIDE DEF y
  <2>3. /\ 0 \notin Bits(y)
        /\ 1 \in Bits(y) <=> 0 \in Bits(x)
        /\ 2 \in Bits(y) <=> 1 \in Bits(x)
        /\ 3 \in Bits(y) <=> 2 \in Bits(x)
        /\ 4 \in Bits(y) <=> 3 \in Bits(x)
        /\ 5 \in Bits(y) <=> 4 \in Bits(x)
        /\ 6 \in Bits(y) <=> 5 \in Bits(x)
        /\ 7 \in Bits(y) <=> 6 \in Bits(x)
    BY <1>1, <2>1, <2>2, BitAt
  <2> QED
    BY <2>3 DEF y
<1>5. Bits(x) \subseteq 0..7 /\ Bits(2 * x) \subseteq 0..7
  BY BitsSubset
<1>6. \A k \in 0..7 : k \in Bits(2 * x) <=> k - 1 \in Bits(x)
  <2> TAKE k \in 0..7
  <2>2. -1 \notin Bits(x)
    BY <1>5
  <2> QED
    BY EightBits, <2>2, <1>4
<1> QED
  BY <1>1, <1>3, <1>5, <1>6

(* The highest bit. *)
LEMMA BitsOfUpperHalf ==
  ASSUME NEW x \in 128..255
  PROVE  /\ x - 128 \in 0..127
         /\ Bits(x) = Bits(x - 128) \cup {7}
<1> DEFINE y == x - 128
<1>1. x \in Byte /\ y \in Byte /\ y \in 0..127
  BY DEF Byte
<1>2. /\ x = y + 128
      /\ x % 2 = y % 2
      /\ (x \div 2) % 2 = (y \div 2) % 2
      /\ (x \div 4) % 2 = (y \div 4) % 2
      /\ (x \div 8) % 2 = (y \div 8) % 2
      /\ (x \div 16) % 2 = (y \div 16) % 2
      /\ (x \div 32) % 2 = (y \div 32) % 2
      /\ (x \div 64) % 2 = (y \div 64) % 2
      /\ (x \div 128) % 2 = 1
  OBVIOUS
<1>3. y \div 128 = 0
  BY <1>1
<1> HIDE DEF y
<1>4. /\ 0 \in Bits(x) <=> 0 \in Bits(y)
      /\ 1 \in Bits(x) <=> 1 \in Bits(y)
      /\ 2 \in Bits(x) <=> 2 \in Bits(y)
      /\ 3 \in Bits(x) <=> 3 \in Bits(y)
      /\ 4 \in Bits(x) <=> 4 \in Bits(y)
      /\ 5 \in Bits(x) <=> 5 \in Bits(y)
      /\ 6 \in Bits(x) <=> 6 \in Bits(y)
      /\ 7 \in Bits(x)
  BY <1>1, <1>2, BitAt
<1>5. \A k \in 0..7 : k \in Bits(x) <=> k \in Bits(y) \cup {7}
  <2> TAKE k \in 0..7
  <2> QED
    BY EightBits, <1>4
<1>6. Bits(x) \subseteq 0..7 /\ Bits(y) \subseteq 0..7
  BY BitsSubset
<1> QED
  BY <1>1, <1>5, <1>6 DEF y

(* The set of the bits of a byte, place by place. *)
LEMMA BitsAre ==
  ASSUME NEW x \in Byte, NEW s \in SUBSET (0..7),
         0 \in s <=> x % 2 = 1, 1 \in s <=> (x \div 2) % 2 = 1,
         2 \in s <=> (x \div 4) % 2 = 1, 3 \in s <=> (x \div 8) % 2 = 1,
         4 \in s <=> (x \div 16) % 2 = 1, 5 \in s <=> (x \div 32) % 2 = 1,
         6 \in s <=> (x \div 64) % 2 = 1, 7 \in s <=> (x \div 128) % 2 = 1
  PROVE  Bits(x) = s
<1>2. \A k \in 0..7 : k \in Bits(x) <=> k \in s
  BY EightBits, BitAt
<1> QED
  BY <1>2, BitsSubset

LEMMA SmallBits ==
  /\ 1 \in Byte /\ Bits(1) = {0}
  /\ 2 \in Byte /\ Bits(2) = {1}
  /\ 3 \in Byte /\ Bits(3) = {0, 1}
  /\ 27 \in Byte /\ Bits(27) = {0, 1, 3, 4}
<1>1. 1 \in Byte /\ 2 \in Byte /\ 3 \in Byte /\ 27 \in Byte
  BY DEF Byte
<1>2. Bits(1) = {0}
  <2>1. /\ 1 % 2 = 1 /\ (1 \div 2) % 2 = 0
        /\ (1 \div 4) % 2 = 0 /\ (1 \div 8) % 2 = 0
        /\ (1 \div 16) % 2 = 0 /\ (1 \div 32) % 2 = 0
        /\ (1 \div 64) % 2 = 0 /\ (1 \div 128) % 2 = 0
    OBVIOUS
  <2>2. /\ 0 \in {0} /\ 1 \notin {0} /\ 2 \notin {0} /\ 3 \notin {0}
        /\ 4 \notin {0} /\ 5 \notin {0} /\ 6 \notin {0} /\ 7 \notin {0}
        /\ {0} \in SUBSET (0..7)
    OBVIOUS
  <2> QED
    BY <1>1, <2>1, <2>2, BitsAre
<1>3. Bits(2) = {1}
  <2>1. /\ 2 % 2 = 0 /\ (2 \div 2) % 2 = 1
        /\ (2 \div 4) % 2 = 0 /\ (2 \div 8) % 2 = 0
        /\ (2 \div 16) % 2 = 0 /\ (2 \div 32) % 2 = 0
        /\ (2 \div 64) % 2 = 0 /\ (2 \div 128) % 2 = 0
    OBVIOUS
  <2>2. /\ 0 \notin {1} /\ 1 \in {1} /\ 2 \notin {1} /\ 3 \notin {1}
        /\ 4 \notin {1} /\ 5 \notin {1} /\ 6 \notin {1} /\ 7 \notin {1}
        /\ {1} \in SUBSET (0..7)
    OBVIOUS
  <2> QED
    BY <1>1, <2>1, <2>2, BitsAre
<1>4. Bits(3) = {0, 1}
  <2>1. /\ 3 % 2 = 1 /\ (3 \div 2) % 2 = 1
        /\ (3 \div 4) % 2 = 0 /\ (3 \div 8) % 2 = 0
        /\ (3 \div 16) % 2 = 0 /\ (3 \div 32) % 2 = 0
        /\ (3 \div 64) % 2 = 0 /\ (3 \div 128) % 2 = 0
    OBVIOUS
  <2>2. /\ 0 \in {0, 1} /\ 1 \in {0, 1} /\ 2 \notin {0, 1} /\ 3 \notin {0, 1}
        /\ 4 \notin {0, 1} /\ 5 \notin {0, 1} /\ 6 \notin {0, 1} /\ 7 \notin {0, 1}
        /\ {0, 1} \in SUBSET (0..7)
    OBVIOUS
  <2> QED
    BY <1>1, <2>1, <2>2, BitsAre
<1>5. Bits(27) = {0, 1, 3, 4}
  <2>1. /\ 27 % 2 = 1 /\ (27 \div 2) % 2 = 1
        /\ (27 \div 4) % 2 = 0 /\ (27 \div 8) % 2 = 1
        /\ (27 \div 16) % 2 = 1 /\ (27 \div 32) % 2 = 0
        /\ (27 \div 64) % 2 = 0 /\ (27 \div 128) % 2 = 0
    OBVIOUS
  <2>2. /\ 0 \in {0, 1, 3, 4} /\ 1 \in {0, 1, 3, 4}
        /\ 2 \notin {0, 1, 3, 4} /\ 3 \in {0, 1, 3, 4}
        /\ 4 \in {0, 1, 3, 4} /\ 5 \notin {0, 1, 3, 4}
        /\ 6 \notin {0, 1, 3, 4} /\ 7 \notin {0, 1, 3, 4}
        /\ {0, 1, 3, 4} \in SUBSET (0..7)
    OBVIOUS
  <2> QED
    BY <1>1, <2>1, <2>2, BitsAre
<1> QED
  BY <1>1, <1>2, <1>3, <1>4, <1>5

(* The bits of x times 2. *)
Doubled(s) == {k \in 0..7 : (k - 1 \in s) # (k \in {0, 1, 3, 4} /\ 7 \in s)}

(* 2 is 3 - 1: twice x is three times x less x. *)
LEMMA TwiceBits ==
  ASSUME NEW x \in Byte
  PROVE  /\ Mul(2, x) \in Byte
         /\ Bits(Mul(2, x)) = Doubled(Bits(x))
<1>1. 1 \in Byte /\ 2 \in Byte /\ 3 \in Byte
  BY SmallBytes, SmallBits
<1>2. Add(3, 1) = 2
  <2>1. Add(3, 1) \in Byte /\ Bits(Add(3, 1)) = SymDiff(Bits(3), Bits(1))
    BY <1>1, BitsOfAdd
  <2>2. SymDiff({0, 1}, {0}) = {1}
    BY DEF SymDiff
  <2> QED
    BY <1>1, <2>1, <2>2, SmallBits, BitsInjective
<1>3. Mul(2, x) = Add(Mul(3, x), x)
  BY <1>1, <1>2, Distributive, MulOne
<1>4. Mul(3, x) \in Byte /\ Mul(2, x) \in Byte
  BY <1>1, MulClosed
<1>5. Bits(Mul(2, x)) = SymDiff(Shifted(Bits(x)), Bits(x))
  BY <1>3, <1>4, BitsOfAdd, TimesG
<1>6. Bits(x) \in SUBSET (0..7)
  BY BitsSubset
<1> DEFINE s == Bits(x)
<1> HIDE DEF s
<1>7. s \in SUBSET (0..7) => SymDiff(Shifted(s), s) = Doubled(s)
  <2> SUFFICES ASSUME s \in SUBSET (0..7)
               PROVE  \A k : k \in SymDiff(Shifted(s), s) <=> k \in Doubled(s)
    OBVIOUS
  <2> TAKE k
  <2>1. k \in SymDiff(Shifted(s), s) <=> ((k \in Shifted(s)) # (k \in s))
    BY DEF SymDiff
  <2>2. CASE k \notin 0..7
    <3>1. k \notin s /\ k \notin Shifted(s) /\ k \notin Doubled(s)
      BY <2>2 DEF Shifted, Doubled
    <3> QED
      BY <2>1, <2>2, <3>1
  <2>3. CASE k \in 0..7
    BY <2>1, <2>3 DEF Shifted, Doubled
  <2> QED
    BY <2>2, <2>3
<1> QED
  BY <1>4, <1>5, <1>6, <1>7 DEF s

(* A shift, and the modulus where a bit is shifted out, is multiplication  *)
(* by 2.                                                                   *)
LEMMA XtimeIsTwice ==
  ASSUME NEW x \in Byte
  PROVE  Xtime(x) = Mul(2, x)
<1>1. CASE x < 128
  <2>1. x \in 0..127
    BY <1>1 DEF Byte
  <2>2. Bits(2 * x) = Bits(Mul(2, x))
    <3>1. 7 \notin Bits(x) /\ Bits(2 * x) = {k \in 0..7 : k - 1 \in Bits(x)}
      BY <2>1, BitsOfDouble
    <3>2. Bits(Mul(2, x)) = Doubled(Bits(x))
      BY TwiceBits
    <3>3. \A k : k \in Bits(2 * x) <=> k \in Bits(Mul(2, x))
      BY <3>1, <3>2 DEF Doubled
    <3> QED
      BY <3>3
  <2> QED
    BY <1>1, <2>1, <2>2, BitsOfDouble, TwiceBits, BitsInjective DEF Xtime
<1>2. CASE ~(x < 128)
  <2> DEFINE y == x - 128
             z == 2 * y
             s == Bits(y)
  <2>1. x \in 128..255 /\ y \in 0..127 /\ 2 * x - 256 = z
    BY <1>2 DEF Byte
  <2>2. Bits(x) = s \cup {7} /\ 7 \notin s /\ z \in Byte
    BY <2>1, BitsOfUpperHalf, BitsOfDouble
  <2>3. Bits(z) = {k \in 0..7 : k - 1 \in s}
    BY <2>1, BitsOfDouble
  <2>4. Xtime(x) = Add(z, 27)
    BY <1>2, <2>1 DEF Xtime
  <2> HIDE DEF y, z, s
  <2>5. Add(z, 27) \in Byte /\ Bits(Add(z, 27)) = SymDiff(Bits(z), {0, 1, 3, 4})
    <3>1. 27 \in Byte /\ Bits(27) = {0, 1, 3, 4}
      BY SmallBits
    <3>2. Add(z, 27) \in Byte /\ Bits(Add(z, 27)) = SymDiff(Bits(z), Bits(27))
      BY <2>2, <3>1, BitsOfAdd
    <3> QED
      BY <3>1, <3>2
  <2>6. Bits(Mul(2, x)) = {k \in 0..7 : (k - 1 \in s) # (k \in {0, 1, 3, 4})}
    <3>1. \A k \in 0..7 : k - 1 \in s \cup {7} <=> k - 1 \in s
      OBVIOUS
    <3> QED
      BY <2>2, <3>1, TwiceBits DEF Doubled
  <2>7. Bits(Add(z, 27)) = Bits(Mul(2, x))
    BY <2>3, <2>5, <2>6 DEF SymDiff
  <2> QED
    BY <2>4, <2>5, <2>7, TwiceBits, BitsInjective
<1> QED
  BY <1>1, <1>2

-----------------------------------------------------------------------------
(* The reference multiplication, from the highest bit of y down. *)

(* One more bit. *)
LEMMA AppendBit ==
  ASSUME NEW x \in Byte, NEW q \in 0..127, NEW bit \in 0..1
  PROVE  Add(Xtime(Mul(x, q)), IF bit = 1 THEN x ELSE 0) = Mul(x, 2 * q + bit)
<1>1. /\ q \in Byte /\ 2 * q \in Byte /\ bit \in Byte /\ 2 * q + bit \in Byte
      /\ 2 \in Byte /\ Mul(x, q) \in Byte
  <2>1. /\ q \in Byte /\ 2 * q \in Byte /\ bit \in Byte
        /\ 2 * q + bit \in Byte /\ 2 \in Byte
    BY DEF Byte
  <2> QED
    BY <2>1, MulClosed
<1>2. Mul(2, q) = 2 * q
  BY <1>1, XtimeIsTwice DEF Xtime
<1>3. Xtime(Mul(x, q)) = Mul(x, 2 * q)
  <2>1. Mul(2, Mul(x, q)) = Mul(Mul(x, q), 2)
    BY <1>1, MulComm
  <2>2. Mul(Mul(x, q), 2) = Mul(x, Mul(q, 2))
    BY <1>1, MulAssoc
  <2>3. Mul(q, 2) = 2 * q
    BY <1>1, <1>2, MulComm
  <2> QED
    BY <1>1, <2>1, <2>2, <2>3, XtimeIsTwice
<1>4. (IF bit = 1 THEN x ELSE 0) = Mul(x, bit)
  <2>1. CASE bit = 1
    BY <2>1, MulOne
  <2>2. CASE bit = 0
    BY <2>2, MulZero
  <2> QED
    BY <2>1, <2>2
<1>5. Add(2 * q, bit) = 2 * q + bit
  <2>1. CASE bit = 0
    BY <1>1, <2>1, AddZero
  <2>2. CASE bit = 1
    <3> DEFINE d == 2 * q
               e == 2 * q + 1
    <3>1. d \in Byte /\ e \in Byte /\ Bits(d) = {k \in 0..7 : k - 1 \in Bits(q)}
      BY <1>1, <2>2, BitsOfDouble
    <3>2. /\ e % 2 = 1 /\ d % 2 = 0 
          /\ e \div 2 = d \div 2 /\ e \div 4 = d \div 4
          /\ e \div 8 = d \div 8 /\ e \div 16 = d \div 16 /\ e \div 32 = d \div 32
          /\ e \div 64 = d \div 64 /\ e \div 128 = d \div 128
      OBVIOUS
    <3> HIDE DEF d, e
    <3>3. /\ 0 \in Bits(e)
          /\ 0 \notin Bits(d)
          /\ 1 \in Bits(e) <=> 1 \in Bits(d)
          /\ 2 \in Bits(e) <=> 2 \in Bits(d)
          /\ 3 \in Bits(e) <=> 3 \in Bits(d)
          /\ 4 \in Bits(e) <=> 4 \in Bits(d)
          /\ 5 \in Bits(e) <=> 5 \in Bits(d)
          /\ 6 \in Bits(e) <=> 6 \in Bits(d)
          /\ 7 \in Bits(e) <=> 7 \in Bits(d)
      BY <3>1, <3>2, BitAt
    <3>4. \A k \in 0..7 : k \in Bits(e) <=> k \in Bits(d) \cup {0}
      <4> TAKE k \in 0..7
      <4> QED
        BY EightBits, <3>3
    <3>5. Bits(d) \subseteq 0..7 /\ Bits(e) \subseteq 0..7
      BY BitsSubset
    <3>6. Bits(e) = SymDiff(Bits(d), {0})
      BY <3>3, <3>4, <3>5 DEF SymDiff
    <3>7. Add(d, 1) \in Byte /\ Bits(Add(d, 1)) = Bits(e)
      <4>1. 1 \in Byte /\ Bits(1) = {0}
        BY SmallBits
      <4>2. Add(d, 1) \in Byte /\ Bits(Add(d, 1)) = SymDiff(Bits(d), Bits(1))
        BY <3>1, <4>1, BitsOfAdd
      <4> QED
        BY <3>6, <4>1, <4>2
    <3>8. Add(d, 1) = e
      BY <3>1, <3>7, BitsInjective
    <3> QED
      BY <2>2, <3>8 DEF d, e
  <2> QED
    BY <2>1, <2>2
<1>6. Add(Mul(x, 2 * q), Mul(x, bit)) = Mul(x, Add(2 * q, bit))
  BY <1>1, Distributive
<1> QED
  BY <1>3, <1>4, <1>5, <1>6

LEMMA PowersOfTwo ==
  /\ 2^0 = 1 /\ 2^1 = 2 /\ 2^2 = 4 /\ 2^3 = 8
  /\ 2^4 = 16 /\ 2^5 = 32 /\ 2^6 = 64 /\ 2^7 = 128
  OBVIOUS

(* The intermediate sums, from bit 7 down to bit k - 1. *)
LEMMA ReferenceSteps ==
  ASSUME NEW x \in Byte, NEW y \in Byte
  PROVE  \E H \in [1..9 -> Byte] :
           /\ H[9] = 0
           /\ \A k \in 1..8 :
                H[k] = Add(Xtime(H[k + 1]), IF (y \div 2^(k - 1)) % 2 = 1 THEN x ELSE 0)
           /\ H[1] = ReferenceMul(x, y)
<1> DEFINE places == <<0, 1, 2, 3, 4, 5, 6, 7>>
           term(k) == IF (y \div 2^(places[k])) % 2 = 1 THEN x ELSE 0
           op == [k \in 1..8 |-> [v \in Byte |-> Add(Xtime(v), term(k))]]
           IsFold(f) ==
             f = [t \in SUBSET (DOMAIN places) |->
                    IF t = {} THEN 0 ELSE Add(Xtime(f[t \ {Min(t)}]), term(Min(t)))]
           iter == CHOOSE f : IsFold(f)
<1>1. DOMAIN places = 1..8 /\ \A k \in 1..8 : places[k] = k - 1
  OBVIOUS
<1>2. 0 \in Byte /\ 2 \in Byte
  BY SmallBytes, SmallBits
<1>3. \A k \in 1..8, v \in Byte : Add(Xtime(v), term(k)) \in Byte
  <2> TAKE k \in 1..8, v \in Byte
  <2>1. Xtime(v) \in Byte
    BY <1>2, XtimeIsTwice, MulClosed
  <2>2. term(k) \in Byte
    BY <1>2
  <2> HIDE DEF term
  <2> QED
    BY <2>1, <2>2, AddClosed
<1> HIDE DEF term, places
<1>4. op \in [1..8 -> [Byte -> Byte]]
  BY <1>3
<1>5. \A t \in SUBSET (1..8) : t # {} => Min(t) \in t
  <2>1. 8 \in Nat
    OBVIOUS
  <2> QED
    BY <2>1, MinInSet
<1>6. \A t \in SUBSET (1..8), v \in Byte :
        t # {} => op[Min(t)][v] = Add(Xtime(v), term(Min(t)))
  BY <1>5
<1>7. \E f : IsFold(f)
  <2>1. PICK f \in [SUBSET (1..8) -> Byte] : FoldsDown(f, 1..8, 0, op)
    <3>1. 8 \in Nat
      OBVIOUS
    <3> HIDE DEF op
    <3> QED
      BY <3>1, <1>2, <1>4, FoldDownExists
  <2>2. \A t \in SUBSET (1..8) :
          t # {} => op[Min(t)][f[t \ {Min(t)}]] = Add(Xtime(f[t \ {Min(t)}]), term(Min(t)))
    BY <1>6, <2>1
  <2> HIDE DEF op
  <2>3. IsFold(f)
    BY <1>1, <2>1, <2>2 DEF FoldsDown
  <2> QED
    BY <2>3
<1>8. IsFold(iter)
  BY <1>7
<1>9. ReferenceMul(x, y) = iter[DOMAIN places]
  BY DEF ReferenceMul, FoldRight, MapThenFoldSet, term, places
<1>10. iter[{}] = 0 /\ StepsDown(iter, 1..8, Byte, op)
  <2> HIDE DEF op, iter
  <2>1. {} \in SUBSET (1..8) /\ iter[{}] = 0
    BY <1>1, <1>8
  <2>2. ASSUME NEW t \in SUBSET (1..8), t # {}, iter[t \ {Min(t)}] \in Byte
        PROVE  iter[t] = op[Min(t)][iter[t \ {Min(t)}]]
    <3>1. iter[t] = Add(Xtime(iter[t \ {Min(t)}]), term(Min(t)))
      BY <1>1, <1>8, <2>2
    <3> QED
      BY <1>6, <2>2, <3>1
  <2> QED
    BY <2>1, <2>2 DEF StepsDown
<1>11. \A k \in 1..8, v \in Byte :
         op[k][v] = Add(Xtime(v), IF (y \div 2^(k - 1)) % 2 = 1 THEN x ELSE 0)
  BY <1>1 DEF term
<1> HIDE DEF op, iter
<1>12. PICK H \in [1..9 -> Byte] : RunsDown(H, 8, 0, op) /\ H[1] = iter[1..8]
  <2>1. PICK n \in Nat : n = 8
    OBVIOUS
  <2>2. \E H \in [1..(n + 1) -> Byte] : RunsDown(H, n, 0, op) /\ H[1] = iter[1..n]
    <3>1. op \in [1..n -> [Byte -> Byte]] /\ StepsDown(iter, 1..n, Byte, op)
      BY <2>1, <1>4, <1>10
    <3> QED
      BY <3>1, <1>2, <1>10, FoldDown
  <2> QED
    BY <2>1, <2>2
<1>13. \A k \in 1..8 : H[k + 1] \in Byte
  OBVIOUS
<1> QED
  BY <1>1, <1>9, <1>11, <1>12, <1>13 DEF RunsDown

(* The sum from bit k - 1 upwards is the product with y \div 2^(k - 1). *)
LEMMA ReferenceIsMul ==
  ASSUME NEW x \in Byte, NEW y \in Byte
  PROVE  ReferenceMul(x, y) = Mul(x, y)
<1>1. PICK H \in [1..9 -> Byte] :
        /\ H[9] = 0
        /\ \A k \in 1..8 :
             H[k] = Add(Xtime(H[k + 1]), IF (y \div 2^(k - 1)) % 2 = 1 THEN x ELSE 0)
        /\ H[1] = ReferenceMul(x, y)
  BY ReferenceSteps
<1> DEFINE bit(d) == (y \div d) % 2
<1>2. /\ H[8] = Add(Xtime(H[9]), IF bit(128) = 1 THEN x ELSE 0)
      /\ H[7] = Add(Xtime(H[8]), IF bit(64) = 1 THEN x ELSE 0)
      /\ H[6] = Add(Xtime(H[7]), IF bit(32) = 1 THEN x ELSE 0)
      /\ H[5] = Add(Xtime(H[6]), IF bit(16) = 1 THEN x ELSE 0)
      /\ H[4] = Add(Xtime(H[5]), IF bit(8) = 1 THEN x ELSE 0)
      /\ H[3] = Add(Xtime(H[4]), IF bit(4) = 1 THEN x ELSE 0)
      /\ H[2] = Add(Xtime(H[3]), IF bit(2) = 1 THEN x ELSE 0)
      /\ H[1] = Add(Xtime(H[2]), IF bit(1) = 1 THEN x ELSE 0)
  BY <1>1, PowersOfTwo
<1>3. /\ y \div 256 = 0 /\ y \div 1 = y
      /\ \A d \in {1, 2, 4, 8, 16, 32, 64, 128} :
           /\ y \div (2 * d) \in 0..127
           /\ bit(d) \in 0..1
           /\ y \div d = 2 * (y \div (2 * d)) + bit(d)
  BY DEF Byte
<1> HIDE DEF bit
<1>4. \A d \in {1, 2, 4, 8, 16, 32, 64, 128} :
        Add(Xtime(Mul(x, y \div (2 * d))), IF bit(d) = 1 THEN x ELSE 0) = Mul(x, y \div d)
  BY <1>3, AppendBit
<1>5. /\ 2 * 1 = 2 /\ 2 * 2 = 4 /\ 2 * 4 = 8 /\ 2 * 8 = 16
      /\ 2 * 16 = 32 /\ 2 * 32 = 64 /\ 2 * 64 = 128 /\ 2 * 128 = 256
  OBVIOUS
<1>6. H[9] = Mul(x, y \div 256)
  BY <1>1, <1>3, MulZero
<1>7. H[8] = Mul(x, y \div 128)
  BY <1>2, <1>4, <1>5, <1>6
<1>8. H[7] = Mul(x, y \div 64)
  BY <1>2, <1>4, <1>5, <1>7
<1>9. H[6] = Mul(x, y \div 32)
  BY <1>2, <1>4, <1>5, <1>8
<1>10. H[5] = Mul(x, y \div 16)
  BY <1>2, <1>4, <1>5, <1>9
<1>11. H[4] = Mul(x, y \div 8)
  BY <1>2, <1>4, <1>5, <1>10
<1>12. H[3] = Mul(x, y \div 4)
  BY <1>2, <1>4, <1>5, <1>11
<1>13. H[2] = Mul(x, y \div 2)
  BY <1>2, <1>4, <1>5, <1>12
<1>14. H[1] = Mul(x, y \div 1)
  BY <1>2, <1>4, <1>5, <1>13
<1> QED
  BY <1>1, <1>3, <1>14

-----------------------------------------------------------------------------

Operands == a \in Byte /\ b \in Byte

LEMMA OperandsAreBytes == Spec => []Operands
<1>1. Init => Operands
  BY SmallBytes DEF Init, Operands
<1>2. Operands /\ [Next]_vars => Operands'
  BY DEF Operands, Next, NextOperand, vars, Byte
<1> QED
  BY <1>1, <1>2, PTL DEF Spec

(* gf256.rs:99-109: what mul computes from the tables of logarithms is the *)
(* product of polynomials over GF(2) modulo x^8 + x^4 + x^3 + x + 1.       *)
THEOREM TablesMultiply == Spec => []MulIsFieldProduct
<1>1. Operands => MulIsFieldProduct
  BY ReferenceIsMul DEF Operands, MulIsFieldProduct
<1> QED
  BY <1>1, OperandsAreBytes, PTL

(* gf256.rs:111-123: div refuses zero and nothing else, and undoes mul.    *)
THEOREM DivisionUndoes == Spec => []DivInvertsMul
<1>1. Operands => DivInvertsMul
  <2>1. CASE b = 0
    BY <2>1 DEF DivInvertsMul, Div, Err
  <2>2. CASE b # 0
    BY <2>2, DivResult, DivOfMul DEF Operands, DivInvertsMul
  <2> QED
    BY <2>1, <2>2
<1> QED
  BY <1>1, OperandsAreBytes, PTL
=============================================================================
