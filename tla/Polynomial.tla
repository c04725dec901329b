----------------------------- MODULE Polynomial -----------------------------
(***************************************************************************)
(* Polynomials over GF(256), as seal/polynomial.rs: the sequence of the    *)
(* coefficients, the constant term first. Sums and scalar multiples strip  *)
(* trailing zeros, products do not.                                        *)
(***************************************************************************)
EXTENDS GF256

zero == <<>>
one == <<1>>

degree(p) == Len(p) - 1

(* Horner's rule, from the highest coefficient down. *)
evaluate(p, x) == FoldRight(LAMBDA c, sum : Add(Mul(sum, x), c), p, 0)

strip_trailing_zeros(p) == SubSeq(p, 1, Max({0} \cup {k \in DOMAIN p : p[k] # 0}))

(* Mutant: the coefficients in the wrong order. *)
monic_linear_swapped(constant) == <<1, constant>>

monic_linear(constant) == <<constant, 1>>

(* zip_longest: a coefficient that one operand lacks is the other's. *)
PolyAdd(p, q) ==
  LET at(r, k) == IF k \in DOMAIN r THEN r[k] ELSE 0
  IN  strip_trailing_zeros([k \in 1..Max({Len(p), Len(q)}) |-> Add(at(p, k), at(q, k))])

ScalarMul(p, s) == strip_trailing_zeros([k \in DOMAIN p |-> Mul(p[k], s)])

ScalarDiv(p, d) ==
  AndThen(Div(1, d), LAMBDA inverse : Ok(ScalarMul(p, inverse)))

(* The coefficient of degree i collects the products of the coefficients   *)
(* of degrees j and i - j that exist. Neither operand is zero: degree() of *)
(* the zero polynomial underflows in the code.                             *)
PolyMul(p, q) ==
  [k \in 1..(degree(p) + degree(q) + 1) |->
     LET js == {j \in 1..k : j - 1 <= degree(p) /\ k - j <= degree(q)}
     IN  MapThenFoldSet(Add, 0, LAMBDA j : Mul(p[j], q[k - j + 1]), Max, js)]

(* Lagrange's polynomial through a sequence of points <<x, y>>. Each basis *)
(* factor is (X - x_i) / (x_j - x_i): two points with the same x make the  *)
(* division fail.                                                          *)
interpolate(points) ==
  LET X(k) == points[k][1]
      factor(j, i) == ScalarDiv(monic_linear(Neg(X(i))), Sub(X(j), X(i)))
      term(j) ==
        LET others == [k \in 1..(Len(points) - 1) |-> IF k < j THEN k ELSE k + 1]
        IN  AndThen(Collect([k \in DOMAIN others |-> factor(j, others[k])]),
                    LAMBDA factors : Ok(ScalarMul(FoldLeft(PolyMul, one, factors),
                                                  points[j][2])))
  IN  AndThen(Collect([j \in DOMAIN points |-> term(j)]),
              LAMBDA terms : Ok(FoldLeft(PolyAdd, zero, terms)))
=============================================================================
