----------------------------- MODULE FieldCheck -----------------------------
(***************************************************************************)
(* The table arithmetic of module GF256 against the definition of the      *)
(* field with 256 elements: polynomials over GF(2) modulo                  *)
(* x^8 + x^4 + x^3 + x + 1. The states go through all pairs of bytes.      *)
(***************************************************************************)
EXTENDS GF256

VARIABLES a, b

vars == <<a, b>>

Init == a \in Byte /\ b = 0

NextOperand == b < 255 /\ b' = b + 1 /\ UNCHANGED a

Next == NextOperand

Spec == Init /\ [][Next]_vars

-----------------------------------------------------------------------------

(* Doubling in the field: a shift, reduced by the modulus, whose low byte  *)
(* is 27.                                                                  *)
Xtime(x) == IF x < 128 THEN 2 * x ELSE Add(2 * x - 256, 27)

(* y = 2 * (y \div 2) + its lowest bit, from the highest bit down. *)
ReferenceMul(x, y) ==
  FoldRight(LAMBDA i, sum : Add(Xtime(sum), IF (y \div 2^i) % 2 = 1 THEN x ELSE 0),
            <<0, 1, 2, 3, 4, 5, 6, 7>>, 0)

(* gf256.rs:99-109: the logarithm tables, 510 numbers typed into the       *)
(* source, multiply every pair of bytes as the field does.                 *)
MulIsFieldProduct == Mul(a, b) = ReferenceMul(a, b)

(* gf256.rs:111-123: division is refused by zero only, and undoes          *)
(* multiplication for every pair.                                          *)
DivInvertsMul ==
  IF b = 0 THEN ~Div(a, b).ok
  ELSE Div(a, b).ok /\ Div(Mul(a, b), b).val = a /\ Mul(Div(a, b).val, b) = a
=============================================================================
