-------------------------------- MODULE TSS ---------------------------------
(***************************************************************************)
(* Shamir's secret sharing of byte arrays, as seal/tss.rs: every position  *)
(* of the array is shared on its own by a polynomial over GF(256) whose    *)
(* constant term is the secret byte.                                       *)
(*                                                                         *)
(* Random draws are parameters: coefficients[j] is the array that the      *)
(* generator yields for the coefficients of degree j at all positions.     *)
(* A share is a pair <<index, array>>.                                     *)
(***************************************************************************)
EXTENDS Polynomial

AllUnique(s) == \A j, k \in DOMAIN s : s[j] = s[k] => j = k

Indices(shares) == [k \in DOMAIN shares |-> shares[k][1]]

(* The positions at which some array of a set is not zero, and <<>> for    *)
(* all the others, which the code treats alike.                            *)
PositionsOf(arrays) == {<<>>} \cup Support(arrays)

(* Mutant: only the bytes of the first share. *)
Positions_of_first(shares) == PositionsOf({shares[k][2] : k \in DOMAIN shares \cap {1}})

Positions(shares) == PositionsOf({shares[k][2] : k \in DOMAIN shares})

-----------------------------------------------------------------------------

split_byte(secret, coefficients, threshold, indices) ==
  LET polynomial == <<secret>> \o coefficients
  IN  IF \/ threshold = 0
         \/ Len(indices) = 0
         \/ threshold > Len(indices)
         \/ Contains(indices, 0)
         \/ ~AllUnique(indices)
      THEN Err("InvalidInput")
      ELSE Ok([k \in DOMAIN indices |-> evaluate(polynomial, indices[k])])

(* Mutant: the indices count down. *)
ShareIndices_reversed(number_of_shares) ==
  [k \in 1..number_of_shares |-> number_of_shares + 1 - k]

ShareIndices(number_of_shares) == [k \in 1..number_of_shares |-> k]

(* Mutant: one coefficient too few is drawn. *)
split_too_few(secret, coefficients, threshold, number_of_shares) ==
  LET indices == ShareIndices(number_of_shares)
      byte_shares ==
        [p \in PositionsOf({secret} \cup Range(coefficients)) |->
           split_byte(ByteAt(secret, p),
                      [j \in 1..Max({0, threshold - 2}) |-> ByteAt(coefficients[j], p)],
                      threshold, indices)]
  IN  IF threshold > number_of_shares \/ threshold = 0 THEN Err("InvalidInput")
      ELSE AndThen(CollectPositions(byte_shares), LAMBDA rows :
             AndThen(transpose(rows), LAMBDA shares :
               Ok([indices |-> indices, shares |-> shares])))

split(secret, coefficients, threshold, number_of_shares) ==
  LET indices == ShareIndices(number_of_shares)
      positions == PositionsOf({secret} \cup Range(coefficients))
      byte_shares ==
        [p \in positions |->
           split_byte(ByteAt(secret, p),
                      [j \in 1..(threshold - 1) |-> ByteAt(coefficients[j], p)],
                      threshold, indices)]
  IN  IF threshold > number_of_shares \/ threshold = 0 THEN Err("InvalidInput")
      ELSE AndThen(CollectPositions(byte_shares), LAMBDA rows :
             AndThen(transpose(rows), LAMBDA shares :
               Ok([indices |-> indices, shares |-> shares])))

-----------------------------------------------------------------------------

(* Sum over the shares of y_i / (x_i * prod over j # i of (x_j - x_i)),    *)
(* times the product of all x. The unwrap of the quotient cannot panic:    *)
(* the indices are distinct and not zero.                                  *)
combine_byte(shares) ==
  LET index(k) == shares[k][1]
      product == Product(Indices(shares))
      differences(k) ==
        [j \in DOMAIN shares |->
           IF index(j) = index(k) THEN 1 ELSE Sub(index(j), index(k))]
      denominator(k) == Mul(index(k), Product(differences(k)))
      quotient ==
        Sum([k \in DOMAIN shares |-> Div(shares[k][2], denominator(k)).val])
  IN  IF shares = <<>> \/ ~AllUnique(Indices(shares)) \/ Contains(Indices(shares), 0)
      THEN Err("InvalidInput")
      ELSE Ok(Mul(product, quotient))

AtPosition(shares, p) ==
  [k \in DOMAIN shares |-> <<shares[k][1], ByteAt(shares[k][2], p)>>]

combine(shares) ==
  AndThen(CollectPositions([p \in Positions(shares) |-> combine_byte(AtPosition(shares, p))]),
          LAMBDA bytes : Ok(FromBytes(bytes)))

(* Mutant: the index 0 is let through. *)
tss_interpolate_any_index(shares) ==
  IF shares = <<>> \/ ~AllUnique(Indices(shares))
  THEN Err("InvalidInput")
  ELSE CollectPositions([p \in Positions(shares) |-> interpolate(AtPosition(shares, p))])

(* The polynomial of each position. The code returns them as a closure,    *)
(* which EvaluateAt applies.                                               *)
tss_interpolate(shares) ==
  IF \/ shares = <<>>
     \/ Contains(Indices(shares), 0)
     \/ ~AllUnique(Indices(shares))
  THEN Err("InvalidInput")
  ELSE CollectPositions([p \in Positions(shares) |-> interpolate(AtPosition(shares, p))])

EvaluateAt(polynomials, x) ==
  FromBytes([p \in DOMAIN polynomials |-> evaluate(polynomials[p], x)])
=============================================================================
