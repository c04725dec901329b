------------------------------- MODULE Utils -------------------------------
(***************************************************************************)
(* What the modules of the SEAL crate share: the Result type and the byte  *)
(* arrays of seal/utils.rs.                                                *)
(*                                                                         *)
(* A byte array [u8; N] is modelled as the set of the bits that are set in *)
(* it: <<p, i>> is in the array iff bit i of the byte at position p is 1.  *)
(* Every operation of the crate on such arrays works on each position on   *)
(* its own (xor, the sharing and the interpolation of 32 byte secrets), so *)
(* a position may be any tuple:                                            *)
(*   - <<"byte", k>>, for the byte at offset k of an array of real bytes;  *)
(*   - a symbol that stands for one output of the random number generator  *)
(*     or of a hash function. The symbol s as a 32 byte string is          *)
(*     Opaque(s), and an array is then a linear combination over GF(256)   *)
(*     of such strings: the bits at position s are the coefficient of s.   *)
(* Distinct symbols are independent. Two such combinations are equal in    *)
(* the model only if the code computes the same bytes whatever the random  *)
(* number generator and the hashes return; that two different ones are     *)
(* equal by accident has probability 2^-256 in the code and does not       *)
(* happen here.                                                            *)
(***************************************************************************)
EXTENDS SequencesExt

Byte == 0..255

(* FastCryptoResult: a value, or the kind of the error. *)
Ok(v) == [ok |-> TRUE, val |-> v]
Err(kind) == [ok |-> FALSE, error |-> kind]

(* The ? operator: go on with the value, or return the error. *)
AndThen(result, Then(_)) == IF result.ok THEN Then(result.val) ELSE result

(* The first error of a sequence of results, or the sequence of values:    *)
(* iter().collect::<FastCryptoResult<Vec<_>>>().                           *)
Collect(results) ==
  IF \E k \in DOMAIN results : ~results[k].ok
  THEN results[CHOOSE k \in DOMAIN results :
                 ~results[k].ok /\ \A j \in 1..(k - 1) : results[j].ok]
  ELSE Ok([k \in DOMAIN results |-> results[k].val])

(* The same for one result per position, in no order. *)
CollectPositions(results) ==
  IF \E p \in DOMAIN results : ~results[p].ok
  THEN results[CHOOSE p \in DOMAIN results : ~results[p].ok]
  ELSE Ok([p \in DOMAIN results |-> results[p].val])

-----------------------------------------------------------------------------

Weight == [i \in 0..7 |-> <<1, 2, 4, 8, 16, 32, 64, 128>>[i + 1]]

Bits(b) == {i \in 0..7 : (b \div Weight[i]) % 2 = 1}

FromBits(s) ==
  LET bit(i) == IF i \in s THEN Weight[i] ELSE 0
  IN  bit(0) + bit(1) + bit(2) + bit(3) + bit(4) + bit(5) + bit(6) + bit(7)

ByteAt(array, p) == FromBits({i \in 0..7 : <<p, i>> \in array})

FromBytes(bytes) == UNION {{<<p, i>> : i \in Bits(bytes[p])} : p \in DOMAIN bytes}

(* The positions that are not zero in some array of a set. *)
Support(arrays) == {bit[1] : bit \in UNION arrays}

(* The 32 bytes that a random draw or a hash digest, named s, consists of. *)
Opaque(s) == {<<s, 0>>}

xor(a, b) == SymDiff(a, b)

(* The rows of a matrix of bytes, one per position, all of one length m, as *)
(* m arrays.                                                                *)
transpose(rows) ==
  LET lengths == {Len(rows[p]) : p \in DOMAIN rows}
  IN  IF Cardinality(lengths) # 1
      THEN Err("InvalidInput")
      ELSE Ok([k \in 1..(CHOOSE m \in lengths : TRUE) |->
                 FromBytes([p \in DOMAIN rows |-> rows[p][k]])])
=============================================================================
