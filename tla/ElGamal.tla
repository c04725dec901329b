------------------------------ MODULE ElGamal -------------------------------
(***************************************************************************)
(* The ElGamal encryption of group elements of seal/elgamal.rs, with which *)
(* key servers return user secret keys. A group element is its discrete    *)
(* logarithm, as in module IBE; what is drawn at random is a parameter.    *)
(***************************************************************************)
EXTENDS Integers

GroupGenerator == 1

(* The verification key is the secret times the generator of G2. *)
genkey(drawn) ==
  [sk |-> drawn, pk |-> GroupGenerator * drawn, vk |-> GroupGenerator * drawn]

encrypt(drawn, msg, pk) == <<GroupGenerator * drawn, pk * drawn + msg>>

(* Mutant: the mask is added instead of removed. *)
decrypt_added(sk, e) == e[2] + e[1] * sk

decrypt(sk, e) == e[2] - e[1] * sk
=============================================================================
