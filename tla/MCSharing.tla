----------------------------- MODULE MCSharing ------------------------------
(***************************************************************************)
(* The instance of Sharing that TLC checks: dealings 1 of 1, 2 of 3, 3 of  *)
(* 4 and 2 of 255 (the largest number of shares), and the parameters that  *)
(* split refuses.                                                          *)
(***************************************************************************)
EXTENDS Sharing

MCSecrets == {<<0, 202>>, <<255, 1>>}
MCRandomBytes == {0, 83}
MCParameters == {<<1, 1>>, <<2, 3>>, <<3, 4>>, <<2, 255>>, <<0, 2>>, <<3, 2>>}
MCHolders == {1, 2, 4, 255}
MCDamages == {<<1, 0>>}
MCCandidates == {<<0, 0>>, <<1, 77>>, <<255, 0>>}
=============================================================================
