------------------------------ MODULE MCPreload ------------------------------
(***************************************************************************)
(* Instance of Preload for TLC: a word of 16 values and a limit of 5, so   *)
(* that files of 1 to 3 bytes fill the table or pass the limit and a file  *)
(* of 14 has a negative size.                                              *)
(***************************************************************************)
EXTENDS Preload

MCFileSizes == {0, 1, 2, 3, 14}

=============================================================================
