------------------------------- MODULE MCBoot -------------------------------
(***************************************************************************)
(* Instance of Boot for TLC: every external call may fail, in any          *)
(* combination, on every attempt.                                          *)
(***************************************************************************)
EXTENDS Boot

MCFaults == AllFaults

=============================================================================
