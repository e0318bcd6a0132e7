----------------------------- MODULE MCLvglPort -----------------------------
(***************************************************************************)
(* Instance of LvglPort for TLC: up to three pictures of different sizes   *)
(* on a screen of two areas.  The first picture and the label cover the    *)
(* middle, the second one the whole screen, the third one the border only: *)
(* every pair of pictures in turn dirties a different set of areas.        *)
(***************************************************************************)
EXTENDS LvglPort

CONSTANTS middle, border

MCAreas == {middle, border}
MCBlank == -1
MCLabel == -2
MCBackground == -3
MCNoise == -4

MCCover == [s \in Shows |->
    CASE s = MCBlank -> {}
      [] s = MCLabel -> {middle}
      [] s = 1 -> {middle, border}
      [] s = 2 -> {border}
      [] OTHER -> {middle}]

=============================================================================
