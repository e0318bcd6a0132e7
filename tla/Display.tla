------------------------------ MODULE Display ------------------------------
(***************************************************************************)
(* What "avoid tearing" promises (main/Kconfig.projbuild), whatever the    *)
(* mode: LVGL hands over one finished screen after the other, and what can *)
(* be seen is always one whole screen, never a mixture and never one that  *)
(* was not handed over; the last one handed over appears in the end.       *)
(***************************************************************************)

CONSTANTS
    Screens,    \* all that LVGL may draw
    Nothing     \* the panel before the first screen

VARIABLES
    handed,     \* the last screen handed over
    visible     \* what can be seen

vars == <<handed, visible>>

Init == handed = Nothing /\ visible = Nothing

\* The panel may already be showing the buffer that is handed over.
Hand ==
    /\ handed' \in Screens
    /\ visible' \in {visible, handed'}

Present ==
    /\ visible' = handed
    /\ UNCHANGED handed

Next == Hand \/ Present

Safety == Init /\ [][Next]_vars

Spec == Safety /\ WF_vars(Present)

=============================================================================
