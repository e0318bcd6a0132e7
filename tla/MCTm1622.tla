----------------------------- MODULE MCTm1622 -----------------------------
(***************************************************************************)
(* Instance of Tm1622 for TLC: a glass of two digits, a font of three      *)
(* characters and two commands.  As in the code, the buffer of             *)
(* tm1622_set_all() is shorter than the glass.                             *)
(***************************************************************************)
EXTENDS Tm1622

MCCommands == <<3, 144>>
MCFont == [c \in {"A", "B", " "} |-> CASE c = "A" -> 13311 [] c = "B" -> 4092 [] OTHER -> 0]
MCStrings == {<<>>, <<"A">>, <<"B", "A">>, <<"A", "B", "B">>, <<"x", "A">>}
MCPokeData == {<<2>>, <<7, 161>>}

=============================================================================
