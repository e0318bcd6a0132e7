------------------------------ MODULE Slideshow ------------------------------
(***************************************************************************)
(* What the photo frame promises the one who looks at it: an empty screen, *)
(* then the first picture, then every picture in its turn, for ever.  A    *)
(* card without pictures gives a label that stays.  Nothing in between is  *)
(* ever to be seen: no half-drawn picture, no picture left out.            *)
(***************************************************************************)
EXTENDS Integers

CONSTANTS
    MAX_IMAGES,     \* size of the table of pictures
    Blank, Label    \* the empty screen and the text "No images found"

VARIABLES
    g_image_count,  \* the pictures there are, numbered from 0
    onScreen        \* what can be seen

vars == <<g_image_count, onScreen>>

Pictures == 0..(MAX_IMAGES - 1)

Init ==
    /\ g_image_count \in 0..MAX_IMAGES
    /\ onScreen = Blank

First ==
    /\ onScreen = Blank
    /\ onScreen' = IF g_image_count > 0 THEN 0 ELSE Label
    /\ UNCHANGED g_image_count

Advance ==
    /\ onScreen \in Pictures
    /\ onScreen' = (onScreen + 1) % g_image_count
    /\ UNCHANGED g_image_count

Next == First \/ Advance

\* The promise without the part that says that something happens.
Safety == Init /\ [][Next]_vars

Spec == Safety /\ WF_vars(Next)

=============================================================================
