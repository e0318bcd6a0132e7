----------------------------- MODULE RotateCopy -----------------------------
(***************************************************************************)
(* rotate_copy_pixel() (main/lvgl_port.c): copies a rectangle of LVGL's    *)
(* w x h buffer into a panel's frame buffer that shows it turned by 90,    *)
(* 180 or 270 degrees.  The code never computes a destination: it keeps    *)
(* two running indices, moved by a constant step from pixel to pixel and   *)
(* set anew for every row.  A buffer holds, for each of its places, the    *)
(* place of the source that its pixel came from.                           *)
(*                                                                         *)
(* lvgl_port_init() turns the touch panel's coordinates to match: a finger *)
(* on a pixel must reach LVGL as the place LVGL drew that pixel for.       *)
(***************************************************************************)
EXTENDS Integers

CONSTANTS
    W, H,       \* LVGL's horizontal and vertical resolution
    Old         \* a place of the destination nothing was copied to

Cells == 0..(W * H - 1)

ASSUME SizeAssumption ==
    /\ W \in Nat \ {0}
    /\ H \in Nat \ {0}
    /\ Old \notin Cells

VARIABLES
    rotation,                       \* EXAMPLE_LVGL_PORT_ROTATION_DEGREE
    x_start, x_end, y_start, y_end, \* the rectangle
    loop,                           \* where the two nested loops are
    from_x, from_y,                 \* their variables
    from_index, to_index,           \* the running indices
    to                              \* the destination

args == <<rotation, x_start, x_end, y_start, y_end>>
copyVars == <<args, loop, from_x, from_y, from_index, to_index, to>>

-----------------------------------------------------------------------------
(***************************************************************************)
(* Where row y of the rectangle begins in the destination, and how far two *)
(* neighbours of a row are apart there.                                    *)
(***************************************************************************)
\* Mutant of RowStart: the rows of the turned picture are as long as before.
RowStart_Mut(y) ==
    CASE rotation = 90  -> (W - x_start - 1) * W + y
      [] rotation = 180 -> (H * W - x_start - 1) - y * W
      [] rotation = 270 -> ((x_start + 1) * W - 1) - y

RowStart(y) ==
    CASE rotation = 90  -> (W - x_start - 1) * H + y
      [] rotation = 180 -> (H * W - x_start - 1) - y * W
      [] rotation = 270 -> ((x_start + 1) * H - 1) - y

Step ==
    CASE rotation = 90  -> -H
      [] rotation = 180 -> -1
      [] rotation = 270 -> H

CopyInit ==
    /\ rotation \in {90, 180, 270}
    /\ x_start \in 0..(W - 1) /\ x_end \in x_start..(W - 1)
    /\ y_start \in 0..(H - 1) /\ y_end \in y_start..(H - 1)
    /\ loop = "row"
    /\ from_x = x_start
    /\ from_y = y_start
    /\ from_index = 0
    /\ to_index = 0
    /\ to = [i \in Cells |-> Old]

StartRow ==
    /\ loop = "row"
    /\ from_y < y_end + 1
    /\ from_index' = from_y * W + x_start
    /\ to_index' = RowStart(from_y)
    /\ from_x' = x_start
    /\ loop' = "pixel"
    /\ UNCHANGED <<args, from_y, to>>

CopyPixel ==
    /\ loop = "pixel"
    /\ from_x < x_end + 1
    /\ to' = [to EXCEPT ![to_index] = from_index]
    /\ from_index' = from_index + 1
    /\ to_index' = to_index + Step
    /\ from_x' = from_x + 1
    /\ UNCHANGED <<args, loop, from_y>>

\* Mutant of EndRow: the last row is left out.
EndRow_Mut ==
    /\ loop = "pixel"
    /\ from_x = x_end + 1
    /\ from_y' = from_y + 1
    /\ loop' = IF from_y' = y_end THEN "done" ELSE "row"
    /\ UNCHANGED <<args, from_x, from_index, to_index, to>>

EndRow ==
    /\ loop = "pixel"
    /\ from_x = x_end + 1
    /\ from_y' = from_y + 1
    /\ loop' = IF from_y = y_end THEN "done" ELSE "row"
    /\ UNCHANGED <<args, from_x, from_index, to_index, to>>

CopyNext == StartRow \/ CopyPixel \/ EndRow

CopySpec == CopyInit /\ [][CopyNext]_copyVars

-----------------------------------------------------------------------------
(***************************************************************************)
(* The touch panel reports the column and row of the panel's own picture.  *)
(* The touch driver mirrors a coordinate c to max - c, then swaps.         *)
(***************************************************************************)
PanelW == IF rotation = 180 THEN W ELSE H
PanelH == IF rotation = 180 THEN H ELSE W

\* Mutant of TouchSetup: the two quarter turns are confused.
TouchSetup_Mut ==
    CASE rotation = 90  -> {"swap_xy", "mirror_x"}
      [] rotation = 180 -> {"mirror_x", "mirror_y"}
      [] rotation = 270 -> {"swap_xy", "mirror_y"}

TouchSetup ==
    CASE rotation = 90  -> {"swap_xy", "mirror_y"}
      [] rotation = 180 -> {"mirror_x", "mirror_y"}
      [] rotation = 270 -> {"swap_xy", "mirror_x"}

Touch(col, row) ==
    LET cx == IF "mirror_x" \in TouchSetup THEN PanelW - col ELSE col
        cy == IF "mirror_y" \in TouchSetup THEN PanelH - row ELSE row
    IN  IF "swap_xy" \in TouchSetup THEN <<cy, cx>> ELSE <<cx, cy>>

-----------------------------------------------------------------------------
(***************************************************************************)
(* The reference.  A quarter turn takes column x and row y of a picture w  *)
(* wide to column y and row w - 1 - x of one that is as wide as the first  *)
(* was high; 180 and 270 degrees are two and three quarter turns.          *)
(***************************************************************************)
Quarter(p) == [x |-> p.y, y |-> p.w - 1 - p.x, w |-> p.h, h |-> p.w]

Turned(x, y) ==
    LET p == [x |-> x, y |-> y, w |-> W, h |-> H]
    IN  CASE rotation = 90  -> Quarter(p)
          [] rotation = 180 -> Quarter(Quarter(p))
          [] rotation = 270 -> Quarter(Quarter(Quarter(p)))

\* The place in the frame buffer of the pixel LVGL drew at column x, row y.
Dest(x, y) == Turned(x, y).y * Turned(x, y).w + Turned(x, y).x

Columns == 0..(W - 1)
Rows == 0..(H - 1)

\* Has the loop already passed the pixel at column x, row y?
Passed(x, y) ==
    /\ x \in x_start..x_end
    /\ y \in y_start..y_end
    /\ y < from_y \/ (loop = "pixel" /\ y = from_y /\ x < from_x)

CopyTypes ==
    /\ rotation \in {90, 180, 270}
    /\ x_start \in Columns /\ x_end \in x_start..(W - 1)
    /\ y_start \in Rows /\ y_end \in y_start..(H - 1)
    /\ loop \in {"row", "pixel", "done"}
    /\ from_x \in x_start..(x_end + 1)
    /\ from_y \in y_start..(y_end + 1)
    /\ from_index \in Int
    /\ to_index \in Int
    /\ to \in [Cells -> Cells \cup {Old}]

(***************************************************************************)
(* The running indices are those of the pixel the loop is at.              *)
(***************************************************************************)
IndexInv ==
    /\ loop = "row" => from_y <= y_end
    /\ loop = "pixel" =>
          /\ from_y <= y_end
          /\ from_index = from_y * W + from_x
          /\ to_index = Dest(from_x, from_y)
    /\ loop = "done" => from_y = y_end + 1

\* The running indices never leave the two buffers when a pixel is read and
\* written, whatever the rectangle (lvgl_port.c:49-57: the code has no check).
InBuffers ==
    loop = "pixel" /\ from_x <= x_end => from_index \in Cells /\ to_index \in Cells

\* At every moment the destination has each pixel the loop has passed where
\* the turn puts it and nothing else is touched, so that in the end exactly
\* the rectangle is copied (rotate_copy_pixel(), lvgl_port.c:39-86).
CopiedTurned ==
    /\ \A x \in Columns, y \in Rows :
          to[Dest(x, y)] = IF Passed(x, y) THEN y * W + x ELSE Old
    /\ loop = "done" => from_y = y_end + 1

\* A finger on the pixel just being written reaches LVGL as the place LVGL
\* drew it for, or the next one, the touch driver's mirror being one off
\* (lvgl_port.c:522-532).
TouchMatchesPicture ==
    loop = "pixel" /\ from_x <= x_end =>
        LET t == Touch(to_index % PanelW, to_index \div PanelW)
        IN  t[1] - from_x \in {0, 1} /\ t[2] - from_y \in {0, 1}

=============================================================================
