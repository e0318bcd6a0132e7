----------------------------- MODULE FlushRotate -----------------------------
(***************************************************************************)
(* Avoid-tear mode 3 with a rotation (main/lvgl_port.c).  LVGL redraws     *)
(* what is dirty in a buffer of its own; flush_callback() copies, turned,  *)
(* into the one of two frame buffers that is hidden, shows it, waits for   *)
(* the panel and brings the other up to date.  To copy little it keeps the *)
(* areas it copied (dirty_area) and whether the last refresh was of the    *)
(* whole screen (prev_status):                                             *)
(*                                                                         *)
(*   PART_COPY    copy the dirty areas into both;                          *)
(*   SKIP_COPY    whole screen after whole screen: copy into one only;     *)
(*   FULL_COPY    a part after a whole screen: make LVGL redraw everything *)
(*                at once, from inside the flush, copy all of it into one  *)
(*                and the dirty areas into the other.                      *)
(*                                                                         *)
(* LVGL and the panel are external: a screen gives every area a colour,    *)
(* and LVGL redraws the dirty ones in one step, for no one else sees its   *)
(* buffer.  Animated says whether lv_refr_now() may find an animation due, *)
(* which changes the screen between the two refreshes.                     *)
(***************************************************************************)
CONSTANTS
    Areas,      \* the areas of the screen
    Colors,     \* what LVGL may draw in one
    Black,      \* an area nothing was copied to
    Animated    \* do animations run?

ASSUME RotateAssumption ==
    /\ Areas # {}
    /\ Black \notin Colors
    /\ Animated \in BOOLEAN

Screens == [Areas -> Colors]
Contents == [Areas -> Colors \cup {Black}]
Nothing == [a \in Areas |-> Black]

VARIABLES
    task,           \* where the LVGL task is
    screen, dirty,  \* LVGL: what its objects show, the areas to redraw
    lv,             \* LVGL's buffer
    prev_status,    \* static in flush_copy_probe()
    probe_result,   \* of this flush
    dirty_area,     \* the areas saved for the other buffer
    next_fb,        \* static in get_next_frame_buffer()
    todo,           \* areas still to copy
    fb,             \* contents of the two frame buffers
    cur, scan,      \* asked for; scanned out
    handed          \* history: the last screen flushed

lvglVars == <<screen, dirty, lv>>
probeVars == <<prev_status, probe_result, dirty_area>>
panelVars == <<cur, scan, handed>>
vars == <<task, lvglVars, probeVars, next_fb, todo, fb, panelVars>>

fbs == {"fb0", "fb1"}
Toggle(b) == IF b = "fb0" THEN "fb1" ELSE "fb0"

-----------------------------------------------------------------------------
(***************************************************************************)
(* get_next_frame_buffer() and flush_copy_probe().                         *)
(***************************************************************************)
\* Mutant of NextFrameBuffer: the frame buffers are never fetched.
NextFrameBuffer_Mut == next_fb

NextFrameBuffer == IF next_fb = "NULL" THEN "fb1" ELSE Toggle(next_fb)

\* The refresh is of the whole screen if its first area is; the dirty areas
\* may also make up the whole screen together.
Status == IF dirty = Areas THEN {"PART", "FULL"} ELSE {"PART"}

\* Mutant of Probe: a part after a whole screen is not told from a part after
\* a part.
Probe_Mut(status) ==
    IF prev_status = "FULL" /\ status = "FULL" THEN "SKIP_COPY" ELSE "PART_COPY"

Probe(status) ==
    IF prev_status = "FULL"
    THEN IF status = "PART" THEN "FULL_COPY" ELSE "SKIP_COPY"
    ELSE "PART_COPY"

\* LVGL redraws the areas of D of screen s.
Drawn(s, D) == [a \in Areas |-> IF a \in D THEN s[a] ELSE lv[a]]

-----------------------------------------------------------------------------
Init ==
    /\ task = "idle"
    /\ screen \in Screens
    /\ dirty = Areas
    /\ lv = Nothing
    /\ prev_status = "PART" /\ probe_result = "PART_COPY" /\ dirty_area = {}
    /\ next_fb = "NULL"
    /\ todo = {}
    /\ fb = [b \in fbs |-> Nothing]
    /\ cur = "fb0" /\ scan = "fb0"
    /\ handed = Nothing

Change(a) ==
    /\ task = "idle"
    /\ \E c \in Colors : screen' = [screen EXCEPT ![a] = c]
    /\ dirty' = dirty \cup {a}
    /\ UNCHANGED <<task, lv, probeVars, next_fb, todo, fb, panelVars>>

(***************************************************************************)
(* LVGL redraws and calls flush_callback() for the last area.              *)
(***************************************************************************)
Refresh ==
    /\ task = "idle"
    /\ dirty # {}
    /\ lv' = Drawn(screen, dirty)
    /\ \E status \in Status :
          /\ probe_result' = Probe(status)
          /\ prev_status' = status
    /\ dirty_area' = dirty
    /\ IF probe_result' = "FULL_COPY"
       THEN task' = "again" /\ UNCHANGED <<next_fb, todo>>
       ELSE task' = "copy" /\ next_fb' = NextFrameBuffer /\ todo' = dirty
    /\ UNCHANGED <<screen, dirty, fb, panelVars>>

\* lv_refr_now() from inside the flush: animations, a refresh of everything,
\* and flush_callback() once more, now with full_refresh set.
RefreshNow ==
    /\ task = "again"
    /\ screen' \in IF Animated THEN Screens ELSE {screen}
    /\ lv' = Drawn(screen', Areas)
    /\ next_fb' = NextFrameBuffer
    /\ todo' = Areas
    /\ task' = "copy"
    /\ UNCHANGED <<dirty, probeVars, fb, panelVars>>

\* Mutant of FlushOther: the other buffer is left as it is.
FlushOther_Mut ==
    /\ task = "woken"
    /\ probe_result # "SKIP_COPY"
    /\ next_fb' = NextFrameBuffer
    /\ todo' = {}
    /\ task' = "other"
    /\ UNCHANGED <<lvglVars, probeVars, fb, panelVars>>

\* One area, by rotate_copy_pixel().
Copy(a) ==
    /\ task \in {"copy", "other"}
    /\ a \in todo
    /\ fb' = [fb EXCEPT ![next_fb][a] = lv[a]]
    /\ todo' = todo \ {a}
    /\ UNCHANGED <<task, lvglVars, probeVars, next_fb, panelVars>>

Switch ==
    /\ task = "copy"
    /\ todo = {}
    /\ cur' = next_fb
    /\ handed' = screen
    /\ task' = "take"
    /\ UNCHANGED <<lvglVars, probeVars, next_fb, todo, fb, scan>>

\* As in LvglPort, a notification reaches only a task already blocked.
WaitVsync ==
    /\ task = "take"
    /\ task' = "blocked"
    /\ UNCHANGED <<lvglVars, probeVars, next_fb, todo, fb, panelVars>>

Vsync ==
    /\ scan' = cur
    /\ task' = IF task = "blocked" THEN "woken" ELSE task
    /\ UNCHANGED <<lvglVars, probeVars, next_fb, todo, fb, cur, handed>>

FlushOther ==
    /\ task = "woken"
    /\ probe_result # "SKIP_COPY"
    /\ next_fb' = NextFrameBuffer
    /\ todo' = dirty_area
    /\ task' = "other"
    /\ UNCHANGED <<lvglVars, probeVars, fb, panelVars>>

(***************************************************************************)
(* lv_disp_flush_ready(): after the second copy the buffers are toggled    *)
(* once more.  LVGL forgets the dirty areas.                               *)
(***************************************************************************)
\* Mutant of FlushReady: the second toggle is missing.
FlushReady_Mut ==
    /\ \/ task = "woken" /\ probe_result = "SKIP_COPY"
       \/ task = "other" /\ todo = {}
    /\ UNCHANGED next_fb
    /\ dirty' = {}
    /\ task' = "idle"
    /\ UNCHANGED <<screen, lv, probeVars, todo, fb, panelVars>>

FlushReady ==
    /\ \/ task = "woken" /\ probe_result = "SKIP_COPY" /\ UNCHANGED next_fb
       \/ task = "other" /\ todo = {} /\ next_fb' = NextFrameBuffer
    /\ dirty' = {}
    /\ task' = "idle"
    /\ UNCHANGED <<screen, lv, probeVars, todo, fb, panelVars>>

TaskRuns ==
    \/ RefreshNow \/ Switch \/ WaitVsync \/ FlushOther \/ FlushReady
    \/ \E a \in Areas : Copy(a)

Next == (\E a \in Areas : Change(a)) \/ Refresh \/ TaskRuns \/ Vsync

\* A flush that has begun goes on, and the panel never stops.
Spec == Init /\ [][Next]_vars /\ WF_vars(TaskRuns) /\ WF_vars(Vsync)

-----------------------------------------------------------------------------
visible == fb[scan]

TypeOK ==
    /\ task \in {"idle", "again", "copy", "take", "blocked", "woken", "other"}
    /\ screen \in Screens
    /\ dirty \subseteq Areas /\ dirty_area \subseteq Areas /\ todo \subseteq Areas
    /\ lv \in Contents
    /\ prev_status \in {"PART", "FULL"}
    /\ probe_result \in {"PART_COPY", "SKIP_COPY", "FULL_COPY"}
    /\ next_fb \in fbs \cup {"NULL"}
    /\ fb \in [fbs -> Contents]
    /\ cur \in fbs /\ scan \in fbs
    /\ handed \in Contents

\* flush_callback() writes only into the buffer that is neither on the screen
\* nor about to be (lvgl_port.c:196-267).
WritesHidden ==
    task \in {"copy", "other"} /\ todo # {} => next_fb \notin {cur, scan}

\* After a flush whose dirty areas were "synchronously" copied to "another frame
\* buffer" (lvgl_port.c:225) both frame buffers show the screen; only after
\* a refresh of the whole screen may the hidden one be behind.
BuffersAgree ==
    task = "idle" /\ handed # Nothing =>
        /\ fb[cur] = handed
        /\ prev_status = "PART" => fb[Toggle(cur)] = handed

\* The mode keeps the promise of the "Avoid tearing effect" option.
Promise == INSTANCE Display WITH
    Screens <- Screens, Nothing <- Nothing, handed <- handed, visible <- visible
ImplementsDisplay == Promise!Spec

=============================================================================
