------------------------------ MODULE FlushFull ------------------------------
(***************************************************************************)
(* LVGL full refresh (main/lvgl_port.c), in its three builds:              *)
(*                                                                         *)
(*   two      avoid-tear mode 1: LVGL draws into two frame buffers in      *)
(*            turn; flush_callback() waits for the panel;                  *)
(*   turned   modes 1 and 2 with a rotation: LVGL draws into a third       *)
(*            buffer, flush_callback() copies it, turned, into one of two, *)
(*            and does not wait;                                           *)
(*   three    mode 2: LVGL draws into three frame buffers, and nobody      *)
(*            waits.  flush_callback() on one core and the panel's         *)
(*            interrupt on the other exchange three pointers without a     *)
(*            lock; each of their accesses is a step.                      *)
(*                                                                         *)
(* LVGL redraws the whole screen every time; a screen is a number, and a   *)
(* buffer holds for each area the number of the screen it was drawn for.   *)
(* LVGL and the panel are external: LVGL draws into buf_act and then takes *)
(* the other of its draw buffers; at the end of a frame the panel goes     *)
(* over from scan to cur and interrupts.  Nothing binds the pace of one to *)
(* that of the other.                                                      *)
(***************************************************************************)
EXTENDS Naturals

CONSTANTS
    Areas,      \* what LVGL draws one after the other
    Screens,    \* the screens
    Nothing,    \* the content of a buffer never drawn
    Torn,       \* what is seen when a buffer holds parts of two screens
    Builds      \* the builds looked at

fbs == {"fb0", "fb1", "fb2"}

ASSUME FullAssumption ==
    /\ Areas # {}
    /\ Nothing \notin Screens
    /\ Torn \notin Screens \cup {Nothing}
    /\ Builds \subseteq {"two", "turned", "three"}

VARIABLES
    build,      \* mode and rotation, never changed
    task,       \* where the LVGL task is
    screen,     \* LVGL: the screen it draws
    todo,       \* areas still to draw or to copy
    buf_act,    \* LVGL: the buffer it draws into
    fb,         \* contents of the frame buffers
    cur, scan,  \* asked for; scanned out
    handed,     \* history: the last screen flushed
    \* turned
    next_fb,    \* static in get_next_frame_buffer()
    early,      \* history: did this flush begin before the last was on the screen?
    \* three
    buf1, buf2, \* LVGL: its draw buffers
    rgb_next,   \* the buffer flushed last
    rgb_last,   \* the one the interrupt last saw going on the screen
    flush_next, \* the one LVGL is to get after the next flush
    isr,        \* where the interrupt is
    isr_next,   \* rgb_next as it compared it
    met         \* history: were a flush and the interrupt ever under way at once?

turnedVars == <<next_fb, early>>
drawBufs == <<buf1, buf2>>
isrVars == <<isr, isr_next, rgb_last>>
tripleVars == <<drawBufs, rgb_next, flush_next, isrVars, met>>
vars == <<build, task, screen, todo, buf_act, fb, cur, scan, handed, turnedVars, tripleVars>>

Toggle(b) == IF b = "fb0" THEN "fb1" ELSE "fb0"

-----------------------------------------------------------------------------
\* display_init() deals the three frame buffers out.
Buffers ==
    /\ rgb_last = "fb0" /\ buf1 = "fb1" /\ buf2 = "fb2"
    /\ rgb_next = "fb0"
    /\ flush_next = "fb2"

Init ==
    /\ build \in Builds
    /\ task = "idle"
    /\ screen = Nothing /\ todo = {}
    /\ buf_act = [two |-> "fb0", turned |-> "fb2", three |-> "fb1"][build]
    /\ fb = [b \in fbs |-> [a \in Areas |-> Nothing]]
    /\ cur = "fb0" /\ scan = "fb0"
    /\ handed = Nothing
    /\ next_fb = "NULL" /\ early = FALSE
    /\ Buffers
    /\ isr = "idle" /\ isr_next = "fb0"
    /\ met = FALSE

Refresh ==
    /\ task = "idle"
    /\ screen' \in Screens
    /\ todo' = Areas
    /\ task' = "draw"
    /\ UNCHANGED <<build, buf_act, fb, cur, scan, handed, turnedVars, tripleVars>>

Draw(a) ==
    /\ task = "draw"
    /\ a \in todo
    /\ fb' = [fb EXCEPT ![buf_act][a] = screen]
    /\ todo' = todo \ {a}
    /\ UNCHANGED <<build, task, screen, buf_act, cur, scan, handed, turnedVars, tripleVars>>

Drawn == task = "draw" /\ todo = {}

-----------------------------------------------------------------------------
(***************************************************************************)
(* flush_callback() with two buffers: draw_bitmap, clear and take of the   *)
(* notification, flush_ready; LVGL swaps its buffers.  As in LvglPort, a   *)
(* notification reaches only a task that is already blocked.               *)
(***************************************************************************)
\* Mutant of FlushSwitch: the task does not wait for the panel.
FlushSwitch_Mut ==
    /\ build = "two" /\ Drawn
    /\ cur' = buf_act
    /\ handed' = screen
    /\ task' = "ready"
    /\ UNCHANGED <<build, screen, todo, buf_act, fb, scan, turnedVars, tripleVars>>

FlushSwitch ==
    /\ build = "two" /\ Drawn
    /\ cur' = buf_act
    /\ handed' = screen
    /\ task' = "take"
    /\ UNCHANGED <<build, screen, todo, buf_act, fb, scan, turnedVars, tripleVars>>

FlushTake ==
    /\ task = "take"
    /\ task' = "blocked"
    /\ UNCHANGED <<build, screen, todo, buf_act, fb, cur, scan, handed, turnedVars, tripleVars>>

FlushReady ==
    /\ task = "ready"
    /\ buf_act' = Toggle(buf_act)
    /\ task' = "idle"
    /\ UNCHANGED <<build, screen, todo, fb, cur, scan, handed, turnedVars, tripleVars>>

-----------------------------------------------------------------------------
(***************************************************************************)
(* flush_callback() with rotation: get_next_frame_buffer(), the turned     *)
(* copy area by area, draw_bitmap.                                         *)
(***************************************************************************)
\* Mutant of NextFrameBuffer: the frame buffers are never fetched.
NextFrameBuffer_MutNull == next_fb

NextFrameBuffer == IF next_fb = "NULL" THEN "fb1" ELSE Toggle(next_fb)

FlushNext ==
    /\ build = "turned" /\ Drawn
    /\ next_fb' = NextFrameBuffer
    /\ early' = (scan # cur)
    /\ todo' = Areas
    /\ task' = "copy"
    /\ UNCHANGED <<build, screen, buf_act, fb, cur, scan, handed, tripleVars>>

FlushCopy(a) ==
    /\ task = "copy"
    /\ a \in todo
    /\ fb' = [fb EXCEPT ![next_fb][a] = fb[buf_act][a]]
    /\ todo' = todo \ {a}
    /\ UNCHANGED <<build, task, screen, buf_act, cur, scan, handed, turnedVars, tripleVars>>

\* Mutant of FlushShow: the call of draw_bitmap is missing.
FlushShow_MutLost ==
    /\ task = "copy" /\ todo = {}
    /\ handed' = screen
    /\ task' = "idle"
    /\ UNCHANGED <<build, screen, todo, buf_act, fb, cur, scan, turnedVars, tripleVars>>

FlushShow ==
    /\ task = "copy" /\ todo = {}
    /\ cur' = next_fb
    /\ handed' = screen
    /\ task' = "idle"
    /\ UNCHANGED <<build, screen, todo, buf_act, fb, scan, turnedVars, tripleVars>>

-----------------------------------------------------------------------------
(***************************************************************************)
(* flush_callback() with three buffers.                                    *)
(***************************************************************************)
Flushing == task \in {"give", "switch", "next"}

\* buf1 = color_map, buf2 = flush_next.
TripleTake ==
    /\ build = "three" /\ Drawn
    /\ buf1' = buf_act
    /\ buf2' = flush_next
    /\ task' = "give"
    /\ met' = (met \/ isr # "idle")
    /\ UNCHANGED <<build, screen, todo, buf_act, fb, cur, scan, handed, turnedVars, rgb_next, flush_next, isrVars>>

\* flush_next = color_map.
TripleGive ==
    /\ task = "give"
    /\ flush_next' = buf_act
    /\ task' = "switch"
    /\ UNCHANGED <<build, screen, todo, buf_act, fb, cur, scan, handed, turnedVars, drawBufs, rgb_next, isrVars, met>>

\* Mutant of TripleSwitch: the panel is asked for the other buffer.
TripleSwitch_Mut ==
    /\ task = "switch"
    /\ cur' = buf2
    /\ handed' = screen
    /\ task' = "next"
    /\ UNCHANGED <<build, screen, todo, buf_act, fb, scan, turnedVars, tripleVars>>

\* esp_lcd_panel_draw_bitmap().
TripleSwitch ==
    /\ task = "switch"
    /\ cur' = buf_act
    /\ handed' = screen
    /\ task' = "next"
    /\ UNCHANGED <<build, screen, todo, buf_act, fb, scan, turnedVars, tripleVars>>

\* rgb_next = color_map, lv_disp_flush_ready(); LVGL swaps its buffers.
TripleReady ==
    /\ task = "next"
    /\ rgb_next' = buf_act
    /\ buf_act' = IF buf_act = buf1 THEN buf2 ELSE buf1
    /\ task' = "idle"
    /\ UNCHANGED <<build, screen, todo, fb, cur, scan, handed, turnedVars, drawBufs, flush_next, isrVars, met>>

-----------------------------------------------------------------------------
(***************************************************************************)
(* The panel ends a frame: lvgl_port_notify_rgb_vsync().                   *)
(***************************************************************************)
Vsync ==
    /\ isr = "idle"
    /\ scan' = cur
    /\ task' = IF task = "blocked" THEN "ready" ELSE task
    /\ isr' = IF build = "three" THEN "compare" ELSE "idle"
    /\ met' = (met \/ Flushing)
    /\ UNCHANGED <<build, screen, todo, buf_act, fb, cur, handed, turnedVars, drawBufs, rgb_next, flush_next, isr_next, rgb_last>>

IsrCompare ==
    /\ isr = "compare"
    /\ isr_next' = rgb_next
    /\ isr' = IF rgb_next # rgb_last THEN "free" ELSE "idle"
    /\ UNCHANGED <<build, task, screen, todo, buf_act, fb, cur, scan, handed, turnedVars, drawBufs, rgb_next, flush_next, rgb_last, met>>

\* Mutant of IsrFree: LVGL is given the buffer that has just gone on screen.
IsrFree_Mut ==
    /\ isr = "free"
    /\ flush_next' = rgb_next
    /\ isr' = "last"
    /\ UNCHANGED <<build, task, screen, todo, buf_act, fb, cur, scan, handed, turnedVars, drawBufs, rgb_next, isr_next, rgb_last, met>>

\* flush_next = rgb_last.
IsrFree ==
    /\ isr = "free"
    /\ flush_next' = rgb_last
    /\ isr' = "last"
    /\ UNCHANGED <<build, task, screen, todo, buf_act, fb, cur, scan, handed, turnedVars, drawBufs, rgb_next, isr_next, rgb_last, met>>

\* rgb_last = rgb_next, which is not volatile: the compiler may read it once
\* more or use the value it has compared.
IsrLast ==
    /\ isr = "last"
    /\ rgb_last' \in {isr_next, rgb_next}
    /\ isr' = "idle"
    /\ UNCHANGED <<build, task, screen, todo, buf_act, fb, cur, scan, handed, turnedVars, drawBufs, rgb_next, flush_next, isr_next, met>>

-----------------------------------------------------------------------------
TaskRuns ==
    \/ \E a \in Areas : Draw(a) \/ FlushCopy(a)
    \/ FlushSwitch \/ FlushTake \/ FlushReady
    \/ FlushNext \/ FlushShow
    \/ TripleTake \/ TripleGive \/ TripleSwitch \/ TripleReady

Interrupt == Vsync \/ IsrCompare \/ IsrFree \/ IsrLast

Next == Refresh \/ TaskRuns \/ Interrupt

\* A refresh that has begun goes on, and the panel never stops.
Spec == Init /\ [][Next]_vars /\ WF_vars(TaskRuns) /\ WF_vars(Interrupt)

-----------------------------------------------------------------------------
Whole(f) == \E s \in Screens \cup {Nothing} : f = [a \in Areas |-> s]

\* With two buffers LVGL draws its first screen where it can be seen (as it
\* does in mode 3); until it is flushed, nothing counts.
visible ==
    IF build = "two" /\ handed = Nothing THEN Nothing
    ELSE IF Whole(fb[scan])
    THEN CHOOSE s \in Screens \cup {Nothing} : fb[scan] = [a \in Areas |-> s]
    ELSE Torn

TypeOK ==
    /\ build \in Builds
    /\ task \in {"idle", "draw", "take", "blocked", "ready", "copy", "give", "switch", "next"}
    /\ screen \in Screens \cup {Nothing}
    /\ todo \subseteq Areas
    /\ {buf_act, cur, scan, buf1, buf2, rgb_last, rgb_next, flush_next, isr_next} \subseteq fbs
    /\ fb \in [fbs -> [Areas -> Screens \cup {Nothing}]]
    /\ handed \in Screens \cup {Nothing}
    /\ next_fb \in {"NULL", "fb0", "fb1"}
    /\ early \in BOOLEAN /\ met \in BOOLEAN
    /\ isr \in {"idle", "compare", "free", "last"}

\* flush_callback() with two buffers, or with a rotation, at any pace of the panel
\* (lvgl_port.c:297-348): LVGL never draws where it can be seen, but for the first
\* screen of the two buffers; the turned copy never goes into the buffer the panel
\* was asked for, and into the one on the screen only if the flush began before
\* the last one was there.
WritesHidden ==
    /\ task = "draw" /\ (build = "turned" \/ (build = "two" /\ handed # Nothing)) =>
          buf_act \notin {scan, cur}
    /\ task = "copy" /\ todo # {} =>
          next_fb # cur /\ (next_fb = scan => early)

\* LVGL does not draw into a buffer that is on the screen or about to be.
RenderBufferFree == build = "three" /\ task = "draw" => buf_act \notin {scan, cur}

\* "With three buffers and full-refresh, one buffer is always available for
\* rendering" (lvgl_port.c:387): even when the interrupt has finished its work.
BufferFreeAtRest == isr = "idle" => RenderBufferFree

\* At any pace of LVGL and of the panel a buffer is free for LVGL as long as
\* flush_callback() and the interrupt were never inside the unlocked exchange of
\* pointers at the same time (lvgl_port.c:338-345 and 567-569).
FreeUnlessMet == ~met => RenderBufferFree

\* "Avoid tearing effect" (Kconfig.projbuild:79): what can be seen is never a mixture
\* of two screens.
NeverTorn == visible # Torn

(***************************************************************************)
(* The promise of the "Avoid tearing effect" option.                       *)
(***************************************************************************)
Promise == INSTANCE Display WITH
    Screens <- Screens, Nothing <- Nothing, handed <- handed, visible <- visible

\* What the code does not prevent: a turned copy into the buffer on the screen, and,
\* with three buffers, what follows a meeting of flush and interrupt.
Disturbed == met \/ (task = "copy" /\ next_fb = scan)

\* Every other step, in all three builds, keeps the promise: one whole screen
\* after the other, never one that was not handed over (lvgl_port.c:297-348).
StepsKeepPromise == Promise!Init /\ [][Promise!Next \/ Disturbed']_(Promise!vars)

\* Again and again the panel shows the last screen handed over, disturbed or not,
\* unless flush and interrupt have met (lvgl_port.c:343).
CatchesUp == []<>(visible = handed \/ met)

\* When LVGL draws no more, its last screen is seen, and stays: no race of flush
\* and interrupt leaves an older one behind (lvgl_port.c:303, 336, 343).
LastIsSeen == <>[](task = "idle") => <>[](visible = handed)

=============================================================================
