------------------------------ MODULE LvglPort ------------------------------
(***************************************************************************)
(* The display path in the configuration the firmware is built with        *)
(* (main/lvgl_port.c: avoid-tear mode 3, no rotation) and the slide show   *)
(* on top of it (main/main.c).  Three parties run at the same time:        *)
(*                                                                         *)
(*   app_main()         brings LVGL up, takes its lock, makes the UI;      *)
(*   the LVGL task      runs LVGL's timers under the lock: the slide timer *)
(*                      changes the picture, the refresh timer draws what  *)
(*                      is dirty and flushes it;                           *)
(*   the panel          scans a frame buffer out, moves to the one it was  *)
(*                      told at the end of a frame and interrupts.         *)
(*                                                                         *)
(* LVGL draws in direct mode into the two frame buffers of the panel: an   *)
(* area of a buffer is redrawn only when it is dirty, and what the last    *)
(* frame changed is first copied from the other buffer.  LVGL and the      *)
(* panel driver are external to the repository; their parts are the        *)
(* actions on dirty, sync and todo, and on cur and scan.                   *)
(***************************************************************************)
EXTENDS Integers

CONSTANTS
    MAX_IMAGES,         \* size of g_images
    Areas,              \* the areas LVGL redraws separately
    Cover,              \* the areas a picture, the label or nothing covers
    Blank, Label,       \* the two screens that are no picture
    Background, Noise,  \* content under no object, and of a fresh buffer
    Timely              \* is a refresh over before the next slide is due?

Pictures == 0..(MAX_IMAGES - 1)
Shows == Pictures \cup {Blank, Label}
Contents == Shows \cup {Background, Noise}

ASSUME PortAssumption ==
    /\ MAX_IMAGES \in Nat \ {0}
    /\ Blank \notin Pictures /\ Label \notin Pictures /\ Blank # Label
    /\ Background \notin Shows /\ Noise \notin Shows \cup {Background}
    /\ Cover \in [Shows -> SUBSET Areas]
    /\ Timely \in BOOLEAN

VARIABLES
    app,            \* where app_main() is
    task,           \* where the LVGL task is
    owner, depth,   \* the recursive LVGL mutex: who has it, how often
    callbacks,      \* is the frame-finished interrupt registered?
    g_image_count, g_current, timer,    \* the slide show
    img,            \* what the LVGL objects show
    dirty,          \* LVGL: areas invalidated since the last frame
    sync,           \* LVGL: areas the last frame redrew
    todo,           \* LVGL: areas this frame has still to redraw
    buf_act,        \* LVGL: the frame buffer it draws into
    fb,             \* contents of the two frame buffers
    cur, scan,      \* the buffer asked for, and the one scanned out
    flushed         \* history: has a frame ever been handed to the panel?

mutexVars == <<owner, depth>>
slideVars == <<g_image_count, g_current, timer>>
drawVars == <<sync, todo, buf_act, fb>>
panelVars == <<cur, scan, flushed>>
vars == <<app, task, mutexVars, callbacks, slideVars, img, dirty, drawVars, panelVars>>

(***************************************************************************)
(* A frame that shows s: s where its object is, background elsewhere.      *)
(***************************************************************************)
Frame(s) == [a \in Areas |-> IF a \in Cover[s] THEN s ELSE Background]

Other(b) == 1 - b

-----------------------------------------------------------------------------
(***************************************************************************)
(* lvgl_port_lock(-1) and lvgl_port_unlock().                              *)
(***************************************************************************)
\* Mutant of Lock: the mutex is not recursive.
Lock_Mut(p) ==
    /\ owner = "none"
    /\ owner' = p
    /\ depth' = 1

Lock(p) ==
    /\ owner \in {"none", p}
    /\ owner' = p
    /\ depth' = depth + 1

\* Mutant of Unlock: one unlock undoes every lock.
Unlock_Mut(p) ==
    /\ owner = p
    /\ depth' = 0
    /\ owner' = "none"

Unlock(p) ==
    /\ owner = p
    /\ depth' = depth - 1
    /\ owner' = IF depth = 1 THEN "none" ELSE p

(***************************************************************************)
(* lv_img_set_src() and the creation of the label: LVGL invalidates what   *)
(* the screen showed there and what it shows now.                          *)
(***************************************************************************)
Show(s) ==
    /\ img' = s
    /\ dirty' = dirty \cup Cover[img] \cup Cover[s]

\* show_image_locked()
ShowImage(idx) ==
    IF idx < g_image_count THEN Show(idx) ELSE UNCHANGED <<img, dirty>>

-----------------------------------------------------------------------------
(***************************************************************************)
(* app_main() from lvgl_port_init() on.                                    *)
(***************************************************************************)
PortInit ==
    /\ app = "init"
    /\ app' = "callbacks"
    /\ task' = "lock"
    /\ UNCHANGED <<mutexVars, callbacks, slideVars, img, dirty, drawVars, panelVars>>

\* Mutant of RegisterCallbacks: lvgl_port_lock(-1) and lvgl_port_unlock() around it.
RegisterCallbacks_Mut ==
    /\ app = "callbacks"
    /\ owner = "none"
    /\ app' = "lock"
    /\ callbacks' = TRUE
    /\ UNCHANGED <<task, mutexVars, slideVars, img, dirty, drawVars, panelVars>>

RegisterCallbacks ==
    /\ app = "callbacks"
    /\ app' = "lock"
    /\ callbacks' = TRUE
    /\ UNCHANGED <<task, mutexVars, slideVars, img, dirty, drawVars, panelVars>>

AppLock ==
    /\ app = "lock"
    /\ Lock("app")
    /\ app' = "ui"
    /\ UNCHANGED <<task, callbacks, slideVars, img, dirty, drawVars, panelVars>>

AppShow ==
    /\ app = "ui"
    /\ app' = "unlock"
    /\ IF g_image_count > 0
       THEN ShowImage(0) /\ timer' = TRUE
       ELSE Show(Label) /\ UNCHANGED timer
    /\ UNCHANGED <<task, mutexVars, callbacks, g_image_count, g_current, drawVars, panelVars>>

AppUnlock ==
    /\ app = "unlock"
    /\ Unlock("app")
    /\ app' = "done"
    /\ UNCHANGED <<task, callbacks, slideVars, img, dirty, drawVars, panelVars>>

-----------------------------------------------------------------------------
(***************************************************************************)
(* lvgl_port_task() and slide_timer_cb().                                  *)
(***************************************************************************)
TaskLock ==
    /\ task = "lock"
    /\ Lock("lvgl")
    /\ task' = "timers"
    /\ UNCHANGED <<app, callbacks, slideVars, img, dirty, drawVars, panelVars>>

TaskUnlock ==
    /\ task \in {"timers", "frameDone"}
    /\ Unlock("lvgl")
    /\ task' = "delay"
    /\ UNCHANGED <<app, callbacks, slideVars, img, dirty, drawVars, panelVars>>

TaskDelay ==
    /\ task = "delay"
    /\ task' = "lock"
    /\ UNCHANGED <<app, mutexVars, callbacks, slideVars, img, dirty, drawVars, panelVars>>

SlideTimer ==
    /\ task = "timers"
    /\ timer
    /\ Timely => dirty = {}
    /\ task' = IF g_image_count = 0 THEN "timers" ELSE "slideLock"
    /\ UNCHANGED <<app, mutexVars, callbacks, slideVars, img, dirty, drawVars, panelVars>>

SlideLock ==
    /\ task = "slideLock"
    /\ Lock("lvgl")
    /\ task' = "slide"
    /\ UNCHANGED <<app, callbacks, slideVars, img, dirty, drawVars, panelVars>>

\* Mutant of Slide: the index moves on by two.
Slide_Mut ==
    /\ task = "slide"
    /\ ShowImage(g_current)
    /\ g_current' = (g_current + 2) % g_image_count
    /\ task' = "slideUnlock"
    /\ UNCHANGED <<app, mutexVars, callbacks, g_image_count, timer, drawVars, panelVars>>

\* Mutant of Slide: the index does not wrap.
Slide_MutWrap ==
    /\ task = "slide"
    /\ ShowImage(g_current)
    /\ g_current' = IF g_current < g_image_count THEN g_current + 1 ELSE g_current
    /\ task' = "slideUnlock"
    /\ UNCHANGED <<app, mutexVars, callbacks, g_image_count, timer, drawVars, panelVars>>

Slide ==
    /\ task = "slide"
    /\ ShowImage(g_current)
    /\ g_current' = (g_current + 1) % g_image_count
    /\ task' = "slideUnlock"
    /\ UNCHANGED <<app, mutexVars, callbacks, g_image_count, timer, drawVars, panelVars>>

SlideUnlock ==
    /\ task = "slideUnlock"
    /\ Unlock("lvgl")
    /\ task' = "timers"
    /\ UNCHANGED <<app, callbacks, slideVars, img, dirty, drawVars, panelVars>>

-----------------------------------------------------------------------------
(***************************************************************************)
(* A frame.  LVGL copies what only the other buffer has, redraws the dirty *)
(* areas one by one and calls flush_callback(), which does something for   *)
(* the last of them only.                                                  *)
(***************************************************************************)
Refresh ==
    /\ task = "timers"
    /\ dirty # {}
    /\ fb' = [fb EXCEPT ![buf_act] =
                [a \in Areas |-> IF a \in sync \ dirty THEN fb[Other(buf_act)][a] ELSE @[a]]]
    /\ sync' = {}
    /\ todo' = dirty
    /\ task' = "draw"
    /\ UNCHANGED <<app, mutexVars, callbacks, slideVars, img, dirty, buf_act, panelVars>>

Draw(a) ==
    /\ task = "draw"
    /\ a \in todo
    /\ fb' = [fb EXCEPT ![buf_act][a] = Frame(img)[a]]
    /\ todo' = todo \ {a}
    /\ UNCHANGED <<app, task, mutexVars, callbacks, slideVars, img, dirty, sync, buf_act, panelVars>>

\* Mutant of FlushSwitch: the task does not wait for the panel.
FlushSwitch_Mut ==
    /\ task = "draw"
    /\ todo = {}
    /\ cur' = buf_act
    /\ flushed' = TRUE
    /\ task' = "flushReady"
    /\ UNCHANGED <<app, mutexVars, callbacks, slideVars, img, dirty, drawVars, scan>>

FlushSwitch ==
    /\ task = "draw"
    /\ todo = {}
    /\ cur' = buf_act
    /\ flushed' = TRUE
    /\ task' = "take"
    /\ UNCHANGED <<app, mutexVars, callbacks, slideVars, img, dirty, drawVars, scan>>

(***************************************************************************)
(* ulTaskNotifyValueClear() and ulTaskNotifyTake().  The interrupt         *)
(* notifies without an action, so the value of the notification is always  *)
(* zero: the clear changes nothing and the take always blocks.             *)
(***************************************************************************)
FlushTake ==
    /\ task = "take"
    /\ task' = "blocked"
    /\ UNCHANGED <<app, mutexVars, callbacks, slideVars, img, dirty, drawVars, panelVars>>

FlushReady ==
    /\ task = "flushReady"
    /\ buf_act' = Other(buf_act)
    /\ sync' = dirty
    /\ dirty' = {}
    /\ task' = "frameDone"
    /\ UNCHANGED <<app, mutexVars, callbacks, slideVars, img, todo, fb, panelVars>>

(***************************************************************************)
(* The end of a frame on the panel, with rgb_lcd_on_vsync_event() and      *)
(* lvgl_port_notify_rgb_vsync(): a notification reaches the task only if   *)
(* it is already blocked.                                                  *)
(***************************************************************************)
Vsync ==
    /\ scan' = cur
    /\ task' = IF callbacks /\ task = "blocked" THEN "flushReady" ELSE task
    /\ UNCHANGED <<app, mutexVars, callbacks, slideVars, img, dirty, drawVars, cur, flushed>>

-----------------------------------------------------------------------------
Init ==
    /\ app = "init"
    /\ task = "none"
    /\ owner = "none"
    /\ depth = 0
    /\ callbacks = FALSE
    /\ g_image_count \in 0..MAX_IMAGES
    /\ g_current = 0
    /\ timer = FALSE
    /\ img = Blank
    /\ dirty = Areas
    /\ sync = {}
    /\ todo = {}
    /\ buf_act = 0
    /\ fb = [b \in {0, 1} |-> [a \in Areas |-> Noise]]
    /\ cur = 0
    /\ scan = 0
    /\ flushed = FALSE

AppNext == PortInit \/ RegisterCallbacks \/ AppLock \/ AppShow \/ AppUnlock

TaskNext ==
    \/ TaskLock \/ TaskUnlock \/ TaskDelay
    \/ SlideTimer \/ SlideLock \/ Slide \/ SlideUnlock
    \/ Refresh \/ (\E a \in Areas : Draw(a))
    \/ FlushSwitch \/ FlushTake \/ FlushReady

Next == AppNext \/ TaskNext \/ Vsync

(***************************************************************************)
(* The panel never stops and a task that can run is run.  The LVGL task    *)
(* sleeps at least a tick between two rounds, with the mutex free, so that *)
(* app_main() gets it in the end; both LVGL timers come due again and      *)
(* again, so that neither is passed over for ever.                         *)
(***************************************************************************)
Fairness ==
    /\ WF_vars(Vsync)
    /\ WF_vars(AppNext) /\ SF_vars(AppLock)
    /\ WF_vars(TaskNext) /\ SF_vars(Refresh) /\ SF_vars(SlideTimer)

Spec == Init /\ [][Next]_vars /\ Fairness

-----------------------------------------------------------------------------
Whole(f) == \E s \in Shows : f = Frame(s)

(***************************************************************************)
(* What can be seen: nothing before the first flush, and afterwards what   *)
(* the buffer under the scan shows.                                        *)
(***************************************************************************)
onScreen == IF flushed /\ Whole(fb[scan])
            THEN CHOOSE s \in Shows : fb[scan] = Frame(s)
            ELSE Blank

TypeOK ==
    /\ app \in {"init", "callbacks", "lock", "ui", "unlock", "done"}
    /\ task \in {"none", "lock", "timers", "delay", "slideLock", "slide", "slideUnlock",
                 "draw", "take", "blocked", "flushReady", "frameDone"}
    /\ owner \in {"none", "app", "lvgl"}
    /\ depth \in 0..2
    /\ callbacks \in BOOLEAN
    /\ g_image_count \in 0..MAX_IMAGES
    /\ g_current \in Pictures
    /\ timer \in BOOLEAN
    /\ img \in Shows
    /\ dirty \subseteq Areas
    /\ sync \subseteq Areas
    /\ todo \subseteq Areas
    /\ buf_act \in {0, 1}
    /\ fb \in [{0, 1} -> [Areas -> Contents]]
    /\ cur \in {0, 1}
    /\ scan \in {0, 1}
    /\ flushed \in BOOLEAN

(***************************************************************************)
(* The discipline of the mutex, and the two facts about places it rests on.*)
(***************************************************************************)
Refreshing == {"draw", "take", "blocked", "flushReady"}
TaskInside == Refreshing \cup {"timers", "slideLock", "frameDone"}
TaskTwice == {"slide", "slideUnlock"}
AppInside == {"ui", "unlock"}

\* Whoever is in LVGL has its mutex, at the depth its place says, and whoever
\* has the mutex is in LVGL: the task and app_main() are never in it at the
\* same time, and no lock is left behind (lvgl_port.c:549-561, main.c:219-222).
Exclusive ==
    /\ task \in TaskInside => owner = "lvgl" /\ depth = 1
    /\ task \in TaskTwice => owner = "lvgl" /\ depth = 2
    /\ app \in AppInside => owner = "app" /\ depth = 1
    /\ owner = "lvgl" => task \in TaskInside \cup TaskTwice
    /\ owner = "app" => app \in AppInside
    /\ owner = "none" => depth = 0
    /\ app = "init" <=> task = "none"
    /\ task \in TaskTwice \cup {"slideLock"} => g_image_count > 0

(***************************************************************************)
(* FrameInv follows the two buffers.  Outside the dirty areas the buffer   *)
(* LVGL does not draw into is up to date; the one it draws into differs    *)
(* from it, between two frames, only in what the last frame redrew, and,   *)
(* during a frame, is up to date except in what is still to do.            *)
(***************************************************************************)
UpToDate(b, a) == fb[b][a] = Frame(img)[a]

Shown == flushed => Whole(fb[scan]) /\ Whole(fb[cur])

Handover ==
    /\ ~flushed => cur = buf_act /\ scan = buf_act /\ dirty = Areas
    /\ task \in {"take", "blocked", "flushReady"} => flushed /\ cur = buf_act /\ todo = {}
    /\ task = "flushReady" => scan = cur
    /\ flushed /\ task \notin {"take", "blocked", "flushReady"}
          => cur = Other(buf_act) /\ scan = cur

Buffers ==
    /\ \A a \in Areas \ dirty : UpToDate(Other(buf_act), a)
    /\ task \in Refreshing =>
          todo \subseteq dirty /\ \A a \in Areas \ todo : UpToDate(buf_act, a)
    /\ flushed /\ task \notin Refreshing =>
          \A a \in Areas \ sync : fb[buf_act][a] = fb[Other(buf_act)][a]

FrameInv == Shown /\ Handover /\ Buffers

\* From the first flush on, the buffer under the scan always holds one whole
\* screen: no area of it is older or newer than the rest, and none is being
\* drawn (flush_callback(), lvgl_port.c:271-290: "Wait for the last frame
\* buffer to complete transmission").
VisibleFrameWhole == flushed => Whole(fb[scan])

\* app_main() always gets through: the LVGL lock it needs is held by a task
\* that may be waiting for an interrupt, and the interrupt comes.
AppFinishes == <>(app = "done")

\* Every picture comes round for ever.
EveryPictureComesRound ==
    \A i \in Pictures : []<>(i < g_image_count => onScreen = i)

\* The display path implements the slide show as the viewer sees it.
Abstract == INSTANCE Slideshow
SlideshowSpec == Abstract!Spec

=============================================================================
