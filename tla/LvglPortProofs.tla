--------------------------- MODULE LvglPortProofs ---------------------------
(***************************************************************************)
(* LvglPort for every number of pictures, every division of the screen     *)
(* into areas and every size of the pictures: the types, the discipline of *)
(* the LVGL mutex, and that a screen once up is always seen whole; and     *)
(* LvglMutex, the mutex with any callers, which LvglPort implements.       *)
(***************************************************************************)
EXTENDS LvglPort, LvglMutex, TLAPS

MutexInv == TypeOK /\ Exclusive

(***************************************************************************)
(* MutexInv is inductive.                                                  *)
(***************************************************************************)
LEMMA InitMutex == Init => MutexInv
<1> SUFFICES ASSUME Init PROVE MutexInv
    OBVIOUS
<1>1. g_current \in Pictures
    BY PortAssumption DEF Init, Pictures
<1>2. fb \in [{0, 1} -> [Areas -> Contents]]
    BY DEF Init, Contents
<1>3. img \in Shows
    BY DEF Init, Shows
<1>4. Exclusive
    BY DEF Init, Exclusive, Refreshing, TaskInside, TaskTwice, AppInside
<1>5. depth \in 0..2
    BY DEF Init
<1>6. QED
    BY <1>1, <1>2, <1>3, <1>4, <1>5, Zenon DEF Init, MutexInv, TypeOK

\* What an image index below the count is shown as.
LEMMA FrameType == \A s \in Shows : Frame(s) \in [Areas -> Contents]
BY DEF Frame, Contents

LEMMA ShowType ==
    ASSUME TypeOK, NEW s \in Shows, Show(s)
    PROVE  img' \in Shows /\ dirty' \subseteq Areas
BY PortAssumption DEF TypeOK, Show

LEMMA NextMutex == MutexInv /\ [Next]_vars => MutexInv'
<1> SUFFICES ASSUME MutexInv, [Next]_vars
             PROVE  MutexInv'
    OBVIOUS
<1> USE DEF MutexInv, TypeOK, Exclusive, Refreshing, TaskInside, TaskTwice, AppInside
<1>1. CASE PortInit
    BY <1>1 DEF PortInit, mutexVars, slideVars, drawVars, panelVars
<1>2. CASE RegisterCallbacks
    BY <1>2 DEF RegisterCallbacks, mutexVars, slideVars, drawVars, panelVars
<1>3. CASE AppLock
    BY <1>3 DEF AppLock, Lock, slideVars, drawVars, panelVars
<1>4. CASE AppShow
    <2>1. 0 \in Shows /\ Label \in Shows
        BY PortAssumption DEF Shows, Pictures
    <2>2. img' \in Shows /\ dirty' \subseteq Areas
        BY <1>4, <2>1, ShowType DEF AppShow, ShowImage
    <2>3. timer' \in BOOLEAN
        BY <1>4 DEF AppShow
    <2>4. QED
        BY <1>4, <2>2, <2>3 DEF AppShow, mutexVars, drawVars, panelVars
<1>5. CASE AppUnlock
    BY <1>5 DEF AppUnlock, Unlock, slideVars, drawVars, panelVars
<1>6. CASE TaskLock
    BY <1>6 DEF TaskLock, Lock, slideVars, drawVars, panelVars
<1>7. CASE TaskUnlock
    BY <1>7 DEF TaskUnlock, Unlock, slideVars, drawVars, panelVars
<1>8. CASE TaskDelay
    BY <1>8 DEF TaskDelay, mutexVars, slideVars, drawVars, panelVars
<1>9. CASE SlideTimer
    BY <1>9 DEF SlideTimer, mutexVars, slideVars, drawVars, panelVars
<1>10. CASE SlideLock
    BY <1>10 DEF SlideLock, Lock, slideVars, drawVars, panelVars
<1>11. CASE Slide
    <2>1. img' \in Shows /\ dirty' \subseteq Areas
        BY <1>11, ShowType DEF Slide, ShowImage, Shows
    <2>2. g_current' \in Pictures
        BY <1>11, PortAssumption DEF Slide, Pictures
    <2>3. QED
        BY <1>11, <2>1, <2>2 DEF Slide, mutexVars, drawVars, panelVars
<1>12. CASE SlideUnlock
    BY <1>12 DEF SlideUnlock, Unlock, slideVars, drawVars, panelVars
<1>13. CASE Refresh
    <2>1. fb' \in [{0, 1} -> [Areas -> Contents]]
        BY <1>13 DEF Refresh, Other
    <2>2. QED
        BY <1>13, <2>1 DEF Refresh, mutexVars, slideVars, panelVars
<1>14. ASSUME NEW a \in Areas, Draw(a) PROVE MutexInv'
    <2>1. fb' \in [{0, 1} -> [Areas -> Contents]]
        BY <1>14, FrameType DEF Draw
    <2>2. QED
        BY <1>14, <2>1 DEF Draw, mutexVars, slideVars, panelVars
<1>15. CASE FlushSwitch
    BY <1>15 DEF FlushSwitch, mutexVars, slideVars, drawVars
<1>16. CASE FlushTake
    BY <1>16 DEF FlushTake, mutexVars, slideVars, drawVars, panelVars
<1>17. CASE FlushReady
    BY <1>17 DEF FlushReady, Other, mutexVars, slideVars, panelVars
<1>18. CASE Vsync
    BY <1>18 DEF Vsync, mutexVars, slideVars, drawVars
<1>19. CASE UNCHANGED vars
    BY <1>19 DEF vars, mutexVars, slideVars, drawVars, panelVars
<1>20. QED
    BY <1>1, <1>2, <1>3, <1>4, <1>5, <1>6, <1>7, <1>8, <1>9, <1>10, <1>11, <1>12,
       <1>13, <1>14, <1>15, <1>16, <1>17, <1>18, <1>19
       DEF Next, AppNext, TaskNext

\* Every variable of the display path has its type, in every state.
THEOREM TypeCorrect == Spec => []TypeOK
<1>1. MutexInv => TypeOK
    BY DEF MutexInv
<1>2. QED
    BY <1>1, InitMutex, NextMutex, PTL DEF Spec

-----------------------------------------------------------------------------
(***************************************************************************)
(* FrameInv is inductive, given the types and the discipline of the mutex. *)
(***************************************************************************)
LEMMA OtherBuffer ==
    \A b \in {0, 1} : Other(b) \in {0, 1} /\ Other(b) # b /\ Other(Other(b)) = b
BY DEF Other

\* A buffer that is up to date everywhere shows a whole screen.
LEMMA WholeFromAreas ==
    ASSUME TypeOK, NEW b \in {0, 1}, \A a \in Areas : UpToDate(b, a)
    PROVE  Whole(fb[b])
<1>1. fb[b] = Frame(img)
    BY FrameType DEF TypeOK, UpToDate, Frame
<1>2. QED
    BY <1>1 DEF TypeOK, Whole

\* What stays clean when the screen changes looks the same before and after.
LEMMA ShowKeeps ==
    ASSUME NEW s \in Shows, Show(s), NEW a \in Areas \ dirty'
    PROVE  a \in Areas \ dirty /\ Frame(img')[a] = Frame(img)[a]
BY DEF Show, Frame

LEMMA InitFrame == Init => FrameInv
BY DEF Init, FrameInv, Shown, Handover, Buffers, Refreshing

\* A step of a task outside the refresh that leaves the drawing alone.
LEMMA Undisturbed ==
    ASSUME FrameInv, UNCHANGED <<img, dirty, drawVars, panelVars>>,
           task' = task \/ (task \notin Refreshing /\ task' \notin Refreshing)
    PROVE  FrameInv'
<1> USE DEF drawVars, panelVars, FrameInv, UpToDate, Refreshing
<1>1. Shown'
    BY DEF Shown, Whole
<1>2. Handover'
    BY DEF Handover
<1>3. Buffers'
    BY DEF Buffers
<1>4. QED
    BY <1>1, <1>2, <1>3

\* A change of the screen while no frame is being drawn.
LEMMA ShowFrame ==
    ASSUME TypeOK, FrameInv, NEW s \in Shows, Show(s), UNCHANGED <<drawVars, panelVars>>,
           task \notin Refreshing, task' \notin Refreshing
    PROVE  FrameInv'
<1> USE DEF drawVars, panelVars, FrameInv
<1>1. Shown'
    BY DEF Shown, Whole
<1>2. Handover'
    <2>1. dirty = Areas => dirty' = Areas
        BY ShowType DEF Show
    <2>2. QED
        BY <2>1 DEF Handover, Refreshing
<1>3. Buffers'
    <2>1. ASSUME NEW a \in Areas \ dirty'
          PROVE  UpToDate(Other(buf_act), a)'
        BY <2>1, ShowKeeps DEF UpToDate, Buffers
    <2>2. QED
        BY <2>1 DEF Buffers
<1>4. QED
    BY <1>1, <1>2, <1>3

LEMMA NextFrame == MutexInv /\ FrameInv /\ [Next]_vars => FrameInv'
<1> SUFFICES ASSUME MutexInv, FrameInv, [Next]_vars
             PROVE  FrameInv'
    OBVIOUS
<1> USE DEF MutexInv
<1>t. MutexInv'
    BY NextMutex
<1>1. CASE PortInit
    BY <1>1, Undisturbed DEF PortInit, Exclusive, Refreshing
<1>2. CASE RegisterCallbacks \/ AppLock \/ AppUnlock
    BY <1>2, Undisturbed DEF RegisterCallbacks, AppLock, AppUnlock
<1>3. CASE AppShow
    <2>1. task \notin Refreshing /\ task' \notin Refreshing
        BY <1>3 DEF AppShow, Exclusive, AppInside, TaskInside
    <2>2. 0 \in Shows /\ Label \in Shows
        BY PortAssumption DEF Shows, Pictures
    <2>3. QED
        BY <1>3, <2>1, <2>2, ShowFrame DEF AppShow, ShowImage
<1>4. CASE TaskLock \/ TaskUnlock \/ TaskDelay \/ SlideTimer \/ SlideLock \/ SlideUnlock
    <2>1. task \notin Refreshing /\ task' \notin Refreshing
        BY <1>4 DEF TaskLock, TaskUnlock, TaskDelay, SlideTimer, SlideLock, SlideUnlock, Refreshing
    <2>2. UNCHANGED <<img, dirty, drawVars, panelVars>>
        BY <1>4 DEF TaskLock, TaskUnlock, TaskDelay, SlideTimer, SlideLock, SlideUnlock
    <2>3. QED
        BY <2>1, <2>2, Undisturbed
<1>5. CASE Slide
    <2>1. task \notin Refreshing /\ task' \notin Refreshing
        BY <1>5 DEF Slide, Refreshing
    <2>2. g_current \in Shows
        BY DEF TypeOK, Shows
    <2>3. CASE g_current < g_image_count
        BY <1>5, <2>1, <2>2, <2>3, ShowFrame DEF Slide, ShowImage
    <2>4. CASE ~(g_current < g_image_count)
        BY <1>5, <2>1, <2>4, Undisturbed DEF Slide, ShowImage
    <2>5. QED
        BY <2>3, <2>4
<1>6. CASE Refresh
    <2> DEFINE o == Other(buf_act)
    <2>1. o \in {0, 1} /\ o # buf_act /\ buf_act \in {0, 1}
        BY OtherBuffer DEF TypeOK
    <2>2. fb'[o] = fb[o]
        BY <1>6, <2>1 DEF Refresh, TypeOK
    <2>3. \A a \in Areas : fb'[buf_act][a] = IF a \in sync \ dirty THEN fb[o][a] ELSE fb[buf_act][a]
        BY <1>6, <2>1 DEF Refresh, TypeOK
    <2>4. UNCHANGED <<img, dirty, buf_act, cur, scan, flushed>> /\ todo' = dirty
          /\ task = "timers" /\ task' = "draw"
        BY <1>6 DEF Refresh, panelVars
    <2>5. Shown'
        BY <2>1, <2>2, <2>4 DEF FrameInv, Shown, Handover, Whole
    <2>6. Handover'
        BY <2>4 DEF FrameInv, Handover
    <2>7. ASSUME NEW a \in Areas \ dirty
          PROVE  UpToDate(o, a)' /\ UpToDate(buf_act, a)'
        <3>1. flushed
            BY <2>7 DEF FrameInv, Handover
        <3>2. fb[o][a] = Frame(img)[a]
            BY <2>7 DEF FrameInv, Buffers, UpToDate
        <3>3. fb'[buf_act][a] = fb[o][a]
            BY <2>3, <2>4, <2>7, <3>1 DEF FrameInv, Buffers, Refreshing
        <3>4. QED
            BY <2>2, <2>4, <3>2, <3>3 DEF UpToDate, Frame, Other
    <2>8. QED
        BY <2>4, <2>5, <2>6, <2>7 DEF FrameInv, Buffers, Refreshing
<1>7. ASSUME NEW a \in Areas, Draw(a) PROVE FrameInv'
    <2> DEFINE o == Other(buf_act)
    <2>1. o \in {0, 1} /\ o # buf_act /\ buf_act \in {0, 1}
        BY OtherBuffer DEF TypeOK
    <2>2. fb'[o] = fb[o]
        BY <1>7, <2>1 DEF Draw, TypeOK
    <2>3. /\ fb'[buf_act][a] = Frame(img)[a]
          /\ \A c \in Areas \ {a} : fb'[buf_act][c] = fb[buf_act][c]
        BY <1>7, <2>1 DEF Draw, TypeOK
    <2>4. UNCHANGED <<img, dirty, buf_act, cur, scan, flushed>> /\ todo' = todo \ {a}
          /\ task = "draw" /\ task' = "draw"
        BY <1>7 DEF Draw, panelVars
    <2>5. Shown'
        BY <2>1, <2>2, <2>4 DEF FrameInv, Shown, Handover, Whole
    <2>6. Handover'
        BY <2>4 DEF FrameInv, Handover
    <2>7. \A c \in Areas \ dirty : UpToDate(o, c)'
        BY <2>2, <2>4 DEF FrameInv, Buffers, UpToDate, Frame
    <2>8. \A c \in Areas \ todo' : UpToDate(buf_act, c)'
        BY <2>3, <2>4 DEF FrameInv, Buffers, UpToDate, Frame, Refreshing
    <2>9. QED
        BY <2>4, <2>5, <2>6, <2>7, <2>8 DEF FrameInv, Buffers, Refreshing
<1>8. CASE FlushSwitch
    <2>1. UNCHANGED <<img, dirty, drawVars, scan>> /\ cur' = buf_act /\ flushed'
          /\ todo = {} /\ task = "draw" /\ task' = "take"
        BY <1>8 DEF FlushSwitch
    <2>2. Whole(fb[buf_act])
        BY <2>1, WholeFromAreas DEF FrameInv, Buffers, Refreshing, TypeOK
    <2>3. Shown'
        BY <2>1, <2>2 DEF FrameInv, Shown, Handover, Whole, drawVars
    <2>4. Handover'
        BY <2>1 DEF Handover, drawVars
    <2>5. Buffers'
        BY <2>1 DEF FrameInv, Buffers, UpToDate, Refreshing, drawVars
    <2>6. QED
        BY <2>3, <2>4, <2>5 DEF FrameInv
<1>9. CASE FlushTake
    <2>1. UNCHANGED <<img, dirty, drawVars, panelVars>> /\ task = "take" /\ task' = "blocked"
        BY <1>9 DEF FlushTake
    <2>2. Shown'
        BY <2>1 DEF FrameInv, Shown, Whole, drawVars, panelVars
    <2>3. Handover'
        BY <2>1 DEF FrameInv, Handover, drawVars, panelVars
    <2>4. Buffers'
        BY <2>1 DEF FrameInv, Buffers, UpToDate, Refreshing, drawVars
    <2>5. QED
        BY <2>2, <2>3, <2>4 DEF FrameInv
<1>10. CASE FlushReady
    <2>1. UNCHANGED <<img, fb, panelVars>> /\ buf_act' = Other(buf_act) /\ sync' = dirty
          /\ dirty' = {} /\ task = "flushReady" /\ task' = "frameDone"
        BY <1>10 DEF FlushReady
    <2>2. Other(buf_act') = buf_act
        BY <2>1, OtherBuffer DEF TypeOK
    <2>3. Shown'
        BY <2>1 DEF FrameInv, Shown, Whole, panelVars
    <2>4. Handover'
        BY <2>1, <2>2 DEF FrameInv, Handover, panelVars
    <2>5. \A a \in Areas : UpToDate(buf_act, a)
        BY <2>1 DEF FrameInv, Handover, Buffers, Refreshing
    <2>6. \A a \in Areas \ dirty : UpToDate(Other(buf_act), a)
        BY DEF FrameInv, Buffers
    <2>7. \A a \in Areas \ dirty' : UpToDate(Other(buf_act), a)'
        BY <2>1, <2>2, <2>5 DEF UpToDate
    <2>8. \A a \in Areas \ sync' : fb'[buf_act'][a] = fb'[Other(buf_act')][a]
        BY <2>1, <2>2, <2>5, <2>6 DEF UpToDate
    <2>9. QED
        BY <2>1, <2>3, <2>4, <2>7, <2>8 DEF FrameInv, Buffers, Refreshing
<1>11. CASE Vsync
    <2>1. UNCHANGED <<img, dirty, drawVars, cur, flushed>> /\ scan' = cur
          /\ (task' = task \/ (task = "blocked" /\ task' = "flushReady"))
        BY <1>11 DEF Vsync
    <2>2. Shown'
        BY <2>1 DEF FrameInv, Shown, Whole, drawVars
    <2>3. Handover'
        BY <2>1 DEF FrameInv, Handover, drawVars
    <2>4. Buffers'
        BY <2>1 DEF FrameInv, Buffers, UpToDate, Refreshing, drawVars
    <2>5. QED
        BY <2>2, <2>3, <2>4 DEF FrameInv
<1>12. CASE UNCHANGED vars
    BY <1>12, Undisturbed DEF vars
<1>13. QED
    BY <1>1, <1>2, <1>3, <1>4, <1>5, <1>6, <1>7, <1>8, <1>9, <1>10, <1>11, <1>12
       DEF Next, AppNext, TaskNext

\* From the first flush on, the buffer under the scan shows a whole screen,
\* however the LVGL task, app_main() and the panel interleave.
THEOREM NoTearing == Spec => []VisibleFrameWhole
<1>1. FrameInv => VisibleFrameWhole
    BY DEF FrameInv, Shown, VisibleFrameWhole
<1>2. QED
    BY <1>1, InitMutex, NextMutex, InitFrame, NextFrame, PTL DEF Spec

\* The LVGL task and app_main() are never in LVGL at the same time.
THEOREM MutualExclusion == Spec => []Exclusive
<1>1. MutexInv => Exclusive
    BY DEF MutexInv
<1>2. QED
    BY <1>1, InitMutex, NextMutex, PTL DEF Spec

-----------------------------------------------------------------------------
(***************************************************************************)
(* The display path implements the safety part of Slideshow, if every      *)
(* picture and the label have an extent, and a frame is drawn before the   *)
(* next slide is due.                                                      *)
(***************************************************************************)
Visible == Cover[Blank] = {} /\ \A s \in Shows \ {Blank} : Cover[s] # {}

\* What the viewer expects after s.
NextShow(s) == IF s = Blank THEN (IF g_image_count > 0 THEN 0 ELSE Label)
                            ELSE (s + 1) % g_image_count

Waits == {"take", "blocked", "flushReady"}

(***************************************************************************)
(* ShowInv: the objects of LVGL are at most one screen ahead of what is    *)
(* seen, and not ahead when nothing is dirty; the slide timer shows its    *)
(* next picture only then.                                                 *)
(***************************************************************************)
Ahead ==
    \/ img = onScreen
    \/ onScreen = Blank /\ img = NextShow(onScreen)
    \/ onScreen \in 0..(g_image_count - 1) /\ img = NextShow(onScreen)

Slides ==
    /\ app \in {"init", "callbacks", "lock", "ui"} => img = Blank /\ timer = FALSE
    /\ timer = FALSE => g_current = 0 /\ task \notin {"slideLock", "slide"}
    /\ timer = TRUE =>
          /\ img \in Pictures /\ img < g_image_count
          /\ (img = 0 /\ g_current = 0) \/ g_current = (img + 1) % g_image_count

ShowInv ==
    /\ Ahead
    /\ Slides
    /\ dirty = {} => img = onScreen
    /\ task \in {"slideLock", "slide"} => dirty = {}

\* A frame tells which screen it shows.
LEMMA FrameTells ==
    ASSUME Visible, NEW s \in Shows, NEW t \in Shows, Frame(s) = Frame(t)
    PROVE  s = t
<1>1. ASSUME NEW u \in Shows, NEW v \in Shows, Frame(u) = Frame(v), u # Blank
      PROVE  u = v
    <2>1. PICK a \in Areas : a \in Cover[u]
        BY <1>1, PortAssumption DEF Visible
    <2>2. Frame(u)[a] = u /\ Frame(v)[a] \in {v, Background}
        BY <2>1 DEF Frame
    <2>3. u # Background
        BY PortAssumption
    <2>4. QED
        BY <1>1, <2>2, <2>3
<1>2. QED
    BY <1>1

LEMMA FrameSeen ==
    ASSUME Visible, NEW s \in Shows, NEW f, f = Frame(s)
    PROVE  Whole(f) /\ (CHOOSE x \in Shows : f = Frame(x)) = s
<1>1. Whole(f)
    BY DEF Whole
<1>2. \A x \in Shows : f = Frame(x) => x = s
    BY FrameTells
<1>3. QED
    BY <1>1, <1>2, Zenon

LEMMA Seen ==
    ASSUME Visible, TypeOK, FrameInv, flushed
    PROVE  onScreen \in Shows /\ fb[scan] = Frame(onScreen)
<1>1. PICK s \in Shows : fb[scan] = Frame(s)
    BY DEF FrameInv, Shown, Whole
<1>2. onScreen = s
    BY <1>1, FrameSeen, Zenon DEF onScreen
<1>3. QED
    BY <1>1, <1>2

LEMMA Unseen == ASSUME ~flushed PROVE onScreen = Blank
BY Zenon DEF onScreen

LEMMA OnScreenType ==
    ASSUME Visible, TypeOK, FrameInv PROVE onScreen \in Shows
BY Seen, Unseen, Zenon DEF Shows

LEMMA ShowsApart ==
    /\ \A i \in Pictures : i \in Nat /\ i # Blank /\ i # Label
    /\ Blank # Label
BY PortAssumption DEF Pictures

LEMMA InitShow == Init => ShowInv
<1> SUFFICES ASSUME Init PROVE ShowInv
    OBVIOUS
<1>1. onScreen = Blank
    BY Unseen DEF Init
<1>2. dirty # {} \/ img = onScreen
    BY <1>1 DEF Init
<1>3. Slides
    BY DEF Init, Slides
<1>4. QED
    BY <1>1, <1>2, <1>3 DEF Init, ShowInv, Ahead

\* A step that changes nothing that can be seen, and neither the objects of LVGL
\* nor the slide timer.
LEMMA Unmoved ==
    ASSUME ShowInv, UNCHANGED <<img, dirty, g_image_count, g_current, timer>>,
           onScreen' = onScreen,
           app' = app \/ (app' \in {"callbacks", "lock", "ui"} /\ app \in {"init", "callbacks", "lock"})
                      \/ app' = "done",
           task' \in {"slideLock", "slide"} => dirty = {} /\ timer = TRUE
    PROVE  ShowInv'
<1>1. Ahead'
    BY DEF ShowInv, Ahead, NextShow
<1>2. Slides'
    BY DEF ShowInv, Slides
<1>3. QED
    BY <1>1, <1>2 DEF ShowInv

\* The step of the viewer when what LVGL shows comes up.
LEMMA ComesUp ==
    ASSUME TypeOK, ShowInv, UNCHANGED g_image_count, onScreen' = img
    PROVE  [Abstract!Next]_(Abstract!vars)
<1>1. CASE img = onScreen
    BY <1>1 DEF Abstract!vars
<1>2. CASE onScreen = Blank /\ img = NextShow(onScreen)
    BY <1>2 DEF NextShow, Abstract!Next, Abstract!First
<1>3. CASE onScreen \in 0..(g_image_count - 1) /\ img = NextShow(onScreen)
    BY <1>3, PortAssumption, ShowsApart DEF TypeOK, NextShow, Abstract!Next, Abstract!Advance, Abstract!Pictures, Pictures
<1>4. QED
    BY <1>1, <1>2, <1>3 DEF ShowInv, Ahead

\* What LVGL shows has come up.
LEMMA CaughtUp ==
    ASSUME ShowInv, UNCHANGED <<img, dirty, slideVars, app>>, onScreen' = img,
           task' \in {"slideLock", "slide"} => task' = task
    PROVE  ShowInv'
<1>1. Ahead'
    BY DEF Ahead
<1>2. Slides'
    BY DEF ShowInv, Slides, slideVars
<1>3. QED
    BY <1>1, <1>2 DEF ShowInv

\* A step that leaves the panel and the buffer under the scan alone.
LEMMA SameSight ==
    ASSUME UNCHANGED <<panelVars>>, flushed => fb'[scan] = fb[scan]
    PROVE  onScreen' = onScreen
<1>1. CASE ~flushed
    BY <1>1, Unseen DEF onScreen, panelVars
<1>2. CASE flushed
    BY <1>2 DEF onScreen, panelVars, Whole
<1>3. QED
    BY <1>1, <1>2

\* A picture comes up on the objects of LVGL when the screen shows the one before.
LEMMA ShowsNext ==
    ASSUME Visible, TypeOK, NEW s \in Shows \ {Blank}, Show(s)
    PROVE  dirty' # {} /\ img' = s
BY PortAssumption DEF Show, Visible

\* What each step does to the sight of the screen: nothing, or it brings up
\* what LVGL shows.
LEMMA Sight ==
    ASSUME Visible, MutexInv, FrameInv, [Next]_vars
    PROVE  \/ onScreen' = onScreen
           \/ onScreen' = img /\ (FlushSwitch \/ Vsync)
<1> USE DEF MutexInv
<1>1. CASE AppNext \/ TaskLock \/ TaskUnlock \/ TaskDelay \/ SlideTimer \/ SlideLock \/ Slide
           \/ SlideUnlock \/ FlushTake \/ FlushReady \/ UNCHANGED vars
    <2>1. UNCHANGED <<fb, panelVars>>
        BY <1>1 DEF AppNext, PortInit, RegisterCallbacks, AppLock, AppShow, AppUnlock, TaskLock,
                    TaskUnlock, TaskDelay, SlideTimer, SlideLock, Slide, SlideUnlock, FlushTake,
                    FlushReady, vars, drawVars
    <2>2. QED
        BY <2>1, SameSight
<1>2. CASE Refresh \/ \E a \in Areas : Draw(a)
    <2>1. UNCHANGED panelVars /\ fb \in [{0, 1} -> [Areas -> Contents]] /\ buf_act \in {0, 1}
          /\ (task = "timers" \/ task = "draw")
        BY <1>2 DEF Refresh, Draw, TypeOK
    <2>2. fb'[Other(buf_act)] = fb[Other(buf_act)]
        <3>1. Other(buf_act) # buf_act
            BY <2>1, OtherBuffer
        <3>2. QED
            BY <1>2, <2>1, <3>1, OtherBuffer DEF Refresh, Draw
    <2>3. flushed => scan = Other(buf_act)
        BY <2>1 DEF FrameInv, Handover
    <2>4. QED
        BY <2>1, <2>2, <2>3, SameSight
<1>3. CASE FlushSwitch
    <2>1. UNCHANGED <<img, scan, fb>> /\ todo = {} /\ task = "draw" /\ flushed'
        BY <1>3 DEF FlushSwitch, drawVars
    <2>2. CASE flushed
        BY <2>1, <2>2 DEF onScreen, Whole
    <2>3. CASE ~flushed
        <3>1. scan = buf_act /\ buf_act \in {0, 1} /\ img \in Shows
            BY <2>3 DEF FrameInv, Handover, TypeOK
        <3>2. fb[scan] = Frame(img)
            BY <2>1, <3>1, FrameType DEF FrameInv, Buffers, Refreshing, UpToDate, TypeOK, Frame
        <3>3. Whole(fb[scan]) /\ (CHOOSE x \in Shows : fb[scan] = Frame(x)) = img
            BY <3>1, <3>2, FrameSeen, Zenon
        <3>4. onScreen' = img
            BY <2>1, <3>3 DEF onScreen, Whole
        <3>5. QED
            BY <1>3, <3>4
    <2>4. QED
        BY <2>2, <2>3
<1>4. CASE Vsync
    <2>1. UNCHANGED <<fb, flushed, cur>> /\ scan' = cur
        BY <1>4 DEF Vsync, drawVars
    <2>2. CASE cur = scan
        BY <2>1, <2>2 DEF onScreen, Whole
    <2>3. CASE cur # scan
        <3>1. flushed /\ todo = {} /\ cur = buf_act /\ task \in Waits
            BY <2>3 DEF FrameInv, Handover, Waits
        <3>2. cur \in {0, 1} /\ img \in Shows
            BY DEF TypeOK
        <3>3. fb[cur] = Frame(img)
            BY <3>1, <3>2, FrameType
               DEF FrameInv, Buffers, Refreshing, UpToDate, TypeOK, Frame, Waits
        <3>4. Whole(fb[cur]) /\ (CHOOSE x \in Shows : fb[cur] = Frame(x)) = img
            BY <3>2, <3>3, FrameSeen, Zenon
        <3>5. onScreen' = img
            BY <2>1, <3>1, <3>4 DEF onScreen, Whole
        <3>6. QED
            BY <1>4, <3>5
    <2>4. QED
        BY <2>2, <2>3
<1>5. QED
    BY <1>1, <1>2, <1>3, <1>4 DEF Next, TaskNext

LEMMA CountKept == [Next]_vars => UNCHANGED g_image_count
BY DEF Next, AppNext, TaskNext, PortInit, RegisterCallbacks, AppLock, AppShow, AppUnlock, TaskLock,
       TaskUnlock, TaskDelay, SlideTimer, SlideLock, Slide, SlideUnlock, Refresh, Draw, FlushSwitch,
       FlushTake, FlushReady, Vsync, vars, slideVars

LEMMA AppShowShows ==
    ASSUME Visible, MutexInv, ShowInv, AppShow
    PROVE  ShowInv'
<1> USE DEF MutexInv
<1>1. img = Blank /\ timer = FALSE /\ g_current = 0 /\ task \notin {"slideLock", "slide"}
      /\ app' = "unlock" /\ UNCHANGED <<g_current, g_image_count, task>>
    BY DEF AppShow, ShowInv, Slides
<1>2. onScreen' = onScreen
    BY SameSight DEF AppShow, drawVars
<1>3. g_image_count \in 0..MAX_IMAGES /\ 0 \in Pictures /\ 0 \in Shows /\ Label \in Shows
      /\ 0 # Blank /\ Label # Blank /\ MAX_IMAGES \in Nat
    BY PortAssumption DEF TypeOK, Shows, Pictures
<1>4. onScreen = Blank
    <2>1. CASE onScreen \in 0..(g_image_count - 1) /\ img = NextShow(onScreen)
        <3>1. onScreen \in Pictures /\ NextShow(onScreen) = (onScreen + 1) % g_image_count
              /\ (onScreen + 1) % g_image_count \in Pictures
            BY <1>3, <2>1, ShowsApart DEF NextShow, Pictures
        <3>2. QED
            BY <1>1, <2>1, <3>1, ShowsApart
    <2>2. QED
        BY <1>1, <2>1 DEF ShowInv, Ahead
<1>5. CASE g_image_count > 0
    <2>1. Show(0) /\ timer' = TRUE
        BY <1>3, <1>5 DEF AppShow, ShowImage
    <2>2. dirty' # {} /\ img' = 0
        BY <1>3, <2>1, ShowsNext
    <2>3. Ahead'
        BY <1>1, <1>2, <1>4, <1>5, <2>2 DEF Ahead, NextShow
    <2>4. Slides'
        BY <1>1, <1>3, <1>5, <2>1, <2>2 DEF Slides
    <2>5. QED
        BY <1>1, <2>2, <2>3, <2>4 DEF ShowInv
<1>6. CASE ~(g_image_count > 0)
    <2>1. Show(Label) /\ timer' = timer
        BY <1>6 DEF AppShow
    <2>2. dirty' # {} /\ img' = Label
        BY <1>3, <2>1, ShowsNext
    <2>3. Ahead'
        BY <1>1, <1>2, <1>4, <1>6, <2>2 DEF Ahead, NextShow
    <2>4. Slides'
        BY <1>1, <2>1 DEF Slides
    <2>5. QED
        BY <1>1, <2>2, <2>3, <2>4 DEF ShowInv
<1>7. QED
    BY <1>5, <1>6

LEMMA SlideShows ==
    ASSUME Visible, MutexInv, ShowInv, Slide
    PROVE  ShowInv'
<1> USE DEF MutexInv
<1>0. task = "slide" /\ task' = "slideUnlock" /\ UNCHANGED <<app, timer, g_image_count>>
      /\ ShowImage(g_current) /\ g_current' = (g_current + 1) % g_image_count
    BY DEF Slide
<1>1. timer = TRUE /\ dirty = {} /\ img = onScreen
    <2>1. timer \in BOOLEAN
        BY DEF TypeOK
    <2>2. timer # FALSE
        BY <1>0, Zenon DEF ShowInv, Slides
    <2>3. QED
        BY <1>0, <2>1, <2>2, Zenon DEF ShowInv
<1>2. onScreen' = onScreen
    BY SameSight DEF Slide, drawVars
<1>3. img \in Pictures /\ img < g_image_count
      /\ ((img = 0 /\ g_current = 0) \/ g_current = (img + 1) % g_image_count)
    BY <1>1 DEF ShowInv, Slides
<1>4. g_image_count \in Nat /\ g_image_count <= MAX_IMAGES /\ MAX_IMAGES \in Nat
    BY PortAssumption DEF TypeOK
<1>5. g_current \in 0..(g_image_count - 1) /\ g_current \in Pictures /\ img \in 0..(g_image_count - 1)
    BY <1>3, <1>4 DEF Pictures
<1>6. g_current \in Shows \ {Blank}
    BY <1>5, ShowsApart DEF Shows
<1>7. Show(g_current)
    BY <1>0, <1>4, <1>5 DEF ShowImage
<1>8. dirty' # {} /\ img' = g_current
    BY <1>6, <1>7, ShowsNext
<1>9. app \notin {"init", "callbacks", "lock", "ui"}
    BY <1>1, Zenon DEF ShowInv, Slides
<1>10. Ahead'
    <2>1. img # Blank
        BY <1>3, ShowsApart
    <2>2. CASE img = 0 /\ g_current = 0
        BY <1>1, <1>2, <1>8, <2>2 DEF Ahead
    <2>3. CASE g_current = (img + 1) % g_image_count
        BY <1>0, <1>1, <1>2, <1>5, <1>8, <2>1, <2>3 DEF Ahead, NextShow
    <2>4. QED
        BY <1>3, <2>2, <2>3
<1>11. Slides'
    <2>1. timer' = TRUE /\ timer' # FALSE
        BY <1>0, <1>1
    <2>2. img' \in Pictures /\ img' < g_image_count' /\ g_current' = (img' + 1) % g_image_count'
        BY <1>0, <1>4, <1>5, <1>8
    <2>3. QED
        BY <1>0, <1>9, <2>1, <2>2, Zenon DEF Slides
<1>12. QED
    BY <1>0, <1>8, <1>10, <1>11 DEF ShowInv

LEMMA NextShowInv ==
    ASSUME Visible, Timely, MutexInv, FrameInv, ShowInv, [Next]_vars
    PROVE  ShowInv'
<1> USE DEF MutexInv
<1>1. CASE AppShow
    BY <1>1, AppShowShows
<1>2. CASE Slide
    BY <1>2, SlideShows
<1>3. CASE PortInit \/ RegisterCallbacks \/ AppLock \/ AppUnlock
    <2>1. UNCHANGED <<img, dirty, g_image_count, g_current, timer, fb, panelVars>>
        BY <1>3 DEF PortInit, RegisterCallbacks, AppLock, AppUnlock, slideVars, drawVars
    <2>2. \/ app \in {"init", "callbacks", "lock"} /\ app' \in {"callbacks", "lock", "ui"}
          \/ app' = "done"
        BY <1>3 DEF PortInit, RegisterCallbacks, AppLock, AppUnlock
    <2>3. task' = task \/ task' = "lock"
        BY <1>3 DEF PortInit, RegisterCallbacks, AppLock, AppUnlock
    <2>4. task \in {"slideLock", "slide"} => dirty = {} /\ timer = TRUE
        BY Zenon DEF ShowInv, Slides, TypeOK
    <2>5. QED
        BY <2>1, <2>2, <2>3, <2>4, SameSight, Unmoved
<1>4. CASE TaskLock \/ TaskUnlock \/ TaskDelay \/ SlideLock \/ SlideUnlock \/ FlushTake
    <2>1. UNCHANGED <<app, img, dirty, g_image_count, g_current, timer, fb, panelVars>>
        BY <1>4 DEF TaskLock, TaskUnlock, TaskDelay, SlideLock, SlideUnlock, FlushTake,
                    slideVars, drawVars
    <2>2. task' \in {"slideLock", "slide"} => task = "slideLock"
        BY <1>4 DEF TaskLock, TaskUnlock, TaskDelay, SlideLock, SlideUnlock, FlushTake
    <2>3. task \in {"slideLock", "slide"} => dirty = {} /\ timer = TRUE
        BY Zenon DEF ShowInv, Slides, TypeOK
    <2>4. QED
        BY <2>1, <2>2, <2>3, SameSight, Unmoved
<1>5. CASE SlideTimer
    <2>1. UNCHANGED <<app, img, dirty, g_image_count, g_current, timer, fb, panelVars>>
        BY <1>5 DEF SlideTimer, slideVars, drawVars
    <2>2. dirty = {} /\ timer = TRUE
        BY <1>5, Timely, Zenon DEF SlideTimer, TypeOK
    <2>3. QED
        BY <2>1, <2>2, SameSight, Unmoved
<1>6. CASE Refresh \/ \E a \in Areas : Draw(a)
    <2>1. UNCHANGED <<app, img, dirty, g_image_count, g_current, timer, panelVars>> /\ task' = "draw"
        BY <1>6 DEF Refresh, Draw, slideVars
    <2>2. fb \in [{0, 1} -> [Areas -> Contents]] /\ buf_act \in {0, 1}
          /\ (task = "timers" \/ task = "draw")
        BY <1>6 DEF Refresh, Draw, TypeOK
    <2>3. fb'[Other(buf_act)] = fb[Other(buf_act)]
        <3>1. Other(buf_act) # buf_act
            BY <2>2, OtherBuffer
        <3>2. QED
            BY <1>6, <2>2, <3>1, OtherBuffer DEF Refresh, Draw
    <2>4. flushed => scan = Other(buf_act)
        BY <2>2 DEF FrameInv, Handover
    <2>5. QED
        BY <2>1, <2>3, <2>4, SameSight, Unmoved
<1>7. CASE FlushSwitch \/ Vsync
    <2>1. UNCHANGED <<img, dirty, slideVars, app>>
        BY <1>7 DEF FlushSwitch, Vsync
    <2>2. task' \in {"slideLock", "slide"} => task' = task
        BY <1>7 DEF FlushSwitch, Vsync
    <2>3. CASE onScreen' = img
        BY <2>1, <2>2, <2>3, CaughtUp
    <2>4. CASE onScreen' = onScreen
        <3>1. task \in {"slideLock", "slide"} => dirty = {} /\ timer = TRUE
            BY Zenon DEF ShowInv, Slides, TypeOK
        <3>2. QED
            BY <2>1, <2>2, <2>4, <3>1, Unmoved DEF slideVars
    <2>5. QED
        BY <2>3, <2>4, Sight
<1>8. CASE FlushReady
    <2>1. UNCHANGED <<app, img, g_image_count, g_current, timer, fb, panelVars>>
          /\ task = "flushReady" /\ task' = "frameDone"
        BY <1>8 DEF FlushReady, slideVars
    <2>2. flushed /\ todo = {} /\ scan = buf_act /\ buf_act \in {0, 1} /\ img \in Shows
        BY <2>1 DEF FrameInv, Handover, TypeOK
    <2>3. fb[scan] = Frame(img)
        BY <2>1, <2>2, FrameType DEF FrameInv, Buffers, Refreshing, UpToDate, TypeOK, Frame
    <2>4. (CHOOSE x \in Shows : fb[scan] = Frame(x)) = img /\ Whole(fb[scan])
        BY <2>2, <2>3, FrameSeen, Zenon
    <2>5. onScreen = img
        BY <2>2, <2>4, Zenon DEF onScreen
    <2>6. onScreen' = img'
        BY <2>1, <2>5, SameSight
    <2>7. Slides'
        BY <2>1 DEF ShowInv, Slides
    <2>8. QED
        BY <2>1, <2>6, <2>7 DEF ShowInv, Ahead
<1>9. CASE UNCHANGED vars
    BY <1>9, SameSight DEF vars, slideVars, drawVars, ShowInv, Ahead, NextShow, Slides
<1>10. QED
    BY <1>1, <1>2, <1>3, <1>4, <1>5, <1>6, <1>7, <1>8, <1>9 DEF Next, AppNext, TaskNext

LEMMA InitShows == Init => Abstract!Init
BY Unseen DEF Init, Abstract!Init

LEMMA NextShows ==
    ASSUME Visible, MutexInv, FrameInv, ShowInv, [Next]_vars
    PROVE  [Abstract!Next]_(Abstract!vars)
<1>1. UNCHANGED g_image_count
    BY CountKept
<1>2. CASE onScreen' = img
    BY <1>1, <1>2, ComesUp DEF MutexInv
<1>3. CASE onScreen' = onScreen
    BY <1>1, <1>3 DEF Abstract!vars
<1>4. QED
    BY <1>2, <1>3, Sight

\* Whatever app_main(), the LVGL task and the panel do between two looks at the
\* screen, the viewer sees an empty screen, then the first picture, then every
\* picture in its turn, and no other thing.
THEOREM ShowsSlides ==
    ASSUME Visible, Timely
    PROVE  Spec => Abstract!Safety
<1> DEFINE ShowsInv == MutexInv /\ FrameInv /\ ShowInv
<1>1. Init => ShowsInv
    BY InitMutex, InitFrame, InitShow
<1>2. ShowsInv /\ [Next]_vars => ShowsInv'
    BY Visible, Timely, NextMutex, NextFrame, NextShowInv
<1>3. ShowsInv /\ [Next]_vars => [Abstract!Next]_(Abstract!vars)
    BY Visible, NextShows
<1>4. QED
    <2> HIDE DEF ShowsInv
    <2>1. QED
        BY <1>1, <1>2, <1>3, InitShows, PTL DEF Spec, Abstract!Safety

-----------------------------------------------------------------------------
(***************************************************************************)
(* LvglMutex, for every set of tasks, of limits and every tick rate.       *)
(* Whoever holds the mutex holds it as often as it has locks to give back; *)
(* and the ticks a caller has waited and those it has left make no more    *)
(* than what it asked for.                                                 *)
(***************************************************************************)
MutexTypes ==
    /\ holder \in Tasks \cup {NoOne}
    /\ held \in Nat
    /\ asked \in [Tasks -> Limits \cup {0, -1}]
    /\ left \in [Tasks -> Int]
    /\ waited \in [Tasks -> Nat]
    /\ result \in [Tasks -> {"none", "waiting", "true", "false"}]
    /\ locks \in [Tasks -> Nat]

Held == holder # NoOne => locks[holder] > 0

TimeKept ==
    \A t \in Tasks :
        /\ asked[t] >= 0 => left[t] >= 0 /\ (left[t] + waited[t]) * 1000 <= asked[t] * TickRate
        /\ asked[t] < 0 => left[t] = Forever /\ result[t] # "false"

HolderInv == MutexTypes /\ Held /\ HolderOnly /\ TimeKept

LEMMA TicksRoundDown ==
    ASSUME NEW ms \in Nat
    PROVE  Ticks(ms) \in Nat /\ Ticks(ms) * 1000 <= ms * TickRate
<1>1. ms * TickRate \in Nat
    BY MutexAssumption
<1>2. ASSUME NEW n \in Nat
      PROVE  n \div 1000 \in Nat /\ (n \div 1000) * 1000 <= n
    OBVIOUS
<1>3. Ticks(ms) = (ms * TickRate) \div 1000
    BY DEF Ticks
<1>4. QED
    BY <1>1, <1>2, <1>3

LEMMA InitHolder == MutexInit => HolderInv
<1> SUFFICES ASSUME MutexInit PROVE HolderInv
    OBVIOUS
<1>1. MutexTypes
    BY DEF MutexInit, MutexTypes
<1>2. Held /\ HolderOnly
    BY DEF MutexInit, Held, HolderOnly
<1>3. TimeKept
    BY MutexAssumption DEF MutexInit, TimeKept
<1>4. QED
    BY <1>1, <1>2, <1>3 DEF HolderInv

LEMMA NextHolder == HolderInv /\ [MutexNext]_muxVars => HolderInv'
<1> SUFFICES ASSUME HolderInv, [MutexNext]_muxVars
             PROVE  HolderInv'
    OBVIOUS
<1> USE MutexAssumption DEF HolderInv
<1>1. ASSUME NEW t \in Tasks, NEW ms \in Limits \cup {-1}, Call(t, ms)
      PROVE  HolderInv'
    <2>1. Ticks(ms) \in Int
          /\ (ms >= 0 => Ticks(ms) >= 0 /\ Ticks(ms) * 1000 <= ms * TickRate)
          /\ (ms < 0 => Ticks(ms) = Forever)
        <3>1. CASE ms \in Limits
            BY <3>1, TicksRoundDown
        <3>2. CASE ms = -1
            BY <3>2 DEF Ticks, Forever
        <3>3. QED
            BY <3>1, <3>2
    <2>2. UNCHANGED <<holder, held, locks>>
          /\ asked' = [asked EXCEPT ![t] = ms] /\ left' = [left EXCEPT ![t] = Ticks(ms)]
          /\ waited' = [waited EXCEPT ![t] = 0] /\ result' = [result EXCEPT ![t] = "waiting"]
        BY <1>1 DEF Call
    <2>3. MutexTypes'
        BY <2>1, <2>2 DEF MutexTypes
    <2>4. Held' /\ HolderOnly'
        BY <2>2 DEF Held, HolderOnly
    <2>5. ASSUME NEW u \in Tasks
          PROVE  /\ asked'[u] >= 0 => left'[u] >= 0 /\ (left'[u] + waited'[u]) * 1000 <= asked'[u] * TickRate
                 /\ asked'[u] < 0 => left'[u] = Forever /\ result'[u] # "false"
        <3>1. CASE u = t
            BY <2>1, <2>2, <3>1 DEF MutexTypes
        <3>2. CASE u # t
            BY <2>2, <3>2 DEF MutexTypes, TimeKept
        <3>3. QED
            BY <3>1, <3>2
    <2>6. QED
        BY <2>3, <2>4, <2>5 DEF TimeKept
<1>2. ASSUME NEW t \in Tasks, Take(t) PROVE HolderInv'
    <2>1. MutexTypes'
        BY <1>2 DEF Take, MutexTypes
    <2>2. Held' /\ HolderOnly'
        BY <1>2 DEF Take, MutexTypes, Held, HolderOnly
    <2>3. TimeKept'
        BY <1>2 DEF Take, MutexTypes, TimeKept
    <2>4. QED
        BY <2>1, <2>2, <2>3
<1>3. ASSUME NEW t \in Tasks, TimeOut(t) PROVE HolderInv'
    <2>1. MutexTypes'
        BY <1>3 DEF TimeOut, MutexTypes
    <2>2. Held' /\ HolderOnly'
        BY <1>3 DEF TimeOut, Held, HolderOnly
    <2>3. TimeKept'
        BY <1>3 DEF TimeOut, MutexTypes, TimeKept, Forever
    <2>4. QED
        BY <2>1, <2>2, <2>3
<1>4. ASSUME NEW t \in Tasks, Give(t) PROVE HolderInv'
    <2>1. holder = t /\ held = locks[t] /\ held > 0
        BY <1>4 DEF Give, HolderOnly
    <2>2. MutexTypes'
        BY <1>4, <2>1 DEF Give, MutexTypes, callVars
    <2>3. Held' /\ HolderOnly'
        BY <1>4, <2>1 DEF Give, MutexTypes, Held, HolderOnly
    <2>4. TimeKept'
        BY <1>4 DEF Give, callVars, TimeKept
    <2>5. QED
        BY <2>2, <2>3, <2>4
<1>5. CASE Tick
    <2> DEFINE waiters == {t \in Tasks : result[t] = "waiting" /\ left[t] # Forever}
    <2>1. /\ \A t \in waiters : left[t] > 0
          /\ left' = [t \in Tasks |-> IF t \in waiters THEN left[t] - 1 ELSE left[t]]
          /\ waited' = [t \in Tasks |-> IF t \in waiters THEN waited[t] + 1 ELSE waited[t]]
          /\ UNCHANGED <<holder, held, asked, result, locks>>
        BY <1>5 DEF Tick
    <2>2. MutexTypes'
        BY <2>1 DEF MutexTypes
    <2>3. Held' /\ HolderOnly'
        BY <2>1 DEF Held, HolderOnly
    <2>4. ASSUME NEW u \in Tasks
          PROVE  /\ asked'[u] >= 0 => left'[u] >= 0 /\ (left'[u] + waited'[u]) * 1000 <= asked'[u] * TickRate
                 /\ asked'[u] < 0 => left'[u] = Forever /\ result'[u] # "false"
        <3>1. CASE u \in waiters
            <4>1. left'[u] + waited'[u] = left[u] + waited[u] /\ left'[u] >= 0
                BY <2>1, <3>1 DEF MutexTypes
            <4>2. ~(asked[u] < 0)
                BY <3>1 DEF TimeKept
            <4>3. QED
                BY <2>1, <4>1, <4>2 DEF TimeKept
        <3>2. CASE u \notin waiters
            BY <2>1, <3>2 DEF TimeKept
        <3>3. QED
            BY <3>1, <3>2
    <2>5. QED
        BY <2>2, <2>3, <2>4 DEF TimeKept
<1>6. CASE UNCHANGED muxVars
    BY <1>6 DEF muxVars, callVars, MutexTypes, Held, HolderOnly, TimeKept
<1>7. QED
    BY <1>1, <1>2, <1>3, <1>4, <1>5, <1>6 DEF MutexNext

LEMMA HolderAlways == MutexSpec => []HolderInv
BY InitHolder, NextHolder, PTL DEF MutexSpec, MutexSafety

\* However many tasks lock and unlock, with whatever limits, at most one of them
\* is between a lock that succeeded and its unlock, and the mutex is free only
\* when every lock has been given back.
THEOREM OneHolder == MutexSpec => []HolderOnly
<1>1. HolderInv => HolderOnly
    BY DEF HolderInv
<1>2. QED
    BY <1>1, HolderAlways, PTL

\* No caller waits longer than its limit, at any tick rate: the conversion to
\* ticks rounds down; and a caller without a limit is never refused, so that
\* main.c may ignore the answer.
THEOREM LimitKept == MutexSpec => []KeepsLimit
<1>1. HolderInv => KeepsLimit
    <2> SUFFICES ASSUME HolderInv, NEW t \in Tasks
                 PROVE  /\ asked[t] > 0 => waited[t] * 1000 <= asked[t] * TickRate
                        /\ asked[t] < 0 => result[t] # "false"
        BY DEF KeepsLimit
    <2>1. left[t] \in Int /\ waited[t] \in Nat /\ asked[t] \in Limits \cup {0, -1}
        BY DEF HolderInv, MutexTypes
    <2>2. asked[t] \in Int /\ asked[t] * TickRate \in Int
        <3>1. Limits \cup {0, -1} \subseteq Int /\ TickRate \in Int
            BY MutexAssumption
        <3>2. asked[t] \in Int
            BY <2>1, <3>1, Zenon
        <3>3. \A a, b \in Int : a * b \in Int
            OBVIOUS
        <3>4. QED
            BY <3>1, <3>2, <3>3, Zenon
    <2>3. QED
        BY <2>1, <2>2 DEF HolderInv, TimeKept
<1>2. QED
    BY <1>1, HolderAlways, PTL

-----------------------------------------------------------------------------
(***************************************************************************)
(* app_main() and the LVGL task use the mutex as two of LvglMutex's tasks, *)
(* without a limit and at most twice in a row.  A place of theirs says     *)
(* what they have called and how many locks they have to give back.        *)
(***************************************************************************)
Callers == {"app", "lvgl"}

Called(p) == IF p = "app" THEN app \notin {"init", "callbacks"} ELSE task # "none"

Waiting(p) == IF p = "app" THEN app = "lock" ELSE task \in {"lock", "slideLock"}

askedOf == [p \in Callers |-> IF Called(p) THEN -1 ELSE 0]

resultOf == [p \in Callers |-> IF ~Called(p) THEN "none" ELSE IF Waiting(p) THEN "waiting" ELSE "true"]

LocksOf(p) ==
    IF p = "app" THEN IF app \in AppInside THEN 1 ELSE 0
    ELSE IF task \in TaskTwice THEN 2 ELSE IF task \in TaskInside THEN 1 ELSE 0

locksOf == [p \in Callers |-> LocksOf(p)]

Mux == INSTANCE LvglMutex WITH
    Tasks <- Callers, Limits <- {}, MaxDepth <- 2, holder <- owner, held <- depth,
    asked <- askedOf, left <- askedOf, waited <- [p \in Callers |-> 0],
    result <- resultOf, locks <- locksOf

\* A step that is none of q's.
Still(q) ==
    /\ Called(q)' <=> Called(q)
    /\ Waiting(q)' <=> Waiting(q)
    /\ LocksOf(q)' = LocksOf(q)

LEMMA StillEntries ==
    ASSUME NEW q \in Callers, Still(q)
    PROVE  askedOf'[q] = askedOf[q] /\ resultOf'[q] = resultOf[q] /\ locksOf'[q] = locksOf[q]
BY DEF Still, askedOf, resultOf, locksOf

\* A step of one caller p is known by what it does to p's own entries.
LEMMA OwnEntries ==
    ASSUME NEW p \in Callers, \A q \in Callers \ {p} : Still(q)
    PROVE  /\ askedOf' = [askedOf EXCEPT ![p] = askedOf'[p]]
           /\ resultOf' = [resultOf EXCEPT ![p] = resultOf'[p]]
           /\ locksOf' = [locksOf EXCEPT ![p] = locksOf'[p]]
BY StillEntries DEF askedOf, resultOf, locksOf

\* What p calls, takes and gives back, in terms of its places.
LEMMA CallMaps ==
    ASSUME NEW p \in Callers, \A q \in Callers \ {p} : Still(q),
           UNCHANGED mutexVars, ~Waiting(p), Waiting(p)', Called(p)',
           LocksOf(p) < 2, LocksOf(p)' = LocksOf(p)
    PROVE  Mux!Call(p, -1)
<1>1. resultOf[p] # "waiting" /\ resultOf'[p] = "waiting" /\ askedOf'[p] = -1
      /\ locksOf[p] < 2 /\ locksOf'[p] = locksOf[p]
    BY DEF resultOf, askedOf, locksOf
<1>2. Mux!Ticks(-1) = -1
    BY DEF Mux!Ticks, Mux!Forever
<1>3. askedOf' = [askedOf EXCEPT ![p] = -1] /\ resultOf' = [resultOf EXCEPT ![p] = "waiting"]
      /\ locksOf' = locksOf
    BY <1>1, OwnEntries DEF locksOf
<1>4. [q \in Callers |-> 0] = [[q \in Callers |-> 0] EXCEPT ![p] = 0]
    OBVIOUS
<1>5. QED
    BY <1>1, <1>2, <1>3, <1>4 DEF Mux!Call, mutexVars

LEMMA TakeMaps ==
    ASSUME NEW p \in Callers, \A q \in Callers \ {p} : Still(q),
           Lock(p), Called(p), Waiting(p), ~Waiting(p)', Called(p)',
           LocksOf(p)' = LocksOf(p) + 1
    PROVE  Mux!Take(p)
<1>1. resultOf[p] = "waiting" /\ resultOf'[p] = "true" /\ askedOf'[p] = askedOf[p]
      /\ locksOf'[p] = locksOf[p] + 1
    BY DEF resultOf, askedOf, locksOf
<1>2. askedOf' = askedOf /\ resultOf' = [resultOf EXCEPT ![p] = "true"]
      /\ locksOf' = [locksOf EXCEPT ![p] = locksOf[p] + 1]
    BY <1>1, OwnEntries DEF askedOf
<1>3. QED
    BY <1>1, <1>2 DEF Mux!Take, Mux!NoOne, Lock

LEMMA GiveMaps ==
    ASSUME NEW p \in Callers, \A q \in Callers \ {p} : Still(q),
           Unlock(p), Called(p), ~Waiting(p), ~Waiting(p)', Called(p)',
           LocksOf(p) \in {1, 2}, LocksOf(p)' = LocksOf(p) - 1
    PROVE  Mux!Give(p)
<1>1. resultOf[p] # "waiting" /\ resultOf'[p] = resultOf[p] /\ askedOf'[p] = askedOf[p]
      /\ locksOf[p] > 0 /\ locksOf'[p] = locksOf[p] - 1
    BY DEF resultOf, askedOf, locksOf
<1>2. askedOf' = askedOf
    BY <1>1, OwnEntries DEF askedOf
<1>3. resultOf' = resultOf
    BY <1>1, OwnEntries DEF resultOf
<1>4. locksOf' = [locksOf EXCEPT ![p] = locksOf[p] - 1]
    BY <1>1, OwnEntries
<1>5. QED
    BY <1>1, <1>2, <1>3, <1>4 DEF Mux!Give, Mux!NoOne, Mux!callVars, Unlock

LEMMA IdleMaps ==
    ASSUME UNCHANGED mutexVars, askedOf' = askedOf, resultOf' = resultOf, locksOf' = locksOf
    PROVE  UNCHANGED Mux!muxVars
BY DEF Mux!muxVars, Mux!callVars, mutexVars

LEMMA InitMaps == Init => Mux!MutexInit
BY DEF Init, Mux!MutexInit, Mux!NoOne, askedOf, resultOf, locksOf, LocksOf, Called, Callers, AppInside,
       TaskTwice, TaskInside, Refreshing

LEMMA NextMaps ==
    ASSUME MutexInv, [Next]_vars
    PROVE  [Mux!MutexNext]_(Mux!muxVars)
<1> USE DEF Called, Waiting, LocksOf, AppInside, TaskTwice, TaskInside, Refreshing
<1>c. "app" \in Callers /\ "lvgl" \in Callers
    BY DEF Callers
<1>a. UNCHANGED app => \A q \in Callers \ {"lvgl"} : Still(q)
    BY DEF Callers, Still
<1>t. UNCHANGED task => \A q \in Callers \ {"app"} : Still(q)
    BY DEF Callers, Still
<1>1. CASE RegisterCallbacks
    <2>1. Mux!Call("app", -1)
        BY <1>1, <1>t, <1>c, CallMaps DEF RegisterCallbacks
    <2>2. QED
        BY <2>1, <1>c DEF Mux!MutexNext
<1>2. CASE AppLock
    <2>1. Mux!Take("app")
        BY <1>2, <1>t, <1>c, TakeMaps DEF AppLock
    <2>2. QED
        BY <2>1, <1>c DEF Mux!MutexNext
<1>3. CASE AppUnlock
    <2>1. Mux!Give("app")
        BY <1>3, <1>t, <1>c, GiveMaps DEF AppUnlock
    <2>2. QED
        BY <2>1, <1>c DEF Mux!MutexNext
<1>4. CASE TaskDelay \/ (SlideTimer /\ task' = "slideLock")
    <2>1. Mux!Call("lvgl", -1)
        BY <1>4, <1>a, <1>c, CallMaps DEF TaskDelay, SlideTimer
    <2>2. QED
        BY <2>1, <1>c DEF Mux!MutexNext
<1>5. CASE TaskLock \/ SlideLock
    <2>1. Mux!Take("lvgl")
        BY <1>5, <1>a, <1>c, TakeMaps DEF TaskLock, SlideLock
    <2>2. QED
        BY <2>1, <1>c DEF Mux!MutexNext
<1>6. CASE TaskUnlock \/ SlideUnlock
    <2>1. Mux!Give("lvgl")
        BY <1>6, <1>a, <1>c, GiveMaps DEF TaskUnlock, SlideUnlock
    <2>2. QED
        BY <2>1, <1>c DEF Mux!MutexNext
<1>7. CASE PortInit
    <2>0. \A q \in Callers \ {"lvgl"} : Still(q)
        BY <1>7 DEF PortInit, Callers, Still
    <2>1. Mux!Call("lvgl", -1)
        BY <1>7, <2>0, <1>c, CallMaps DEF PortInit, MutexInv, Exclusive
    <2>2. QED
        BY <2>1, <1>c DEF Mux!MutexNext
<1>8. CASE AppShow \/ Slide \/ Refresh \/ (\E a \in Areas : Draw(a)) \/ FlushSwitch \/ FlushTake
           \/ FlushReady \/ Vsync \/ (SlideTimer /\ task' = "timers") \/ UNCHANGED vars
    <2>1. UNCHANGED mutexVars
        BY <1>8 DEF AppShow, Slide, Refresh, Draw, FlushSwitch, FlushTake, FlushReady, Vsync,
                    SlideTimer, vars
    <2>2. /\ app' = app \/ (app = "ui" /\ app' = "unlock")
          /\ \/ task' = task
             \/ task = "slide" /\ task' = "slideUnlock"
             \/ task \in {"timers", "draw", "take", "blocked", "flushReady"}
                /\ task' \in {"draw", "take", "blocked", "flushReady", "frameDone"}
        BY <1>8 DEF AppShow, Slide, Refresh, Draw, FlushSwitch, FlushTake, FlushReady, Vsync,
                    SlideTimer, vars
    <2>3. \A p \in Callers : Still(p)
        BY <2>2 DEF Still, Callers
    <2>4. askedOf' = askedOf /\ resultOf' = resultOf /\ locksOf' = locksOf
        BY <2>3 DEF Still, askedOf, resultOf, locksOf
    <2>5. QED
        BY <2>1, <2>4, IdleMaps
<1>9. SlideTimer => task' \in {"timers", "slideLock"}
    BY DEF SlideTimer
<1>10. QED
    BY <1>1, <1>2, <1>3, <1>4, <1>5, <1>6, <1>7, <1>8, <1>9 DEF Next, AppNext, TaskNext

\* app_main() and the LVGL task, with the slide timer that locks a second time,
\* use the mutex as LvglMutex says its callers do.
THEOREM PortUsesMutex == Spec => Mux!MutexSafety
<1>1. MutexInv /\ [Next]_vars => [Mux!MutexNext]_(Mux!muxVars)
    BY NextMaps
<1>2. QED
    BY <1>1, InitMutex, NextMutex, InitMaps, PTL DEF Spec, Mux!MutexSafety

-----------------------------------------------------------------------------
(***************************************************************************)
(* Nobody waits for somebody who waits in turn.                            *)
(***************************************************************************)
Registered == callbacks = (app \notin {"init", "callbacks"})

\* Whoever waits for the mutex waits for a caller that is inside LVGL and does
\* not wait for it; the slide timer never waits, its task having the mutex; and
\* a task blocked on the panel will be woken, the interrupt being registered or
\* next to be, by a step of app_main() that needs no mutex.
WaitsEnd ==
    /\ app = "lock" /\ owner # "none" => task \in (TaskInside \cup TaskTwice) \ {"lock"}
    /\ task = "lock" /\ owner # "none" => app \in AppInside
    /\ task = "slideLock" => owner = "lvgl"
    /\ task = "blocked" => callbacks \/ app = "callbacks"

LEMMA InitRegistered == Init => Registered
BY DEF Init, Registered

LEMMA NextRegistered == MutexInv /\ Registered /\ [Next]_vars => Registered'
<1> SUFFICES ASSUME MutexInv, Registered, [Next]_vars PROVE Registered'
    OBVIOUS
<1>1. CASE RegisterCallbacks
    BY <1>1 DEF RegisterCallbacks, Registered
<1>2. CASE PortInit \/ AppLock \/ AppShow \/ AppUnlock
    BY <1>2 DEF PortInit, AppLock, AppShow, AppUnlock, Registered
<1>3. CASE TaskNext \/ Vsync \/ UNCHANGED vars
    BY <1>3 DEF TaskNext, TaskLock, TaskUnlock, TaskDelay, SlideTimer, SlideLock, Slide, SlideUnlock,
                Refresh, Draw, FlushSwitch, FlushTake, FlushReady, Vsync, vars, Registered
<1>4. QED
    BY <1>1, <1>2, <1>3 DEF Next, AppNext

\* There is no circle of waiting between app_main(), the LVGL task and the panel.
THEOREM NoCircularWait == Spec => []WaitsEnd
<1>1. MutexInv /\ Registered => WaitsEnd
    <2> SUFFICES ASSUME MutexInv, Registered PROVE WaitsEnd
        OBVIOUS
    <2>1. owner \in {"none", "app", "lvgl"}
        BY DEF MutexInv, TypeOK
    <2>2. /\ app = "lock" /\ owner # "none" => task \in (TaskInside \cup TaskTwice) \ {"lock"}
          /\ task = "lock" /\ owner # "none" => app \in AppInside
          /\ task = "slideLock" => owner = "lvgl"
        BY <2>1 DEF MutexInv, Exclusive, AppInside, TaskInside, TaskTwice, Refreshing
    <2>3. task = "blocked" => callbacks \/ app = "callbacks"
        <3>1. task = "blocked" => app # "init"
            BY DEF MutexInv, Exclusive
        <3>2. QED
            BY <3>1, Zenon DEF Registered
    <2>4. QED
        BY <2>2, <2>3 DEF WaitsEnd
<1>2. QED
    BY <1>1, InitMutex, NextMutex, InitRegistered, NextRegistered, PTL DEF Spec

=============================================================================
