----------------------------- MODULE BootProofs -----------------------------
(***************************************************************************)
(* Boot for every size of the picture table, every number of mount         *)
(* attempts and every set of calls that may fail: the types, the account   *)
(* of the I2C references, and that the card stays selected while it is     *)
(* read and the queue stays there while the mount task needs it.           *)
(***************************************************************************)
EXTENDS Boot, TLAPS

(***************************************************************************)
(* Types, a component at a time.                                           *)
(***************************************************************************)
LEMMA QueueOfOne ==
    ASSUME TypeOK, queue # <<>>
    PROVE  Head(queue) \in Events /\ Tail(queue) = <<>>
<1>1. PICK e \in Events : queue = <<e>>
    BY DEF TypeOK
<1>2. QED
    BY <1>1

LEMMA InitType == Init => TypeOK
<1> SUFFICES ASSUME Init PROVE TypeOK
    OBVIOUS
<1>1. BusTypeOK
    BY DEF Init, BusInit, BusTypeOK
<1>2. MountTypeOK
    BY DEF Init, MountInit, MountTypeOK, Stages
<1>3. attempt \in 1..SD_MOUNT_RETRIES /\ g_image_count \in 0..MAX_IMAGES
    BY BootAssumption DEF Init
<1>4. NoEvent \in Events
    BY DEF NoEvent, Events, Msgs
<1>5. QED
    BY <1>1, <1>2, <1>3, <1>4
       DEF Init, TypeOK, AppPlaces, SdPlaces, Waiting, BringUp, Final

\* The operators of the bus keep its types.
LEMMA BusType ==
    ASSUME BusTypeOK, NEW u \in Users,
           \/ AcquireShared(u) \/ AcquireInstall \/ AcquireCommit(u)
           \/ AcquireFails \/ Release(u) \/ UNCHANGED busVars
    PROVE  BusTypeOK'
<1> USE DEF BusTypeOK
<1>1. CASE AcquireShared(u)
    BY <1>1 DEF AcquireShared
<1>2. CASE AcquireInstall
    BY <1>2 DEF AcquireInstall
<1>3. CASE AcquireCommit(u)
    BY <1>3 DEF AcquireCommit
<1>4. CASE Release(u)
    <2>1. ref_cnt' \in Nat /\ held' \in [Users -> Nat]
        BY <1>4 DEF Release
    <2>2. driver' \in BOOLEAN
        BY <1>4 DEF Release
    <2>3. QED
        BY <2>1, <2>2
<1>5. CASE AcquireFails \/ UNCHANGED busVars
    BY <1>5 DEF AcquireFails, busVars
<1>6. QED
    BY <1>1, <1>2, <1>3, <1>4, <1>5

\* What a byte written to the expander makes of the two pins.
LEMMA ExioType ==
    \A byte \in 0..255 : ExioOf(byte) \in [cs : {0, 1}, bl : {0, 1}]
BY DEF ExioOf

LEMMA MountStepType ==
    ASSUME BusTypeOK, MountTypeOK, MountStep
    PROVE  BusTypeOK' /\ MountTypeOK'
<1>1. BusTypeOK'
    <2>1. \/ AcquireShared("storage") \/ AcquireInstall \/ AcquireCommit("storage")
          \/ AcquireFails \/ Release("storage") \/ UNCHANGED busVars
        BY DEF MountStep, MountAcquire, MountCommit, MountMode, MountSelect,
               MountSpi, MountFilesystem, MountCleanup
    <2>2. QED
        BY <2>1, BusType DEF Users
<1>2. MountTypeOK'
    <2>1. exio' \in [cs : {0, 1}, bl : {0, 1}]
        BY ExioType DEF MountTypeOK, MountStep, MountAcquire, MountCommit, MountMode,
               MountSelect, MountSpi, MountFilesystem, MountCleanup, SelectCard
    <2>2. stage' \in Stages /\ ret' \in {"none", "ok", "fail"}
        BY DEF MountTypeOK, Stages, MountStep, MountAcquire, MountCommit, MountMode,
               MountSelect, MountSpi, MountFilesystem, MountCleanup, Return
    <2>3. spi' \in {"free", "bus", "device"} /\ is_mounted' \in BOOLEAN
        BY DEF MountTypeOK, MountStep, MountAcquire, MountCommit, MountMode,
               MountSelect, MountSpi, MountFilesystem, MountCleanup, SpiFreed
    <2>4. QED
        BY <2>1, <2>2, <2>3 DEF MountTypeOK
<1>3. QED
    BY <1>1, <1>2

LEMMA NextType == TypeOK /\ [Next]_vars => TypeOK'
<1> SUFFICES ASSUME TypeOK, [Next]_vars PROVE TypeOK'
    OBVIOUS
<1>1. BusTypeOK' /\ MountTypeOK'
    <2>1. CASE SdMount
        BY <2>1, MountStepType DEF SdMount, TypeOK
    <2>2. CASE SdDelay
        BY <2>2 DEF SdDelay, CallMount, TypeOK, BusTypeOK, MountTypeOK, Stages, busVars
    <2>3. CASE LcdAcquire \/ LcdCommit \/ BacklightAcquire \/ BacklightCommit
        <3>1. \E u \in Users : AcquireShared(u) \/ AcquireInstall \/ AcquireCommit(u) \/ AcquireFails
            BY <2>3 DEF LcdAcquire, LcdCommit, BacklightAcquire, BacklightCommit, Users
        <3>2. UNCHANGED mountVars
            BY <2>3 DEF LcdAcquire, LcdCommit, BacklightAcquire, BacklightCommit
        <3>3. QED
            BY <3>1, <3>2, BusType DEF TypeOK, MountTypeOK, mountVars
    <2>4. CASE BacklightOn
        <3>1. ExioOf(30) \in [cs : {0, 1}, bl : {0, 1}]
            BY ExioType
        <3>2. exio' \in [cs : {0, 1}, bl : {0, 1}]
            BY <2>4, <3>1 DEF BacklightOn, TypeOK, MountTypeOK
        <3>3. UNCHANGED <<busVars, stage, ret, spi, is_mounted>>
            BY <2>4 DEF BacklightOn
        <3>4. QED
            BY <3>2, <3>3 DEF TypeOK, BusTypeOK, MountTypeOK, busVars
    <2>5. CASE ~(SdMount \/ SdDelay \/ LcdAcquire \/ LcdCommit \/ BacklightAcquire
                 \/ BacklightCommit \/ BacklightOn)
        <3>1. UNCHANGED <<busVars, mountVars>>
            BY <2>5 DEF Next, SdNext, AppNext, Stopped, vars, SdMountFailed, SdOpenDir,
                        SdLoadFile, SdPreloaded, SdJudge, SdReport, SdSend, AppCreateQueue,
                        AppSpawn, AppReceive, LcdPanel, LcdLvgl, LcdCallbacks, AppLock,
                        AppShow, AppDeleteQueue
        <3>2. QED
            BY <3>1 DEF TypeOK, BusTypeOK, MountTypeOK, busVars, mountVars
    <2>6. QED
        BY <2>1, <2>2, <2>3, <2>4, <2>5
<1>2. app' \in AppPlaces /\ sd' \in SdPlaces
    BY DEF TypeOK, AppPlaces, SdPlaces, Waiting, BringUp, Final, Next, SdNext, AppNext,
           Stopped, vars, sdVars, appVars, SdDelay, SdMount, SdMountFailed, SdOpenDir,
           SdLoadFile, SdPreloaded, SdJudge, SdReport, SdSend, AppCreateQueue, AppSpawn,
           AppReceive, LcdPanel, LcdAcquire, LcdCommit, LcdLvgl, LcdCallbacks,
           BacklightAcquire, BacklightCommit, BacklightOn, AppLock, AppShow, AppDeleteQueue
<1>3. attempt' \in 1..SD_MOUNT_RETRIES /\ g_image_count' \in 0..MAX_IMAGES
    <2>1. CASE SdMountFailed
        BY <2>1, BootAssumption DEF TypeOK, SdMountFailed
    <2>2. CASE SdOpenDir \/ SdLoadFile
        <3>1. attempt' = attempt
            BY <2>2 DEF SdOpenDir, SdLoadFile
        <3>2. g_image_count' \in 0..MAX_IMAGES
            BY <2>2, BootAssumption DEF TypeOK, SdOpenDir, SdLoadFile
        <3>3. QED
            BY <3>1, <3>2 DEF TypeOK
    <2>3. CASE ~(SdMountFailed \/ SdOpenDir \/ SdLoadFile)
        <3>1. UNCHANGED <<attempt, g_image_count>>
            BY <2>3 DEF Next, SdNext, AppNext, Stopped, vars, sdVars, taskVars, SdDelay,
                   SdMount, SdPreloaded, SdJudge, SdReport, SdSend, AppCreateQueue, AppSpawn,
                   AppReceive, LcdPanel, LcdAcquire, LcdCommit, LcdLvgl, LcdCallbacks,
                   BacklightAcquire, BacklightCommit, BacklightOn, AppLock, AppShow, AppDeleteQueue
        <3>2. QED
            BY <3>1 DEF TypeOK
    <2>4. QED
        BY <2>1, <2>2, <2>3
<1>4. evt' \in Events /\ queue' \in {<<>>} \cup {<<e>> : e \in Events} /\ sd_evt' \in Events
    <2>1. CASE SdJudge \/ SdReport
        <3>1. \A m \in Msgs : [evt EXCEPT !.msg = m] \in Events
            BY DEF TypeOK, Events
        <3>2. [ok |-> TRUE, msg |-> "mounted"] \in Events
            BY DEF Events, Msgs
        <3>3. evt' \in Events
            BY <2>1, <3>1, <3>2 DEF TypeOK, SdJudge, SdReport, Msgs
        <3>4. UNCHANGED <<queue, sd_evt>>
            BY <2>1 DEF SdJudge, SdReport, queueVars, appVars, uiVars
        <3>5. QED
            BY <3>3, <3>4 DEF TypeOK
    <2>2. CASE SdSend
        BY <2>2 DEF TypeOK, SdSend, taskVars, appVars, uiVars
    <2>3. CASE AppReceive
        BY <2>3, QueueOfOne DEF TypeOK, AppReceive, sdVars, taskVars
    <2>4. CASE AppDeleteQueue
        BY <2>4 DEF TypeOK, AppDeleteQueue, sdVars, taskVars, uiVars
    <2>5. CASE ~(SdJudge \/ SdReport \/ SdSend \/ AppReceive \/ AppDeleteQueue)
        <3>1. UNCHANGED <<evt, queue, sd_evt>>
            BY <2>5 DEF Next, SdNext, AppNext, Stopped, vars, sdVars, taskVars, queueVars,
                   appVars, uiVars, SdDelay, SdMount, SdMountFailed, SdOpenDir, SdLoadFile,
                   SdPreloaded, AppCreateQueue, AppSpawn, LcdPanel, LcdAcquire, LcdCommit,
                   LcdLvgl, LcdCallbacks, BacklightAcquire, BacklightCommit, BacklightOn,
                   AppLock, AppShow
        <3>2. QED
            BY <3>1 DEF TypeOK
    <2>6. QED
        BY <2>1, <2>2, <2>3, <2>4, <2>5
<1>5. ui_evt_q' \in BOOLEAN /\ lvgl_mux' \in BOOLEAN /\ screen' \in {"blank", "slides", "label"}
    BY DEF TypeOK, Next, SdNext, AppNext, Stopped, vars, queueVars, appVars, uiVars,
           SdDelay, SdMount, SdMountFailed, SdOpenDir, SdLoadFile, SdPreloaded, SdJudge,
           SdReport, SdSend, AppCreateQueue, AppSpawn, AppReceive, LcdPanel, LcdAcquire,
           LcdCommit, LcdLvgl, LcdCallbacks, BacklightAcquire, BacklightCommit, BacklightOn,
           AppLock, AppShow, AppDeleteQueue
<1>6. QED
    BY <1>1, <1>2, <1>3, <1>4, <1>5 DEF TypeOK

\* Every variable of the boot has its type; the picture table never overflows.
THEOREM TypeCorrect == Spec => []TypeOK
BY InitType, NextType, PTL DEF Spec

-----------------------------------------------------------------------------
(***************************************************************************)
(* The hand-over, alone inductive.                                         *)
(***************************************************************************)
LEMMA InitHandoff == Init => Handoff
BY DEF Init, MountInit, Handoff, SdRunning, Waiting

LEMMA NextHandoff == TypeOK /\ Handoff /\ [Next]_vars => Handoff'
<1> SUFFICES ASSUME TypeOK, Handoff, [Next]_vars PROVE Handoff'
    OBVIOUS
<1> USE DEF Handoff, SdRunning, Waiting, mountVars, taskVars, sdVars, queueVars, appVars, uiVars
<1>1. CASE SdDelay
    BY <1>1 DEF SdDelay, CallMount
<1>2. CASE SdMount
    <2>1. UNCHANGED <<sdVars, queueVars, appVars>> /\ sd = "mount"
        BY <1>2 DEF SdMount
    <2>2. QED
        BY <2>1
<1>3. CASE SdMountFailed \/ SdOpenDir \/ SdLoadFile \/ SdPreloaded \/ SdJudge \/ SdReport
    <2>1. /\ SdRunning /\ SdRunning' /\ UNCHANGED <<stage, queueVars, appVars>>
          /\ stage # "idle" => sd' = "mount"
        BY <1>3 DEF SdMountFailed, SdOpenDir, SdLoadFile, SdPreloaded, SdJudge, SdReport
    <2>2. QED
        BY <2>1
<1>4. CASE SdSend
    BY <1>4 DEF SdSend
<1>5. CASE AppCreateQueue
    BY <1>5 DEF AppCreateQueue
<1>6. CASE AppSpawn
    BY <1>6 DEF AppSpawn
<1>7. CASE AppReceive
    <2>1. queue' = <<>> /\ app = "receive" /\ app' = "panel"
        BY <1>7, QueueOfOne DEF AppReceive
    <2>2. sd = "gone" /\ UNCHANGED <<stage, sdVars, ui_evt_q>>
        BY <1>7 DEF AppReceive
    <2>3. QED
        BY <2>1, <2>2
<1>8. CASE AppDeleteQueue
    BY <1>8 DEF AppDeleteQueue
<1>9. CASE \/ LcdPanel \/ LcdAcquire \/ LcdCommit \/ LcdLvgl \/ LcdCallbacks \/ BacklightAcquire
           \/ BacklightCommit \/ BacklightOn \/ AppLock \/ AppShow
    <2>1. /\ app \notin {"start", "spawn", "receive", "hung", "done"}
          /\ app' \notin {"start", "spawn", "receive", "hung", "done"}
          /\ UNCHANGED <<stage, sd, queueVars>>
        BY <1>9 DEF LcdPanel, LcdAcquire, LcdCommit, LcdLvgl, LcdCallbacks, BacklightAcquire,
                    BacklightCommit, BacklightOn, AppLock, AppShow
    <2>2. QED
        BY <2>1
<1>10. CASE UNCHANGED vars
    BY <1>10 DEF vars
<1>11. QED
    BY <1>1, <1>2, <1>3, <1>4, <1>5, <1>6, <1>7, <1>8, <1>9, <1>10
       DEF Next, SdNext, AppNext, Stopped

\* The queue is there for the mount task until its last send.
THEOREM QueueSafe == Spec => []QueueOutlivesSender
<1>1. TypeOK /\ Handoff => QueueOutlivesSender
    BY DEF TypeOK, Handoff, QueueOutlivesSender, SdRunning
<1>2. QED
    BY <1>1, InitType, NextType, InitHandoff, NextHandoff, PTL DEF Spec

-----------------------------------------------------------------------------
(***************************************************************************)
(* The card: it is selected by a successful write of the storage manager,  *)
(* and the only other write, the one for the backlight, comes when the     *)
(* mount task is gone.                                                     *)
(***************************************************************************)
LEMMA SelectCardSelects == SelectCard.cs = 0
BY DEF SelectCard, ExioOf

LEMMA InitCard == Init => CardInv
BY DEF Init, MountInit, CardInv

LEMMA NextCard == TypeOK /\ Handoff /\ CardInv /\ [Next]_vars => CardInv'
<1> SUFFICES ASSUME TypeOK, Handoff, CardInv, [Next]_vars PROVE CardInv'
    OBVIOUS
<1> USE DEF CardInv, CardSelected
<1>1. CASE SdDelay
    BY <1>1 DEF SdDelay, CallMount
<1>2. CASE SdMount
    <2>1. sd = "mount" /\ sd' = "mount"
        BY <1>2 DEF SdMount, sdVars
    <2>2. CASE MountAcquire \/ MountCommit \/ MountMode \/ MountCleanup
        BY <2>1, <2>2 DEF MountAcquire, MountCommit, MountMode, MountCleanup, Return
    <2>3. CASE MountSelect
        BY <2>1, <2>3, SelectCardSelects DEF MountSelect, Return
    <2>4. CASE MountSpi \/ MountFilesystem
        BY <2>1, <2>4 DEF MountSpi, MountFilesystem, Return
    <2>5. QED
        BY <1>2, <2>2, <2>3, <2>4 DEF SdMount, MountStep
<1>3. CASE SdOpenDir
    BY <1>3 DEF SdOpenDir, mountVars
<1>4. CASE SdMountFailed \/ SdLoadFile \/ SdPreloaded \/ SdJudge \/ SdReport \/ SdSend \/ AppSpawn
    <2>1. UNCHANGED mountVars /\ (sd' = sd \/ sd' \notin {"mount", "preload"})
        BY <1>4 DEF SdMountFailed, SdLoadFile, SdPreloaded, SdJudge, SdReport, SdSend, AppSpawn
    <2>2. QED
        BY <2>1 DEF mountVars
<1>5. CASE BacklightOn
    <2>1. sd = "gone" /\ sd' = "gone" /\ stage = "idle" /\ stage' = "idle"
        BY <1>5 DEF BacklightOn, sdVars, Handoff, SdRunning, Waiting
    <2>2. QED
        BY <2>1
<1>6. CASE \/ AppCreateQueue \/ AppReceive \/ LcdPanel \/ LcdAcquire \/ LcdCommit \/ LcdLvgl
           \/ LcdCallbacks \/ BacklightAcquire \/ BacklightCommit \/ AppLock \/ AppShow
           \/ AppDeleteQueue \/ UNCHANGED vars
    <2>1. UNCHANGED <<mountVars, sd>>
        BY <1>6 DEF AppCreateQueue, AppReceive, LcdPanel, LcdAcquire, LcdCommit, LcdLvgl,
                    LcdCallbacks, BacklightAcquire, BacklightCommit, AppLock, AppShow,
                    AppDeleteQueue, vars, sdVars
    <2>2. QED
        BY <2>1 DEF mountVars
<1>7. QED
    BY <1>1, <1>2, <1>3, <1>4, <1>5, <1>6 DEF Next, SdNext, AppNext, Stopped

\* The card is selected whenever the FAT driver or the preload reads it.
THEOREM CardSafe == Spec => []CardSelectedWhileRead
<1>1. CardInv => CardSelectedWhileRead
    BY DEF CardInv, CardSelectedWhileRead, Reading
<1>2. QED
    BY <1>1, InitType, NextType, InitHandoff, NextHandoff, InitCard, NextCard, PTL DEF Spec

-----------------------------------------------------------------------------
(***************************************************************************)
(* The account of the I2C references.  The steps of the bus keep it, as    *)
(* long as a first acquisition is not overtaken.                           *)
(***************************************************************************)
LEMMA Booked ==
    ASSUME BusTypeOK, RefsAccounted, NEW u \in Users,
           \/ AcquireShared(u)
           \/ AcquireInstall
           \/ AcquireCommit(u) /\ ref_cnt = 0 /\ driver
           \/ AcquireFails
           \/ Release(u) /\ held[u] > 0
           \/ UNCHANGED busVars
    PROVE  RefsAccounted'
<1> USE DEF BusTypeOK, RefsAccounted, TotalHeld, Users
<1>1. CASE AcquireShared(u)
    BY <1>1 DEF AcquireShared
<1>2. CASE AcquireInstall
    BY <1>2 DEF AcquireInstall
<1>3. CASE AcquireCommit(u) /\ ref_cnt = 0 /\ driver
    BY <1>3 DEF AcquireCommit
<1>4. CASE Release(u) /\ held[u] > 0
    <2>1. ref_cnt > 0 /\ held["storage"] \in Nat /\ held["lcd"] \in Nat /\ held["backlight"] \in Nat
        BY <1>4
    <2>2. /\ ref_cnt' = ref_cnt - 1
          /\ \A v \in Users : held'[v] = IF v = u THEN held[v] - 1 ELSE held[v]
        BY <1>4, <2>1 DEF Release
    <2>3. ref_cnt' = TotalHeld'
        BY <2>1, <2>2
    <2>4. ref_cnt' > 0 => driver'
        <3>1. ref_cnt' > 0 => ref_cnt # 1
            BY <2>1, <2>2
        <3>2. driver
            BY <2>1
        <3>3. driver' = (driver /\ ref_cnt # 1)
            BY <1>4, Zenon DEF Release
        <3>4. QED
            BY <3>1, <3>2, <3>3, Zenon
    <2>5. QED
        BY <2>3, <2>4
<1>5. CASE AcquireFails \/ UNCHANGED busVars
    BY <1>5 DEF AcquireFails, busVars
<1>6. QED
    BY <1>1, <1>2, <1>3, <1>4, <1>5

LEMMA InitBus == Init => BusInv
BY DEF Init, BusInit, MountInit, BusInv, RefsAccounted, TotalHeld, Users

LEMMA NextBus == TypeOK /\ Handoff /\ BusInv /\ [Next]_vars => BusInv'
<1> SUFFICES ASSUME TypeOK, Handoff, BusInv, [Next]_vars PROVE BusInv'
    OBVIOUS
<1>u. BusTypeOK /\ RefsAccounted /\ Users = {"storage", "lcd", "backlight"}
    BY DEF TypeOK, BusInv, Users
<1>1. CASE SdDelay
    <2>1. UNCHANGED busVars /\ stage' = "acquire" /\ app' = app /\ app = "receive"
        BY <1>1 DEF SdDelay, CallMount, appVars, Handoff, SdRunning
    <2>2. RefsAccounted'
        BY <1>u, <2>1, Booked
    <2>3. QED
        BY <2>1, <2>2 DEF BusInv, busVars
<1>2. CASE SdMount
    <2>1. app' = app /\ app = "receive"
        BY <1>2 DEF SdMount, appVars, Handoff, SdRunning
    <2>2. CASE MountAcquire
        <3>1. AcquireShared("storage") \/ AcquireInstall \/ AcquireFails
            BY <2>2 DEF MountAcquire
        <3>2. RefsAccounted'
            BY <1>u, <3>1, Booked
        <3>3. stage' = "commit" => ref_cnt' = 0 /\ driver'
            BY <2>2 DEF MountAcquire, AcquireInstall, Return
        <3>4. stage' = "mode" => held'["storage"] > 0
            BY <2>2, <1>u DEF MountAcquire, AcquireShared, Return, BusTypeOK
        <3>5. stage' \in {"commit", "mode", "idle"}
            BY <2>2 DEF MountAcquire, Return
        <3>6. QED
            BY <2>1, <3>2, <3>3, <3>4, <3>5 DEF BusInv
    <2>3. CASE MountCommit
        <3>1. AcquireCommit("storage") /\ ref_cnt = 0 /\ driver /\ stage' = "mode"
            BY <2>3 DEF MountCommit, BusInv
        <3>2. RefsAccounted'
            BY <1>u, <3>1, Booked
        <3>3. held'["storage"] > 0
            BY <3>1, <1>u DEF AcquireCommit, BusTypeOK
        <3>4. QED
            BY <2>1, <3>1, <3>2, <3>3 DEF BusInv
    <2>4. CASE MountMode \/ MountSelect \/ MountSpi \/ MountFilesystem
        <3>1. UNCHANGED busVars /\ stage \in {"mode", "select", "spi", "fs"}
              /\ stage' \in {"select", "spi", "fs", "cleanup", "idle"}
            BY <2>4 DEF MountMode, MountSelect, MountSpi, MountFilesystem, Return
        <3>2. RefsAccounted'
            BY <1>u, <3>1, Booked
        <3>3. QED
            BY <2>1, <3>1, <3>2 DEF BusInv, busVars
    <2>5. CASE MountCleanup
        <3>1. Release("storage") /\ held["storage"] > 0 /\ stage' = "idle"
            BY <2>5 DEF MountCleanup, BusInv, Return
        <3>2. RefsAccounted'
            BY <1>u, <3>1, Booked
        <3>3. QED
            BY <2>1, <3>1, <3>2 DEF BusInv
    <2>6. QED
        BY <1>2, <2>2, <2>3, <2>4, <2>5 DEF SdMount, MountStep
<1>3. CASE LcdAcquire \/ BacklightAcquire
    <2>1. PICK u \in Users : AcquireShared(u) \/ AcquireInstall \/ AcquireFails
        BY <1>3, <1>u DEF LcdAcquire, BacklightAcquire
    <2>2. RefsAccounted'
        BY <1>u, <2>1, Booked
    <2>3. stage = "idle" /\ stage' = "idle"
        BY <1>3 DEF LcdAcquire, BacklightAcquire, mountVars, Handoff, SdRunning, Waiting
    <2>4. app' \in {"lcdCommit", "backlightCommit"} => ref_cnt' = 0 /\ driver'
        BY <1>3 DEF LcdAcquire, BacklightAcquire, AcquireInstall
    <2>5. QED
        BY <2>2, <2>3, <2>4 DEF BusInv
<1>4. CASE LcdCommit \/ BacklightCommit
    <2>1. PICK u \in Users : AcquireCommit(u)
        BY <1>4, <1>u DEF LcdCommit, BacklightCommit
    <2>2. ref_cnt = 0 /\ driver
        BY <1>4 DEF LcdCommit, BacklightCommit, BusInv
    <2>3. RefsAccounted'
        BY <1>u, <2>1, <2>2, Booked
    <2>4. stage = "idle" /\ stage' = "idle" /\ app' \in {"lvgl", "backlight"}
        BY <1>4 DEF LcdCommit, BacklightCommit, mountVars, Handoff, SdRunning, Waiting
    <2>5. QED
        BY <2>3, <2>4 DEF BusInv
<1>5. CASE ~(SdDelay \/ SdMount \/ LcdAcquire \/ BacklightAcquire \/ LcdCommit \/ BacklightCommit)
    <2>1. /\ UNCHANGED <<busVars, stage>>
          /\ app' \in {"lcdCommit", "backlightCommit"} => app' = app
        BY <1>5 DEF Next, SdNext, AppNext, Stopped, vars, mountVars, appVars, SdMountFailed,
                    SdOpenDir, SdLoadFile, SdPreloaded, SdJudge, SdReport, SdSend,
                    AppCreateQueue, AppSpawn, AppReceive, LcdPanel, LcdLvgl, LcdCallbacks,
                    BacklightOn, AppLock, AppShow, AppDeleteQueue
    <2>2. RefsAccounted'
        BY <1>u, <2>1, Booked
    <2>3. QED
        BY <2>1, <2>2 DEF BusInv, busVars
<1>6. QED
    BY <1>1, <1>2, <1>3, <1>4, <1>5

\* The I2C references add up, and no user is left without a driver.
THEOREM BusSafe == Spec => []RefsAccounted
<1>1. BusInv => RefsAccounted
    BY DEF BusInv
<1>2. QED
    BY <1>1, InitType, NextType, InitHandoff, NextHandoff, InitBus, NextBus, PTL DEF Spec

-----------------------------------------------------------------------------
(***************************************************************************)
(* The event: its flag and the number of pictures agree from the moment    *)
(* the mount task judges them until the screen is made.                    *)
(***************************************************************************)
LEMMA InitEvent == Init => EventInv /\ ScreenTellsTheCard
<1> SUFFICES ASSUME Init
             PROVE  EventInv /\ ScreenTellsTheCard
    OBVIOUS
<1>1. evt = [ok |-> FALSE, msg |-> ""]
    BY DEF Init, NoEvent
<1>2. ~evt.ok
    BY <1>1
<1>3. app = "start" /\ sd = "none" /\ g_image_count = 0 /\ screen = "blank"
    BY DEF Init
<1>4. QED
    BY <1>2, <1>3 DEF EventInv, ScreenTellsTheCard, Waiting

LEMMA NextEvent ==
    TypeOK /\ Handoff /\ EventInv /\ ScreenTellsTheCard /\ [Next]_vars
        => EventInv' /\ ScreenTellsTheCard'
<1> SUFFICES ASSUME TypeOK, Handoff, EventInv, ScreenTellsTheCard, [Next]_vars
             PROVE  EventInv' /\ ScreenTellsTheCard'
    OBVIOUS
<1> USE DEF EventInv, ScreenTellsTheCard, Waiting
<1>c. g_image_count \in Nat
    BY BootAssumption DEF TypeOK
<1>1. CASE SdNext
    <2>1. app = "receive" /\ UNCHANGED appVars
        <3>1. SdRunning
            BY <1>1 DEF SdNext, SdDelay, SdMount, SdMountFailed, SdOpenDir, SdLoadFile,
                        SdPreloaded, SdJudge, SdReport, SdSend, SdRunning
        <3>2. UNCHANGED appVars
            BY <1>1 DEF SdNext, SdDelay, SdMount, SdMountFailed, SdOpenDir, SdLoadFile,
                        SdPreloaded, SdJudge, SdReport, SdSend
        <3>3. QED
            BY <3>1, <3>2 DEF Handoff
    <2>2. app' = "receive" /\ screen' = "blank"
        BY <2>1 DEF appVars, uiVars
    <2>3. CASE SdDelay \/ SdMount \/ SdMountFailed
        <3>1. UNCHANGED <<evt, g_image_count>> /\ sd \in {"delay", "mount"}
              /\ sd' \in {"delay", "mount", "report"}
            BY <2>3 DEF SdDelay, SdMount, SdMountFailed, taskVars, sdVars
        <3>2. QED
            BY <2>2, <3>1
    <2>4. CASE SdOpenDir \/ SdLoadFile \/ SdPreloaded
        <3>1. evt' = evt /\ sd \in {"mount", "preload"} /\ sd' \in {"preload", "judge"}
            BY <2>4 DEF SdOpenDir, SdLoadFile, SdPreloaded, taskVars
        <3>2. QED
            BY <2>2, <3>1
    <2>5. CASE SdJudge
        <3>1. g_image_count' = g_image_count /\ sd = "judge" /\ sd' = "report"
            BY <2>5 DEF SdJudge
        <3>2. evt'.ok <=> g_image_count > 0
            <4>1. CASE g_image_count > 0
                BY <2>5, <4>1 DEF SdJudge
            <4>2. CASE ~(g_image_count > 0)
                <5>1. evt'.ok = evt.ok
                    BY <2>5, <4>2 DEF SdJudge, TypeOK, Events
                <5>2. ~evt.ok
                    BY <3>1
                <5>3. QED
                    BY <4>2, <5>1, <5>2
            <4>3. QED
                BY <4>1, <4>2
        <3>3. QED
            BY <2>2, <3>1, <3>2
    <2>6. CASE SdReport
        <3>1. g_image_count' = g_image_count /\ sd = "report" /\ sd' = "send"
            BY <2>6 DEF SdReport
        <3>2. evt'.ok = evt.ok
            BY <2>6 DEF SdReport, TypeOK, Events
        <3>3. QED
            BY <2>2, <3>1, <3>2
    <2>7. CASE SdSend
        BY <2>2, <2>7 DEF SdSend, taskVars
    <2>8. QED
        BY <1>1, <2>3, <2>4, <2>5, <2>6, <2>7 DEF SdNext
<1>2. CASE AppCreateQueue \/ AppSpawn
    <2>1. UNCHANGED <<taskVars, uiVars>> /\ app \in Waiting /\ app' \in Waiting \cup {"hung"}
          /\ sd = "none" /\ sd' \in {"none", "delay"}
        BY <1>2 DEF AppCreateQueue, AppSpawn, sdVars, Handoff, SdRunning
    <2>2. QED
        BY <2>1 DEF taskVars, uiVars
<1>3. CASE AppReceive
    <2>1. sd = "gone" /\ sd_evt' = evt
        <3>1. queue # <<>> /\ app = "receive" /\ sd_evt' = Head(queue)
            BY <1>3 DEF AppReceive
        <3>2. sd = "gone"
            BY <3>1 DEF Handoff, SdRunning
        <3>3. queue = <<evt>>
            BY <3>1, <3>2 DEF Handoff
        <3>4. QED
            BY <3>1, <3>2, <3>3
    <2>2. UNCHANGED <<sd, evt, g_image_count, screen>> /\ app = "receive" /\ app' = "panel"
        BY <1>3 DEF AppReceive, sdVars, taskVars
    <2>3. QED
        BY <2>1, <2>2
<1>4. CASE AppShow
    <2>1. UNCHANGED <<sd, evt, g_image_count, sd_evt>> /\ app = "ui" /\ app' = "delete"
        BY <1>4 DEF AppShow, sdVars, taskVars
    <2>2. screen' = IF sd_evt.ok /\ g_image_count > 0 THEN "slides" ELSE "label"
        BY <1>4 DEF AppShow
    <2>3. QED
        BY <2>1, <2>2
<1>5. CASE \/ LcdPanel \/ LcdAcquire \/ LcdCommit \/ LcdLvgl \/ LcdCallbacks \/ BacklightAcquire
           \/ BacklightCommit \/ BacklightOn \/ AppLock
    <2>1. /\ app \notin Waiting \cup {"hung", "delete", "done"}
          /\ app' \notin Waiting \cup {"hung", "delete", "done"}
          /\ UNCHANGED <<sd, evt, g_image_count, sd_evt, screen>>
        BY <1>5 DEF LcdPanel, LcdAcquire, LcdCommit, LcdLvgl, LcdCallbacks, BacklightAcquire,
                    BacklightCommit, BacklightOn, AppLock, sdVars, taskVars, uiVars
    <2>2. QED
        BY <2>1
<1>6. CASE AppDeleteQueue
    BY <1>6 DEF AppDeleteQueue, sdVars, taskVars, uiVars
<1>7. CASE UNCHANGED vars
    BY <1>7 DEF vars, sdVars, taskVars, appVars, uiVars
<1>8. QED
    BY <1>1, <1>2, <1>3, <1>4, <1>5, <1>6, <1>7 DEF Next, AppNext, Stopped

\* The screen shows slides exactly when pictures were preloaded.
THEOREM ScreenSafe == Spec => []ScreenTellsTheCard
BY InitType, NextType, InitHandoff, NextHandoff, InitEvent, NextEvent, PTL DEF Spec

=============================================================================
