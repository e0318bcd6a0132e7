-------------------------------- MODULE Boot --------------------------------
(***************************************************************************)
(* The start of the firmware (main/main.c with the bring-up in             *)
(* main/waveshare_rgb_lcd_port.c): app_main() on one side, the task that   *)
(* mounts the card and preloads its pictures on the other, a queue of one  *)
(* event between them.                                                     *)
(*                                                                         *)
(* Both tasks use the I2C expander.  The storage manager selects the card  *)
(* with it, and switching the backlight on deselects the card; the I2C     *)
(* reference counter is not protected by a lock either.  Nothing but the   *)
(* order of the boot keeps the two apart.                                  *)
(***************************************************************************)
EXTENDS StorageManager, Sequences

CONSTANTS
    MAX_IMAGES,         \* size of g_images
    SD_MOUNT_RETRIES    \* how often a mount is attempted

ASSUME BootAssumption ==
    /\ MAX_IMAGES \in Nat \ {0}
    /\ SD_MOUNT_RETRIES \in Nat \ {0}

VARIABLES
    app,            \* where app_main() is
    sd,             \* where sd_mount_task() is
    attempt,        \* its loop counter
    evt,            \* the event it prepares
    g_image_count,  \* preloaded pictures
    queue,          \* contents of ui_evt_q
    ui_evt_q,       \* does the queue exist?
    sd_evt,         \* the event app_main() has received
    lvgl_mux,       \* has lvgl_port_init() created the LVGL mutex?
    screen          \* what app_main() has put on the screen

taskVars == <<attempt, evt, g_image_count>>
sdVars == <<sd, taskVars>>
queueVars == <<queue, ui_evt_q>>
uiVars == <<sd_evt, lvgl_mux, screen>>
appVars == <<app, uiVars>>
vars == <<busVars, mountVars, sdVars, queueVars, appVars>>

Waiting == {"start", "spawn", "receive"}
BringUp == {"panel", "lcdAcquire", "lcdCommit", "lvgl", "callbacks",
            "backlightAcquire", "backlightCommit", "backlight"}
Final == {"done", "hung", "aborted"}
AppPlaces == Waiting \cup BringUp \cup {"lock", "ui", "delete"} \cup Final
SdPlaces == {"none", "delay", "mount", "preload", "judge", "report", "send", "gone"}

\* "SD mounted (n)", "No images" and "SD mount failed".
Msgs == {"", "mounted", "noImages", "mountFailed"}
Events == [ok : BOOLEAN, msg : Msgs]
NoEvent == [ok |-> FALSE, msg |-> ""]

-----------------------------------------------------------------------------
(***************************************************************************)
(* sd_mount_task().                                                        *)
(***************************************************************************)
SdDelay ==
    /\ sd = "delay"
    /\ sd' = "mount"
    /\ CallMount
    /\ UNCHANGED <<taskVars, queueVars, appVars>>

SdMount ==
    /\ sd = "mount"
    /\ MountStep
    /\ UNCHANGED <<sdVars, queueVars, appVars>>

SdMountFailed ==
    /\ sd = "mount"
    /\ stage = "idle"
    /\ ret = "fail"
    /\ \/ attempt < SD_MOUNT_RETRIES /\ attempt' = attempt + 1 /\ sd' = "delay"
       \/ attempt = SD_MOUNT_RETRIES /\ sd' = "report" /\ UNCHANGED attempt
    /\ UNCHANGED <<busVars, mountVars, evt, g_image_count, queueVars, appVars>>

(***************************************************************************)
(* preload_all_images(): a directory that cannot be opened leaves the      *)
(* count as it was; a picture at a time after that, until the directory,   *)
(* the table or the memory limit ends.                                     *)
(***************************************************************************)
SdOpenDir ==
    /\ sd = "mount"
    /\ stage = "idle"
    /\ ret = "ok"
    /\ \/ sd' = "preload" /\ g_image_count' = 0
       \/ MayFail("opendir") /\ sd' = "judge" /\ UNCHANGED g_image_count
    /\ UNCHANGED <<busVars, mountVars, attempt, evt, queueVars, appVars>>

\* Mutant of SdLoadFile: the table of pictures has no end.
SdLoadFile_Mut ==
    /\ sd = "preload"
    /\ g_image_count' = g_image_count + 1
    /\ g_image_count <= MAX_IMAGES
    /\ UNCHANGED <<busVars, mountVars, sd, attempt, evt, queueVars, appVars>>

SdLoadFile ==
    /\ sd = "preload"
    /\ g_image_count < MAX_IMAGES
    /\ g_image_count' = g_image_count + 1
    /\ UNCHANGED <<busVars, mountVars, sd, attempt, evt, queueVars, appVars>>

SdPreloaded ==
    /\ sd = "preload"
    /\ sd' = "judge"
    /\ UNCHANGED <<busVars, mountVars, taskVars, queueVars, appVars>>

\* Mutant of SdJudge: the success is put into words only.
SdJudge_Mut ==
    /\ sd = "judge"
    /\ evt' = [evt EXCEPT !.msg = IF g_image_count > 0 THEN "mounted" ELSE "noImages"]
    /\ sd' = "report"
    /\ UNCHANGED <<busVars, mountVars, attempt, g_image_count, queueVars, appVars>>

SdJudge ==
    /\ sd = "judge"
    /\ evt' = IF g_image_count > 0
              THEN [ok |-> TRUE, msg |-> "mounted"]
              ELSE [evt EXCEPT !.msg = "noImages"]
    /\ sd' = "report"
    /\ UNCHANGED <<busVars, mountVars, attempt, g_image_count, queueVars, appVars>>

SdReport ==
    /\ sd = "report"
    /\ evt' = IF ~evt.ok /\ g_image_count = 0
              THEN [evt EXCEPT !.msg = "mountFailed"]
              ELSE evt
    /\ sd' = "send"
    /\ UNCHANGED <<busVars, mountVars, attempt, g_image_count, queueVars, appVars>>

\* Mutant of SdSend: only a success is worth an event.
SdSend_Mut ==
    /\ sd = "send"
    /\ queue = <<>>
    /\ queue' = IF evt.ok THEN <<evt>> ELSE <<>>
    /\ sd' = "gone"
    /\ UNCHANGED <<busVars, mountVars, taskVars, ui_evt_q, appVars>>

(***************************************************************************)
(* xQueueSend() without a time limit on a queue of one item; then the task *)
(* deletes itself.                                                         *)
(***************************************************************************)
SdSend ==
    /\ sd = "send"
    /\ queue = <<>>
    /\ queue' = <<evt>>
    /\ sd' = "gone"
    /\ UNCHANGED <<busVars, mountVars, taskVars, ui_evt_q, appVars>>

SdNext ==
    \/ SdDelay
    \/ SdMount
    \/ SdMountFailed
    \/ SdOpenDir
    \/ SdLoadFile
    \/ SdPreloaded
    \/ SdJudge
    \/ SdReport
    \/ SdSend

-----------------------------------------------------------------------------
(***************************************************************************)
(* app_main() up to the event.  A queue that cannot be created parks the   *)
(* task for ever; a task that cannot be created is not noticed.            *)
(***************************************************************************)
AppCreateQueue ==
    /\ app = "start"
    /\ \/ ui_evt_q' = TRUE /\ app' = "spawn"
       \/ MayFail("queue") /\ app' = "hung" /\ UNCHANGED ui_evt_q
    /\ UNCHANGED <<busVars, mountVars, sdVars, queue, uiVars>>

AppSpawn ==
    /\ app = "spawn"
    /\ app' = "receive"
    /\ sd' = "delay" \/ (MayFail("task") /\ UNCHANGED sd)
    /\ UNCHANGED <<busVars, mountVars, taskVars, queueVars, uiVars>>

\* Mutant of AppReceive: a receive with a time limit that has run out.
AppReceive_Mut ==
    /\ app = "receive"
    /\ sd_evt' = IF queue = <<>> THEN NoEvent ELSE Head(queue)
    /\ queue' = <<>>
    /\ app' = "panel"
    /\ UNCHANGED <<busVars, mountVars, sdVars, ui_evt_q, lvgl_mux, screen>>

AppReceive ==
    /\ app = "receive"
    /\ queue # <<>>
    /\ sd_evt' = Head(queue)
    /\ queue' = Tail(queue)
    /\ app' = "panel"
    /\ UNCHANGED <<busVars, mountVars, sdVars, ui_evt_q, lvgl_mux, screen>>

(***************************************************************************)
(* waveshare_esp32_s3_rgb_lcd_init().  A panel or an LVGL that does not    *)
(* come up halts the chip; a failed i2c_bus_acquire() returns before       *)
(* lvgl_port_init(), and app_main() only logs that.                        *)
(***************************************************************************)
LcdPanel ==
    /\ app = "panel"
    /\ app' = "lcdAcquire" \/ (MayFail("panel") /\ app' = "aborted")
    /\ UNCHANGED <<busVars, mountVars, sdVars, queueVars, uiVars>>

LcdAcquire ==
    /\ app = "lcdAcquire"
    /\ \/ AcquireShared("lcd") /\ app' = "lvgl"
       \/ AcquireInstall /\ app' = "lcdCommit"
       \/ AcquireFails /\ app' = "backlightAcquire"
    /\ UNCHANGED <<mountVars, sdVars, queueVars, uiVars>>

LcdCommit ==
    /\ app = "lcdCommit"
    /\ AcquireCommit("lcd")
    /\ app' = "lvgl"
    /\ UNCHANGED <<mountVars, sdVars, queueVars, uiVars>>

LcdLvgl ==
    /\ app = "lvgl"
    /\ \/ lvgl_mux' = TRUE /\ app' = "callbacks"
       \/ MayFail("lvgl") /\ app' = "aborted" /\ UNCHANGED lvgl_mux
    /\ UNCHANGED <<busVars, mountVars, sdVars, queueVars, sd_evt, screen>>

LcdCallbacks ==
    /\ app = "callbacks"
    /\ app' = "backlightAcquire" \/ (MayFail("panel") /\ app' = "aborted")
    /\ UNCHANGED <<busVars, mountVars, sdVars, queueVars, uiVars>>

(***************************************************************************)
(* wavesahre_rgb_lcd_bl_on(): the results of its two writes are ignored.   *)
(* The byte that lights the backlight has the card's select bit high.      *)
(***************************************************************************)
BacklightAcquire ==
    /\ app = "backlightAcquire"
    /\ \/ AcquireShared("backlight") /\ app' = "backlight"
       \/ AcquireInstall /\ app' = "backlightCommit"
       \/ AcquireFails /\ app' = "lock"
    /\ UNCHANGED <<mountVars, sdVars, queueVars, uiVars>>

BacklightCommit ==
    /\ app = "backlightCommit"
    /\ AcquireCommit("backlight")
    /\ app' = "backlight"
    /\ UNCHANGED <<mountVars, sdVars, queueVars, uiVars>>

BacklightOn ==
    /\ app = "backlight"
    /\ \/ WriteSucceeds /\ exio' = ExioOf(30)     \* 0x1E
       \/ WriteFails /\ exio' \in {exio, ExioOf(30)}
    /\ app' = "lock"
    /\ UNCHANGED <<busVars, stage, ret, spi, is_mounted, sdVars, queueVars, uiVars>>

(***************************************************************************)
(* The user interface.  lvgl_port_lock() asserts that the mutex exists.    *)
(***************************************************************************)
AppLock ==
    /\ app = "lock"
    /\ app' = IF lvgl_mux THEN "ui" ELSE "aborted"
    /\ UNCHANGED <<busVars, mountVars, sdVars, queueVars, uiVars>>

AppShow ==
    /\ app = "ui"
    /\ screen' = IF sd_evt.ok /\ g_image_count > 0 THEN "slides" ELSE "label"
    /\ app' = "delete"
    /\ UNCHANGED <<busVars, mountVars, sdVars, queueVars, sd_evt, lvgl_mux>>

AppDeleteQueue ==
    /\ app = "delete"
    /\ ui_evt_q' = FALSE
    /\ queue' = <<>>
    /\ app' = "done"
    /\ UNCHANGED <<busVars, mountVars, sdVars, uiVars>>

AppNext ==
    \/ AppCreateQueue
    \/ AppSpawn
    \/ AppReceive
    \/ LcdPanel
    \/ LcdAcquire
    \/ LcdCommit
    \/ LcdLvgl
    \/ LcdCallbacks
    \/ BacklightAcquire
    \/ BacklightCommit
    \/ BacklightOn
    \/ AppLock
    \/ AppShow
    \/ AppDeleteQueue

(***************************************************************************)
(* Where the two tasks may stop for good: app_main() has returned or the   *)
(* chip is halted or parked, or the mount task never came to life.         *)
(***************************************************************************)
NeverSpawned == app = "receive" /\ sd = "none"

Stopped ==
    /\ app \in Final \/ NeverSpawned
    /\ UNCHANGED vars

-----------------------------------------------------------------------------
Init ==
    /\ BusInit
    /\ MountInit
    /\ app = "start"
    /\ sd = "none"
    /\ attempt = 1
    /\ evt = NoEvent
    /\ g_image_count = 0
    /\ queue = <<>>
    /\ ui_evt_q = FALSE
    /\ sd_evt = NoEvent
    /\ lvgl_mux = FALSE
    /\ screen = "blank"

\* A halted chip runs no task.
Next ==
    \/ app # "aborted" /\ SdNext
    \/ AppNext
    \/ Stopped

(***************************************************************************)
(* FreeRTOS runs a ready task of every priority as long as the others      *)
(* block, and all calls of the two tasks return; fairness of each task is  *)
(* all that asks for.                                                      *)
(***************************************************************************)
Spec == Init /\ [][Next]_vars /\ WF_vars(SdNext) /\ WF_vars(AppNext)

-----------------------------------------------------------------------------
\* Every variable has its type; the table of pictures never overflows.
TypeOK ==
    /\ BusTypeOK
    /\ MountTypeOK
    /\ app \in AppPlaces
    /\ sd \in SdPlaces
    /\ attempt \in 1..SD_MOUNT_RETRIES
    /\ evt \in Events
    /\ g_image_count \in 0..MAX_IMAGES
    /\ queue \in {<<>>} \cup {<<e>> : e \in Events}
    /\ ui_evt_q \in BOOLEAN
    /\ sd_evt \in Events
    /\ lvgl_mux \in BOOLEAN
    /\ screen \in {"blank", "slides", "label"}

\* While files are read from the card, by the FAT driver or by the preload,
\* the card is selected: app_main() does not reach the byte that lights the
\* backlight and deselects the card before the preload is over
\* (main.c:173 "complete before the LCD starts", main.c:243).
Reading == stage = "fs" \/ sd = "preload"
CardSelectedWhileRead == Reading => CardSelected

\* The screen says what the card holds: slides exactly when pictures were
\* preloaded, whatever the mount and the preload went through (main.c:249).
ScreenTellsTheCard ==
    screen # "blank" => (screen = "slides" <=> g_image_count > 0)

\* The queue lives as long as the mount task may still use it: app_main()
\* deletes it only after the task's last send (main.c:198, 262).
QueueOutlivesSender == sd \notin {"none", "gone"} /\ app # "aborted" => ui_evt_q

(***************************************************************************)
(* Why these hold.  Handoff: one task runs at a time, and the event hands  *)
(* the hardware from the mount task to app_main().                         *)
(***************************************************************************)
SdRunning == sd \notin {"none", "gone"}

Handoff ==
    /\ SdRunning => app = "receive" /\ queue = <<>>
    /\ sd = "none" => app \in Waiting \cup {"hung"} /\ queue = <<>>
    /\ sd = "gone" => app \notin {"start", "spawn", "hung"}
    /\ sd = "gone" /\ app = "receive" => queue = <<evt>>
    /\ stage # "idle" => sd = "mount"
    /\ app \notin {"start", "hung", "done"} => ui_evt_q

\* The references of the I2C bus at every place of the two tasks.
BusInv ==
    /\ RefsAccounted
    /\ stage = "commit" \/ app \in {"lcdCommit", "backlightCommit"}
          => ref_cnt = 0 /\ driver
    /\ stage \in {"mode", "select", "spi", "fs", "cleanup"} => held["storage"] > 0

\* From the write that selects the card to the end of the preload.
CardInv ==
    /\ stage \in {"spi", "fs"} => CardSelected
    /\ sd = "mount" /\ stage = "idle" /\ ret = "ok" => CardSelected
    /\ sd = "preload" => CardSelected

\* What the event says, from the first mount to the screen.
EventInv ==
    /\ sd \in {"none", "delay", "mount"} => g_image_count = 0
    /\ sd \in {"none", "delay", "mount", "preload", "judge"} => ~evt.ok
    /\ sd \in {"report", "send", "gone"} => (evt.ok <=> g_image_count > 0)
    /\ app \notin Waiting \cup {"hung"} => (sd_evt.ok <=> g_image_count > 0)
    /\ app \notin {"delete", "done"} => screen = "blank"

BootInv == Handoff /\ BusInv /\ CardInv /\ EventInv /\ ScreenTellsTheCard

\* "lvgl_port_init must be called first" (lvgl_port.c:551): app_main() takes
\* the LVGL lock only once lvgl_port_init() has created it.
LockAfterInit == app = "lock" => lvgl_mux

\* Once the mount task runs, the boot ends whatever fails on the way: the
\* screen is up or the chip has halted, and no task waits for ever.
BootSettles == sd = "delay" ~> app \in {"done", "aborted"}

=============================================================================
