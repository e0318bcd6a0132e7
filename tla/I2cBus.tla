------------------------------- MODULE I2cBus -------------------------------
(***************************************************************************)
(* The shared I2C port of the frame (main/i2c_bus_mgr.c): a reference      *)
(* counter in front of the ESP-IDF driver of port 0.  Three parts of the   *)
(* firmware acquire it: the storage manager, the LCD bring-up and the      *)
(* backlight switch.                                                       *)
(*                                                                         *)
(* i2c_bus_acquire() is not atomic: it reads ref_cnt, installs the driver  *)
(* and only then writes ref_cnt.  The module offers each of these steps as *)
(* an operator; the modules that extend it put them in the control flow of *)
(* a task.                                                                 *)
(***************************************************************************)
EXTENDS Integers

CONSTANTS
    Faults      \* the external calls that may fail in this instance

(***************************************************************************)
(* Names of the external calls whose failure the firmware can observe.     *)
(***************************************************************************)
AllFaults ==
    {"queue", "task", "bus", "write", "spi", "fs", "opendir", "panel", "lvgl"}

ASSUME FaultsAssumption == Faults \subseteq AllFaults

Users == {"storage", "lcd", "backlight"}

VARIABLES
    ref_cnt,    \* static int ref_cnt
    driver,     \* is the I2C driver of port 0 installed?
    held        \* history: the references each user has and never gave back

busVars == <<ref_cnt, driver, held>>

MayFail(call) == call \in Faults

(***************************************************************************)
(* i2c_bus_acquire() when the driver is already in use: count and go.      *)
(***************************************************************************)
AcquireShared(u) ==
    /\ ref_cnt > 0
    /\ ref_cnt' = ref_cnt + 1
    /\ held' = [held EXCEPT ![u] = @ + 1]
    /\ UNCHANGED driver

(***************************************************************************)
(* i2c_bus_acquire() of the first user, up to the return of                *)
(* i2c_driver_install(): "already installed" counts as success.            *)
(***************************************************************************)
AcquireInstall ==
    /\ ref_cnt = 0
    /\ driver' = TRUE
    /\ UNCHANGED <<ref_cnt, held>>

AcquireCommit(u) ==
    /\ ref_cnt' = 1
    /\ held' = [held EXCEPT ![u] = @ + 1]
    /\ UNCHANGED driver

AcquireFails ==
    /\ ref_cnt = 0
    /\ MayFail("bus")
    /\ UNCHANGED busVars

\* Mutant of Release: nobody deletes the driver.
Release_Mut(u) ==
    /\ ref_cnt' = IF ref_cnt = 0 THEN 0 ELSE ref_cnt - 1
    /\ driver' = driver
    /\ held' = [held EXCEPT ![u] = IF @ = 0 THEN 0 ELSE @ - 1]

(***************************************************************************)
(* i2c_bus_release(): ignored at zero, and the last one out deletes the    *)
(* driver.                                                                 *)
(***************************************************************************)
Release(u) ==
    /\ ref_cnt' = IF ref_cnt = 0 THEN 0 ELSE ref_cnt - 1
    /\ driver' = (driver /\ ref_cnt # 1)
    /\ held' = [held EXCEPT ![u] = IF @ = 0 THEN 0 ELSE @ - 1]

(***************************************************************************)
(* A write of one byte to the CH422G expander.  It can succeed only        *)
(* through an installed driver; a failed one may still have been latched.  *)
(***************************************************************************)
WriteSucceeds == driver
WriteFails == MayFail("write") \/ ~driver

BusInit ==
    /\ ref_cnt = 0
    /\ driver = FALSE
    /\ held = [u \in Users |-> 0]

BusTypeOK ==
    /\ ref_cnt \in Nat
    /\ driver \in BOOLEAN
    /\ held \in [Users -> Nat]

TotalHeld == held["storage"] + held["lcd"] + held["backlight"]

\* The counter of the bus is the number of references its users hold, and
\* while there is one the driver is installed: no sequence of failing
\* mounts, remounts and releases, and no interleaving of two acquisitions,
\* takes the driver away under a user (i2c_bus_mgr.c:10-36).
RefsAccounted == ref_cnt = TotalHeld /\ (ref_cnt > 0 => driver)

=============================================================================
