--------------------------- MODULE StorageManager ---------------------------
(***************************************************************************)
(* main/storage_manager.c: mounting and unmounting the SD card.  The chip  *)
(* select of the card hangs on the CH422G I2C expander, so a mount goes    *)
(* through the I2C bus, then the SPI bus, then the FAT driver, and can     *)
(* fail at each of these points.                                           *)
(*                                                                         *)
(* Every step of storage_mount_sdcard() that another task could observe is *)
(* an action; `stage' is the position inside the call, "idle" outside.     *)
(* The module has no behaviour of its own: StorageClients calls it in any  *)
(* order, Boot the way the firmware does.                                  *)
(***************************************************************************)
EXTENDS I2cBus

VARIABLES
    stage,          \* where storage_mount_sdcard() is
    ret,            \* result of the last finished call
    spi,            \* "free", "bus" (initialised) or "device" (card attached)
    is_mounted,     \* static bool is_mounted
    exio            \* output pins of the CH422G: card select and backlight

mountVars == <<stage, ret, spi, is_mounted, exio>>

Stages == {"idle", "acquire", "commit", "mode", "select", "spi", "fs", "cleanup"}

(***************************************************************************)
(* What the byte written to address 0x38 does to the two pins the firmware *)
(* cares about: bit 4 is the chip select of the card (0 selects it) and    *)
(* bit 2 the backlight.                                                    *)
(***************************************************************************)
ExioOf(byte) == [cs |-> (byte \div 16) % 2, bl |-> (byte \div 4) % 2]

SelectCard == ExioOf(10)      \* 0x0A

CardSelected == exio.cs = 0

Return(r) == stage' = "idle" /\ ret' = r

SpiFreed == IF spi = "device" THEN "device" ELSE "free"

-----------------------------------------------------------------------------
CallMount ==
    /\ stage = "idle"
    /\ stage' = "acquire"
    /\ UNCHANGED <<busVars, ret, spi, is_mounted, exio>>

MountAcquire ==
    /\ stage = "acquire"
    /\ \/ AcquireShared("storage") /\ stage' = "mode" /\ UNCHANGED ret
       \/ AcquireInstall /\ stage' = "commit" /\ UNCHANGED ret
       \/ AcquireFails /\ Return("fail")
    /\ UNCHANGED <<spi, is_mounted, exio>>

MountCommit ==
    /\ stage = "commit"
    /\ AcquireCommit("storage")
    /\ stage' = "mode"
    /\ UNCHANGED <<ret, spi, is_mounted, exio>>

(***************************************************************************)
(* The two expander writes.  A failure of either returns at once, without  *)
(* passing through the cleanup label.                                      *)
(***************************************************************************)
MountMode ==
    /\ stage = "mode"
    /\ \/ WriteSucceeds /\ stage' = "select" /\ UNCHANGED ret
       \/ WriteFails /\ Return("fail")
    /\ UNCHANGED <<busVars, spi, is_mounted, exio>>

\* Mutant of MountSelect: the result of the write is ignored.
MountSelect_Mut ==
    /\ stage = "select"
    /\ \/ WriteSucceeds /\ exio' = SelectCard
       \/ WriteFails /\ exio' \in {exio, SelectCard}
    /\ stage' = "spi"
    /\ UNCHANGED <<busVars, ret, spi, is_mounted>>

MountSelect ==
    /\ stage = "select"
    /\ \/ WriteSucceeds /\ exio' = SelectCard /\ stage' = "spi" /\ UNCHANGED ret
       \/ WriteFails /\ exio' \in {exio, SelectCard} /\ Return("fail")
    /\ UNCHANGED <<busVars, spi, is_mounted>>

(***************************************************************************)
(* spi_bus_free() first, in case an earlier attempt left the bus behind;   *)
(* the driver refuses to free or to re-initialise a bus with a device.     *)
(***************************************************************************)
MountSpi ==
    /\ stage = "spi"
    /\ \/ SpiFreed = "free" /\ spi' = "bus" /\ stage' = "fs"
       \/ (SpiFreed = "device" \/ MayFail("spi")) /\ spi' = SpiFreed /\ stage' = "cleanup"
    /\ UNCHANGED <<busVars, ret, is_mounted, exio>>

MountFilesystem ==
    /\ stage = "fs"
    /\ \/ spi' = "device" /\ is_mounted' = TRUE /\ Return("ok")
       \/ MayFail("fs") /\ stage' = "cleanup" /\ UNCHANGED <<ret, spi, is_mounted>>
    /\ UNCHANGED <<busVars, exio>>

\* Mutant of MountCleanup: the SPI bus stays initialised.
MountCleanup_Mut ==
    /\ stage = "cleanup"
    /\ Release("storage")
    /\ Return("fail")
    /\ UNCHANGED <<spi, is_mounted, exio>>

\* Mutant of MountCleanup: the reference is given back twice.
MountCleanup_MutTwice ==
    /\ stage = "cleanup"
    /\ ref_cnt' = IF ref_cnt < 2 THEN 0 ELSE ref_cnt - 2
    /\ driver' = (driver /\ ref_cnt > 2)
    /\ held' = [held EXCEPT !["storage"] = @ - 1]
    /\ spi' = SpiFreed
    /\ Return("fail")
    /\ UNCHANGED <<is_mounted, exio>>

MountCleanup ==
    /\ stage = "cleanup"
    /\ Release("storage")
    /\ spi' = SpiFreed
    /\ Return("fail")
    /\ UNCHANGED <<is_mounted, exio>>

MountStep ==
    \/ MountAcquire
    \/ MountCommit
    \/ MountMode
    \/ MountSelect
    \/ MountSpi
    \/ MountFilesystem
    \/ MountCleanup

(***************************************************************************)
(* storage_unmount_sdcard(): gives the card and the SPI bus back, not the  *)
(* reference of the I2C bus the mount kept.                                *)
(***************************************************************************)
Unmount ==
    /\ stage = "idle"
    /\ \/ is_mounted /\ spi' = "free" /\ ret' = "ok"
       \/ ~is_mounted /\ ret' = "fail" /\ UNCHANGED spi
    /\ is_mounted' = FALSE
    /\ UNCHANGED <<busVars, stage, exio>>

MountInit ==
    /\ stage = "idle"
    /\ ret = "none"
    /\ spi = "free"
    /\ is_mounted = FALSE
    /\ exio \in [cs : {0, 1}, bl : {0, 1}]

MountTypeOK ==
    /\ stage \in Stages
    /\ ret \in {"none", "ok", "fail"}
    /\ spi \in {"free", "bus", "device"}
    /\ is_mounted \in BOOLEAN
    /\ exio \in [cs : {0, 1}, bl : {0, 1}]

\* Whatever way the last call ended, an unmounted card leaves the SPI bus
\* free for the next attempt (storage_manager.c:140, 163, 177).
UnmountedFreesSpi == stage = "idle" /\ ~is_mounted => spi = "free"

=============================================================================
