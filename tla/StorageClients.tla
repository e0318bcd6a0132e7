--------------------------- MODULE StorageClients ---------------------------
(***************************************************************************)
(* The storage manager under any caller: mounts and unmounts follow each   *)
(* other in any order, while the other users of the I2C bus come and go.   *)
(* The others count references here and do not write to the expander: that *)
(* the backlight byte keeps clear of the card is what Boot is about.       *)
(***************************************************************************)
EXTENDS StorageManager

CONSTANT MaxRefs    \* bound: no new reference is asked for beyond this many

ASSUME MaxRefsAssumption == MaxRefs \in Nat \ {0}

vars == <<busVars, mountVars>>

(***************************************************************************)
(* The other users of the bus.  A whole acquire or release happens at once *)
(* and never inside the window in which the storage manager has installed  *)
(* the driver and not yet counted itself: the discipline the boot sequence *)
(* keeps (module Boot).                                                    *)
(***************************************************************************)
OtherAcquire(u) ==
    /\ stage # "commit"
    /\ ref_cnt < MaxRefs
    /\ ref_cnt' = ref_cnt + 1
    /\ driver' = TRUE
    /\ held' = [held EXCEPT ![u] = @ + 1]
    /\ UNCHANGED mountVars

OtherRelease(u) ==
    /\ stage # "commit"
    /\ held[u] > 0
    /\ Release(u)
    /\ UNCHANGED mountVars

Init == BusInit /\ MountInit

Next ==
    \/ ref_cnt < MaxRefs /\ CallMount
    \/ MountStep
    \/ Unmount
    \/ \E u \in Users \ {"storage"} : OtherAcquire(u) \/ OtherRelease(u)

Spec == Init /\ [][Next]_vars

-----------------------------------------------------------------------------
\* Every variable of the storage manager and of the bus has its type.
TypeOK == BusTypeOK /\ MountTypeOK

\* "delete when the last user release it" (i2c_bus_mgr.c:34): outside the
\* window of a first acquisition the driver is installed only for a user.
DriverGoesWithLastUser == driver /\ stage # "commit" => ref_cnt > 0

\* A card that counts as mounted is attached to the SPI bus and selected:
\* a second mount that fails must not take it away from under its files
\* (storage_manager.c:140-163, is_mounted 157 and 173).
MountedIsUsable == is_mounted => spi = "device" /\ CardSelected

\* "release if failed in initialization" (storage_manager.c:163), what the
\* cleanup path is there for: a mount that fails after it has acquired the
\* I2C bus gives that reference back.
FailedMountReleasesBus ==
    [][stage \notin {"idle", "acquire"} /\ stage' = "idle" /\ ret' = "fail"
       => held'["storage"] < held["storage"]]_vars

=============================================================================
