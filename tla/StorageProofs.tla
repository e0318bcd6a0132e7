---------------------------- MODULE StorageProofs ----------------------------
(***************************************************************************)
(* StorageClients for any number of references and any external call       *)
(* failing: the account of the I2C bus, and that a mounted card stays      *)
(* usable and an unmounted one leaves the SPI bus free.                    *)
(***************************************************************************)
EXTENDS StorageClients, TLAPS

LEMMA InitType == Init => TypeOK
<1> SUFFICES ASSUME Init PROVE TypeOK
    OBVIOUS
<1>1. BusTypeOK
    BY DEF Init, BusInit, BusTypeOK
<1>2. MountTypeOK
    BY DEF Init, MountInit, MountTypeOK, Stages
<1>3. QED
    BY <1>1, <1>2 DEF TypeOK

\* The steps of the bus.
LEMMA BusType ==
    ASSUME BusTypeOK, NEW u \in Users,
           \/ AcquireShared(u) \/ AcquireInstall \/ AcquireCommit(u)
           \/ AcquireFails \/ Release(u) \/ UNCHANGED busVars
    PROVE  BusTypeOK'
<1> USE DEF BusTypeOK
<1>1. CASE AcquireShared(u)
    BY <1>1 DEF AcquireShared
<1>2. CASE AcquireInstall
    BY <1>2 DEF AcquireInstall
<1>3. CASE AcquireCommit(u)
    BY <1>3 DEF AcquireCommit
<1>4. CASE Release(u)
    <2>1. ref_cnt' \in Nat /\ held' \in [Users -> Nat]
        BY <1>4 DEF Release
    <2>2. driver' \in BOOLEAN
        BY <1>4 DEF Release
    <2>3. QED
        BY <2>1, <2>2
<1>5. CASE AcquireFails \/ UNCHANGED busVars
    BY <1>5 DEF AcquireFails, busVars
<1>6. QED
    BY <1>1, <1>2, <1>3, <1>4, <1>5

\* What a byte written to the expander makes of the two pins.
LEMMA ExioType ==
    \A byte \in 0..255 : ExioOf(byte) \in [cs : {0, 1}, bl : {0, 1}]
BY DEF ExioOf

LEMMA MountStepType ==
    ASSUME BusTypeOK, MountTypeOK, MountStep
    PROVE  BusTypeOK' /\ MountTypeOK'
<1>1. BusTypeOK'
    <2>1. \/ AcquireShared("storage") \/ AcquireInstall \/ AcquireCommit("storage")
          \/ AcquireFails \/ Release("storage") \/ UNCHANGED busVars
        BY DEF MountStep, MountAcquire, MountCommit, MountMode, MountSelect,
               MountSpi, MountFilesystem, MountCleanup
    <2>2. QED
        BY <2>1, BusType DEF Users
<1>2. MountTypeOK'
    <2>1. exio' \in [cs : {0, 1}, bl : {0, 1}]
        BY ExioType DEF MountTypeOK, MountStep, MountAcquire, MountCommit, MountMode,
               MountSelect, MountSpi, MountFilesystem, MountCleanup, SelectCard
    <2>2. stage' \in Stages /\ ret' \in {"none", "ok", "fail"}
        BY DEF MountTypeOK, Stages, MountStep, MountAcquire, MountCommit, MountMode,
               MountSelect, MountSpi, MountFilesystem, MountCleanup, Return
    <2>3. spi' \in {"free", "bus", "device"} /\ is_mounted' \in BOOLEAN
        BY DEF MountTypeOK, MountStep, MountAcquire, MountCommit, MountMode,
               MountSelect, MountSpi, MountFilesystem, MountCleanup, SpiFreed
    <2>4. QED
        BY <2>1, <2>2, <2>3 DEF MountTypeOK
<1>3. QED
    BY <1>1, <1>2


LEMMA NextType == TypeOK /\ [Next]_vars => TypeOK'
<1> SUFFICES ASSUME BusTypeOK, MountTypeOK, [Next]_vars
             PROVE  BusTypeOK' /\ MountTypeOK'
    BY DEF TypeOK
<1>1. CASE CallMount
    <2>1. BusTypeOK'
        BY <1>1 DEF CallMount, busVars, BusTypeOK
    <2>2. MountTypeOK'
        BY <1>1 DEF CallMount, MountTypeOK, Stages
    <2>3. QED
        BY <2>1, <2>2
<1>2. CASE MountStep
    BY <1>2, MountStepType
<1>3. CASE Unmount
    <2>1. BusTypeOK'
        BY <1>3 DEF Unmount, busVars, BusTypeOK
    <2>2. MountTypeOK'
        BY <1>3 DEF Unmount, MountTypeOK
    <2>3. QED
        BY <2>1, <2>2
<1>4. ASSUME NEW u \in Users \ {"storage"}, OtherAcquire(u)
      PROVE  BusTypeOK' /\ MountTypeOK'
    BY <1>4 DEF OtherAcquire, BusTypeOK, MountTypeOK, mountVars
<1>5. ASSUME NEW u \in Users \ {"storage"}, OtherRelease(u)
      PROVE  BusTypeOK' /\ MountTypeOK'
    <2>1. BusTypeOK'
        BY <1>5, BusType DEF OtherRelease
    <2>2. MountTypeOK'
        BY <1>5 DEF OtherRelease, MountTypeOK, mountVars
    <2>3. QED
        BY <2>1, <2>2
<1>6. CASE UNCHANGED vars
    BY <1>6 DEF vars, BusTypeOK, MountTypeOK, mountVars, busVars
<1>7. QED
    BY <1>1, <1>2, <1>3, <1>4, <1>5, <1>6 DEF Next

\* Every variable of the storage manager and of the bus keeps its type.
THEOREM TypeCorrect == Spec => []TypeOK
BY InitType, NextType, PTL DEF Spec

-----------------------------------------------------------------------------
(***************************************************************************)
(* The card and the SPI bus.                                               *)
(***************************************************************************)
CardInv ==
    /\ is_mounted => spi = "device" /\ exio.cs = 0
    /\ ~is_mounted => spi # "device"
    /\ stage = "fs" => spi = "bus"
    /\ spi = "bus" => stage \in {"fs", "cleanup"}
    /\ stage \in {"spi", "fs"} => exio.cs = 0

LEMMA SelectCardSelects == SelectCard.cs = 0
BY DEF SelectCard, ExioOf

LEMMA InitCard == Init => CardInv
BY DEF Init, MountInit, CardInv

LEMMA NextCard == MountTypeOK /\ CardInv /\ [Next]_vars => CardInv'
<1> SUFFICES ASSUME MountTypeOK, CardInv, [Next]_vars
             PROVE  CardInv'
    OBVIOUS
<1> USE DEF CardInv, MountTypeOK
<1>1. CASE CallMount
    BY <1>1 DEF CallMount
<1>2. CASE MountAcquire \/ MountCommit \/ MountMode
    BY <1>2 DEF MountAcquire, MountCommit, MountMode, Return
<1>3. CASE MountSelect
    BY <1>3, SelectCardSelects DEF MountSelect, Return
<1>4. CASE MountSpi
    BY <1>4 DEF MountSpi, SpiFreed
<1>5. CASE MountFilesystem
    BY <1>5 DEF MountFilesystem, Return
<1>6. CASE MountCleanup
    BY <1>6 DEF MountCleanup, Return, SpiFreed
<1>7. CASE Unmount
    BY <1>7 DEF Unmount
<1>8. CASE UNCHANGED mountVars
    BY <1>8 DEF mountVars
<1>9. ASSUME NEW u \in Users, OtherAcquire(u) \/ OtherRelease(u)
      PROVE  UNCHANGED mountVars
    BY <1>9 DEF OtherAcquire, OtherRelease
<1>10. QED
    BY <1>1, <1>2, <1>3, <1>4, <1>5, <1>6, <1>7, <1>8, <1>9 DEF Next, MountStep, vars

\* A second mount of a mounted card, which fails in the middle, and any other
\* failed call leave the card attached and selected.
THEOREM CardUsable == Spec => []MountedIsUsable
<1>1. CardInv => MountedIsUsable
    BY DEF CardInv, MountedIsUsable, CardSelected
<1>2. TypeOK => MountTypeOK
    BY DEF TypeOK
<1>3. QED
    BY <1>1, <1>2, InitType, NextType, InitCard, NextCard, PTL DEF Spec

\* Whichever call failed, and where, the SPI bus is free for the next mount.
THEOREM SpiFree == Spec => []UnmountedFreesSpi
<1>1. MountTypeOK /\ CardInv => UnmountedFreesSpi
    BY DEF MountTypeOK, CardInv, UnmountedFreesSpi
<1>2. TypeOK => MountTypeOK
    BY DEF TypeOK
<1>3. QED
    BY <1>1, <1>2, InitType, NextType, InitCard, NextCard, PTL DEF Spec

-----------------------------------------------------------------------------
(***************************************************************************)
(* The account of the I2C references.                                      *)
(***************************************************************************)
InMount == {"mode", "select", "spi", "fs", "cleanup"}

BusInv ==
    /\ RefsAccounted
    /\ DriverGoesWithLastUser
    /\ stage = "commit" => ref_cnt = 0 /\ driver
    /\ stage \in InMount => held["storage"] > 0

LEMMA Booked ==
    ASSUME BusTypeOK, RefsAccounted, NEW u \in Users,
           \/ AcquireShared(u)
           \/ AcquireInstall
           \/ AcquireCommit(u) /\ ref_cnt = 0 /\ driver
           \/ AcquireFails
           \/ Release(u) /\ held[u] > 0
           \/ UNCHANGED busVars
    PROVE  RefsAccounted'
<1> USE DEF BusTypeOK, RefsAccounted, TotalHeld, Users
<1>1. CASE AcquireShared(u)
    BY <1>1 DEF AcquireShared
<1>2. CASE AcquireInstall
    BY <1>2 DEF AcquireInstall
<1>3. CASE AcquireCommit(u) /\ ref_cnt = 0 /\ driver
    BY <1>3 DEF AcquireCommit
<1>4. CASE Release(u) /\ held[u] > 0
    <2>1. ref_cnt > 0 /\ held["storage"] \in Nat /\ held["lcd"] \in Nat /\ held["backlight"] \in Nat
        BY <1>4
    <2>2. /\ ref_cnt' = ref_cnt - 1
          /\ \A v \in Users : held'[v] = IF v = u THEN held[v] - 1 ELSE held[v]
        BY <1>4, <2>1 DEF Release
    <2>3. ref_cnt' = TotalHeld'
        BY <2>1, <2>2
    <2>4. ref_cnt' > 0 => driver'
        <3>1. ref_cnt' > 0 => ref_cnt # 1
            BY <2>1, <2>2
        <3>2. driver
            BY <2>1
        <3>3. driver' = (driver /\ ref_cnt # 1)
            BY <1>4, Zenon DEF Release
        <3>4. QED
            BY <3>1, <3>2, <3>3, Zenon
    <2>5. QED
        BY <2>3, <2>4
<1>5. CASE AcquireFails \/ UNCHANGED busVars
    BY <1>5 DEF AcquireFails, busVars
<1>6. QED
    BY <1>1, <1>2, <1>3, <1>4, <1>5

\* What giving a reference back leaves: a driver only for a user.
LEMMA Released ==
    ASSUME BusTypeOK, RefsAccounted, NEW u \in Users, Release(u), held[u] > 0
    PROVE  /\ RefsAccounted'
           /\ driver' => ref_cnt' > 0
           /\ \A v \in Users \ {u} : held'[v] = held[v]
<1>1. ref_cnt > 0
    BY DEF RefsAccounted, TotalHeld, BusTypeOK, Users
<1>2. ref_cnt' = ref_cnt - 1 /\ \A v \in Users \ {u} : held'[v] = held[v]
    BY <1>1 DEF Release, BusTypeOK
<1>3. driver' => ref_cnt # 1
    <2>1. driver' = (driver /\ ref_cnt # 1)
        BY Zenon DEF Release
    <2>2. QED
        BY <2>1, Zenon
<1>4. RefsAccounted'
    BY Booked
<1>5. QED
    BY <1>1, <1>2, <1>3, <1>4 DEF BusTypeOK

LEMMA InitBus == Init => BusInv
BY DEF Init, BusInit, MountInit, BusInv, RefsAccounted, TotalHeld, Users, InMount,
       DriverGoesWithLastUser

LEMMA NextBus == TypeOK /\ BusInv /\ [Next]_vars => BusInv'
<1> SUFFICES ASSUME TypeOK, BusInv, [Next]_vars PROVE BusInv'
    OBVIOUS
<1>u. BusTypeOK /\ RefsAccounted /\ Users = {"storage", "lcd", "backlight"}
    BY DEF TypeOK, BusInv, Users
<1>1. CASE MountAcquire
    <2>1. AcquireShared("storage") \/ AcquireInstall \/ AcquireFails
        BY <1>1 DEF MountAcquire
    <2>2. RefsAccounted'
        BY <1>u, <2>1, Booked
    <2>3. stage' = "commit" => ref_cnt' = 0 /\ driver'
        BY <1>1 DEF MountAcquire, AcquireInstall, Return
    <2>4. stage' = "mode" => ref_cnt' > 0 /\ held'["storage"] > 0
        BY <1>1, <1>u DEF MountAcquire, AcquireShared, Return, BusTypeOK
    <2>5. stage' = "idle" => UNCHANGED busVars
        BY <1>1 DEF MountAcquire, AcquireFails, Return
    <2>6. stage' \in {"commit", "mode", "idle"} /\ stage = "acquire"
        BY <1>1 DEF MountAcquire, Return
    <2>7. DriverGoesWithLastUser'
        BY <2>3, <2>4, <2>5, <2>6 DEF BusInv, DriverGoesWithLastUser, busVars
    <2>8. QED
        BY <2>2, <2>3, <2>4, <2>6, <2>7 DEF BusInv, InMount
<1>2. CASE MountCommit
    <2>1. AcquireCommit("storage") /\ ref_cnt = 0 /\ driver /\ stage' = "mode"
        BY <1>2 DEF MountCommit, BusInv
    <2>2. RefsAccounted'
        BY <1>u, <2>1, Booked
    <2>3. held'["storage"] > 0 /\ ref_cnt' = 1
        BY <2>1, <1>u DEF AcquireCommit, BusTypeOK
    <2>4. QED
        BY <2>1, <2>2, <2>3 DEF BusInv, DriverGoesWithLastUser, InMount
<1>3. CASE MountMode \/ MountSelect \/ MountSpi \/ MountFilesystem
    <2>1. UNCHANGED busVars /\ stage \in {"mode", "select", "spi", "fs"}
          /\ stage' \in {"select", "spi", "fs", "cleanup", "idle"}
        BY <1>3 DEF MountMode, MountSelect, MountSpi, MountFilesystem, Return
    <2>2. RefsAccounted'
        BY <1>u, <2>1, Booked
    <2>3. QED
        BY <2>1, <2>2 DEF BusInv, busVars, DriverGoesWithLastUser, InMount
<1>4. CASE MountCleanup
    <2>1. Release("storage") /\ held["storage"] > 0 /\ stage' = "idle"
        BY <1>4 DEF MountCleanup, BusInv, Return, InMount
    <2>2. RefsAccounted' /\ (driver' => ref_cnt' > 0)
        BY <1>u, <2>1, Released
    <2>3. QED
        BY <2>1, <2>2 DEF BusInv, DriverGoesWithLastUser, InMount
<1>5. CASE CallMount \/ Unmount \/ UNCHANGED vars
    <2>1. UNCHANGED busVars
        BY <1>5 DEF CallMount, Unmount, vars
    <2>2. stage' = stage \/ (stage = "idle" /\ stage' = "acquire")
        BY <1>5 DEF CallMount, Unmount, vars, mountVars
    <2>3. RefsAccounted'
        BY <1>u, <2>1, Booked
    <2>4. QED
        BY <2>1, <2>2, <2>3 DEF BusInv, busVars, DriverGoesWithLastUser, InMount
<1>6. ASSUME NEW u \in Users \ {"storage"}, OtherAcquire(u)
      PROVE  BusInv'
    <2>1. /\ ref_cnt' = ref_cnt + 1 /\ driver' /\ stage' = stage /\ stage # "commit"
          /\ \A v \in Users : held'[v] = IF v = u THEN held[v] + 1 ELSE held[v]
        BY <1>6, <1>u DEF OtherAcquire, mountVars, BusTypeOK
    <2>2. RefsAccounted' /\ ref_cnt' > 0
        BY <2>1, <1>u DEF RefsAccounted, TotalHeld, BusTypeOK
    <2>3. held'["storage"] = held["storage"]
        BY <2>1, <1>u
    <2>4. QED
        BY <2>1, <2>2, <2>3 DEF BusInv, DriverGoesWithLastUser
<1>7. ASSUME NEW u \in Users \ {"storage"}, OtherRelease(u)
      PROVE  BusInv'
    <2>1. Release(u) /\ held[u] > 0 /\ stage' = stage /\ stage # "commit"
        BY <1>7 DEF OtherRelease, mountVars
    <2>2. RefsAccounted' /\ (driver' => ref_cnt' > 0) /\ held'["storage"] = held["storage"]
        BY <1>u, <2>1, Released
    <2>3. QED
        BY <2>1, <2>2 DEF BusInv, DriverGoesWithLastUser
<1>8. QED
    BY <1>1, <1>2, <1>3, <1>4, <1>5, <1>6, <1>7 DEF Next, MountStep

\* The counter is the number of references held, and while there is one the
\* driver is installed, after any sequence of failing and repeated calls.
THEOREM RefsSafe == Spec => []RefsAccounted
<1>1. BusInv => RefsAccounted
    BY DEF BusInv
<1>2. QED
    BY <1>1, InitType, NextType, InitBus, NextBus, PTL DEF Spec

\* The driver of the bus never outlives its last user.
THEOREM DriverSafe == Spec => []DriverGoesWithLastUser
<1>1. BusInv => DriverGoesWithLastUser
    BY DEF BusInv
<1>2. QED
    BY <1>1, InitType, NextType, InitBus, NextBus, PTL DEF Spec

=============================================================================
