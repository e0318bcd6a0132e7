CONSTANTS
    Faults <- MCFaults
    MaxRefs = 4

SPECIFICATION Spec

INVARIANTS
    RefsAccounted
    DriverGoesWithLastUser
    MountedIsUsable
    UnmountedFreesSpi
