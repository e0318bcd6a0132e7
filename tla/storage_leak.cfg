CONSTANTS
    Faults <- MCFaults
    MaxRefs = 4

SPECIFICATION Spec

PROPERTY FailedMountReleasesBus
