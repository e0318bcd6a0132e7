CONSTANTS
    Faults <- MCFaults
    MAX_IMAGES = 2
    SD_MOUNT_RETRIES = 3

SPECIFICATION Spec

INVARIANT LockAfterInit
