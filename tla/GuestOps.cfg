SPECIFICATION OpsSpec
CONSTANTS
    SnapshotCap = 1
    ArchiveCap = 1
    CallIds = {c1, c2}
    MaxClock = 2
    MaxEvents = 1
PROPERTIES
    RetentionIsSafe
    SuccessIsReal
    CapIsRestored
    CallsReturn
CHECK_DEADLOCK FALSE
