SPECIFICATION Spec
CONSTANTS
    InitialBlocks = 1
    InitialSize = 2
    ExtendBy = 2
    MaxSize = 4
    NodeCapacity = 1
    Reader = {r1}
    SNAPSHOTS_COUNT = 3
    MaxTimestamp = 5
    MaxUpdates = 2
    MaxChanges = 1
    MaxCrashes = 2
INVARIANTS
    StoreConsistent
    RecoveryRestores
    BackupRestores
CHECK_DEADLOCK FALSE
