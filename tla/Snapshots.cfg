SPECIFICATION Spec
CONSTANTS
    Client = {c1, c2}
    Xptr = {x1, x2}
    SNAPSHOTS_COUNT = 3
    MaxTimestamp = 6
SYMMETRY Symmetry
INVARIANTS
    SlotsConsistent
    ReadersServed
    CheckpointReportsPersistentVersions
    AdvanceWaitsForReadersOnly
PROPERTIES
    ShutdownAfterCheckpoint
    KeepsVersionsOfLiveSnapshots
