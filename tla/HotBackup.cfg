SPECIFICATION Spec
CONSTANTS
    Databases = {d1}
    Clients = {c1, c2}
    Overlap = FALSE
    MaxFiles = 4
    MaxConnections = 3
    MaxCrashes = 1
INVARIANTS
    CopyInProgressSound
    IncrementsHaveNoGap
    CheckpointsComeBack
PROPERTIES
    WaitingEnds
CHECK_DEADLOCK FALSE
