SPECIFICATION VeSpec
CONSTANTS
    Client = {c1, c2}
    Xptr = {b1, x1, x2}
    InitialBlocks = {b1}
    SNAPSHOTS_COUNT = 3
    VERSIONS_COUNT = 4
    MaxTimestamp = 5
SYMMETRY Symmetry
INVARIANTS
    VersionsOfSnapshots
    NoLeak
