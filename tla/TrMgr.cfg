SPECIFICATION Spec
CONSTANTS
    Session = {s1, s2, s3}
    CHARISMA_MAX_TRNS_NUMBER = 3
    ReadOnly = {s1}
    LogLess = {s2, s3}
    Stoppable = {}
    MaxDrift = 0
    Advances = TRUE
    NoSession = NoSession
SYMMETRY Symmetry
INVARIANTS
    ExclusiveAlone
    CheckpointQuiescent
    LogLessCommitIsSaved
    SessionsAccountedFor
