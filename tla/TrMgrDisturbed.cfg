SPECIFICATION Spec
CONSTANTS
    Session = {s1, s2}
    CHARISMA_MAX_TRNS_NUMBER = 2
    ReadOnly = {s1, s2}
    LogLess = {s1, s2}
    Stoppable = {s1, s2}
    MaxDrift = 2
    Advances = TRUE
    NoSession = NoSession
SYMMETRY Symmetry
CHECK_DEADLOCK FALSE
INVARIANT LogLessCommitIsSaved
