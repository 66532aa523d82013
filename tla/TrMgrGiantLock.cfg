SPECIFICATION FairSpec
CONSTANTS
    Session = {s1, s2}
    CHARISMA_MAX_TRNS_NUMBER = 2
    ReadOnly = {s1, s2}
    LogLess = {}
    Stoppable = {}
    MaxDrift = 0
    Advances = TRUE
    NoSession = NoSession
PROPERTY ThreadComesBack
CHECK_DEADLOCK FALSE
