SPECIFICATION FairSpec
CONSTANTS
    Session = {s1, s2}
    CHARISMA_MAX_TRNS_NUMBER = 2
    ReadOnly = {s1, s2}
    LogLess = {s1, s2}
    Stoppable = {}
    MaxDrift = 0
    Advances = FALSE
    NoSession = NoSession
PROPERTIES
    ExclusiveStarts
    
    ThreadComesBack
