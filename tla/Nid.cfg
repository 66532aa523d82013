SPECIFICATION Spec
CONSTANTS
    ALPHABET_SIZE = 4
    DEF_LETTER = 2
    Transactions = {t1}
    Counts = {1, 4}
    Followed = {4}
    Levels = 2
    MaxRoots = 14
    MaxLoaded = 5
    MaxInserts = 5
    MaxNodes = 6
    MaxDeletes = 1
INVARIANTS
    LabelsTellTheTree
    UpdatesAlwaysFindALabel
    
CHECK_DEADLOCK FALSE
