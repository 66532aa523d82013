CONSTANTS
    Session <- MCSession
    bufs_num = 3
    DataBlock <- MCDataBlock
    FreeBlock <- MCFreeBlock
    Node <- MCNode
    MaxTransactions = 2
    MaxChanges = 1
SPECIFICATION Spec
CONSTRAINT MappedInTime
INVARIANTS
    BuffersAccounted
    
    CommittedKept
CHECK_DEADLOCK FALSE
