SPECIFICATION MgrSpec
CONSTANTS
    Tran = {t1, t2, t3}
    Resource = {db, d1}
    NoResource = NoResource
    Db = db
    Stoppable = {t1, t2, t3}
SYMMETRY Symmetry
INVARIANTS
    HoldersCompatible
    LockInv
    TraversalIsLoop
    NoStall
