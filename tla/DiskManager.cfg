SPECIFICATION Spec
CONSTANTS
    Threads = {t1, t2}
    MaxPages = 3
    FreeListCap = 1
    MaxCrashes = 2
SYMMETRY Symmetry
INVARIANTS
    TypeOK
    IdsUnowned
    NoPageLost
    StableKept
