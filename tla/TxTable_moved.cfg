SPECIFICATION Spec
CONSTANTS
    Txns = {t1, t2}
    PageCount = 2
    SlotsPerPage = 1
    Rooms = {1}
    Empty = Empty
    Old = Old
    MaxOps = 1
SYMMETRY Symmetry
CHECK_DEADLOCK FALSE
INVARIANT RemovalsRecorded
