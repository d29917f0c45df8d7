SPECIFICATION Spec
CONSTANTS
    Txns = {t1, t2}
    PageCount = 1
    SlotsPerPage = 2
    Rooms = {1, 2}
    Empty = Empty
    Old = Old
    MaxOps = 2
SYMMETRY Symmetry
CHECK_DEADLOCK FALSE
INVARIANTS
    UndoLocked
    CommittedRows
    RestoreFits
PROPERTIES
    LockedRowsStay
