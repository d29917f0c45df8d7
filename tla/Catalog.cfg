SPECIFICATION FairSpec
CONSTANTS
    Txns = {t1, t2}
    Names = {n1, n2}
    RowCount = 2
    None = None
    MaxCalls = 2
    PageCount = 2
    MaxAuto = 1
    MaxFaults = 1
CHECK_DEADLOCK FALSE
INVARIANTS
    MapBacked
    RestartSame
    UsedTableStays
    RollbackFindsTable
    PagesKept
PROPERTY CallsReturn
