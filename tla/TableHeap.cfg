SPECIFICATION FairSpec
CONSTANTS
    Threads = {t1, t2}
    Scanners = {s1}
    Pages = {p1, p2, p3, p4}
    Others = {}
    First = p1
    None = None
    RowsPerPage = 2
    MaxInserts = 5
CHECK_DEADLOCK FALSE
INVARIANTS
    ChainIntact
    NoPageLeaked
    ScanComplete
PROPERTY InsertReturns
