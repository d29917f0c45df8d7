SPECIFICATION RecycleSpec
CONSTANTS
    Threads = {t1, t2}
    Scanners = {}
    Pages = {p1, p2, p3, p4}
    Others = {p4}
    First = p1
    None = None
    RowsPerPage = 1
    MaxInserts = 2
CHECK_DEADLOCK FALSE
INVARIANT ChainIntact
