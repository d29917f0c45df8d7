SPECIFICATION TimedSpec
CONSTANTS
    Txns = {t1, t2, t3}
    Rids = {r1, r2}
INVARIANTS
    Compatible
    NoMissedWakeup
    HeldUnlessUpgrading
    NothingLeft
    TableAgrees
PROPERTIES
    ImplementsRowLocks
    TransactionEnds
