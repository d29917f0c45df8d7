SPECIFICATION Spec
CONSTANTS
    Threads = {t1, t2}
    Pages = {p1, p2, p3}
    Frames = {f1, f2}
    None = None
    MaxPins = 2
    PinModulus = 16
    Contents = 2
    RacingMisses = FALSE
SYMMETRY Symmetry
INVARIANTS
    TypeOK
    TableConsistent
    HandlesValid
    NoLostWrite
    PinsCounted
PROPERTY RefusedOnlyWhenPinned
