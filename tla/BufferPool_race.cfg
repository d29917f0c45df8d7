SPECIFICATION Spec
CONSTANTS
    Threads = {t1, t2}
    Pages = {p1, p2, p3}
    Frames = {f1, f2}
    None = None
    MaxPins = 1
    PinModulus = 16
    Contents = 2
    RacingMisses = TRUE
SYMMETRY Symmetry
INVARIANT NoLostWrite
