SPECIFICATION FairSpec
CONSTANTS
    Threads = {t1, t2}
    Pages = {p1, p2}
    Frames = {f1}
    None = None
    MaxPins = 1
    PinModulus = 16
    Contents = 1
    RacingMisses = FALSE
PROPERTY CallsReturn
