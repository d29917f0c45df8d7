SPECIFICATION Spec
CONSTANTS
    Bits = 1
    LongBytes = 4
    IntBytes = 2
    NaN = NaN
    Mantissa = 3
    BlockSize = 2
    MaxExecutes = 2
    MaxResets = 1
    Workloads <- AllWorkloads
CHECK_DEADLOCK FALSE
INVARIANTS
    ResultCorrect
    OrderAgrees
