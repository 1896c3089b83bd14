SPECIFICATION Spec
CONSTANTS
    IdMod = 3
    LenMod = 4
    REASM_MAX = 2
    MaxFrames = 3
    MaxLen = 2
    MaxDup = 2
INVARIANTS Integrity NothingForgotten NoRedelivery
CHECK_DEADLOCK FALSE
