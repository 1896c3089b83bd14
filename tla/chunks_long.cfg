SPECIFICATION Spec
CONSTANTS
    IdMod = 4
    LenMod = 2
    REASM_MAX = 2
    MaxFrames = 1
    MaxLen = 3
    MaxDup = 0
INVARIANT Integrity
CHECK_DEADLOCK FALSE
