SPECIFICATION Spec
CONSTANTS
    IdMod = 4
    LenMod = 4
    REASM_MAX = 1
    MaxFrames = 2
    MaxLen = 2
    MaxDup = 0
INVARIANT OnlyStalledShed
CHECK_DEADLOCK FALSE
