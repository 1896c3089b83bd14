SPECIFICATION FairSpec
CONSTANTS
    Paths = {q1, q2}
    OneWay = {q2}
    None = None
    TIMEOUT = 1
PROPERTIES UpOnProvenPath HalfOpenDies BothComeUp
CHECK_DEADLOCK FALSE
