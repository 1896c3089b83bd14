SPECIFICATION FairSpec
CONSTANTS
    Sockets = {s1, s2, s3}
    None = None
    MaxFail = 2
    MaxVanish = 1
INVARIANTS NeverHalfOpen
PROPERTY Reconnects
CHECK_DEADLOCK FALSE
