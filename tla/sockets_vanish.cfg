SPECIFICATION FairSpec
CONSTANTS
    Sockets = {s1, s2}
    None = None
    MaxFail = 0
    MaxVanish = 1
PROPERTY ReconnectsAfterLoss
CHECK_DEADLOCK FALSE
