SPECIFICATION Spec
CONSTANTS
    Sockets = {s1, s2}
    None = None
    MaxFail = 0
    MaxVanish = 0
PROPERTY OneSurvives
CHECK_DEADLOCK FALSE
