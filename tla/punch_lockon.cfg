SPECIFICATION Spec
CONSTANTS
    Paths = {q1, q2, q3}
    OneWay = {}
    None = None
    TIMEOUT = 0
INVARIANT NeverBothMislocked
CHECK_DEADLOCK FALSE
