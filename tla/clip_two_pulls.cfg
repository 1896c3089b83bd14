SPECIFICATION Spec
CONSTANTS
    Devices = {d1, d2}
    Contents = {x}
    Empty = Empty
    None = None
    Initial = {x}
    Syncing = {}
    Pulls = {q1, q2}
    Pullers = {d1}
    MaxCopies = 0
    MaxEnable = 0
    MaxDisable = 0
PROPERTY NoAnswerDiscarded
CHECK_DEADLOCK FALSE
