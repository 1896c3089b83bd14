SPECIFICATION FairSpec
CONSTANTS
    Devices = {d1, d2}
    Contents = {x}
    Empty = Empty
    None = None
    Initial = {Empty}
    Syncing = {d1, d2}
    Pulls = {}
    Pullers = {d1}
    MaxCopies = 1
    MaxEnable = 3
    MaxDisable = 0
PROPERTY CopySpreadsAlways
CHECK_DEADLOCK FALSE
