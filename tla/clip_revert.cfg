SPECIFICATION FairSpec
CONSTANTS
    Devices = {d1, d2}
    Contents = {x, y}
    Empty = Empty
    None = None
    Initial = {x}
    Syncing = {d1, d2}
    Pulls = {}
    Pullers = {d1}
    MaxCopies = 1
    MaxEnable = 2
    MaxDisable = 0
PROPERTY CopyReplaces
CHECK_DEADLOCK FALSE
