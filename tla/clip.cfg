SPECIFICATION FairSpec
CONSTANTS
    Devices = {d1, d2}
    Contents = {x}
    Empty = Empty
    None = None
    Initial = {Empty, x}
    Syncing = {d1, d2}
    Pulls = {q1, q2}
    Pullers = {d1}
    MaxCopies = 1
    MaxEnable = 2
    MaxDisable = 1
INVARIANTS PendingOwned PullAuthentic
PROPERTIES PullEnds CopySpreads
CHECK_DEADLOCK FALSE
