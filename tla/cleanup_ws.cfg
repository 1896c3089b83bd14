SPECIFICATION Spec
CONSTANTS
    Peers = {p1}
    WsThreads = {w1, w2}
    PunchThreads = {}
    RtcThreads = {}
    Receivers = {}
    None = None
    TIMEOUT = 0
    MaxConns = 2
PROPERTY CleanupSparesOthers
