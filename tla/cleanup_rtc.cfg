SPECIFICATION Spec
CONSTANTS
    Peers = {p1}
    WsThreads = {}
    PunchThreads = {h1}
    RtcThreads = {r1}
    Receivers = {}
    None = None
    TIMEOUT = 0
    MaxConns = 2
PROPERTY CleanupSparesOthers
