SPECIFICATION Spec
CONSTANTS
    Peers = {p1}
    WsThreads = {w1}
    PunchThreads = {}
    RtcThreads = {r1}
    Receivers = {}
    None = None
    TIMEOUT = 0
    MaxConns = 2
INVARIANT NoGhostLink
