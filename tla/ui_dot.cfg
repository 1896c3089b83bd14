SPECIFICATION Spec
CONSTANTS
    Peers = {p1}
    WsThreads = {w1}
    PunchThreads = {}
    RtcThreads = {}
    Receivers = {u1}
    None = None
    TIMEOUT = 0
    MaxConns = 2
INVARIANT UiShowsRegistry
