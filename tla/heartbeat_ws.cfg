SPECIFICATION Spec
CONSTANTS
    Peers = {p1}
    WsThreads = {w1}
    PunchThreads = {h1}
    RtcThreads = {}
    Receivers = {}
    None = None
    TIMEOUT = 0
    MaxConns = 2
PROPERTY HeartbeatSkipsWs
