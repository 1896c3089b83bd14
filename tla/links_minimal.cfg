SPECIFICATION Spec
CONSTANTS
    Peers = {p1, p2}
    WsThreads = {w1, w2}
    PunchThreads = {h1}
    RtcThreads = {}
    Receivers = {}
    None = None
    TIMEOUT = 0
    MaxConns = 2
SYMMETRY WsSymmetry
INVARIANTS NoGhostLink OneLinkPerPeer
