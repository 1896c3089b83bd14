SPECIFICATION FairSpec
CONSTANTS
    Peers = {p1}
    WsThreads = {w1}
    PunchThreads = {h1}
    RtcThreads = {r1}
    Receivers = {u1}
    None = None
    TIMEOUT = 0
    MaxConns = 2
PROPERTIES SlotDiscipline LostLinkStops StaleLinkEvicted UiFollows
