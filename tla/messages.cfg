SPECIFICATION FairSpec
CONSTANTS
    p = p
    c = c
    q = q
    w1 = w1
    h1 = h1
    r1 = r1
    c1 = c1
    c2 = c2
    Devices = {p, c, q}
    Links = {w1, h1, r1}
    Calls = {c1, c2}
    Keys = {k1}
    TcpThreads = {t1, t2}
    Packages = {mail}
    Clipboards = {p}
    Consumers = {c}
    Producers = {p}
    Shares = {"clipboard"}
    None = None
    Pair <- MCPair
    Kind <- MCKind
    Known <- MCKnown
    Scenarios <- MCScenarios
INVARIANTS TypeOK Accounted InOrder RefusedOnlyIfEnded NotifiedSubscribed ReadsItsSubscription
PROPERTIES SlotsKept SentIsHandled
CHECK_DEADLOCK FALSE
