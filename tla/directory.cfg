SPECIFICATION FairSpec
CONSTANTS
    Devices = {d1, d2}
    Lan = {d1, d2}
    Members = {d1, d2}
    Manual = {m1}
    Calls = {c1, c2}
    Callers = {d1}
    Absent = Absent
    None = None
    Rounds = 1
    MaxScan = 1
    MaxMove = 1
    Leaving = {d2}
PROPERTIES PeersKept ScanFindsBoth BeaconsDrain UiListFollows
CHECK_DEADLOCK FALSE
