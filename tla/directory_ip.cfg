SPECIFICATION Spec
CONSTANTS
    Devices = {d1}
    Lan = {}
    Members = {d1}
    Manual = {}
    Calls = {c1, c2}
    Callers = {d1}
    Absent = Absent
    None = None
    Rounds = 3
    MaxScan = 0
    MaxMove = 1
    Leaving = {}
PROPERTY RegistryForward
CHECK_DEADLOCK FALSE
