SPECIFICATION Spec
CONSTANTS
    Devices = {d1, d2}
    Lan = {d1, d2}
    Members = {d1, d2}
    Manual = {m1}
    Calls = {c1}
    Callers = {d1}
    Absent = Absent
    None = None
    Rounds = 3
    MaxScan = 1
    MaxMove = 0
    Leaving = {}
INVARIANT UiListCurrent
CHECK_DEADLOCK FALSE
