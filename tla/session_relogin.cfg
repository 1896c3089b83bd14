SPECIFICATION SessionSpec
CONSTANTS
    Servers = {s1, s2}
    Users = {u1, u2}
    Phrases = {p1}
    Unset = Unset
    AppCalls = {c1, c2, c3}
INVARIANT KeyOfUserRelogin
CHECK_DEADLOCK FALSE
