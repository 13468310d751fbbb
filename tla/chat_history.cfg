SPECIFICATION Spec
CONSTANTS
    s1 = s1
    r1 = r1
    r2 = r2
    x1 = x1
    x2 = x2
    Sessions = {s1}
    Streams = {r1, r2}
    Deleters = {x1}
    MaxHistory = 2
    MaxClock = 6
    Faults = {}

PROPERTY HistoryIsRecent
CHECK_DEADLOCK FALSE
