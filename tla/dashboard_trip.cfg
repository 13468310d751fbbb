SPECIFICATION DashboardSpec
CONSTANTS
    e1 = e1
    e2 = e2
    r1 = r1
    r2 = r2
    s1 = s1
    Equip = {e1}
    Seeded = {e1}
    Defaults = {e1}
    Reloaders = {}
    Streams = {s1}
    MaxQueue = 2
    MaxRecent = 1
    MaxRestored = 1
    MaxFetches = 2
    Edits = {"reset"}
    Faults = {"mongo"}
PROPERTY TripIsShown
CHECK_DEADLOCK FALSE
