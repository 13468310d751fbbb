SPECIFICATION Spec
CONSTANTS
    e1 = e1
    e2 = e2
    r1 = r1
    r2 = r2
    s1 = s1
    Equip = {e1, e2}
    Seeded = {e1}
    Defaults = {e2}
    Reloaders = {r1}
    Streams = {}
    MaxQueue = 2
    MaxRecent = 2
    MaxRestored = 2
    Edits = {"reset"}
    Faults = {"graph_read"}
PROPERTY TripHeldUntilReset
CHECK_DEADLOCK FALSE
