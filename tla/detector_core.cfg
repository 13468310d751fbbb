SPECIFICATION Spec
CONSTANTS
    e1 = e1
    e2 = e2
    r1 = r1
    r2 = r2
    s1 = s1
    Equip = {e1}
    Seeded = {e1}
    Defaults = {}
    Reloaders = {r1}
    Streams = {s1}
    MaxQueue = 1
    MaxRecent = 2
    MaxRestored = 2
    Edits = {"add", "remove", "reset"}
    Faults = {"graph_read", "graph_write", "restart"}
INVARIANTS TypeOK RegistryAgrees RegisterIsFresh AlertsTellTheState HistorySurvives
PROPERTY ImplementsBreaker
CHECK_DEADLOCK FALSE
