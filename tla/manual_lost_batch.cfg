SPECIFICATION FairSpec
CONSTANTS
    d1 = d1
    c1 = c1
    c2 = c2
    d2 = d2
    Docs = {d1, d2}
    Calls = {c1}
    Unparsable = {d2}
    MaxJobs = 2
    BatchSize = 2
    MaxAttempts = 2
    Faults = {"worker"}
    MaxFaults = 1
    MaxFiles = 1
PROPERTY DeadReachesDlq
CHECK_DEADLOCK FALSE
