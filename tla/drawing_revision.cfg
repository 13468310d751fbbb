SPECIFICATION Spec
CONSTANTS
    d1 = d1
    c1 = c1
    c2 = c2
    t1 = t1
    t2 = t2
    Docs = {d1}
    Calls = {c1, c2}
    Texts = {t1, t2}
    MaxJobs = 3
    BatchSize = 2
    MaxAttempts = 2
    Faults = {}
    MaxFaults = 0
PROPERTY RevisionGrows
CHECK_DEADLOCK FALSE
