SPECIFICATION Spec
CONSTANTS
    d1 = d1
    c1 = c1
    c2 = c2
    d2 = d2
    Docs = {d1, d2}
    Calls = {c1, c2}
    Unparsable = {d2}
    MaxJobs = 3
    BatchSize = 2
    MaxAttempts = 2
    Faults = {"api", "request", "worker", "publish", "duplicate", "transient", "ambiguous", "permanent", "swallowed"}
    MaxFaults = 1
    MaxFiles = 2
SYMMETRY CallSymmetry
INVARIANTS IInv DoneIsIndexed NoDuplicateChunks DeleteIsFinal OneDeleteJob
CHECK_DEADLOCK FALSE
