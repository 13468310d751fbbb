SPECIFICATION FairSpec
CONSTANTS
    d1 = d1
    c1 = c1
    c2 = c2
    d2 = d2
    Docs = {d1}
    Calls = {c1, c2}
    Unparsable = {}
    MaxJobs = 3
    BatchSize = 2
    MaxAttempts = 2
    Faults = {"transient", "permanent", "ambiguous"}
    MaxFaults = 1
    MaxFiles = 1
INVARIANT QuietDocumentsAreSettled
PROPERTIES OutcomeIsFinal DeletedIsCleaned DocumentsSettle DeadReachesDlq
CHECK_DEADLOCK FALSE
