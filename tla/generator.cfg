SPECIFICATION FairSpec
CONSTANTS
    a = a
    b = b
    Sensors = {a, b}
    Defaults = {a}
    Simulable = {a, b}
    Limited = {a}
    Scenarios = {"NORMAL", "ANOMALY_40", "CRITICAL_SPIKE", "DRIFT"}
    MaxDrift = 2
    MaxStarts = 3
    Faults = {"graph", "publish"}
INVARIANTS OneLoop FlagIsTrue
PROPERTY SamplesKeepComing
CHECK_DEADLOCK FALSE
