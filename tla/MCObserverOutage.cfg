SPECIFICATION Spec
CONSTANTS
    r1 = r1
    r2 = r2
    Runs = {r1}
    T = 2
    Gap = 1
    CountFaults = FALSE
    MaxTime = 4
    MaxTips = 2
    MaxSamples = 5
INVARIANTS
    OutageResets
CHECK_DEADLOCK FALSE
