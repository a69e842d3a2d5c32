SPECIFICATION Spec
CONSTANTS
    r1 = r1
    r2 = r2
    Runs = {r1, r2}
    T = 1
    Gap = 1
    CountFaults = TRUE
    MaxTime = 3
    MaxTips = 2
    MaxSamples = 3
SYMMETRY Verbs
INVARIANTS
    StaleOnManyLooks
PROPERTIES
    TakenAfterWindow
CHECK_DEADLOCK FALSE
