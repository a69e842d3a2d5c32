SPECIFICATION Spec
CONSTANTS
    r1 = r1
    r2 = r2
    Runs = {r1}
    T = 1
    Gap = 1
    CountFaults = FALSE
    MaxTime = 6
    MaxTips = 3
    MaxSamples = 4
INVARIANTS
    IInv
PROPERTIES
    TakenAfterWindow
CHECK_DEADLOCK FALSE
