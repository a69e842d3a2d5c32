SPECIFICATION Spec
CONSTANTS
    i1 = i1
    a1 = a1
    a2 = a2
    r1 = r1
    Remotes = {"box"}
    PaneIds = {i1}
    Askers = {a1, a2}
    VerbsOf <- OneOfEach
    Repliers = {r1}
    TTL = 1
    MaxTime = 1
    MaxPanes = 2
    MaxAsks = 2
INVARIANTS
    TypeOK
    OwedIsAsked
PROPERTIES
    PromptReachesTheLane
    OverlookedOnlyWhileFresh
CHECK_DEADLOCK FALSE
