SPECIFICATION Spec
CONSTANTS
    h1 = h1
    h2 = h2
    Pickers = {h1}
    Others = {h2}
    Plans <- TwoPlans
    Ledgers <- ChainOrAbreast
    Oid <- Oids
    MaxFaults = 1
INVARIANTS
    TypeOK
    DependenciesFirst
PROPERTIES
    SettledStaysDown
    EveryPlanSettles
CHECK_DEADLOCK FALSE
