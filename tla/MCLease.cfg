SPECIFICATION Spec
CONSTANTS
    h1 = h1
    h2 = h2
    p1 = p1
    p2 = p2
    p3 = p3
    Hosts <- TwoHosts
    Procs = {p1, p2}
    HostOf <- OnePerHost
    MaxCommits = 4
    MaxWork = 1
    MaxInFlight = 1
    StaleViews = TRUE
SYMMETRY Swap
INVARIANTS
    TypeOK
    OneProvenHolder
    IInv
    RegInv
PROPERTIES
    AppendOnly
    SavedStaysSaved
    SyncKeepsLocalWork
    ImplementsWorkRef
CHECK_DEADLOCK FALSE
