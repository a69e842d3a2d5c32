SPECIFICATION Spec
CONSTANTS
    h1 = h1
    h2 = h2
    p1 = p1
    p2 = p2
    p3 = p3
    Hosts <- TwoHosts
    Procs = {p1, p2, p3}
    HostOf <- TwoOnOne
    MaxCommits = 4
    MaxWork = 1
    MaxInFlight = 1
    StaleViews = FALSE
INVARIANTS
    OneProvenHolder
PROPERTIES
    AppendOnly
    SavedStaysSaved
    ImplementsWorkRef
CHECK_DEADLOCK FALSE
