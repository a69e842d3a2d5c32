SPECIFICATION Spec
CONSTANTS
    h1 = h1
    h2 = h2
    p1 = p1
    p2 = p2
    p3 = p3
    Hosts = {h1}
    Procs = {p1, p3}
    HostOf <- OneClone
    MaxCommits = 5
    MaxWork = 1
    MaxInFlight = 0
    StaleViews = FALSE
INVARIANTS
    ReleaseIsTerminal
CHECK_DEADLOCK FALSE
