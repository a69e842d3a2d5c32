SPECIFICATION FairSpec
CONSTANTS
    b1 = b1  b2 = b2
    h1 = h1  h2 = h2
    p1 = p1  p2 = p2
    Branches <- MCBranches
    Rank     <- MCRank
    Hosts    <- MCHosts
    Procs    <- MCProcs
    HostOf   <- MCHostOf
    Keen     <- MCKeen
    CopiesOf <- MCCopies
    MaxWork   = 1
    MaxFaults = 2
INVARIANTS
    TypeOK
PROPERTIES
    NothingLost
    RivalsRetired
    EndsInALease
CHECK_DEADLOCK FALSE
