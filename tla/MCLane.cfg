SPECIFICATION Spec
CONSTANTS
    Hosts <- TwoHosts
    Headless = {"laptop"}
    Procs = {"p1", "p2"}
    HostOf <- OneEach
    VerbsOf <- SplitVerbs
    LanePath <- OwnPaths
    MaxCommits = 5
    MaxWork = 2
INVARIANTS
    TypeOK
    ParkedBeforeGone
    
PROPERTIES
    LiveSessionOutlastsDeath
    DeadTakeoverKeepsSuffix
    
    ReapSparesTheHolder
    RegisterMoves
CHECK_DEADLOCK FALSE
