SPECIFICATION Spec
CONSTANTS
    Buildlet = {"x", "y"}
    KeepAliver = {"k", "l"}
    IdleTimeout = 2
    Instance = {"g"}
    Visits = 2
    Dial = {"d1", "d2"}
    Queue <- OneQueue
    Client <- Two
    Cost <- TwoCost
    Less <- TwoLess
    Limits <- TwoLimits
    Untracked = {}
    Gomote = {"b"}
    Parallel = 2
    MaxChunks = 5
INVARIANTS ClosedInTime UsedOrRefused LedgerMatchesQuota
PROPERTIES CreateEnds DialEnds StrayInstancesGo GzipEnds
CHECK_DEADLOCK FALSE
