SPECIFICATION Spec
CONSTANTS
    Queue <- HostQueues
    Client <- Two
    Cost <- TwoCost
    Less <- TwoLess
    Limits <- NoLimits
    Untracked = {}
    Machine = {"m"}
    MissedBeats = 2
    Lease = {"l1", "l2", "f"}
    Foreign = {"f"}
    Image = {"old", "new"}
    Configs <- TwoConfigs
    Period = 2
    RenewFor = 4
    MaxMishaps = 3
INVARIANT OneUser
PROPERTIES HeldUntilDead PoolRecovers BootingIsKept EnoughMacs
CHECK_DEADLOCK FALSE
