\* Two builds that compete for CPUs, other instances that come and go, one
\* restart of the coordinator.
SPECIFICATION PoolFairSpec
CONSTANTS
    Queue <- Both
    Client <- Two
    Cost <- TwoCost
    Less <- TwoLess
    Limits <- TwoLimits
    Untracked = {1, 2}
    MaxRestarts = 1
    Gomote = {"b"}
INVARIANT QuotaFollowsVM
PROPERTY OnlyStrayVMsGo
