SPECIFICATION MLSpec
CONSTANTS
    Mutations = {"a", "b", "c"}
    Size <- SmallSize
    Target = 2
    Slack = 0
    MaxLogs = 4
    MaxFaults = 2
INVARIANT OfflineContinues
CHECK_DEADLOCK FALSE
