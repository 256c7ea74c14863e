SPECIFICATION Spec
CONSTANTS
    Scenario <- All
    TitleOf <- Titles
    MaxActs <- Bounds
    MaxLag = 3
    Releases <- TwoReleases
    Mutations = {"a", "b", "c"}
    Size <- SmallSize
    Target = 2
    Slack = 0
    MaxLogs = 3
    MaxFaults = 2
INVARIANTS ExplainedOnce OneHistory FlushedSurvives
PROPERTIES BotSettles CatchesUp
CHECK_DEADLOCK FALSE
