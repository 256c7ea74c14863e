SPECIFICATION BotSpec
CONSTANTS
    Scenario <- OneOfNeeds
    TitleOf <- Titles
    MaxActs <- Bounds
    MaxLag = 3
    Releases <- TwoReleases
INVARIANT OneNeedRemains
CHECK_DEADLOCK FALSE
