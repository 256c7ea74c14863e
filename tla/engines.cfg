\* Twin expansions under Run, and a queue whose limits shrink below what is
\* used and grow again.
SPECIFICATION EnginesSpec
CONSTANTS
    Name <- TwinName
    Initial <- TwinInitial
    Expansion <- TwinInitial
    Deps <- TwinDeps
    Adds <- TwinAdds
    Result <- TwinResult
    MaxRetries = 2
    Caller = {"c1", "c2"}
    OverlappingRetries = FALSE
    ImpatientCallers = TRUE
    Queue <- OneQueue
    Client <- Three
    Cost <- ThreeCost
    Less <- ThreeLess
    Limits <- Shrinking
    Untracked = {0, 1}
    Time = {0, 1, 2}
INVARIANTS OneExecutionPerTask DepsRespected StallHasCause NoLostWakeup
PROPERTIES SuccessIsFinal  WaiterServed ImplementsService
CHECK_DEADLOCK FALSE
