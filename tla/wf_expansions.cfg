SPECIFICATION Spec
CONSTANTS
    Name <- TwinName
    Initial <- TwinInitial
    Expansion <- TwinInitial
    Deps <- TwinDeps
    Adds <- TwinAdds
    Result <- TwinResult
    MaxRetries = 2
    Caller = {"c1", "c2"}
    OverlappingRetries = FALSE
    ImpatientCallers = FALSE
INVARIANT NoUnknownTask
CHECK_DEADLOCK FALSE
