SPECIFICATION Spec
CONSTANTS
    Name <- OneName
    Initial <- OneName
    Expansion = {}
    Deps <- OneDeps
    Adds <- NoExpansion
    Result <- NoExpansion
    MaxRetries = 1
    Caller = {"c1", "c2"}
    OverlappingRetries = TRUE
    ImpatientCallers = FALSE
INVARIANT StopsAfterTasksExit
CHECK_DEADLOCK FALSE
