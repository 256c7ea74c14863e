SPECIFICATION PartSpec
CONSTANTS
    Name <- SmallName
    Initial <- SmallInitial
    Expansion = {"plan"}
    Deps <- SmallDeps
    Adds <- SmallAdds
    Result <- SmallResult
    MaxRetries = 2
    Caller = {"c1"}
    OverlappingRetries = FALSE
    ImpatientCallers = TRUE
    MaxCrashes = 2
    RecordMayFail = TRUE
    Signer = {"s"}
    Stream = {"conn"}
    MaxMessages = 3
    MaxSchedules = 2
    MaxRuns = 1
    MaxRestarts = 1
    Deleter = {"d1", "d2"}
INVARIANTS InterruptedAwaitsReview LifetimeBudget RecordedOutcome SignedIsOwn
PROPERTIES RecordedSuccessIsFinal  CallsReturn DeletedNeverRuns
CHECK_DEADLOCK FALSE
