SPECIFICATION Spec
CONSTANTS
    Runs <- MCThreeRuns
    Legacy <- MCLegacy
    SeedTimes <- MCSeedTimes
    MaxConcurrent = 2
    Window = 3
    Cap = 2
    SuccessInterval = 2
    RetryInterval = 1
    OverlapCap = 3
    OverlapRuntimeCap = 2
    Collection = TRUE
    PushRetries = 0
    MarkTries = 1
    RunLimit = 1
    MaxClock = 3
INVARIANTS
    RetrySpacing
    GateOpens
PROPERTIES
    ImplementsBudget
    RetryIntentSurvives
CHECK_DEADLOCK FALSE
