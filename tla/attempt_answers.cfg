SPECIFICATION Spec
CONSTANTS
    Runs <- MCRuns
    Legacy <- MCLegacy
    SeedTimes <- MCSeedTimes
    MaxConcurrent = 2
    Window = 3
    Cap = 2
    SuccessInterval = 2
    RetryInterval = 1
    OverlapCap = 3
    OverlapRuntimeCap = 2
    Collection = TRUE
    PushRetries = 1
    MarkTries = 2
    RunLimit = 1
    MaxClock = 3
INVARIANTS
    TypeOK
    PermitCharged
    NeverSilenced
PROPERTIES
    OutcomeFinal
CHECK_DEADLOCK FALSE
