SPECIFICATION Spec
CONSTANTS
    Runs = {r1, r2, r3}
    Legacy = {s1}
    Kinds <- MCKinds
    Times <- MCTimes
    Window = 4
    Cap = 4
    MetricsStarts = 1
    DetailsStarts = 2
    ScanStarts = 3
    MetricsInterval = 1
    DetailsInterval = 2
    ScanInterval = 1
    RetryDelay = 2
    MaxReservations = 5
    PushRetries = 1
    MaxConcurrent = 2
    SeedTimes <- MCSeedTimes
    SeedStarts <- MCSeedStarts
SYMMETRY RunSymmetry
INVARIANTS
    LedgerOK
    WeightedBound
    CadenceKept
    GateHonest
PROPERTIES
    ImplementsBudget
CHECK_DEADLOCK FALSE
