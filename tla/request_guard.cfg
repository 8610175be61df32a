SPECIFICATION GuardSpec
CONSTANTS
    Clients = {c1, c2}
    Processes = {p1, p2}
    Times <- MCTimes
    Window = 5
    Cap = 1
    Allowance = 2
    Duration = 2
    Lag = 1
    Rolling = 2
SYMMETRY Symmetry
INVARIANTS
    GuardTypeOK
    RollingCeiling
    CountCovers
    WindowBound
CHECK_DEADLOCK FALSE
