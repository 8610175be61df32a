SPECIFICATION Spec
CONSTANTS
    Jobs = {j1, j2, j3}
    Seeds = {s1}
    Exclusive = TRUE
    BootstrapAllowed = FALSE
    PushRetries = 0
    MaxDamage = 1
    MaxMain = 1
SYMMETRY JobSymmetry
PROPERTIES
    LastValidKept
    GoodCurrentKept
CHECK_DEADLOCK FALSE
