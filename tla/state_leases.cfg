SPECIFICATION Spec
CONSTANTS
    Jobs = {j1, j2}
    Seeds = {s1}
    Exclusive = FALSE
    BootstrapAllowed = TRUE
    PushRetries = 1
    MaxDamage = 1
    MaxMain = 1
SYMMETRY JobSymmetry
INVARIANTS
    TypeOK
    SupersededMovedNothing
PROPERTIES
    BuildsOnReplaced
CHECK_DEADLOCK FALSE
