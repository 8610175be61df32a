SPECIFICATION Spec
CONSTANTS
    Slots = {1, 2}
    Scopes <- MCScopes
    ActiveMax = 1
    DockerActiveMax = 1
    Cooldown <- MCCooldown
    MaxWait = 1
    JanitorLimit = 2
    GhostAge = 5
    MaxCancellations = 2
    Period = 1
    Sends = 2
    RetryGate = 1
    SuccessGate = 2
    MaxStuck = 1
INVARIANTS
    NoPileUp
CHECK_DEADLOCK FALSE
PROPERTIES
    NeverSilenced
    QueueMoves
