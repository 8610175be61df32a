SPECIFICATION Spec
CONSTANTS
    Issues <- MCIssues
    States <- MCStates
    Codes <- MCCodes
    Signals <- MCSignals
    Targeted <- MCTargeted
    Acts = 1
    Worlds <- MCWorlds
INVARIANTS
    OneSlot
PROPERTIES
    RecoveryEarned
    SuppressionRespected
    Closes
    Alerts
