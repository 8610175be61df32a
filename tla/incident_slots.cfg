SPECIFICATION Spec
CONSTANTS
    Issues <- MCIssues
    States <- MCStates
    Codes <- MCCodes
    Signals <- MCSignals
    Targeted <- MCTargeted
    Acts = 1
    Worlds <- MCLate
INVARIANTS
    OneSlot
