SPECIFICATION Spec
CONSTANTS
    N = 3
    Groups <- MCGroups
    Outcomes <- MCOutcomes
    Gaps = TRUE
INVARIANTS
    FenceTruth
    SoftTwice
PROPERTIES
    NoRegress
    IncidentKept
    NewestShown
