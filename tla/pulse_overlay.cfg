SPECIFICATION Spec
CONSTANTS
    N = 2
    Groups <- MCGroups
    Outcomes <- MCOutcomes
    Gaps = FALSE
PROPERTIES
    CollectionWins
