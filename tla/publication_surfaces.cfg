SPECIFICATION Spec
CONSTANTS
    Surfaces = {"dns", "core", "analytics"}
    Refreshable = {"dns"}
    Retainable = {"dns"}
    RetryPair = {"core", "analytics"}
    Findings <- MCFindings
    MaxPresent = 2
    MaxAge = 1
INVARIANTS
    SelectedSound
    BlocksForCause
PROPERTIES
    ClockKept
    Settles
    Heals
