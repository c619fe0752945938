SPECIFICATION FairSpec
CONSTANTS
    Slots = {1, 2}
    MaxOps = 2
    MaxVersion = 2
    MaxLost = 1
    MaxEnds = 1
    None = None
INVARIANTS
    NoShellLeftOpen
PROPERTIES
    ShownNeverGoesBack
    SavedIsShown
    StaleScreenEnds
CHECK_DEADLOCK FALSE
