SPECIFICATION FairSpec
CONSTANTS
    MaxCalls = 3
    Long <- FirstTwo
    MaxQueue = 2
    MaxParts = 4
    None = None
INVARIANTS
    ExecutedOnce
    OneCallOvertaken
PROPERTIES
    CallsSettle
CHECK_DEADLOCK FALSE
