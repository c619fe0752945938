SPECIFICATION FairSpec
CONSTANTS
    r1 = r1
    r2 = r2
    Requests <- TwoRequests
    MaxQueue = 1
    MaxHelpers = 2
    Release = Release
    None = None
INVARIANTS
    DoneMeansPerformed
    ExpiredNotPerformed
PROPERTIES
    TrayGoesOn
    KeysComeUp
CHECK_DEADLOCK FALSE
