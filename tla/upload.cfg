SPECIFICATION FairSpec
CONSTANTS
    None = None
    MaxSegments = 2
    MaxAttempts = 2
    MaxSubmits = 2
    MaxTroubles = 1
INVARIANTS
    UploadsAreHeld
    FileIsWhole
PROPERTIES
    UploadsSettle
CHECK_DEADLOCK FALSE
