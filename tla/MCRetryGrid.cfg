CONSTANTS
    Second = 2
    Minute = 4
    Hour = 8
    Day = 16
    MaxBoundary = 18
    MaxBoundaries = 4
    MaxPartitions = 3
    Modulus = 131072
    MaxRetries = 18
    MaxHash = 500
SPECIFICATION Spec
INVARIANTS
    BucketIsTheCell
    CellsAreWholeSeconds
    BandsHaveOwnTopics
    ProvisionedTopicsAreUsed
    BackoffIsOnTheCurve
CHECK_DEADLOCK FALSE
