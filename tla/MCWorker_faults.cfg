CONSTANTS
    w1 = w1
    w2 = w2
    t1 = t1
    t2 = t2
    Workers = {w1, w2}
    Tasks = {t1, t2}
    Concurrency = 2
    Second = 2
    Boundaries <- MCBoundaries
    Partitions = 2
    MaxRetries = 2
    RetryDelay <- MCRetryDelay
    Panics = {}
    Unencodable = {t2}
    Arrivals <- AllArrivals
    MaxReady = 2
    MaxFaults = 1
SYMMETRY Symmetry
SPECIFICATION Spec
INVARIANTS
    TypeOK
    WriteBeforeAccept
    RetriesAreDue
    DeadLettersAreExhausted
    PoolIsDrained
    NoFaultNoDuplicate
PROPERTIES
    ContinuesOnlyWhenArchived
    AckErrorsSurface
CHECK_DEADLOCK FALSE
