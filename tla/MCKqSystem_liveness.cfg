CONSTANTS
    w1 = w1
    w2 = w2
    t1 = t1
    t2 = t2
    Workers = {w1}
    Tasks = {t1, t2}
    Concurrency = 2
    Second = 1
    Boundaries <- MCBoundaries
    Partitions = 2
    MaxRetries = 1
    RetryDelay <- MCRetryDelay
    Panics = {}
    Unencodable = {}
    Arrivals = {}
    MaxReady = 4
    MaxFaults = 2
    ClientRetries = 1
    Refused = {t2}
    DeliveryLimit = 2
    MaxTime = 3
SPECIFICATION FairSystem
PROPERTIES
    EveryKnownTaskEnds
    QueueDrains
CHECK_DEADLOCK FALSE
