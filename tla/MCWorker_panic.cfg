CONSTANTS
    w1 = w1
    w2 = w2
    t1 = t1
    t2 = t2
    Workers = {w1}
    Tasks = {t1, t2}
    Concurrency = 1
    Second = 2
    Boundaries <- MCBoundaries
    Partitions = 2
    MaxRetries = 2
    RetryDelay <- MCRetryDelay
    Panics = {t1}
    Unencodable = {}
    Arrivals <- OneTask
    MaxReady = 1
    MaxFaults = 0
SPECIFICATION FairSpec
PROPERTIES
    PanicsAreRetried
CHECK_DEADLOCK FALSE
