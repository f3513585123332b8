CONSTANTS
    w1 = w1
    w2 = w2
    t1 = t1
    t2 = t2
    Workers = {w1, w2}
    Tasks = {t1}
    Concurrency = 1
    Second = 1
    Boundaries <- MCBoundaries
    Partitions = 2
    MaxRetries = 2
    RetryDelay <- MCRetryDelay
    Panics = {}
    Unencodable = {}
    Arrivals = {}
    MaxReady = 4
    MaxFaults = 2
    ClientRetries = 1
    Refused = {}
    DeliveryLimit = 3
    MaxTime = 3
SYMMETRY Symmetry
SPECIFICATION SystemSpec
INVARIANTS
    NoTaskIsLost
    DeadLettersHadEveryAttempt
    ChannelsNeverBlock
PROPERTIES
    ImplementsLifecycle
    ImplementsQueue
CHECK_DEADLOCK FALSE
