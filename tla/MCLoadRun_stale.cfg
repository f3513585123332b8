CONSTANTS
    Tasks <- MCTasks
    MaxRetries = 0
    Patience = 1
    Producers = 2
    Workers = 1
    Movers = 1
    TotalTasks = 2
    WarmupTasks = 1
    IDBase = 10
    FailureMode = "until_time"
    Failing = {1}
    StaleDead = {0}
    MaxMishaps = 0
SPECIFICATION LoadSpec
INVARIANTS
    StaleDeadLettersMaskNothing
CHECK_DEADLOCK FALSE
