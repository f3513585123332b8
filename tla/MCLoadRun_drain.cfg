CONSTANTS
    Tasks <- MCTasks
    MaxRetries = 1
    Patience = 1
    Producers = 1
    Workers = 2
    Movers = 1
    TotalTasks = 2
    WarmupTasks = 1
    IDBase = 10
    FailureMode = "permanent"
    Failing = {1}
    StaleDead = {}
    MaxMishaps = 1
SPECIFICATION FairLoad
INVARIANTS
    LoadTypeOK
    DrainIsReal
    VerdictIsFinal
    NoProcessIsLeftBehind
    WorkloadMeetsAWarmGroup
PROPERTIES
    EveryRunDrains
CHECK_DEADLOCK FALSE
