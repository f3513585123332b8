CONSTANTS
    m1 = m1
    m2 = m2
    NoMover = NoMover
    Movers = {m1}
    Second = 1
    Boundaries <- MCBoundaries
    Partitions = 2
    Delays = {1}
    MaxRecords = 2
    MaxTime = 2
    RunsAgain = TRUE
    MayBeBad = FALSE
    MaxRebalances = 0
    MaxFaults = 1
SPECIFICATION Spec
INVARIANTS
    NeverCommitsPastAFailure
CHECK_DEADLOCK FALSE
