CONSTANTS
    m1 = m1
    m2 = m2
    NoMover = NoMover
    Movers = {m1, m2}
    Second = 1
    Boundaries <- MCBoundaries
    Partitions = 2
    Delays = {1}
    MaxRecords = 2
    MaxTime = 1
    RunsAgain = FALSE
    MayBeBad = FALSE
    MaxRebalances = 1
    MaxFaults = 1
SPECIFICATION FairSpec
PROPERTIES
    EveryRetryMoves
CHECK_DEADLOCK FALSE
