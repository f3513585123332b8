CONSTANTS
    m1 = m1
    m2 = m2
    NoMover = NoMover
    Movers = {m1, m2}
    Second = 1
    Boundaries <- OnePartition
    Partitions = 1
    Delays = {1, 2}
    MaxRecords = 2
    MaxTime = 3
    RunsAgain = FALSE
    MayBeBad = TRUE
    MaxRebalances = 1
    MaxFaults = 1
SYMMETRY Symmetry
SPECIFICATION Spec
INVARIANTS
    TypeOK
    CommittedAreMoved
    PausedWhileHeld
    WaitIsBounded
    MovedByOneMover
PROPERTIES
    QueueSpec
CHECK_DEADLOCK FALSE
