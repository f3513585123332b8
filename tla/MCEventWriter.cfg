CONSTANTS
    g1 = g1
    g2 = g2
    c1 = c1
    c2 = c2
    Writers = {g1, g2}
    Closers = {c1, c2}
    BufferSize = 1
    MaxWrites = 2
    MayFail = TRUE
SPECIFICATION FairSpec
INVARIANTS
    TypeOK
    NoSendAfterClose
    CloseDrains
    NothingIsLost
PROPERTIES
    EveryWriteReturns
    EveryCloseReturns
CHECK_DEADLOCK FALSE
