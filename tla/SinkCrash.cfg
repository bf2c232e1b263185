SPECIFICATION Spec

CONSTANTS
    t1 = t1
    t2 = t2
    Ctor = Ctor
    NoThread = NoThread
    PageSize = 2
    HeaderSize = 2
    DefaultCapacity = 6
    Threads = {t1, t2}
    MaxItems = 3
    MaxFlushes = 1
    MaxRuns = 3
    IOMayFail = TRUE
    NameMayClash = TRUE

SYMMETRY ThreadSymmetry

INVARIANTS
    SinkInv
    NothingLost
    WrittenInOrder
    ItemFraming
    ParserReadsLog
    TornChunkContained
    FlushedIsPrinted

PROPERTIES
    ImplementsDurableLog

CHECK_DEADLOCK FALSE
