SPECIFICATION Spec

CONSTANTS
    t1 = t1
    t2 = t2
    Ctor = Ctor
    NoThread = NoThread
    PageSize = 2
    HeaderSize = 2
    DefaultCapacity = 4
    Threads = {t1}
    MaxItems = 2
    MaxFlushes = 1
    MaxRuns = 2
    IOMayFail = FALSE
    NameMayClash = FALSE

INVARIANTS
    ChunkKeyDecrypts

CHECK_DEADLOCK FALSE
