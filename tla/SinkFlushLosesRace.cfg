SPECIFICATION Spec

CONSTANTS
    t1 = t1
    t2 = t2
    Ctor = Ctor
    NoThread = NoThread
    PageSize = 2
    HeaderSize = 2
    DefaultCapacity = 4
    Threads = {t1}
    MaxItems = 3
    MaxFlushes = 1
    MaxRuns = 1
    IOMayFail = FALSE
    NameMayClash = FALSE

INVARIANTS
    FlushWritesAll

CHECK_DEADLOCK FALSE
