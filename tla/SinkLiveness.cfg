SPECIFICATION FairSpec

CONSTANTS
    t1 = t1
    t2 = t2
    Ctor = Ctor
    NoThread = NoThread
    PageSize = 2
    HeaderSize = 2
    DefaultCapacity = 4
    Threads = {t1, t2}
    MaxItems = 1
    MaxFlushes = 2
    MaxRuns = 3
    IOMayFail = FALSE
    NameMayClash = FALSE

INVARIANTS
    FlushDurable
    AnswerComes

PROPERTIES
    FlushReturns
    SlaveDrains
    RecoveryWrites

CHECK_DEADLOCK FALSE
