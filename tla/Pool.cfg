SPECIFICATION FairSpec

CONSTANTS
    c1 = c1
    c2 = c2
    w1 = w1
    w2 = w2
    Nobody = Nobody
    Clients = {c1, c2}
    Workers = {w1, w2}
    MaxTasks = 2
    MaxStarts = 2

INVARIANTS
    TypeOK
    WaitCoversEarlier
    TasksConserved
    NoWakeUpLost

PROPERTIES
    PostedRuns
    StopReturns

CHECK_DEADLOCK FALSE
