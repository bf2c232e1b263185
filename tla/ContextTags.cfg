SPECIFICATION FairSpec

CONSTANTS
    c1 = c1
    c2 = c2
    Nobody = Nobody
    Callers = {c1, c2}
    Tags = {0, 1, 2}
    MaxRunners = 4

INVARIANTS
    RunnerOfItsOwn

PROPERTIES
    AddReturns

CHECK_DEADLOCK FALSE
