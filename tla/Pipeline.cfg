SPECIFICATION Spec

CONSTANTS
    t1 = t1
    t2 = t2
    e1 = e1
    e2 = e2
    con = con
    Threads = {t1, t2}
    Sinks <- ThreeSinks
    Consoles = {con}
    Messages <- SomeMessages
    Levels = {0, 3}
    MaxCalls = 2
    MaxLevelChanges = 1
    MaxSwaps = 1
    MaxFailures = 2

SYMMETRY ThreadSymmetry

INVARIANTS
    TypeOK
    ItemsReadBack
    Delivered
    LinesMixBounded

CHECK_DEADLOCK FALSE
