SPECIFICATION Spec

CONSTANTS
    c1 = c1
    c2 = c2
    Timer = Timer
    Nobody = Nobody
    Callers = {c1, c2}
    Deltas = {1, 2}
    Counts = {1, 8, 63}
    IntHalf = 4
    Forever = 63
    MaxPosts = 2
    MaxLate = 1
    MaxRan = 2

SYMMETRY CallerSymmetry

INVARIANTS
    TypeOK
    RunsAtMost
    CancelStops
    TimerIsThere

CHECK_DEADLOCK FALSE
