SPECIFICATION FairSpec

CONSTANTS
    c1 = c1
    c2 = c2
    Timer = Timer
    Nobody = Nobody
    Callers = {c1}
    Deltas = {1}
    Counts = {1, 63}
    IntHalf = 4
    Forever = 63
    MaxPosts = 2
    MaxLate = 0
    MaxRan = 2

PROPERTIES
    RunsAll
    TimerStops

CHECK_DEADLOCK FALSE
