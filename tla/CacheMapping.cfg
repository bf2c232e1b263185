SPECIFICATION Spec

CONSTANTS
    r1 = r1
    r2 = r2
    PageSize = 2
    HeaderSize = 2
    DefaultCapacity = 3
    Readers = {r1, r2}
    MaxPushes = 4
    MaxSize = 3
    MaxRuns = 3
    MaxFailures = 2

SYMMETRY ReaderSymmetry

INVARIANTS
    TypeOK
    InBounds
    SafeUntilOutgrown

PROPERTIES
    ImplementsCacheFile

CHECK_DEADLOCK FALSE
