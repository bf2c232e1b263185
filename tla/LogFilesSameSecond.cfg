SPECIFICATION FairSpec

CONSTANTS
    SingleSize = 1
    TotalSize = 4
    Mega = 2
    Word = 16
    ChunkSizes = {3}
    OldFiles <- TwoOldFiles
    TicksPerSecond = 2
    MaxClock = 4
    MaxWrites = 3
    MaxIndex = 3
    MaxRestarts = 0
    MaxRemovals = 0

PROPERTIES
    IndexFound

CHECK_DEADLOCK FALSE
