SPECIFICATION Spec

CONSTANTS
    SingleSize = 1
    TotalSize = 2
    Mega = 2
    Word = 16
    ChunkSizes = {1, 3}
    OldFiles <- TwoOldFiles
    TicksPerSecond = 2
    MaxClock = 5
    MaxWrites = 4
    MaxIndex = 2
    MaxRestarts = 1
    MaxRemovals = 1

INVARIANTS
    TypeOK
    CurrentIsNewest
    OvershootOneChunk

PROPERTIES
    QuotaRestored
    CurrentFileKept

CHECK_DEADLOCK FALSE
