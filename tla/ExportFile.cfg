SPECIFICATION FairSpec
CONSTANTS
    MaxRows = 3
    MaxStatements = 3
    MaxResult = 3
    HeaderBytes = 1
    RowBytes = 3
    ChunkBytes = 2
    HighWater = 3
INVARIANTS
    TypeOK
    ExportIsFirstRows
    SocketBufferBounded
PROPERTIES
    ExportEnds
CHECK_DEADLOCK FALSE
