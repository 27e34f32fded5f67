\* Workbooks of up to two sheets of five rows, or three of fewer; batches of two rows.
SPECIFICATION FairSpec
CONSTANTS
    Workbooks <- SmallWorkbooks
    Counts = {1, 2, 3}
    ChunkSizes = {1, 2}
    ChunkBatch = 2
    WindowBatch = 2
    MaxResults = 2
    None = None
INVARIANTS
    TypeOK
    InPlace
    NoGaps
    SheetsWhole
    ChunksExact
    WindowsAdjoin
PROPERTIES
    StreamEnds
CHECK_DEADLOCK FALSE
