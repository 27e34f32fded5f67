\* Walks over up to four sheets in chunks of one to three, edited once.
SPECIFICATION Spec
CONSTANTS
    MaxSheets = 4
    MaxEdits = 1
    ChunkSizes = {1, 2, 3}
    WindowSizes = {1, 2, 3}
    MaxAge = 0
    None = None
INVARIANTS
    TypeOK
    WalkExact
    WalkCovers
