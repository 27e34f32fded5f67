\* An edit between the two reads of analyze_file.
SPECIFICATION Spec
CONSTANTS
    MaxSheets = 3
    MaxEdits = 1
    ChunkSizes = {1, 2, 3}
    WindowSizes = {1, 2, 3}
    MaxAge = 0
    None = None
INVARIANTS
    WalkTrusted
