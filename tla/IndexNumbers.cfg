\* Two cells of a sheet and one number.
SPECIFICATION Spec
CONSTANTS
    sales = sales  north = north
    SalesNorth = SalesNorth  North = North  NorthNorth = NorthNorth 
    Points <- CellPoints
    Cells <- OneSheet
    Names <- Plain
    Unit = 1
    Tokens <- SomeTokens
    Numbers = {1}
    Texts = {}
    Words = {sales, north}
    Empty = Empty
    Width = 4
    Capacity = 2
    MaxInserts = 2
    Edges = {0}
INVARIANTS
    NumericComplete
CHECK_DEADLOCK FALSE
