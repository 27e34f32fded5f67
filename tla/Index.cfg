\* Texts and a number in two cells of a sheet, named as the build does, with another
\* reference, with a quoted sheet, and with what cannot be read.
SPECIFICATION Spec
CONSTANTS
    sales = sales  north = north
    SalesNorth = SalesNorth  North = North  NorthNorth = NorthNorth 
    Points <- CellPoints
    Cells <- TwoCells
    Names <- Spelled
    Unit = 1
    Tokens <- SomeTokens
    Numbers = {1}
    Texts = {SalesNorth, NorthNorth}
    Words = {sales, north}
    Empty = Empty
    Width = 4
    Capacity = 1
    MaxInserts = 4
    Edges = {1, 3}
INVARIANTS
    TypeOK
    TextExact
    NumericSound
    NumericFound
    SpatialFound
    QueryExact
CHECK_DEADLOCK FALSE
