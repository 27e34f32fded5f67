------------------------------ MODULE MCIndex ------------------------------
(***************************************************************************)
(* Small instances of Index: cells of one sheet or two, names in one       *)
(* spelling or several, and texts of one and two words, one of which       *)
(* repeats a word.                                                         *)
(***************************************************************************)
EXTENDS Index, TLC

CONSTANTS sales, north, SalesNorth, North, NorthNorth

Cell(sheet, row, col) == [sheet |-> sheet, row |-> row, col |-> col]

TwoCells == {Cell(1, 1, 1), Cell(1, 1, 2)}
OneSheet  == {Cell(1, 1, 1), Cell(1, 2, 1)}

Name(c, loc) == [cell |-> c, loc |-> loc]

\* As the build spells them; with another reference ($A$1), with a quoted sheet, and
\* with what cannot be read.
Plain   == {Name(c, At(c)) : c \in Cells}
Spelled ==
  Plain \cup {Name(Cell(1, 1, 1), [At(Cell(1, 1, 1)) EXCEPT !.ref = "absolute"]),
             Name(Cell(1, 1, 1), Nowhere),
             Name(Cell(1, 1, 2), [At(Cell(1, 1, 2)) EXCEPT !.sheet = 11]),
             Name(Cell(1, 1, 2), Nowhere)}

TextTokens ==
  (SalesNorth :> <<sales, north>>) @@ (North :> <<north>>)
  @@ (NorthNorth :> <<north, north>>)

SomeTokens == [t \in Texts |-> TextTokens[t]]

CellPoints == {Point(loc, v, d) : loc \in Locations, v \in Values, d \in {0, 1}}
=============================================================================
