------------------------------- MODULE Index -------------------------------
(***************************************************************************)
(* The index manager of internal/index/manager.go: a B-tree of numbers, an *)
(* inverted index of words, the quadtree of module QuadTree and a Bloom    *)
(* filter, built from a workbook and kept up to date by deltas.            *)
(*                                                                         *)
(* BuildFromFile holds the manager's lock to its end; here it indexes one  *)
(* cell a step, and nothing else happens while a cell is left.  A delta    *)
(* names the value its cell had before, and the cell by a string, in any   *)
(* of several spellings: parseLocation keeps the sheet and the reference   *)
(* as they are spelled, and the indexes take each spelling for a location  *)
(* of its own.  Texts are told apart by their bytes, which the Bloom       *)
(* filter hashes, and have the words that tokenizeText makes of them, long *)
(* enough and no stop words.                                               *)
(***************************************************************************)
EXTENDS QuadTree, FiniteSets

CONSTANTS
  Cells,    \* records with a sheet, a row and a column, counted from 1
  Names,    \* the strings a delta may give: the cell meant, the location read from it
  Unit,     \* the distance of two cells, in the fractions of QuadTree
  Numbers,  \* numbers a delta may give a cell
  Texts,    \* texts of cells and of queries
  Words,    \* the words of texts
  Tokens,   \* the sequence of words of each text: tokenizeText
  Empty     \* no value, the empty text

\* The location of a cell as indexSheet spells it, and parseLocation's answer to every
\* string it cannot read.
At(c)   == [sheet |-> c.sheet, ref |-> "plain", row |-> c.row, col |-> c.col]
Nowhere == [sheet |-> 0, ref |-> "", row |-> 0, col |-> 0]

Locations == {At(c) : c \in Cells} \cup {n.loc : n \in Names}
Values    == Numbers \cup Texts \cup {Empty}

ASSUME CellsPlaced ==
  Cells \subseteq [sheet : Nat \ {0}, row : Nat \ {0}, col : Nat \ {0}]
ASSUME NamesRead ==
  \A n \in Names :
    /\ n.cell \in Cells
    /\ n.loc # Nowhere => n.loc.sheet # 0 /\ n.loc.row = n.cell.row /\ n.loc.col = n.cell.col
ASSUME OneCell ==
  /\ \A n \in Names, c \in Cells : n.loc = At(c) => n.cell = c
  /\ \A m, n \in Names : m.loc = n.loc /\ n.loc # Nowhere => m.cell = n.cell
ASSUME UnitPos     == Unit \in Nat \ {0}
ASSUME NumbersInt  == Numbers \subseteq Int
ASSUME TokensSeq   == Tokens \in [Texts -> Seq(Words)]
ASSUME Kinds       == Numbers \cap Texts = {} /\ Empty \notin Numbers \cup Texts

\* What the quadtree gets: indexSheet counts columns and rows from 0, which is `from'
\* 1, updateCellIndexes from 1.
Point(loc, value, from) ==
  [x |-> (loc.col - from) * Unit, y |-> (loc.row - from) * Unit, value |-> value, loc |-> loc]

ASSUME PointsAre == Points = {Point(loc, v, d) : loc \in Locations, v \in Values, d \in {0, 1}}

VARIABLES
  known,     \* what each cell holds, as far as the manager was told
  told,      \* history: the locations under which it was told of each cell
  primary,   \* the B-tree: items of a value and a location
  inverted,  \* how often each word lists each location
  bloom,     \* the texts added to the filter
  fresh,     \* nothing was built yet or updated
  left       \* the texts of the cells BuildFromFile has still to index

indexVars == <<known, told, primary, inverted, bloom, fresh, left>>
vars      == <<treeVars, indexVars>>
-----------------------------------------------------------------------------
\* How often the tokens of a value name w: addToInverted and removeFromInverted go
\* through them one by one.
Count(value, w) ==
  IF value \in Texts THEN Cardinality({i \in DOMAIN Tokens[value] : Tokens[value][i] = w}) ELSE 0

\* Mutant: only the last listing is removed with its word.
RelistedLast(old, new, loc) ==
  [w \in Words |-> [inverted[w] EXCEPT
     ![loc] = (IF Count(old, w) = 1 THEN @ - 1 ELSE @) + Count(new, w)]]

\* removeFromInverted of the old value, then addToInverted of the new one.
Relisted(old, new, loc) ==
  [w \in Words |-> [inverted[w] EXCEPT
     ![loc] = (IF Count(old, w) > @ THEN 0 ELSE @ - Count(old, w)) + Count(new, w)]]

\* btree.Delete: items are equal when neither is Less, that is by value and sheet
\* whatever the cell.
Without(items, value, loc) ==
  {i \in items : i.value # value \/ i.loc.sheet # loc.sheet}

\* Mutant: the deletion of the old number is forgotten.
RenumberedNoDelete(old, new, loc) ==
  IF new \in Numbers THEN Without(primary, new, loc) \cup {[value |-> new, loc |-> loc]}
                     ELSE primary

\* Mutant: the old number is deleted after the new one is there.
RenumberedDeleteLast(old, new, loc) ==
  LET added == IF new \in Numbers THEN Without(primary, new, loc) \cup {[value |-> new, loc |-> loc]}
                                  ELSE primary
  IN  IF old \in Numbers THEN Without(added, old, loc) ELSE added

\* btree.Delete of an old number, then btree.ReplaceOrInsert of a new one.
Renumbered(old, new, loc) ==
  LET kept == IF old \in Numbers THEN Without(primary, old, loc) ELSE primary
  IN  IF new \in Numbers THEN Without(kept, new, loc) \cup {[value |-> new, loc |-> loc]}
                         ELSE kept

Bloomed(value) == IF value \in Texts THEN bloom \cup {value} ELSE bloom
-----------------------------------------------------------------------------
Building == \E c \in Cells : left[c] # Empty

\* indexSheet goes by sheet, row and column.
Before(c, d) ==
  \/ c.sheet < d.sheet
  \/ c.sheet = d.sheet /\ c.row < d.row
  \/ c.sheet = d.sheet /\ c.row = d.row /\ c.col < d.col

\* The cell whose turn it is.
IsNext(c) == left[c] # Empty /\ \A d \in Cells : left[d] # Empty => d = c \/ Before(c, d)

Init ==
  /\ QTInit
  /\ known = [c \in Cells |-> Empty]
  /\ told = [c \in Cells |-> {}]
  /\ primary = {}
  /\ inverted = [w \in Words |-> [loc \in Locations |-> 0]]
  /\ bloom = {}
  /\ fresh = TRUE
  /\ left = [c \in Cells |-> Empty]

\* BuildFromFile takes the lock.  Its only caller, buildSearchIndex, has just made
\* the manager.
BuildFromFile(content) ==
  /\ fresh
  /\ fresh' = FALSE
  /\ left' = content
  /\ UNCHANGED <<treeVars, known, told, primary, inverted, bloom>>

\* The loop of indexSheet.  A cell's value is a text, and parseFloat takes no text
\* for a number: nothing is added to the B-tree.
IndexCell(c) ==
  /\ IsNext(c)
  /\ inverted' = Relisted(Empty, left[c], At(c))
  /\ Insert(Point(At(c), left[c], 1))
  /\ bloom' = bloom \cup {left[c]}
  /\ known' = [known EXCEPT ![c] = left[c]]
  /\ told' = [told EXCEPT ![c] = @ \cup {At(c)}]
  /\ left' = [left EXCEPT ![c] = Empty]
  /\ UNCHANGED <<primary, fresh>>

\* The rows of the next sheet cannot be read: the build ends with an error.
IndexSheetFail ==
  /\ \E c \in Cells : IsNext(c) /\ \A d \in Cells : d.sheet = c.sheet => known[d] = Empty
  /\ left' = [c \in Cells |-> Empty]
  /\ UNCHANGED <<treeVars, known, told, primary, inverted, bloom, fresh>>

\* updateCellIndexes, for a CellUpdate of UpdateDelta; a list of changes is as many
\* steps, which searches cannot come between in the code.  The other types of change
\* do nothing to the indexes.
UpdateCell(cell, loc, new) ==
  /\ ~ Building
  /\ primary' = Renumbered(known[cell], new, loc)
  /\ inverted' = Relisted(known[cell], new, loc)
  /\ Insert(Point(loc, new, 0))
  /\ bloom' = Bloomed(new)
  /\ known' = [known EXCEPT ![cell] = new]
  /\ told' = [told EXCEPT ![cell] = @ \cup {loc}]
  /\ fresh' = FALSE
  /\ UNCHANGED left

Next ==
  \/ \E content \in [Cells -> Texts \cup {Empty}] : BuildFromFile(content)
  \/ \E c \in Cells : IndexCell(c)
  \/ IndexSheetFail
  \/ \E name \in Names, new \in Values : UpdateCell(name.cell, name.loc, new)

Spec == Init /\ [][Next]_vars
-----------------------------------------------------------------------------
\* SearchText, which gives up unless the filter has seen the query's own bytes or,
\* by a collision of hashes, seems to (`hit').
SearchText(query, hit) ==
  {loc \in Locations :
     /\ query \in bloom \/ hit
     /\ Tokens[query] # <<>>
     /\ \A i \in DOMAIN Tokens[query] : inverted[Tokens[query][i]][loc] > 0}

\* SearchNumericRange: the keys of the two ends have no sheet, so the lower end is
\* included and the upper one is not.
SearchNumericRange(min, max) == {i.loc : i \in {j \in primary : min <= j.value /\ j.value < max}}

\* SearchSpatial.
SearchSpatial(bounds) == {p.loc : p \in Query(bounds)}
-----------------------------------------------------------------------------
(***************************************************************************)
(* Properties.                                                             *)
(***************************************************************************)
TypeOK ==
  /\ QTTypeOK
  /\ known \in [Cells -> Values]
  /\ told \in [Cells -> SUBSET Locations]
  /\ primary \subseteq [value : Numbers, loc : Locations]
  /\ inverted \in [Words -> [Locations -> Nat]]
  /\ bloom \subseteq Texts
  /\ fresh \in BOOLEAN
  /\ left \in [Cells -> Texts \cup {Empty}]

\* The cells whose text has all the words of the query.
Holding(query) ==
  {c \in Cells :
     known[c] \in Texts /\ Range(Tokens[query]) \subseteq Range(Tokens[known[c]])}

\* A cell the manager was told of under one readable location only is answered by a text
\* search only if it holds the query's words now, whatever was replaced before and
\* whatever the filter says; and when some cell's text is the query, every cell that
\* holds its words is answered, however often its spelling changed, if it could always
\* be read (updateCellIndexes, SearchText).
TextExact ==
  \A query \in Texts :
    /\ \A hit \in BOOLEAN : \A loc \in SearchText(query, hit) \ {Nowhere} :
         \A c \in Cells : told[c] = {loc} => c \in Holding(query)
    /\ (\E c \in Cells : known[c] = query) /\ Tokens[query] # <<>> =>
         \A c \in Holding(query) :
           Nowhere \notin told[c] => told[c] \cap SearchText(query, FALSE) # {}

\* The spellings of the sheet in a cell's locations.
Sheets(c) == {loc.sheet : loc \in told[c]}

\* A numeric search answers no readable location of a cell that does not hold a number
\* of the range now, unless the cell's sheet was spelled in several ways: deletions look
\* at the sheet's spelling and not at the cell (NumericKey.Less).
NumericSound ==
  \A min \in Numbers, max \in Numbers \cup {n + 1 : n \in Numbers} :
    \A loc \in SearchNumericRange(min, max) \ {Nowhere} :
      \A c \in Cells : loc \in told[c] /\ Sheets(c) = {loc.sheet} =>
        known[c] \in Numbers /\ min <= known[c] /\ known[c] < max

\* A cell that holds a number is found by it under one of its locations, if it could always
\* be read and no other cell ever had the number: whatever numbers were there before, and
\* whatever was deleted, its own item stays (NumericKey.Less, updateCellIndexes).
NumericFound ==
  \A c \in Cells :
    /\ known[c] \in Numbers /\ Nowhere \notin told[c]
    /\ \A p \in Range(inserted) : p.value = known[c] => p.loc \in told[c]
    => told[c] \cap SearchNumericRange(known[c], known[c] + 1) # {}

\* A spatial search of everything answers each cell that holds something within the
\* root's rectangle, under one of its locations, unless its point came when halving was
\* no longer exact: dividing nodes loses none.  Build and updates count coordinates
\* from 0 and from 1: both are within.
SpatialFound ==
  \A c \in Cells :
    /\ known[c] # Empty
    /\ \A loc \in told[c], d \in {0, 1} :
         LET p == Point(loc, known[c], d) IN Contains(Root, p) /\ p \notin cramped
    => told[c] \cap SearchSpatial(Root) # {}

\* Every cell that holds a number is found by it ("Use location as tiebreaker", line 45).
\* False: the tiebreaker is the sheet, and two cells of a sheet with one number share an
\* item.
NumericComplete ==
  \A c \in Cells :
    known[c] \in Numbers => told[c] \cap SearchNumericRange(known[c], known[c] + 1) # {}
=============================================================================
