----------------------------- MODULE IndexProofs -----------------------------
(***************************************************************************)
(* The indexes agree with what the manager was told, for any cells, names  *)
(* of theirs, texts and numbers.                                           *)
(***************************************************************************)
EXTENDS Index, QuadTreeProofs

\* What is assumed of the constants.
Data ==
  /\ Cells \subseteq [sheet : Nat \ {0}, row : Nat \ {0}, col : Nat \ {0}]
  /\ \A n \in Names : n.cell \in Cells
  /\ \A n \in Names, c \in Cells : n.loc = At(c) => n.cell = c
  /\ \A m, n \in Names : m.loc = n.loc /\ n.loc # Nowhere => m.cell = n.cell
  /\ Numbers \subseteq Int
  /\ Tokens \in [Texts -> Seq(Words)]
  /\ Numbers \cap Texts = {} /\ Empty \notin Numbers \cup Texts
  /\ Points = {Point(loc, v, d) : loc \in Locations, v \in Values, d \in {0, 1}}

\* The assumptions on the constants, in one fact.
LEMMA IndexConstants == Data
BY CellsPlaced, NamesRead, OneCell, NumbersInt, TokensSeq, Kinds, PointsAre DEF Data

\* A location read from a cell's name, or the build's own, is of that cell.
Of(loc, c) == loc = At(c) \/ \E n \in Names : n.loc = loc /\ n.cell = c

\* A readable location is of one cell only.
LEMMA OfOne ==
  ASSUME NEW loc, loc # Nowhere, NEW c \in Cells, NEW d \in Cells, Of(loc, c), Of(loc, d)
  PROVE  c = d
<1>1. ASSUME At(c) = At(d) PROVE c = d
  <2>1. /\ c = [sheet |-> c.sheet, row |-> c.row, col |-> c.col]
        /\ d = [sheet |-> d.sheet, row |-> d.row, col |-> d.col]
    BY IndexConstants DEF Data
  <2>2. c.sheet = d.sheet /\ c.row = d.row /\ c.col = d.col
    BY <1>1 DEF At
  <2> QED BY <2>1, <2>2
<1> QED BY <1>1, IndexConstants DEF Of, Data

\* The build's own locations are readable.
LEMMA AtReadable ==
  ASSUME NEW c \in Cells
  PROVE  At(c) # Nowhere /\ At(c) \in Locations /\ Of(At(c), c)
<1>1. c.sheet # 0
  BY IndexConstants DEF Data
<1>2. At(c).sheet = c.sheet /\ Nowhere.sheet = 0
  BY DEF At, Nowhere
<1> QED BY <1>1, <1>2 DEF Locations, Of

\* What a step inserts is one of the points.
LEMMA PointIn ==
  ASSUME NEW loc \in Locations, NEW v \in Values, NEW d \in {0, 1}
  PROVE  Point(loc, v, d) \in Points
BY IndexConstants DEF Data

\* A word is counted as a natural number, ...
LEMMA CountNat ==
  ASSUME NEW v, NEW w
  PROVE  Count(v, w) \in Nat
<1>1. CASE v \in Texts
  <2> DEFINE I == {i \in DOMAIN Tokens[v] : Tokens[v][i] = w}
  <2>1. DOMAIN Tokens[v] = 1..Len(Tokens[v]) /\ Len(Tokens[v]) \in Nat
    BY <1>1, IndexConstants DEF Data
  <2>2. IsFiniteSet(DOMAIN Tokens[v])
    BY <2>1, FS_Interval
  <2>3. IsFiniteSet(I)
    BY <2>2, FS_Subset
  <2> QED BY <1>1, <2>3, FS_CardinalityType DEF Count
<1> QED BY <1>1 DEF Count

\* ... and more than none when the value is a text that has it.
LEMMA CountPositive ==
  ASSUME NEW v, NEW w
  PROVE  Count(v, w) > 0 <=> v \in Texts /\ w \in Range(Tokens[v])
<1>1. CASE v \in Texts
  <2> DEFINE I == {i \in DOMAIN Tokens[v] : Tokens[v][i] = w}
  <2>1. DOMAIN Tokens[v] = 1..Len(Tokens[v]) /\ Len(Tokens[v]) \in Nat
    BY <1>1, IndexConstants DEF Data
  <2>2. IsFiniteSet(DOMAIN Tokens[v])
    BY <2>1, FS_Interval
  <2>3. IsFiniteSet(I)
    BY <2>2, FS_Subset
  <2>4. Cardinality(I) \in Nat /\ (Cardinality(I) = 0 <=> I = {})
    BY <2>3, FS_CardinalityType, FS_EmptySet
  <2>5. I # {} <=> w \in Range(Tokens[v])
    BY DEF Range
  <2>6. Count(v, w) = Cardinality(I)
    BY <1>1 DEF Count
  <2> QED BY <1>1, <2>4, <2>5, <2>6
<1> QED BY <1>1 DEF Count
-----------------------------------------------------------------------------
(***************************************************************************)
(* The invariant.                                                          *)
(***************************************************************************)

\* A cell was told of under its own locations.
Whose == \A c \in Cells : \A loc \in told[c] : loc # Nowhere => Of(loc, c)

\* The inverted index has a readable location once per word of its cell, when the cell
\* has no other, ...
ListedOnce ==
  \A c \in Cells, loc \in Locations : told[c] = {loc} /\ loc # Nowhere =>
    \A w \in Words : inverted[w][loc] = Count(known[c], w)

\* ... it has some location of a cell that often at least, and ...
ListedSome ==
  \A c \in Cells : known[c] \in Texts /\ Nowhere \notin told[c] =>
    \E loc \in told[c] : \A w \in Words : inverted[w][loc] >= Count(known[c], w)

\* ... not at all a readable one that it was never told of.
ListedNot ==
  \A loc \in Locations : loc # Nowhere /\ (\A c \in Cells : loc \notin told[c]) =>
    \A w \in Words : inverted[w][loc] = 0

\* The filter has the text of every cell.
Hashed == \A c \in Cells : known[c] \in Texts => known[c] \in bloom

\* An item of the B-tree at a readable location is of a cell told of there, ...
Itemed == \A i \in primary : i.loc # Nowhere => \E c \in Cells : i.loc \in told[c]

\* ... and of its present number, if the cell's sheet is spelled in one way.
Numbered ==
  \A i \in primary, c \in Cells :
    i.loc # Nowhere /\ i.loc \in told[c] /\ Sheets(c) = {i.loc.sheet} => known[c] = i.value

\* A cell's number has an item of the cell, if no other cell ever had the number.
Kept ==
  \A c \in Cells :
    /\ known[c] \in Numbers /\ Nowhere \notin told[c]
    /\ \A p \in Range(inserted) : p.value = known[c] => p.loc \in told[c]
    => \E i \in primary : i.value = known[c] /\ i.loc \in told[c]

\* A cell still to be indexed is not known yet: builds are of new managers.
Unread ==
  /\ fresh => \A c \in Cells : known[c] = Empty /\ left[c] = Empty
  /\ \A c \in Cells : left[c] # Empty => known[c] = Empty

\* The quadtree was given a point for every cell that holds something.
Pointed ==
  \A c \in Cells : known[c] # Empty =>
    \E loc \in told[c], d \in {0, 1} : Point(loc, known[c], d) \in Range(inserted)

\* What goes by the values and locations of cells.
Known ==
  /\ Whose
  /\ ListedOnce
  /\ ListedSome
  /\ ListedNot
  /\ Hashed
  /\ Itemed
  /\ Numbered
  /\ Kept
  /\ Pointed

IndexInv ==
  /\ TypeOK
  /\ QTInv
  /\ Known
  /\ Unread

\* A new manager.
LEMMA IndexInvInit == Init => IndexInv
<1> SUFFICES ASSUME Init PROVE IndexInv
  OBVIOUS
<1>1. QTInv
  BY QTInvInit DEF Init
<1>2. TypeOK
  BY <1>1 DEF Init, TypeOK, QTInv, Values
<1>3. \A c \in Cells : known[c] = Empty /\ known[c] \notin Texts /\ told[c] = {} /\ left[c] = Empty
  BY IndexConstants DEF Data, Init
<1>4. Whose /\ ListedOnce /\ ListedSome /\ Hashed /\ Kept /\ Pointed /\ Unread
  BY <1>3, IndexConstants DEF Data, Whose, ListedOnce, ListedSome, Hashed, Kept, Pointed, Unread
<1>5. ListedNot /\ Itemed /\ Numbered
  BY DEF Init, ListedNot, Itemed, Numbered
<1> QED BY <1>1, <1>2, <1>4, <1>5 DEF IndexInv, Known

\* Relisting a location counts the new value there at least, and exactly if the old one
\* was counted exactly or not at all.
LEMMA RelistedCounts ==
  ASSUME TypeOK, NEW loc \in Locations, NEW old, NEW new,
         NEW inv, inv = Relisted(old, new, loc)
  PROVE  /\ inv \in [Words -> [Locations -> Nat]]
         /\ \A w \in Words : inv[w][loc] >= Count(new, w)
         /\ \A w \in Words : inverted[w][loc] \in {0, Count(old, w)} => inv[w][loc] = Count(new, w)
         /\ \A w \in Words, l \in Locations : l # loc => inv[w][l] = inverted[w][l]
<1>1. inverted \in [Words -> [Locations -> Nat]]
  BY DEF TypeOK
<1> DEFINE Less(w) == IF Count(old, w) > inverted[w][loc] THEN 0 ELSE inverted[w][loc] - Count(old, w)
<1>2. ASSUME NEW w \in Words
      PROVE  inv[w] = [inverted[w] EXCEPT ![loc] = Less(w) + Count(new, w)]
  BY <1>1 DEF Relisted
<1>3. ASSUME NEW w \in Words
      PROVE  Less(w) \in Nat /\ Count(new, w) \in Nat /\ (inverted[w][loc] \in {0, Count(old, w)} => Less(w) = 0)
  <2>1. inverted[w][loc] \in Nat /\ Count(old, w) \in Nat /\ Count(new, w) \in Nat
    BY <1>1, CountNat
  <2> QED BY <2>1
<1> HIDE DEF Less
<1>4. inv = [w \in Words |-> inv[w]]
  BY DEF Relisted
<1>5. ASSUME NEW w \in Words
      PROVE  inv[w] \in [Locations -> Nat] /\ inv[w][loc] = Less(w) + Count(new, w)
  <2>1. inverted[w] \in [Locations -> Nat] /\ Less(w) + Count(new, w) \in Nat
    BY <1>1, <1>3
  <2> HIDE DEF Count
  <2> QED BY <1>2, <2>1
<1>6. \A w \in Words, l \in Locations : l # loc => inv[w][l] = inverted[w][l]
  BY <1>1, <1>2
<1>7. inv \in [Words -> [Locations -> Nat]]
  <2>1. \A w \in Words : inv[w] \in [Locations -> Nat]
    BY <1>5
  <2> QED BY <1>4, <2>1, Zenon
<1>8. \A w \in Words : /\ inv[w][loc] >= Count(new, w)
                       /\ inverted[w][loc] \in {0, Count(old, w)} => inv[w][loc] = Count(new, w)
  BY <1>3, <1>5
<1> QED BY <1>6, <1>7, <1>8

\* Renumbering leaves items, but for those of the old number and the sheet's spelling,
\* and adds the new one.
LEMMA RenumberedItems ==
  ASSUME NEW old, NEW loc, NEW new, NEW i \in Renumbered(old, new, loc)
  PROVE  \/ i \in primary /\ (old \in Numbers => i.value # old \/ i.loc.sheet # loc.sheet)
         \/ i = [value |-> new, loc |-> loc] /\ new \in Numbers
BY DEF Renumbered, Without

\* A cell gets a new value under one of its locations: what IndexCell and UpdateCell have
\* in common.
LEMMA Changed ==
  ASSUME IndexInv, NEW cell \in Cells, NEW loc \in Locations, NEW new \in Values,
         loc # Nowhere => Of(loc, cell),
         NEW d \in {0, 1}, Insert(Point(loc, new, d)),
         known' = [known EXCEPT ![cell] = new],
         told' = [told EXCEPT ![cell] = @ \cup {loc}],
         inverted' = Relisted(known[cell], new, loc),
         bloom' = Bloomed(new),
         primary' = Renumbered(known[cell], new, loc)
  PROVE  /\ QTInv' /\ Known'
         /\ known' \in [Cells -> Values]
         /\ told' \in [Cells -> SUBSET Locations]
         /\ primary' \subseteq [value : Numbers, loc : Locations]
         /\ inverted' \in [Words -> [Locations -> Nat]]
         /\ bloom' \subseteq Texts
<1>0. TypeOK /\ Known
  BY DEF IndexInv
<1>1. QTInv'
  BY PointIn, InsertKeeps DEF IndexInv
<1>2. /\ known' \in [Cells -> Values] /\ known'[cell] = new
      /\ \A c \in Cells : c # cell => known'[c] = known[c]
  BY <1>0 DEF TypeOK
<1>3. /\ told' \in [Cells -> SUBSET Locations] /\ told'[cell] = told[cell] \cup {loc}
      /\ \A c \in Cells : c # cell => told'[c] = told[c]
  BY <1>0 DEF TypeOK
<1>4. Whose'
  BY <1>0, <1>3 DEF Known, Whose, Of, At, Nowhere
<1>5. ASSUME loc # Nowhere, NEW c \in Cells, loc \in told[c] PROVE c = cell
  BY <1>0, <1>5, OfOne DEF Known, Whose
<1>6. /\ inverted' \in [Words -> [Locations -> Nat]]
      /\ \A w \in Words : inverted'[w][loc] >= Count(new, w)
      /\ \A w \in Words : inverted[w][loc] \in {0, Count(known[cell], w)} => inverted'[w][loc] = Count(new, w)
      /\ \A w \in Words, l \in Locations : l # loc => inverted'[w][l] = inverted[w][l]
  BY <1>0, RelistedCounts
<1>7. ListedOnce'
  <2> SUFFICES ASSUME NEW c \in Cells, NEW l \in Locations, told'[c] = {l}, l # Nowhere, NEW w \in Words
               PROVE  inverted'[w][l] = Count(known'[c], w)
    BY DEF ListedOnce, Count, Nowhere
  <2>1. CASE c = cell
    <3>1. l = loc /\ (told[cell] = {loc} \/ told[cell] = {})
      BY <1>3, <2>1
    <3>2. CASE told[cell] = {loc}
      BY <1>0, <1>2, <1>6, <2>1, <3>1, <3>2 DEF Known, ListedOnce
    <3>3. CASE told[cell] = {}
      BY <1>0, <1>2, <1>5, <1>6, <2>1, <3>1, <3>3 DEF Known, ListedNot
    <3> QED BY <3>1, <3>2, <3>3
  <2>2. CASE c # cell
    <3>1. told[c] = {l} /\ l # loc
      BY <1>3, <1>5, <2>2
    <3> QED BY <1>0, <1>2, <1>6, <2>2, <3>1 DEF Known, ListedOnce
  <2> QED BY <2>1, <2>2
<1>8. ListedSome'
  <2> SUFFICES ASSUME NEW c \in Cells, known'[c] \in Texts, Nowhere \notin told'[c]
               PROVE  \E l \in told'[c] : \A w \in Words : inverted'[w][l] >= Count(known'[c], w)
    BY DEF ListedSome, Count, Nowhere
  <2>1. CASE c = cell
    BY <1>2, <1>3, <1>6, <2>1
  <2>2. CASE c # cell
    <3>1. PICK l \in told[c] : \A w \in Words : inverted[w][l] >= Count(known[c], w)
      BY <1>0, <1>2, <1>3, <2>2 DEF Known, ListedSome
    <3>2. l # loc /\ l \in Locations /\ l \in told'[c]
      BY <1>0, <1>3, <1>5, <2>2, <3>1 DEF TypeOK
    <3> QED BY <1>2, <1>6, <2>2, <3>1, <3>2
  <2> QED BY <2>1, <2>2
<1>9. ListedNot'
  <2> SUFFICES ASSUME NEW l \in Locations, l # Nowhere, \A c \in Cells : l \notin told'[c], NEW w \in Words
               PROVE  inverted'[w][l] = 0
    BY DEF ListedNot, Nowhere
  <2>1. l # loc /\ \A c \in Cells : l \notin told[c]
    BY <1>3
  <2> QED BY <1>0, <1>6, <2>1 DEF Known, ListedNot
<1>10. Hashed' /\ bloom' \subseteq Texts
  BY <1>0, <1>2 DEF Bloomed, Known, Hashed, TypeOK
<1>11. primary' \subseteq [value : Numbers, loc : Locations]
  BY <1>0, RenumberedItems DEF TypeOK
<1>12. Itemed'
  <2> SUFFICES ASSUME NEW i \in primary', i.loc # Nowhere PROVE \E c \in Cells : i.loc \in told'[c]
    BY DEF Itemed, Nowhere
  <2>1. CASE i \in primary
    BY <1>0, <1>3, <2>1 DEF Known, Itemed
  <2>2. CASE i = [value |-> new, loc |-> loc]
    BY <1>3, <2>2
  <2> QED BY <2>1, <2>2, RenumberedItems
<1>13. Numbered'
  <2> SUFFICES ASSUME NEW i \in primary', NEW c \in Cells, i.loc # Nowhere, i.loc \in told'[c],
                      {l.sheet : l \in told'[c]} = {i.loc.sheet}
               PROVE  known'[c] = i.value
    BY DEF Numbered, Sheets, Nowhere
  <2>1. i.loc \in Locations
    BY <1>11
  <2>2. CASE i = [value |-> new, loc |-> loc]
    BY <1>2, <1>3, <1>5, <2>2
  <2>3. CASE i \in primary /\ c # cell
    BY <1>0, <1>2, <1>3, <2>3 DEF Known, Numbered, Sheets
  <2>4. CASE /\ i \in primary /\ c = cell
             /\ known[cell] \in Numbers => i.value # known[cell] \/ i.loc.sheet # loc.sheet
    <3>1. loc.sheet = i.loc.sheet
      BY <1>3, <2>4
    <3>2. PICK b \in Cells : i.loc \in told[b]
      BY <1>0, <2>4 DEF Known, Itemed
    <3>3. b = cell
      <4>1. Of(i.loc, b)
        BY <1>0, <3>2 DEF Known, Whose
      <4>2. Of(i.loc, cell)
        BY <1>0, <1>3, <2>4 DEF Known, Whose
      <4> QED BY <4>1, <4>2, OfOne
    <3>4. {l.sheet : l \in told[cell]} = {i.loc.sheet}
      BY <1>3, <2>4, <3>2, <3>3
    <3>5. known[cell] = i.value
      BY <1>0, <2>4, <3>2, <3>3, <3>4 DEF Known, Numbered, Sheets
    <3>6. i.value \in Numbers
      BY <1>0, <2>4 DEF TypeOK
    <3> QED BY <2>4, <3>1, <3>5, <3>6
  <2> QED BY <2>2, <2>3, <2>4, RenumberedItems
<1>14. Pointed'
  <2>1. Range(inserted') = Range(inserted) \cup {Point(loc, new, d)}
    BY PointIn, AppendRange DEF IndexInv, QTInv, QTTypeOK, Insert
  <2> SUFFICES ASSUME NEW c \in Cells, known'[c] # Empty
               PROVE  \E l \in told'[c], e \in {0, 1} : Point(l, known'[c], e) \in Range(inserted')
    BY DEF Pointed, Point
  <2>2. CASE c = cell
    BY <1>2, <1>3, <2>1, <2>2
  <2>3. CASE c # cell
    BY <1>0, <1>2, <1>3, <2>1, <2>3 DEF Known, Pointed
  <2> QED BY <2>2, <2>3
<1>15. Kept'
  <2> SUFFICES ASSUME NEW c \in Cells, known'[c] \in Numbers, Nowhere \notin told'[c],
                      \A p \in Range(inserted') : p.value = known'[c] => p.loc \in told'[c]
               PROVE  \E i \in primary' : i.value = known'[c] /\ i.loc \in told'[c]
    BY DEF Kept, Nowhere
  <2>1. Range(inserted') = Range(inserted) \cup {Point(loc, new, d)}
    BY PointIn, AppendRange DEF IndexInv, QTInv, QTTypeOK, Insert
  <2>2. CASE c = cell
    <3>1. [value |-> new, loc |-> loc] \in primary'
      BY <1>2, <2>2 DEF Renumbered
    <3> QED BY <1>2, <1>3, <2>2, <3>1
  <2>3. CASE c # cell
    <3>1. known'[c] = known[c] /\ told'[c] = told[c]
      BY <1>2, <1>3, <2>3
    <3>2. PICK i \in primary : i.value = known[c] /\ i.loc \in told[c]
      BY <1>0, <2>1, <3>1 DEF Known, Kept
    <3>3. new # known[c]
      <4>1. SUFFICES ASSUME new = known[c] PROVE FALSE
        OBVIOUS
      <4>2. Point(loc, new, d).value = new /\ Point(loc, new, d).loc = loc
        BY DEF Point
      <4>3. loc \in told[c]
        BY <2>1, <3>1, <4>1, <4>2
      <4> QED BY <1>5, <2>3, <3>1, <4>3
    <3>4. known[cell] # known[c]
      <4>1. SUFFICES ASSUME known[cell] = known[c] PROVE FALSE
        OBVIOUS
      <4>2. known[cell] # Empty
        BY <3>1, <4>1, IndexConstants DEF Data
      <4>3. PICK l \in told[cell], e \in {0, 1} : Point(l, known[cell], e) \in Range(inserted)
        BY <1>0, <4>2 DEF Known, Pointed
      <4>4. Point(l, known[cell], e).value = known[cell] /\ Point(l, known[cell], e).loc = l
        BY DEF Point
      <4>5. l \in told[c] /\ l # Nowhere
        BY <2>1, <3>1, <4>1, <4>3, <4>4
      <4>6. Of(l, c) /\ Of(l, cell)
        BY <1>0, <4>3, <4>5 DEF Known, Whose
      <4> QED BY <2>3, <4>5, <4>6, OfOne
    <3>5. i \in primary'
      BY <3>2, <3>3, <3>4 DEF Renumbered, Without
    <3> QED BY <3>1, <3>2, <3>5
  <2> QED BY <2>2, <2>3
<1> QED BY <1>1, <1>2, <1>3, <1>4, <1>6, <1>7, <1>8, <1>9, <1>10, <1>11, <1>12, <1>13, <1>14, <1>15 DEF Known

\* What leaves the indexes and the history alone keeps what goes by them.
LEMMA KnownSame ==
  ASSUME IndexInv, UNCHANGED <<tree, inserted, cramped, known, told, primary, inverted, bloom>>
  PROVE  QTInv' /\ Known'
<1>1. QTInv'
  BY QTInvNext DEF IndexInv, treeVars
<1>2. Whose' /\ ListedOnce' /\ ListedSome' /\ ListedNot'
  <2>1. Whose'
    BY DEF IndexInv, Known, Whose, Of, At, Nowhere
  <2>2. ListedOnce'
    <3> SUFFICES ASSUME NEW c \in Cells, NEW l \in Locations, told'[c] = {l}, l # Nowhere, NEW w \in Words
                 PROVE  inverted'[w][l] = Count(known'[c], w)
      BY DEF ListedOnce, Count, Nowhere
    <3> QED BY DEF IndexInv, Known, ListedOnce
  <2>3. ListedSome'
    BY DEF IndexInv, Known, ListedSome, Count, Nowhere
  <2>4. ListedNot'
    BY DEF IndexInv, Known, ListedNot, Nowhere
  <2> QED BY <2>1, <2>2, <2>3, <2>4
<1>3. Hashed' /\ Itemed' /\ Numbered' /\ Kept' /\ Pointed'
  BY DEF IndexInv, Known, Hashed, Itemed, Numbered, Kept, Pointed, Point, Sheets, Nowhere
<1> QED BY <1>1, <1>2, <1>3 DEF Known

\* Every step keeps the invariant.
LEMMA IndexInvNext == IndexInv /\ [Next]_vars => IndexInv'
<1> SUFFICES ASSUME IndexInv, [Next]_vars PROVE IndexInv'
  OBVIOUS
<1>0. TypeOK /\ QTInv /\ Unread
  BY DEF IndexInv
<1>1. ASSUME NEW content \in [Cells -> Texts \cup {Empty}], BuildFromFile(content)
      PROVE  IndexInv'
  <2>1. UNCHANGED <<tree, inserted, cramped, known, told, primary, inverted, bloom>>
    BY <1>1 DEF BuildFromFile, treeVars
  <2>2. Unread'
    BY <1>0, <1>1 DEF BuildFromFile, Unread
  <2>3. TypeOK'
    BY <1>0, <1>1, <2>1 DEF BuildFromFile, TypeOK, QTTypeOK
  <2> QED BY <2>1, <2>2, <2>3, KnownSame DEF IndexInv
<1>2. ASSUME NEW c \in Cells, IndexCell(c) PROVE IndexInv'
  <2>1. left[c] \in Texts /\ left[c] \in Values /\ known[c] = Empty
    BY <1>0, <1>2 DEF IndexCell, IsNext, TypeOK, Values, Unread
  <2>2. Renumbered(known[c], left[c], At(c)) = primary
    BY <2>1, IndexConstants DEF Data, Renumbered
  <2>3. bloom' = Bloomed(left[c])
    BY <1>2, <2>1 DEF IndexCell, Bloomed
  <2>4. inverted' = Relisted(known[c], left[c], At(c))
    BY <1>2, <2>1 DEF IndexCell
  <2>5. /\ QTInv' /\ Known'
        /\ known' \in [Cells -> Values]
        /\ told' \in [Cells -> SUBSET Locations]
        /\ primary' \subseteq [value : Numbers, loc : Locations]
        /\ inverted' \in [Words -> [Locations -> Nat]]
        /\ bloom' \subseteq Texts
    BY <1>2, <2>1, <2>2, <2>3, <2>4, AtReadable, Changed DEF IndexCell
  <2>6. left' \in [Cells -> Texts \cup {Empty}] /\ fresh' = fresh
    BY <1>0, <1>2 DEF IndexCell, TypeOK
  <2>7. Unread'
    <3>1. ~ fresh
      BY <1>0, <1>2, <2>1, IndexConstants DEF Data, Unread
    <3> QED BY <1>0, <1>2, <2>1, <2>6, <3>1 DEF Unread, IndexCell, TypeOK
  <2> QED BY <1>0, <2>5, <2>6, <2>7 DEF IndexInv, TypeOK, QTInv
<1>3. CASE IndexSheetFail
  <2>1. UNCHANGED <<tree, inserted, cramped, known, told, primary, inverted, bloom, fresh>>
    BY <1>3 DEF IndexSheetFail, treeVars
  <2>2. left' = [c \in Cells |-> Empty]
    BY <1>3 DEF IndexSheetFail
  <2>3. Unread'
    BY <1>0, <2>1, <2>2 DEF Unread
  <2>4. TypeOK'
    BY <1>0, <2>1, <2>2 DEF TypeOK, QTTypeOK
  <2> QED BY <2>1, <2>3, <2>4, KnownSame DEF IndexInv
<1>4. ASSUME NEW name \in Names, NEW new \in Values, UpdateCell(name.cell, name.loc, new)
      PROVE  IndexInv'
  <2>1. name.cell \in Cells /\ name.loc \in Locations /\ Of(name.loc, name.cell)
    BY IndexConstants DEF Data, Locations, Of
  <2>2. /\ QTInv' /\ Known'
        /\ known' \in [Cells -> Values]
        /\ told' \in [Cells -> SUBSET Locations]
        /\ primary' \subseteq [value : Numbers, loc : Locations]
        /\ inverted' \in [Words -> [Locations -> Nat]]
        /\ bloom' \subseteq Texts
    BY <1>4, <2>1, Changed DEF UpdateCell
  <2>3. left' = left /\ fresh' = FALSE /\ \A c \in Cells : left[c] = Empty
    BY <1>4 DEF UpdateCell, Building
  <2> QED BY <1>0, <2>2, <2>3 DEF IndexInv, TypeOK, QTInv, Unread
<1>5. CASE UNCHANGED vars
  <2>1. UNCHANGED <<tree, inserted, cramped, known, told, primary, inverted, bloom, fresh, left>>
    BY <1>5 DEF vars, treeVars, indexVars
  <2>2. TypeOK' /\ Unread'
    BY <1>0, <2>1 DEF TypeOK, QTTypeOK, Unread
  <2> QED BY <2>1, <2>2, KnownSame DEF IndexInv
<1> QED BY <1>1, <1>2, <1>3, <1>4, <1>5 DEF Next
-----------------------------------------------------------------------------
\* What a text search goes by is what cells hold.
LEMMA InvTextExact == IndexInv => TextExact
<1> SUFFICES ASSUME IndexInv, NEW query \in Texts
             PROVE  /\ \A hit \in BOOLEAN : \A loc \in SearchText(query, hit) \ {Nowhere} :
                         \A c \in Cells : told[c] = {loc} => c \in Holding(query)
                    /\ (\E c \in Cells : known[c] = query) /\ Tokens[query] # <<>> =>
                         \A c \in Holding(query) :
                           Nowhere \notin told[c] => told[c] \cap SearchText(query, FALSE) # {}
  BY Zenon DEF TextExact
<1>1. DOMAIN Tokens[query] = 1..Len(Tokens[query]) /\ Tokens[query] \in Seq(Words)
  BY IndexConstants DEF Data
<1>2. \A i \in DOMAIN Tokens[query] : Tokens[query][i] \in Words
  BY <1>1
<1>3. ASSUME NEW hit \in BOOLEAN, NEW loc \in SearchText(query, hit), loc # Nowhere,
             NEW c \in Cells, told[c] = {loc}
      PROVE  c \in Holding(query)
  <2>1. /\ loc \in Locations /\ Tokens[query] # <<>>
        /\ \A i \in DOMAIN Tokens[query] : inverted[Tokens[query][i]][loc] > 0
    BY <1>3 DEF SearchText
  <2>2. 1 \in DOMAIN Tokens[query]
    BY <1>1, <2>1
  <2>3. \A i \in DOMAIN Tokens[query] : Count(known[c], Tokens[query][i]) > 0
    BY <1>2, <1>3, <2>1 DEF IndexInv, Known, ListedOnce
  <2>4. known[c] \in Texts /\ \A i \in DOMAIN Tokens[query] : Tokens[query][i] \in Range(Tokens[known[c]])
    BY <2>2, <2>3, CountPositive
  <2>5. Range(Tokens[query]) \subseteq Range(Tokens[known[c]])
    BY <2>4 DEF Range
  <2> QED BY <2>4, <2>5 DEF Holding
<1>4. ASSUME NEW b \in Cells, known[b] = query, Tokens[query] # <<>>,
             NEW c \in Holding(query), Nowhere \notin told[c]
      PROVE  told[c] \cap SearchText(query, FALSE) # {}
  <2>1. query \in bloom
    BY <1>4 DEF IndexInv, Known, Hashed
  <2>2. /\ c \in Cells /\ known[c] \in Texts
        /\ \A i \in DOMAIN Tokens[query] : Tokens[query][i] \in Range(Tokens[known[c]])
    BY <1>4 DEF Holding, Range
  <2>3. PICK loc \in told[c] : \A w \in Words : inverted[w][loc] >= Count(known[c], w)
    BY <1>4, <2>2 DEF IndexInv, Known, ListedSome
  <2>4. loc \in Locations
    BY <2>2, <2>3 DEF IndexInv, TypeOK
  <2>5. ASSUME NEW i \in DOMAIN Tokens[query] PROVE inverted[Tokens[query][i]][loc] > 0
    <3>1. Tokens[query][i] \in Words
      BY <1>2
    <3>2. Count(known[c], Tokens[query][i]) > 0 /\ Count(known[c], Tokens[query][i]) \in Nat
      BY <2>2, CountPositive, CountNat
    <3>3. inverted[Tokens[query][i]][loc] \in Nat
      BY <2>4, <3>1 DEF IndexInv, TypeOK
    <3> QED BY <2>3, <3>1, <3>2, <3>3
  <2> QED BY <1>4, <2>1, <2>3, <2>4, <2>5 DEF SearchText
<1> QED BY <1>3, <1>4

\* An item of the B-tree is of a cell that holds its number, if deletions find it.
LEMMA InvNumericSound == IndexInv => NumericSound
BY DEF IndexInv, TypeOK, Known, Numbered, NumericSound, SearchNumericRange

\* The item of a number that is one cell's is found.
LEMMA InvNumericFound == IndexInv => NumericFound
<1> SUFFICES ASSUME IndexInv, NEW c \in Cells, known[c] \in Numbers, Nowhere \notin told[c],
                    \A p \in Range(inserted) : p.value = known[c] => p.loc \in told[c]
             PROVE  told[c] \cap SearchNumericRange(known[c], known[c] + 1) # {}
  BY DEF NumericFound
<1>1. PICK i \in primary : i.value = known[c] /\ i.loc \in told[c]
  BY DEF IndexInv, Known, Kept
<1>2. known[c] \in Int
  BY IndexConstants DEF Data
<1> QED BY <1>1, <1>2 DEF SearchNumericRange

\* The point of a cell's present value is found.
LEMMA InvSpatialFound == IndexInv => SpatialFound
<1> SUFFICES ASSUME IndexInv, NEW c \in Cells, known[c] # Empty,
                    \A loc \in told[c], d \in {0, 1} :
                      Contains(Root, Point(loc, known[c], d)) /\ Point(loc, known[c], d) \notin cramped
             PROVE  told[c] \cap SearchSpatial(Root) # {}
  BY DEF SpatialFound
<1>1. PICK loc \in told[c], d \in {0, 1} : Point(loc, known[c], d) \in Range(inserted)
  BY DEF IndexInv, Known, Pointed
<1> DEFINE p == Point(loc, known[c], d)
<1>2. PICK n \in DOMAIN tree : p \in Range(tree[n])
  BY <1>1 DEF IndexInv, QTInv, Held
<1>3. n \in Rectangles /\ Contains(n, p) /\ p \in Points
  BY <1>1, <1>2 DEF IndexInv, TypeOK, QTTypeOK, Range
<1>4. p.x \in Int /\ p.y \in Int
  BY <1>3, QTConstants DEF Sizes
<1>5. ASSUME NEW m \in DOMAIN tree, Within(n, m) PROVE Intersects(m, Root)
  <2>1. m \in Rectangles /\ Contains(m, p)
    BY <1>3, <1>4, <1>5, WithinContains DEF IndexInv, TypeOK, QTTypeOK
  <2>2. Contains(Root, p) /\ Root \in Rectangles
    BY <1>1 DEF IndexInv, QTInv, QTTypeOK
  <2> HIDE DEF p
  <2> QED BY <1>4, <2>1, <2>2 DEF Intersects, Contains, Rectangles
<1>6. p \in Query(Root)
  BY <1>1, <1>2, <1>5 DEF Query, Visited
<1>7. p.loc = loc
  BY DEF Point
<1> QED BY <1>1, <1>6, <1>7 DEF SearchSpatial

\* The types of the index.
THEOREM IndexTypeCorrect == Spec => []TypeOK
<1>1. IndexInv => TypeOK
  BY DEF IndexInv
<1> QED BY <1>1, IndexInvInit, IndexInvNext, PTL DEF Spec

\* A text search is not stale for a cell in one spelling, and complete for every cell
\* that could be read, for a query that is some cell's text.
THEOREM TextSearchExact == Spec => []TextExact
BY IndexInvInit, IndexInvNext, InvTextExact, PTL DEF Spec

\* A numeric search is not stale for a cell whose sheet is in one spelling, although the
\* B-tree takes two cells of a sheet with one number for one item.
THEOREM NumericSearchSound == Spec => []NumericSound
BY IndexInvInit, IndexInvNext, InvNumericSound, PTL DEF Spec

\* A number that was always one cell's alone is never lost.
THEOREM NumericSearchFinds == Spec => []NumericFound
BY IndexInvInit, IndexInvNext, InvNumericFound, PTL DEF Spec

\* No cell that holds something is missed by a spatial search of everything, if it is
\* within the root's rectangle and came while halving was exact.
THEOREM SpatialSearchComplete == Spec => []SpatialFound
BY IndexInvInit, IndexInvNext, InvSpatialFound, PTL DEF Spec

\* Whatever is built and updated, a query of the manager's quadtree answers no point but
\* those inserted in its rectangle and the root's, and all of them that came while
\* halving was exact.
THEOREM SpatialSearchExact == Spec => []QueryExact
<1>1. IndexInv => QTInv
  BY DEF IndexInv
<1> QED BY <1>1, IndexInvInit, IndexInvNext, QTInvFinds, PTL DEF Spec
=============================================================================
