------------------------------ MODULE QuadTree ------------------------------
(***************************************************************************)
(* The spatial index of internal/index/manager.go: a quadtree of points.   *)
(* Its nodes are the rectangles they cover; `tree' maps each node there is *)
(* to the points it holds, in the order they came.  A node that is full    *)
(* keeps its points when it is divided, and gets no more.                  *)
(*                                                                         *)
(* Coordinates and sizes are floating-point numbers.  Here they are whole  *)
(* multiples of the finest fraction in which they are exact, so that nodes *)
(* are halved far below the distance of two cells; what becomes of a point *)
(* where halving is no longer exact is left open.                          *)
(*                                                                         *)
(* The methods recurse from the root down.  Here Leaf is where that        *)
(* descent ends and Visited are the nodes a query's descent reaches.       *)
(***************************************************************************)
EXTENDS Integers, Sequences, Functions

CONSTANTS
  Points,     \* records with coordinates x and y, at least
  Width,      \* side of the square the root covers, 1000 in the code: 46 halvings are exact
  Capacity,   \* points a node takes before it is divided, 10 in the code
  Edges,      \* coordinates of the corners of the rectangles queried
  MaxInserts  \* bound: the points ever inserted

ASSUME PointsPlaced == \A p \in Points : p.x \in Int /\ p.y \in Int
ASSUME WidthPos     == Width \in Nat \ {0}
ASSUME CapacityPos  == Capacity \in Nat \ {0}
ASSUME EdgesInt     == Edges \subseteq Int
ASSUME InsertsNat   == MaxInserts \in Nat

VARIABLES
  tree,      \* the points of each node
  inserted,  \* history: the points Insert was called with
  cramped    \* history: those that came first where halving was no longer exact

treeVars == <<tree, inserted, cramped>>

Rectangles == [x : Int, y : Int, width : Nat, height : Nat]

Root == [x |-> 0, y |-> 0, width |-> Width, height |-> Width]

NewQuadTree == [n \in {Root} |-> <<>>]

QTInit ==
  /\ tree = NewQuadTree
  /\ inserted = <<>>
  /\ cramped = {}
-----------------------------------------------------------------------------
\* QuadTree.contains and Rectangle.Contains.
Contains(r, p) ==
  /\ r.x <= p.x /\ p.x < r.x + r.width
  /\ r.y <= p.y /\ p.y < r.y + r.height

\* Mutant: the lower right corner of the query is lost.
IntersectsInside(r, b) ==
  /\ b.x < r.x + r.width /\ r.x < b.x
  /\ b.y < r.y + r.height /\ r.y < b.y + b.height

\* QuadTree.intersects.
Intersects(r, b) ==
  /\ b.x < r.x + r.width /\ r.x < b.x + b.width
  /\ b.y < r.y + r.height /\ r.y < b.y + b.height

\* The halves of a node's sides are exact.
Divisible(n) == n.width % 2 = 0 /\ n.height % 2 = 0

\* QuadTree.subdivide.
Children(n) ==
  LET w == n.width \div 2
      h == n.height \div 2
  IN  {[x |-> n.x + i * w, y |-> n.y + j * h, width |-> w, height |-> h] : i, j \in {0, 1}}

\* Where Insert comes to an end: each node that is divided hands the point to the
\* child that contains it.
Leaf(p) ==
  CHOOSE n \in DOMAIN tree :
    Contains(n, p) /\ \A m \in DOMAIN tree : Contains(m, p) => n.width <= m.width

\* Mutant: the children do not look whether they contain the point.
DividedAll(n, p) ==
  [m \in DOMAIN tree \cup Children(n) |-> IF m \in DOMAIN tree THEN tree[m] ELSE <<p>>]

\* A full node is divided, and one of its children takes the point.
Divided(n, p) ==
  [m \in DOMAIN tree \cup Children(n) |->
     IF m \in DOMAIN tree THEN tree[m] ELSE IF Contains(m, p) THEN <<p>> ELSE <<>>]

\* Mutant: the points of a node are lost when it is divided.
WithLossy(p) ==
  LET n == Leaf(p)
  IN  IF Len(tree[n]) < Capacity THEN [tree EXCEPT ![n] = Append(@, p)]
                                 ELSE [Divided(n, p) EXCEPT ![n] = <<>>]

\* The tree after QuadTree.Insert of a point the root contains.
With(p) ==
  LET n == Leaf(p)
  IN  IF Len(tree[n]) < Capacity THEN [tree EXCEPT ![n] = Append(@, p)] ELSE Divided(n, p)

Roomy(n) == Len(tree[n]) < Capacity \/ Divisible(n)

InsertInside(p) ==
  /\ Contains(Root, p) /\ Roomy(Leaf(p))
  /\ tree' = With(p)
  /\ UNCHANGED cramped

\* The sum of a corner and a half is rounded: the children are not told apart from
\* their node, and the point comes to one of them or to none.
InsertCramped(p) ==
  /\ Contains(Root, p) /\ ~ Roomy(Leaf(p))
  /\ tree' \in {tree, [tree EXCEPT ![Leaf(p)] = Append(@, p)]}
  /\ cramped' = cramped \cup ({p} \ Range(inserted))

Insert(p) ==
  /\ Len(inserted) < MaxInserts
  /\ inserted' = Append(inserted, p)
  /\ \/ ~ Contains(Root, p) /\ UNCHANGED <<tree, cramped>>
     \/ InsertInside(p)
     \/ InsertCramped(p)

QTNext == \E p \in Points : Insert(p)

QTSpec == QTInit /\ [][QTNext]_treeVars
-----------------------------------------------------------------------------
Within(n, m) ==
  /\ m.x <= n.x /\ n.x + n.width <= m.x + m.width
  /\ m.y <= n.y /\ n.y + n.height <= m.y + m.height

\* A query goes down as long as it meets the node.
Visited(b) ==
  {n \in DOMAIN tree : \A m \in DOMAIN tree : Within(n, m) => Intersects(m, b)}

\* QuadTree.Query.
Query(b) == UNION {{p \in Range(tree[n]) : Contains(b, p)} : n \in Visited(b)}
-----------------------------------------------------------------------------
(***************************************************************************)
(* Properties.                                                             *)
(***************************************************************************)
\* Types; and a node holds points of its own rectangle, which is part of the root's.
QTTypeOK ==
  /\ tree \in [DOMAIN tree -> Seq(Points)]
  /\ DOMAIN tree \subseteq Rectangles
  /\ inserted \in Seq(Points)
  /\ cramped \subseteq Points
  /\ \A n \in DOMAIN tree : \A i \in DOMAIN tree[n] : Contains(n, tree[n][i])

\* The points inserted inside the root's rectangle and b.
In(b) == {p \in Range(inserted) : Contains(Root, p) /\ Contains(b, p)}

\* A query answers no point but those inserted inside its rectangle and the root's, and
\* it answers them all, but for points that came when halving was no longer exact,
\* whatever was divided before and between (Insert and Query choose their way down
\* independently).
Finds(b) == Query(b) \subseteq In(b) /\ In(b) \ cramped \subseteq Query(b)

\* Every query is exact.
QueryExact ==
  \A x1, x2, y1, y2 \in Edges :
    x1 < x2 /\ y1 < y2 =>
      Finds([x |-> x1, y |-> y1, width |-> x2 - x1, height |-> y2 - y1])
=============================================================================
