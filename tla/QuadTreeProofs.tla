--------------------------- MODULE QuadTreeProofs ---------------------------
(***************************************************************************)
(* The quadtree finds what was inserted as long as its sides are halved    *)
(* exactly, for every set of points and every size and capacity of its     *)
(* nodes.                                                                  *)
(***************************************************************************)
EXTENDS QuadTree, SumTheorems

\* What is assumed of the sizes.
Sizes ==
  /\ \A p \in Points : p.x \in Int /\ p.y \in Int
  /\ Width \in Nat \ {0} /\ Capacity \in Nat \ {0} /\ Edges \subseteq Int

\* The assumptions on the constants, in one fact.
LEMMA QTConstants == Sizes
BY PointsPlaced, WidthPos, CapacityPos, EdgesInt DEF Sizes
-----------------------------------------------------------------------------
(***************************************************************************)
(* The invariant: what a tree with a root and rectangles for nodes keeps.  *)
(***************************************************************************)

\* Every point inserted within the root is at some node, if halving was exact.
Held ==
  \A p \in Range(inserted) :
    Contains(Root, p) /\ p \notin cramped => \E n \in DOMAIN tree : p \in Range(tree[n])

\* Every point at a node was inserted.
Came == \A n \in DOMAIN tree : Range(tree[n]) \subseteq Range(inserted)

QTInv ==
  /\ QTTypeOK
  /\ Root \in DOMAIN tree
  /\ \A n \in DOMAIN tree : Within(n, Root)
  /\ Held
  /\ Came

\* Appending adds one element to the range of a sequence.
LEMMA AppendRange ==
  ASSUME NEW S, NEW s \in Seq(S), NEW p \in S
  PROVE  /\ Append(s, p) \in Seq(S)
         /\ Range(Append(s, p)) = Range(s) \cup {p}
<1>1. DOMAIN Append(s, p) = 1..(Len(s) + 1) /\ DOMAIN s = 1..Len(s) /\ Len(s) \in Nat
  OBVIOUS
<1>2. \A i \in 1..Len(s) : Append(s, p)[i] = s[i]
  OBVIOUS
<1>3. Append(s, p)[Len(s) + 1] = p
  OBVIOUS
<1> QED BY <1>1, <1>2, <1>3 DEF Range

\* The range of a sequence of one point.
LEMMA OneRange ==
  ASSUME NEW S, NEW p \in S
  PROVE  <<p>> \in Seq(S) /\ Range(<<p>>) = {p} /\ <<>> \in Seq(S) /\ Range(<<>>) = {}
BY DEF Range

\* Insert's descent ends at a node of the tree that contains the point.
LEMMA LeafInTree ==
  ASSUME QTInv, NEW p, Contains(Root, p)
  PROVE  /\ Leaf(p) \in DOMAIN tree
         /\ Contains(Leaf(p), p)
         /\ \A m \in DOMAIN tree : Contains(m, p) => Leaf(p).width <= m.width
<1> DEFINE W == {n.width : n \in {m \in DOMAIN tree : Contains(m, p)}}
<1>1. W # {}
  BY DEF QTInv
<1>2. W \in SUBSET Nat
  BY DEF QTInv, QTTypeOK, Rectangles
<1>3. PICK w \in W : \A k \in W : w <= k
  <2> HIDE DEF W
  <2> QED BY <1>1, <1>2, LeastNatural
<1>4. \E n \in DOMAIN tree :
        Contains(n, p) /\ \A m \in DOMAIN tree : Contains(m, p) => n.width <= m.width
  BY <1>3
<1> QED BY <1>4, Zenon DEF Leaf

\* The children of a node are parts of it.
LEMMA ChildrenInside ==
  ASSUME NEW n \in Rectangles, Divisible(n), NEW m \in Children(n)
  PROVE  m \in Rectangles /\ Within(m, n)
<1> DEFINE w == n.width \div 2
           h == n.height \div 2
<1>1. n.x \in Int /\ n.y \in Int /\ n.width \in Nat /\ n.height \in Nat
  BY DEF Rectangles
<1>2. w \in Nat /\ h \in Nat /\ n.width = 2 * w /\ n.height = 2 * h
  BY <1>1 DEF Divisible
<1>3. PICK i \in {0, 1}, j \in {0, 1} :
        m = [x |-> n.x + i * w, y |-> n.y + j * h, width |-> w, height |-> h]
  BY DEF Children
<1> HIDE DEF w, h
<1>4. m.x \in Int /\ m.y \in Int /\ m.x = n.x + i * w /\ m.y = n.y + j * h /\ m.width = w /\ m.height = h
  BY <1>1, <1>2, <1>3
<1>5. m \in Rectangles
  BY <1>2, <1>3, <1>4 DEF Rectangles
<1>6. (i = 0 \/ i = 1) /\ (j = 0 \/ j = 1)
  OBVIOUS
<1>7. i * w >= 0 /\ i * w <= w /\ j * h >= 0 /\ j * h <= h
  BY <1>2, <1>6
<1> QED BY <1>1, <1>2, <1>3, <1>4, <1>5, <1>7 DEF Within

\* A point of a node is in one of its children, which is narrower.
LEMMA ChildTakes ==
  ASSUME NEW n \in Rectangles, Divisible(n), NEW p, p.x \in Int, p.y \in Int, Contains(n, p)
  PROVE  \E m \in Children(n) : Contains(m, p) /\ m.width < n.width
<1> DEFINE w == n.width \div 2
           h == n.height \div 2
           i == IF p.x < n.x + w THEN 0 ELSE 1
           j == IF p.y < n.y + h THEN 0 ELSE 1
           m == [x |-> n.x + i * w, y |-> n.y + j * h, width |-> w, height |-> h]
<1>1. n.x \in Int /\ n.y \in Int /\ n.width \in Nat /\ n.height \in Nat
  BY DEF Rectangles
<1>2. w \in Nat /\ h \in Nat /\ n.width = 2 * w /\ n.height = 2 * h
  BY <1>1 DEF Divisible
<1>3. m \in Children(n)
  BY DEF Children
<1>4. n.width > 0
  BY <1>1 DEF Contains
<1> HIDE DEF w, h
<1>5. /\ n.x + i * w <= p.x /\ p.x < n.x + i * w + w
      /\ n.y + j * h <= p.y /\ p.y < n.y + j * h + h
  BY <1>1, <1>2 DEF Contains
<1>6. Contains(m, p) /\ m.width < n.width
  BY <1>1, <1>2, <1>4, <1>5 DEF Contains
<1> QED BY <1>3, <1>6

\* What contains a part of it contains the part's points.
LEMMA WithinContains ==
  ASSUME NEW n \in Rectangles, NEW m \in Rectangles, Within(n, m),
         NEW p, p.x \in Int, p.y \in Int, Contains(n, p)
  PROVE  Contains(m, p)
BY DEF Within, Contains, Rectangles

\* Parts of parts are parts.
LEMMA WithinTrans ==
  ASSUME NEW n \in Rectangles, NEW m \in Rectangles, NEW r \in Rectangles,
         Within(n, m), Within(m, r)
  PROVE  Within(n, r)
BY DEF Within, Rectangles
-----------------------------------------------------------------------------
\* The empty tree.
LEMMA QTInvInit == QTInit => QTInv
<1> SUFFICES ASSUME QTInit PROVE QTInv
  OBVIOUS
<1>1. DOMAIN tree = {Root} /\ tree[Root] = <<>> /\ inserted = <<>> /\ cramped = {}
  BY DEF QTInit, NewQuadTree
<1>2. Root \in Rectangles /\ Within(Root, Root)
  BY QTConstants DEF Sizes, Root, Rectangles, Within
<1>3. QTTypeOK
  BY <1>1, <1>2 DEF QTTypeOK, QTInit, NewQuadTree
<1>4. Held /\ Came
  BY <1>1 DEF Held, Came, Range
<1> QED BY <1>1, <1>2, <1>3, <1>4 DEF QTInv

\* A point is appended to those of the node where its descent ends: the invariant is kept.
LEMMA AppendKeeps ==
  ASSUME QTInv, NEW p \in Points, NEW n \in DOMAIN tree, Contains(n, p),
         tree' = [tree EXCEPT ![n] = Append(@, p)],
         inserted' \in Seq(Points), Range(inserted') = Range(inserted) \cup {p},
         cramped \subseteq cramped', cramped' \subseteq Points
  PROVE  QTInv'
<1> USE DEF QTInv
<1>1. tree[n] \in Seq(Points)
  BY DEF QTTypeOK
<1>2. /\ tree'[n] = Append(tree[n], p) /\ DOMAIN tree' = DOMAIN tree
      /\ \A m \in DOMAIN tree : m # n => tree'[m] = tree[m]
  BY DEF QTTypeOK
<1>3. tree'[n] \in Seq(Points) /\ Range(tree'[n]) = Range(tree[n]) \cup {p}
  BY <1>1, <1>2, AppendRange
<1>4. \A i \in DOMAIN tree'[n] : Contains(n, tree'[n][i])
  <2>1. \A q \in Range(tree[n]) : Contains(n, q)
    BY DEF QTTypeOK, Range
  <2> QED BY <1>3, <2>1 DEF Range
<1>5. QTTypeOK'
  <2>1. tree' \in [DOMAIN tree' -> Seq(Points)]
    BY <1>2, <1>3 DEF QTTypeOK
  <2>2. \A m \in DOMAIN tree' : \A i \in DOMAIN tree'[m] : Contains(m, tree'[m][i])
    BY <1>2, <1>4 DEF QTTypeOK
  <2> QED BY <1>2, <2>1, <2>2 DEF QTTypeOK
<1>6. Held'
  BY <1>2, <1>3 DEF Held
<1>7. Came'
  BY <1>2, <1>3 DEF Came
<1>8. Root' = Root
  BY DEF Root
<1> QED BY <1>2, <1>5, <1>6, <1>7, <1>8

\* A point that comes to no node is outside the root, or came when halving was no longer
\* exact, or is there already.
LEMMA LostKeeps ==
  ASSUME QTInv, NEW p \in Points, tree' = tree,
         inserted' \in Seq(Points), Range(inserted') = Range(inserted) \cup {p},
         cramped \subseteq cramped', cramped' \subseteq Points,
         Contains(Root, p) => p \in cramped' \cup Range(inserted)
  PROVE  QTInv'
<1>1. Root' = Root
  BY DEF Root
<1>2. QTTypeOK'
  BY DEF QTInv, QTTypeOK
<1>3. Held' /\ Came'
  BY DEF QTInv, Held, Came
<1> QED BY <1>1, <1>2, <1>3 DEF QTInv

\* Insert keeps the invariant.
LEMMA InsertKeeps ==
  ASSUME QTInv, NEW p \in Points, Insert(p)
  PROVE  QTInv'
<1> USE DEF QTInv
<1>1. p.x \in Int /\ p.y \in Int
  BY QTConstants DEF Sizes
<1>2. inserted' \in Seq(Points) /\ Range(inserted') = Range(inserted) \cup {p}
  BY AppendRange DEF Insert, QTTypeOK
<1>3. CASE ~ Contains(Root, p) /\ UNCHANGED <<tree, cramped>>
  BY <1>2, <1>3, LostKeeps DEF QTTypeOK
<1>4. ASSUME Contains(Root, p)
      PROVE  /\ Leaf(p) \in DOMAIN tree /\ Leaf(p) \in Rectangles /\ Contains(Leaf(p), p)
             /\ \A m \in DOMAIN tree : Contains(m, p) => Leaf(p).width <= m.width
  BY <1>4, LeafInTree DEF QTTypeOK
<1>5. CASE InsertCramped(p)
  <2> DEFINE n == Leaf(p)
  <2>1. n \in DOMAIN tree /\ Contains(n, p)
    BY <1>4, <1>5 DEF InsertCramped
  <2>2. /\ tree' \in {tree, [tree EXCEPT ![n] = Append(@, p)]}
        /\ cramped' = cramped \cup ({p} \ Range(inserted))
    BY <1>5 DEF InsertCramped
  <2> HIDE DEF n
  <2>3. cramped \subseteq cramped' /\ cramped' \subseteq Points /\ p \in cramped' \cup Range(inserted)
    BY <2>2 DEF QTTypeOK
  <2>4. CASE tree' = tree
    BY <1>2, <2>3, <2>4, LostKeeps
  <2>5. CASE tree' = [tree EXCEPT ![n] = Append(@, p)]
    BY <1>2, <2>1, <2>3, <2>5, AppendKeeps
  <2> QED BY <2>2, <2>4, <2>5
<1>6. CASE InsertInside(p)
  <2> DEFINE n == Leaf(p)
  <2>1. /\ n \in DOMAIN tree /\ n \in Rectangles /\ Contains(n, p)
        /\ \A m \in DOMAIN tree : Contains(m, p) => n.width <= m.width
    BY <1>4, <1>6 DEF InsertInside
  <2>2. tree' = With(p) /\ cramped' = cramped
    BY <1>6 DEF InsertInside
  <2>3. Len(tree[n]) < Capacity \/ Divisible(n)
    BY <1>6 DEF InsertInside, Roomy
  <2>4. Len(tree[n]) \in Nat /\ tree[n] \in Seq(Points)
    BY <2>1 DEF QTTypeOK
  <2>5. CASE Len(tree[n]) < Capacity
    <3>1. tree' = [tree EXCEPT ![n] = Append(@, p)]
      BY <2>2, <2>5 DEF With
    <3> HIDE DEF n
    <3> QED BY <1>2, <2>1, <2>2, <3>1, AppendKeeps DEF QTTypeOK
  <2>6. CASE ~ (Len(tree[n]) < Capacity)
    <3>1. tree' = Divided(n, p)
      BY <2>2, <2>6 DEF With
    <3>2. Divisible(n)
      BY <2>3, <2>6
    <3> HIDE DEF n
    <3>3. /\ DOMAIN tree' = DOMAIN tree \cup Children(n)
          /\ \A m \in DOMAIN tree : tree'[m] = tree[m]
          /\ \A m \in Children(n) \ DOMAIN tree :
               tree'[m] = IF Contains(m, p) THEN <<p>> ELSE <<>>
      BY <3>1 DEF Divided
    <3>4. \A m \in Children(n) : m \in Rectangles /\ Within(m, n)
      BY <2>1, <3>2, ChildrenInside
    <3>5. PICK c \in Children(n) : Contains(c, p) /\ c.width < n.width
      BY <1>1, <2>1, <3>2, ChildTakes
    <3>6. c \notin DOMAIN tree
      <4>1. c.width \in Nat /\ n.width \in Nat
        BY <2>1, <3>4 DEF Rectangles
      <4> QED BY <2>1, <3>5, <4>1
    <3>7. /\ <<p>> \in Seq(Points) /\ Range(<<p>>) = {p}
          /\ <<>> \in Seq(Points) /\ Range(<<>>) = {}
      BY OneRange
    <3>8. \A m \in Children(n) \ DOMAIN tree :
            /\ tree'[m] \in Seq(Points) /\ Range(tree'[m]) \subseteq {p}
            /\ \A q \in Range(tree'[m]) : Contains(m, q)
      BY <3>3, <3>7
    <3>9. QTTypeOK'
      <4>1. \A m \in DOMAIN tree' : tree'[m] \in Seq(Points)
        BY <3>3, <3>8 DEF QTTypeOK
      <4>2. tree' \in [DOMAIN tree' -> Seq(Points)]
        BY <3>1, <4>1 DEF Divided
      <4>3. \A m \in DOMAIN tree' : \A q \in Range(tree'[m]) : Contains(m, q)
        BY <3>3, <3>8 DEF QTTypeOK, Range
      <4>4. \A m \in DOMAIN tree' : \A i \in DOMAIN tree'[m] : Contains(m, tree'[m][i])
        BY <4>3 DEF Range
      <4>5. DOMAIN tree' \subseteq Rectangles
        BY <3>3, <3>4 DEF QTTypeOK
      <4> QED BY <1>2, <2>2, <4>2, <4>4, <4>5 DEF QTTypeOK
    <3>10. \A m \in DOMAIN tree' : Within(m, Root)
      <4>1. Root \in Rectangles
        BY DEF QTTypeOK
      <4> QED BY <2>1, <3>3, <3>4, <4>1, WithinTrans
    <3>11. Held'
      <4>1. p \in Range(tree'[c])
        BY <3>3, <3>5, <3>6, <3>7
      <4> QED BY <1>2, <2>2, <3>3, <4>1 DEF Held
    <3>12. Came'
      BY <1>2, <3>3, <3>8 DEF Came
    <3>13. Root' = Root
      BY DEF Root
    <3> QED BY <3>3, <3>9, <3>10, <3>11, <3>12, <3>13
  <2> QED BY <2>5, <2>6
<1> QED BY <1>3, <1>5, <1>6 DEF Insert

\* So does every step, and what leaves the tree alone.
LEMMA QTInvNext == QTInv /\ [QTNext]_treeVars => QTInv'
<1>1. ASSUME QTInv, UNCHANGED treeVars PROVE QTInv'
  BY <1>1 DEF QTInv, QTTypeOK, Held, Came, treeVars
<1> QED BY <1>1, InsertKeeps DEF QTNext

\* The invariant makes every query exact, as far as halving was: a node on the way to a point that is
\* looked for contains it, and so meets the rectangle.
LEMMA QTInvFinds == QTInv => QueryExact
<1> SUFFICES ASSUME QTInv,
                    NEW x1 \in Edges, NEW x2 \in Edges, NEW y1 \in Edges, NEW y2 \in Edges,
                    x1 < x2, y1 < y2
             PROVE  Finds([x |-> x1, y |-> y1, width |-> x2 - x1, height |-> y2 - y1])
  BY Zenon DEF QueryExact
<1> DEFINE b == [x |-> x1, y |-> y1, width |-> x2 - x1, height |-> y2 - y1]
<1>1. /\ b.x \in Int /\ b.y \in Int /\ b.width \in Int /\ b.height \in Int
  BY QTConstants DEF Sizes
<1> HIDE DEF b
<1>2. /\ \A n \in DOMAIN tree : n \in Rectangles /\ Within(n, Root)
      /\ Root \in Rectangles
      /\ \A n \in DOMAIN tree : \A p \in Range(tree[n]) : p \in Points /\ Contains(n, p)
      /\ \A p \in Points : p.x \in Int /\ p.y \in Int
  BY QTConstants DEF QTInv, QTTypeOK, Sizes, Range
<1>3. ASSUME NEW p \in Query(b) PROVE p \in In(b)
  <2>1. PICK n \in DOMAIN tree : p \in Range(tree[n]) /\ Contains(b, p)
    BY <1>3 DEF Query, Visited
  <2>2. p \in Range(inserted)
    BY <2>1 DEF QTInv, Came
  <2>3. Contains(Root, p)
    BY <1>2, <2>1, WithinContains
  <2> QED BY <2>1, <2>2, <2>3 DEF In
<1>4. ASSUME NEW p \in In(b), p \notin cramped PROVE p \in Query(b)
  <2>1. PICK n \in DOMAIN tree : p \in Range(tree[n])
    BY <1>4 DEF QTInv, Held, In
  <2>2. ASSUME NEW m \in DOMAIN tree, Within(n, m) PROVE Intersects(m, b)
    <3>1. Contains(m, p)
      BY <1>2, <2>1, <2>2, WithinContains
    <3> QED BY <1>1, <1>2, <1>4, <2>1, <3>1 DEF In, Intersects, Contains, Rectangles
  <2>3. n \in Visited(b)
    BY <2>2 DEF Visited
  <2> QED BY <1>4, <2>1, <2>3 DEF In, Query
<1> QED BY <1>3, <1>4 DEF Finds, b

\* Points are where they belong, in every reachable tree.
THEOREM QTTypeCorrect == QTSpec => []QTTypeOK
<1>1. QTInv => QTTypeOK
  BY DEF QTInv
<1> QED BY <1>1, QTInvInit, QTInvNext, PTL DEF QTSpec

\* Every query finds the points inserted in its rectangle and the root's and no other,
\* but for points that came when halving was no longer exact.
THEOREM QueriesExact == QTSpec => []QueryExact
BY QTInvInit, QTInvNext, QTInvFinds, PTL DEF QTSpec
=============================================================================
