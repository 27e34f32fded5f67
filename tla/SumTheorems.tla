---------------------------- MODULE SumTheorems ----------------------------
(***************************************************************************)
(* Facts about SumFunctionOnSet of the community module Functions over a   *)
(* finite set, for the proofs about the memory count of the cache.  The    *)
(* library's induction theorems are not usable here; each proof takes a    *)
(* minimal counterexample instead, of sets or of natural numbers.          *)
(***************************************************************************)
EXTENDS FiniteSets, Integers, Functions, FiniteSetTheorems, WellFoundedInduction, TLAPS

\* The element of U the recursion takes first.
Pick(U) == CHOOSE x \in U : TRUE

\* g gives the sum of f over every subset of S, by the library's recursion.
IsSum(g, f, S) ==
  g = [U \in SUBSET S |-> IF U = {} THEN 0
                          ELSE f[Pick(U)] + g[U \ {Pick(U)}]]

TheSum(f, S) == CHOOSE g : IsSum(g, f, S)

\* The library sums by a recursive function, chosen for the set summed over.
LEMMA SumDef ==
  ASSUME NEW f, NEW S
  PROVE  SumFunctionOnSet(f, S) = TheSum(f, S)[S]
BY Zenon DEF SumFunctionOnSet, FoldFunctionOnSet, MapThenFoldSet, TheSum, IsSum, Pick

\* The element the recursion takes first is in the set.
LEMMA PickIn ==
  ASSUME NEW U, U # {}
  PROVE  Pick(U) \in U
BY DEF Pick

\* A non-empty family of subsets of a finite set has a minimal member: the form of
\* induction every proof below uses.
LEMMA MinimalSubset ==
  ASSUME NEW S, IsFiniteSet(S), NEW T, T \subseteq SUBSET S, T # {}
  PROVE  \E U \in T : \A V \in T : ~(V \subseteq U /\ V # U)
<1>1. IsWellFoundedOn(StrictSubsetOrdering(S), SUBSET S)
  BY FS_StrictSubsetOrderingWellFounded, FS_FiniteSubsetsOfFinite
<1>2. PICK U \in T : \A V \in T : ~(<<V, U>> \in StrictSubsetOrdering(S))
  BY <1>1, WFMin
<1>3. ASSUME NEW V \in T, V \subseteq U, V # U PROVE FALSE
  <2>1. <<V, U>> \in (SUBSET S) \X (SUBSET S)
    OBVIOUS
  <2>2. <<V, U>> \in StrictSubsetOrdering(S)
    BY <2>1, <1>3 DEF StrictSubsetOrdering
  <2> QED BY <1>2, <2>2
<1> QED BY <1>2, <1>3

\* A non-empty set of naturals has a least element.
LEMMA LeastNatural ==
  ASSUME NEW T \in SUBSET Nat, T # {}
  PROVE  \E m \in T : \A k \in T : m <= k
<1>1. PICK t \in T : TRUE
  OBVIOUS
<1> DEFINE N == 0..t
           F == {0..k : k \in {j \in T : j <= t}}
<1>2. F \subseteq SUBSET N
  BY <1>1
<1>3. F # {}
  BY <1>1
<1>4. IsFiniteSet(N)
  BY <1>1, FS_Interval
<1>5. PICK U \in F : \A V \in F : ~ (V \subseteq U /\ V # U)
  <2> HIDE DEF F, N
  <2> QED BY <1>2, <1>3, <1>4, MinimalSubset
<1>6. PICK m \in T : m <= t /\ U = 0..m
  BY <1>5
<1>7. ASSUME NEW k \in T, ~ (m <= k) PROVE FALSE
  <2>1. 0..k \in F
    BY <1>6, <1>7 DEF F
  <2>2. m \notin 0..k /\ m \in 0..m /\ 0..k \subseteq 0..m
    BY <1>7
  <2> QED BY <1>5, <1>6, <2>1, <2>2
<1> QED BY <1>7

\* There is one summing function at most ...
LEMMA SumUnique ==
  ASSUME NEW f, NEW S, IsFiniteSet(S), NEW g, NEW h, IsSum(g, f, S), IsSum(h, f, S)
  PROVE  g = h
<1> DEFINE T == {U \in SUBSET S : g[U] # h[U]}
<1>1. CASE T # {}
  <2>1. PICK U \in T : \A V \in T : ~(V \subseteq U /\ V # U)
    <3>1. T \subseteq SUBSET S
      OBVIOUS
    <3> HIDE DEF T
    <3> QED BY <1>1, <3>1, MinimalSubset
  <2>2. U # {}
    BY <2>1 DEF IsSum
  <2>3. Pick(U) \in U
    BY <2>2, PickIn
  <2>4. U \ {Pick(U)} \in SUBSET S /\ U \ {Pick(U)} \subseteq U /\ U \ {Pick(U)} # U
    BY <2>3
  <2>5. g[U \ {Pick(U)}] = h[U \ {Pick(U)}]
    BY <2>1, <2>4
  <2>6. g[U] = f[Pick(U)] + g[U \ {Pick(U)}] /\ h[U] = f[Pick(U)] + h[U \ {Pick(U)}]
    BY <2>2 DEF IsSum
  <2> QED BY <2>1, <2>5, <2>6
<1>2. CASE T = {}
  <2>1. \A U \in SUBSET S : g[U] = h[U]
    BY <1>2
  <2>2. g = [U \in SUBSET S |-> g[U]] /\ h = [U \in SUBSET S |-> h[U]]
    BY DEF IsSum
  <2> QED BY <2>1, <2>2, Zenon
<1> QED BY <1>1, <1>2

\* ... it restricts to the subsets of a subset ...
LEMMA SumRestrict ==
  ASSUME NEW f, NEW S, NEW g, IsSum(g, f, S), NEW W \in SUBSET S
  PROVE  IsSum([U \in SUBSET W |-> g[U]], f, W)
<1> DEFINE h == [U \in SUBSET W |-> g[U]]
<1>1. ASSUME NEW U \in SUBSET W
      PROVE  h[U] = IF U = {} THEN 0 ELSE f[Pick(U)] + h[U \ {Pick(U)}]
  <2>1. U \in SUBSET S /\ U \ {Pick(U)} \in SUBSET W
    OBVIOUS
  <2>2. g[U] = IF U = {} THEN 0 ELSE f[Pick(U)] + g[U \ {Pick(U)}]
    BY <2>1 DEF IsSum
  <2> QED BY <2>1, <2>2
<1>2. h = [U \in SUBSET W |-> h[U]]
  OBVIOUS
<1> HIDE DEF h
<1>3. h = [U \in SUBSET W |-> IF U = {} THEN 0 ELSE f[Pick(U)] + h[U \ {Pick(U)}]]
  BY <1>1, <1>2, Zenon
<1> QED BY <1>3 DEF h, IsSum

\* ... and there is one for every finite set.
LEMMA SumExists ==
  ASSUME NEW f, NEW S, IsFiniteSet(S)
  PROVE  IsSum(TheSum(f, S), f, S)
<1> DEFINE T == {W \in SUBSET S : ~ \E g : IsSum(g, f, W)}
<1>1. CASE T # {}
  <2>1. PICK W \in T : \A V \in T : ~(V \subseteq W /\ V # W)
    <3>1. T \subseteq SUBSET S
      OBVIOUS
    <3> HIDE DEF T
    <3> QED BY <1>1, <3>1, MinimalSubset
  <2>0. IsFiniteSet(W)
    BY <2>1, FS_Subset
  <2>2. ASSUME NEW V \in SUBSET W, V # W PROVE IsSum(TheSum(f, V), f, V)
    BY <2>1, <2>2 DEF TheSum
  <2> DEFINE g == [U \in SUBSET W |->
                     IF U = {} THEN 0
                     ELSE f[Pick(U)] + TheSum(f, U \ {Pick(U)})[U \ {Pick(U)}]]
  <2>3. ASSUME NEW U \in SUBSET W, U # W PROVE g[U] = TheSum(f, U)[U]
    <3>1. IsSum(TheSum(f, U), f, U)
      BY <2>2, <2>3
    <3>2. CASE U = {}
      BY <3>1, <3>2 DEF IsSum
    <3>3. CASE U # {}
      <4> DEFINE V == U \ {Pick(U)}
      <4>1. V \in SUBSET W /\ V # W /\ V \in SUBSET U /\ IsFiniteSet(V)
        BY <3>3, <2>0, PickIn, FS_Subset
      <4>2. IsSum(TheSum(f, V), f, V)
        BY <2>2, <4>1
      <4>3. IsSum([X \in SUBSET V |-> TheSum(f, U)[X]], f, V)
        BY <3>1, <4>1, SumRestrict
      <4>4. TheSum(f, V) = [X \in SUBSET V |-> TheSum(f, U)[X]]
        BY <4>1, <4>2, <4>3, SumUnique
      <4>5. TheSum(f, V)[V] = TheSum(f, U)[V]
        BY <4>4
      <4>6. TheSum(f, U)[U] = f[Pick(U)] + TheSum(f, U)[V]
        BY <3>1, <3>3 DEF IsSum
      <4> QED BY <4>5, <4>6, <3>3
    <3> QED BY <3>2, <3>3
  <2>4. ASSUME NEW U \in SUBSET W
        PROVE  g[U] = IF U = {} THEN 0 ELSE f[Pick(U)] + g[U \ {Pick(U)}]
    <3>1. CASE U = {}
      BY <3>1
    <3>2. CASE U # {}
      <4>1. U \ {Pick(U)} \in SUBSET W /\ U \ {Pick(U)} # W
        BY <3>2, PickIn
      <4>2. g[U \ {Pick(U)}] = TheSum(f, U \ {Pick(U)})[U \ {Pick(U)}]
        BY <4>1, <2>3
      <4> QED BY <4>2, <3>2
    <3> QED BY <3>1, <3>2
  <2>5. g = [U \in SUBSET W |-> g[U]]
    OBVIOUS
  <2>6. IsSum(g, f, W)
    <3> HIDE DEF g
    <3>1. g = [U \in SUBSET W |-> IF U = {} THEN 0 ELSE f[Pick(U)] + g[U \ {Pick(U)}]]
      BY <2>4, <2>5, Zenon
    <3> QED BY <3>1 DEF IsSum
  <2> QED BY <2>1, <2>6
<1>2. CASE T = {}
  BY <1>2 DEF TheSum
<1> QED BY <1>1, <1>2

\* The summing function of a set gives the sums over its subsets.
LEMMA SumOfSubset ==
  ASSUME NEW f, NEW S, IsFiniteSet(S), NEW W \in SUBSET S
  PROVE  SumFunctionOnSet(f, W) = TheSum(f, S)[W]
<1>1. IsFiniteSet(W)
  BY FS_Subset
<1>2. IsSum(TheSum(f, W), f, W) /\ IsSum(TheSum(f, S), f, S)
  BY <1>1, SumExists
<1> DEFINE g == [U \in SUBSET W |-> TheSum(f, S)[U]]
<1>3. TheSum(f, W) = g
  <2>1. IsSum(g, f, W)
    BY <1>2, SumRestrict
  <2> HIDE DEF g
  <2> QED BY <1>1, <1>2, <2>1, SumUnique
<1> QED BY <1>3, SumDef

\* One step of the recursion: the sum is the first element's term and the rest.
LEMMA SumUnfold ==
  ASSUME NEW f, NEW S, IsFiniteSet(S)
  PROVE  SumFunctionOnSet(f, S) =
           IF S = {} THEN 0 ELSE f[Pick(S)] + SumFunctionOnSet(f, S \ {Pick(S)})
<1>1. IsSum(TheSum(f, S), f, S)
  BY SumExists
<1>2. SumFunctionOnSet(f, S) = TheSum(f, S)[S]
  BY SumDef
<1>3. SumFunctionOnSet(f, S \ {Pick(S)}) = TheSum(f, S)[S \ {Pick(S)}]
  BY SumOfSubset
<1> QED BY <1>1, <1>2, <1>3 DEF IsSum

\* Nothing sums to 0.
THEOREM SumEmpty ==
  ASSUME NEW f
  PROVE  SumFunctionOnSet(f, {}) = 0
BY SumUnfold, FS_EmptySet

\* A sum of natural numbers is a natural number.
THEOREM SumNat ==
  ASSUME NEW f, NEW S, IsFiniteSet(S), \A x \in S : f[x] \in Nat
  PROVE  SumFunctionOnSet(f, S) \in Nat
<1> DEFINE T == {U \in SUBSET S : SumFunctionOnSet(f, U) \notin Nat}
<1>1. CASE T # {}
  <2>1. PICK U \in T : \A V \in T : ~(V \subseteq U /\ V # U)
    <3>1. T \subseteq SUBSET S
      OBVIOUS
    <3> HIDE DEF T
    <3> QED BY <1>1, <3>1, MinimalSubset
  <2>2. IsFiniteSet(U)
    BY FS_Subset
  <2>3. SumFunctionOnSet(f, U) = IF U = {} THEN 0
                        ELSE f[Pick(U)] + SumFunctionOnSet(f, U \ {Pick(U)})
    BY <2>2, SumUnfold
  <2>4. U # {}
    BY <2>1, <2>3
  <2>5. Pick(U) \in U
    BY <2>4, PickIn
  <2>6. SumFunctionOnSet(f, U \ {Pick(U)}) \in Nat
    BY <2>1, <2>5
  <2>7. f[Pick(U)] \in Nat
    BY <2>5
  <2> QED BY <2>1, <2>3, <2>4, <2>6, <2>7
<1>2. CASE T = {}
  BY <1>2
<1> QED BY <1>1, <1>2

\* One more element adds its term.
THEOREM SumAdd ==
  ASSUME NEW f, NEW S, IsFiniteSet(S), NEW x, x \notin S,
         \A y \in S \cup {x} : f[y] \in Nat
  PROVE  SumFunctionOnSet(f, S \cup {x}) = f[x] + SumFunctionOnSet(f, S)
<1> DEFINE R == S \cup {x}
<1> DEFINE T == {U \in SUBSET R : \E z \in R \ U : SumFunctionOnSet(f, U \cup {z}) # f[z] + SumFunctionOnSet(f, U)}
<1>0. IsFiniteSet(R)
  BY FS_AddElement
<1>1. CASE T # {}
  <2>1. PICK U \in T : \A V \in T : ~(V \subseteq U /\ V # U)
    <3>1. T \subseteq SUBSET R
      OBVIOUS
    <3> HIDE DEF T, R
    <3> QED BY <1>0, <1>1, <3>1, MinimalSubset
  <2>2. PICK z \in R \ U : SumFunctionOnSet(f, U \cup {z}) # f[z] + SumFunctionOnSet(f, U)
    BY <2>1
  <2>3. IsFiniteSet(U) /\ IsFiniteSet(U \cup {z})
    BY <1>0, <2>1, FS_Subset, FS_AddElement
  <2> DEFINE c == Pick(U \cup {z})
  <2>4. c \in U \cup {z}
    BY PickIn
  <2> HIDE DEF c, R
  <2>5. SumFunctionOnSet(f, U \cup {z}) = f[c] + SumFunctionOnSet(f, (U \cup {z}) \ {c})
    BY <2>3, SumUnfold DEF c
  <2>6. c # z
    <3>1. ASSUME c = z PROVE FALSE
      <4>1. (U \cup {z}) \ {c} = U
        BY <3>1, <2>2
      <4> QED BY <4>1, <2>5, <2>2, <3>1
    <3> QED BY <3>1
  <2> DEFINE V == U \ {c}
  <2>7. V \in SUBSET R /\ V \subseteq U /\ V # U /\ c \in U /\ c \in R \ V /\ z \in R \ V
    BY <2>1, <2>2, <2>4, <2>6
  <2>8. V \notin T
    BY <2>1, <2>7
  <2>9. \A w \in R \ V : SumFunctionOnSet(f, V \cup {w}) = f[w] + SumFunctionOnSet(f, V)
    BY <2>7, <2>8
  <2>10. (U \cup {z}) \ {c} = V \cup {z} /\ U = V \cup {c}
    BY <2>6, <2>7
  <2>11. SumFunctionOnSet(f, U) = f[c] + SumFunctionOnSet(f, V)
    BY <2>7, <2>9, <2>10
  <2>12. SumFunctionOnSet(f, V \cup {z}) = f[z] + SumFunctionOnSet(f, V)
    BY <2>7, <2>9
  <2>13. f[c] \in Nat /\ f[z] \in Nat
    BY <2>7 DEF R
  <2>14. SumFunctionOnSet(f, V) \in Nat
    <3>1. IsFiniteSet(V) /\ \A y \in V : f[y] \in Nat
      BY <2>3, <2>7, FS_Subset DEF R
    <3> QED BY <3>1, SumNat
  <2> HIDE DEF V
  <2> QED BY <2>2, <2>5, <2>10, <2>11, <2>12, <2>13, <2>14
<1>2. CASE T = {}
  BY <1>2
<1> QED BY <1>1, <1>2

\* Functions that agree on a set have the same sum over it.
THEOREM SumEqual ==
  ASSUME NEW f, NEW g, NEW S, IsFiniteSet(S), \A x \in S : f[x] = g[x]
  PROVE  SumFunctionOnSet(f, S) = SumFunctionOnSet(g, S)
<1> DEFINE T == {U \in SUBSET S : SumFunctionOnSet(f, U) # SumFunctionOnSet(g, U)}
<1>1. CASE T # {}
  <2>1. PICK U \in T : \A V \in T : ~(V \subseteq U /\ V # U)
    <3>1. T \subseteq SUBSET S
      OBVIOUS
    <3> HIDE DEF T
    <3> QED BY <1>1, <3>1, MinimalSubset
  <2>2. IsFiniteSet(U)
    BY FS_Subset
  <2>3. /\ SumFunctionOnSet(f, U) = IF U = {} THEN 0
                        ELSE f[Pick(U)] + SumFunctionOnSet(f, U \ {Pick(U)})
        /\ SumFunctionOnSet(g, U) = IF U = {} THEN 0
                        ELSE g[Pick(U)] + SumFunctionOnSet(g, U \ {Pick(U)})
    BY <2>2, SumUnfold
  <2>4. U # {}
    BY <2>1, <2>3
  <2>5. Pick(U) \in U
    BY <2>4, PickIn
  <2>6. SumFunctionOnSet(f, U \ {Pick(U)}) = SumFunctionOnSet(g, U \ {Pick(U)})
    BY <2>1, <2>5
  <2> QED BY <2>1, <2>3, <2>4, <2>5, <2>6
<1>2. CASE T = {}
  BY <1>2
<1> QED BY <1>1, <1>2

\* A set and its complement share the sum between them.
THEOREM SumSplit ==
  ASSUME NEW f, NEW S, IsFiniteSet(S), NEW W \in SUBSET S, \A x \in S : f[x] \in Nat
  PROVE  SumFunctionOnSet(f, S) = SumFunctionOnSet(f, S \ W) + SumFunctionOnSet(f, W)
<1> DEFINE T == {U \in SUBSET W : SumFunctionOnSet(f, (S \ W) \cup U) # SumFunctionOnSet(f, S \ W) + SumFunctionOnSet(f, U)}
<1>0. IsFiniteSet(W) /\ IsFiniteSet(S \ W)
  BY FS_Subset
<1>1. CASE T # {}
  <2>1. PICK U \in T : \A V \in T : ~(V \subseteq U /\ V # U)
    <3>1. T \subseteq SUBSET W
      OBVIOUS
    <3> HIDE DEF T
    <3> QED BY <1>0, <1>1, <3>1, MinimalSubset
  <2>0. SumFunctionOnSet(f, (S \ W) \cup U) # SumFunctionOnSet(f, S \ W) + SumFunctionOnSet(f, U)
    BY <2>1
  <2>2. U # {}
    <3>1. ASSUME U = {} PROVE FALSE
      <4>1. (S \ W) \cup U = S \ W
        BY <3>1
      <4>2. SumFunctionOnSet(f, U) = 0 
        BY <3>1, SumEmpty
      <4>3. SumFunctionOnSet(f, S \ W) \in Nat
        BY <1>0, SumNat
      <4> HIDE DEF T
      <4> QED BY <2>0, <4>1, <4>2, <4>3
    <3> QED BY <3>1
  <2>3. PICK c \in U : TRUE
    BY <2>2
  <2> DEFINE V == U \ {c}
             X == (S \ W) \cup V
  <2>4. V \in SUBSET W /\ V \subseteq U /\ V # U /\ c \notin V /\ c \notin X /\ X \in SUBSET S /\ c \in S /\ V \in SUBSET S
    BY <2>1, <2>3
  <2>5. IsFiniteSet(V) /\ IsFiniteSet(X)
    BY <2>4, FS_Subset
  <2>6. SumFunctionOnSet(f, X) = SumFunctionOnSet(f, S \ W) + SumFunctionOnSet(f, V)
    BY <2>1, <2>4
  <2>7. U = V \cup {c} /\ (S \ W) \cup U = X \cup {c}
    BY <2>3
  <2> HIDE DEF V, X
  <2>8. SumFunctionOnSet(f, V \cup {c}) = f[c] + SumFunctionOnSet(f, V)
    BY <2>4, <2>5, SumAdd
  <2>9. SumFunctionOnSet(f, X \cup {c}) = f[c] + SumFunctionOnSet(f, X)
    BY <2>4, <2>5, SumAdd
  <2>10. SumFunctionOnSet(f, V) \in Nat /\ SumFunctionOnSet(f, S \ W) \in Nat /\ f[c] \in Nat
    BY <1>0, <2>4, <2>5, SumNat
  <2> HIDE DEF T
  <2>11. SumFunctionOnSet(f, (S \ W) \cup U) = f[c] + SumFunctionOnSet(f, X)
    BY <2>7, <2>9
  <2>12. SumFunctionOnSet(f, U) = f[c] + SumFunctionOnSet(f, V)
    BY <2>7, <2>8
  <2> QED BY <2>0, <2>6, <2>10, <2>11, <2>12
<1>2. CASE T = {}
  <2>1. W \in SUBSET W /\ (S \ W) \cup W = S
    OBVIOUS
  <2> QED BY <1>2, <2>1
<1> QED BY <1>1, <1>2

\* Smaller terms have a smaller sum.
THEOREM SumLess ==
  ASSUME NEW f, NEW g, NEW S, IsFiniteSet(S),
         \A x \in S : f[x] \in Nat /\ g[x] \in Nat /\ f[x] <= g[x]
  PROVE  SumFunctionOnSet(f, S) <= SumFunctionOnSet(g, S)
<1> DEFINE T == {U \in SUBSET S : ~ (SumFunctionOnSet(f, U) <= SumFunctionOnSet(g, U))}
<1>1. CASE T # {}
  <2>1. PICK U \in T : \A V \in T : ~(V \subseteq U /\ V # U)
    <3>1. T \subseteq SUBSET S
      OBVIOUS
    <3> HIDE DEF T
    <3> QED BY <1>1, <3>1, MinimalSubset
  <2>2. IsFiniteSet(U) /\ IsFiniteSet(U \ {Pick(U)})
    BY FS_Subset
  <2>3. /\ SumFunctionOnSet(f, U) = IF U = {} THEN 0
                        ELSE f[Pick(U)] + SumFunctionOnSet(f, U \ {Pick(U)})
        /\ SumFunctionOnSet(g, U) = IF U = {} THEN 0
                        ELSE g[Pick(U)] + SumFunctionOnSet(g, U \ {Pick(U)})
    BY <2>2, SumUnfold
  <2>4. U # {}
    BY <2>1, <2>3
  <2>5. Pick(U) \in U /\ U \subseteq S
    BY <2>1, <2>4, PickIn
  <2>6. SumFunctionOnSet(f, U \ {Pick(U)}) <= SumFunctionOnSet(g, U \ {Pick(U)})
    BY <2>1, <2>5
  <2>7. SumFunctionOnSet(f, U \ {Pick(U)}) \in Nat /\ SumFunctionOnSet(g, U \ {Pick(U)}) \in Nat
    <3>1. \A x \in U \ {Pick(U)} : f[x] \in Nat /\ g[x] \in Nat
      BY <2>5
    <3> QED BY <2>2, <3>1, SumNat
  <2>8. f[Pick(U)] \in Nat /\ g[Pick(U)] \in Nat /\ f[Pick(U)] <= g[Pick(U)]
    BY <2>5
  <2>9. ~ (SumFunctionOnSet(f, U) <= SumFunctionOnSet(g, U))
    BY <2>1
  <2> HIDE DEF T
  <2> QED BY <2>3, <2>4, <2>6, <2>7, <2>8, <2>9
<1>2. CASE T = {}
  BY <1>2
<1> QED BY <1>1, <1>2

\* Zeros sum to 0.
THEOREM SumZero ==
  ASSUME NEW f, NEW S, IsFiniteSet(S), \A x \in S : f[x] = 0
  PROVE  SumFunctionOnSet(f, S) = 0
<1> DEFINE T == {U \in SUBSET S : SumFunctionOnSet(f, U) # 0}
<1>1. CASE T # {}
  <2>1. PICK U \in T : \A V \in T : ~(V \subseteq U /\ V # U)
    <3>1. T \subseteq SUBSET S
      OBVIOUS
    <3> HIDE DEF T
    <3> QED BY <1>1, <3>1, MinimalSubset
  <2>2. SumFunctionOnSet(f, U) = IF U = {} THEN 0
                        ELSE f[Pick(U)] + SumFunctionOnSet(f, U \ {Pick(U)})
    BY SumUnfold, FS_Subset
  <2>3. U # {}
    BY <2>1, <2>2
  <2>4. Pick(U) \in U
    BY <2>3, PickIn
  <2>5. SumFunctionOnSet(f, U \ {Pick(U)}) = 0 /\ f[Pick(U)] = 0
    BY <2>1, <2>4
  <2> QED BY <2>1, <2>2, <2>3, <2>5
<1>2. CASE T = {}
  BY <1>2
<1> QED BY <1>1, <1>2
=============================================================================
