--------------------------- MODULE RequestsProofs ---------------------------
(***************************************************************************)
(* What requests that count tokens are told and answer, for any workbooks, *)
(* values, limits and goroutines, however their steps are mixed: first the *)
(* token counter by itself, then the rows that a query finds and what      *)
(* truncation leaves of a value, then the requests that use all three.     *)
(***************************************************************************)
EXTENDS Requests, SumTheorems, SequenceTheorems
-----------------------------------------------------------------------------
(***************************************************************************)
(* The token counter.                                                      *)
(***************************************************************************)
\* What the memo holds is the count of a question of that key: a count is stored only
\* after it was computed, and Delete leaves none.
Kept ==
  \A k \in Keys : memo[k] # None => \E q \in Questions : KeyOf[q] = k /\ memo[k] = Weight[q]

CounterInv == TokensTypeOK /\ Kept /\ Accurate
-----------------------------------------------------------------------------
\* What is assumed of the constants, in one fact.
LEMMA CounterConstants ==
  /\ \A q \in Questions : KeyOf[q] \in Keys /\ Weight[q] \in Nat \cup {None}
  /\ None \notin Nat
BY KeysOfQuestions, WeightsNat, NoneNoNumber

\* At first the memo is empty and nobody asks.
LEMMA CounterInit == TokensInit => CounterInv
BY DEF TokensInit, CounterInv, TokensTypeOK, Kept, Accurate

\* A count that is found is that of a question with the same key.
LEMMA CounterLoad ==
  ASSUME CounterInv, NEW t \in Threads, NEW q \in Questions, Load(t, q)
  PROVE  CounterInv'
<1>1. TokensTypeOK'
  BY CounterConstants DEF CounterInv, TokensTypeOK, Load
<1>2. Kept'
  BY DEF CounterInv, Kept, Load
<1>3. Accurate'
  <2>1. SUFFICES ASSUME NEW u \in Threads, phase'[u] = "told", ~ Shared(asked'[u])
                 PROVE  told'[u] = Weight[asked'[u]]
    BY DEF Accurate, Shared
  <2>2. CASE u = t
    <3>1. /\ asked'[u] = q /\ told'[u] = memo[KeyOf[q]]
          /\ memo[KeyOf[q]] # None
      BY <2>1, <2>2 DEF Load, CounterInv, TokensTypeOK
    <3>2. PICK other \in Questions : KeyOf[other] = KeyOf[q] /\ memo[KeyOf[q]] = Weight[other]
      BY <3>1, CounterConstants DEF CounterInv, Kept
    <3>3. other = q
      BY <2>1, <3>1, <3>2 DEF Shared
    <3> QED BY <3>1, <3>2, <3>3
  <2>3. CASE u # t
    <3>1. phase'[u] = phase[u] /\ asked'[u] = asked[u] /\ told'[u] = told[u]
      BY <2>3 DEF Load, CounterInv, TokensTypeOK
    <3> QED BY <2>1, <3>1 DEF CounterInv, Accurate
  <2> QED BY <2>2, <2>3
<1> QED BY <1>1, <1>2, <1>3 DEF CounterInv

\* A count is stored under the key of its question, and told as it is.
LEMMA CounterStore ==
  ASSUME CounterInv, NEW t \in Threads, Store(t)
  PROVE  CounterInv'
<1>1. asked[t] \in Questions
  BY DEF CounterInv, TokensTypeOK, Store
<1>2. TokensTypeOK'
  BY <1>1, CounterConstants DEF CounterInv, TokensTypeOK, Store, PhaseAfter
<1>3. Kept'
  <2>1. SUFFICES ASSUME NEW k \in Keys, memo'[k] # None
                 PROVE  \E q \in Questions : KeyOf[q] = k /\ memo'[k] = Weight[q]
    BY DEF Kept
  <2>2. CASE memo'[k] = memo[k]
    BY <2>1, <2>2 DEF CounterInv, Kept
  <2>3. CASE memo'[k] # memo[k]
    <3>1. k = KeyOf[asked[t]] /\ memo'[k] = Weight[asked[t]]
      BY <2>3 DEF Store, CounterInv, TokensTypeOK
    <3> QED BY <1>1, <3>1
  <2> QED BY <2>2, <2>3
<1>4. Accurate'
  <2>1. SUFFICES ASSUME NEW u \in Threads, phase'[u] = "told", ~ Shared(asked'[u])
                 PROVE  told'[u] = Weight[asked'[u]]
    BY DEF Accurate, Shared
  <2>2. CASE u = t
    BY <2>2 DEF Store, CounterInv, TokensTypeOK
  <2>3. CASE u # t
    <3>1. phase'[u] = phase[u] /\ asked'[u] = asked[u] /\ told'[u] = told[u]
      BY <2>3 DEF Store, CounterInv, TokensTypeOK
    <3> QED BY <2>1, <3>1 DEF CounterInv, Accurate
  <2> QED BY <2>2, <2>3
<1> QED BY <1>2, <1>3, <1>4 DEF CounterInv

\* A goroutine that returns leaves the memo alone.
LEMMA CounterReturn ==
  ASSUME CounterInv, NEW t \in Threads, Return(t)
  PROVE  CounterInv'
<1>1. TokensTypeOK'
  BY DEF CounterInv, TokensTypeOK, Return
<1>2. Kept'
  BY DEF CounterInv, Kept, Return
<1>3. Accurate'
  BY DEF CounterInv, TokensTypeOK, Accurate, Shared, Return
<1> QED BY <1>1, <1>2, <1>3 DEF CounterInv

\* A cleaned key holds no count.
LEMMA CounterClean ==
  ASSUME CounterInv, NEW k \in Keys, CleanCache(k)
  PROVE  CounterInv'
<1>1. TokensTypeOK'
  BY DEF CounterInv, TokensTypeOK, CleanCache, Deleted
<1>2. Kept'
  BY DEF CounterInv, TokensTypeOK, Kept, CleanCache, Deleted
<1>3. Accurate'
  BY DEF CounterInv, Accurate, Shared, CleanCache
<1> QED BY <1>1, <1>2, <1>3 DEF CounterInv

\* Every step of every goroutine keeps the memo right.
LEMMA CounterStep == CounterInv /\ [TokensNext]_tokenVars => CounterInv'
<1> SUFFICES ASSUME CounterInv, [TokensNext]_tokenVars PROVE CounterInv'
  OBVIOUS
<1>1. CASE TokensNext
  BY <1>1, CounterLoad, CounterStore, CounterReturn, CounterClean DEF TokensNext
<1>2. CASE UNCHANGED tokenVars
  BY <1>2 DEF tokenVars, CounterInv, TokensTypeOK, Kept, Accurate, Shared
<1> QED BY <1>1, <1>2

\* The memo is right at every moment.
LEMMA CounterAlways == TokensSpec => []CounterInv
BY CounterInit, CounterStep, PTL DEF TokensSpec

\* The memo, its threads and what they are told stay what they are.
THEOREM CounterTypeCorrect == TokensSpec => []TokensTypeOK
<1>1. CounterInv => TokensTypeOK
  BY DEF CounterInv
<1> QED BY <1>1, CounterAlways, PTL

\* A question that shares its key with no other is told its own count, although nothing
\* locks the memo between its three steps.
THEOREM CountsAccurate == TokensSpec => []Accurate
<1>1. CounterInv => Accurate
  BY DEF CounterInv
<1> QED BY <1>1, CounterAlways, PTL
-----------------------------------------------------------------------------
(***************************************************************************)
(* The rows found in a sheet.                                              *)
(***************************************************************************)
\* g gives the rows found after each of m iterations.
Finds(g, sheet, m) ==
  g = [n \in 0..m |-> IF n = 0 THEN <<>> ELSE AddRow(g[n - 1], n, sheet[n])]

\* The rows found are those that the loop's recursion gives.
LEMMA FoundDef ==
  ASSUME NEW sheet
  PROVE  RowsFound(sheet) = CHOOSE g : Finds(g, sheet, LastRow(Len(sheet)))
BY Zenon DEF RowsFound, Finds

\* There is such a function for any number of iterations.
LEMMA FindsExists ==
  ASSUME NEW sheet, NEW m \in Nat
  PROVE  \E g : Finds(g, sheet, m)
<1> DEFINE T == {k \in Nat : ~ \E g : Finds(g, sheet, k)}
<1>1. CASE T # {}
  <2>1. PICK k \in T : \A l \in T : k <= l
    <3>1. T \in SUBSET Nat
      OBVIOUS
    <3> HIDE DEF T
    <3> QED BY <1>1, <3>1, LeastNatural
  <2>2. k # 0
    <3> DEFINE g == [n \in 0..0 |-> <<>>]
    <3>1. \A n \in 0..0 : g[n] = IF n = 0 THEN <<>> ELSE AddRow(g[n - 1], n, sheet[n])
      OBVIOUS
    <3>2. g = [n \in 0..0 |-> g[n]]
      OBVIOUS
    <3> HIDE DEF g
    <3>3. Finds(g, sheet, 0)
      BY <3>1, <3>2, Zenon DEF Finds
    <3> QED BY <2>1, <3>3
  <2>3. PICK h : Finds(h, sheet, k - 1)
    BY <2>1, <2>2
  <2> DEFINE g == [n \in 0..k |-> IF n = k THEN AddRow(h[k - 1], k, sheet[k]) ELSE h[n]]
  <2>4. \A n \in 0..(k - 1) : h[n] = IF n = 0 THEN <<>> ELSE AddRow(h[n - 1], n, sheet[n])
    BY <2>3 DEF Finds
  <2>5. \A n \in 0..k : g[n] = IF n = 0 THEN <<>> ELSE AddRow(g[n - 1], n, sheet[n])
    BY <2>2, <2>4
  <2>6. g = [n \in 0..k |-> g[n]]
    OBVIOUS
  <2> HIDE DEF g
  <2>7. Finds(g, sheet, k)
    BY <2>5, <2>6, Zenon DEF Finds
  <2> QED BY <2>1, <2>7
<1>2. CASE T = {}
  BY <1>2
<1> QED BY <1>1, <1>2

\* What the loop keeps true of the rows that it has found after n iterations: they are
\* rows of the sheet, in their order, and just those of the first n with data.
FoundRight(rows, sheet, n) ==
  /\ rows \in Seq({[row |-> i, cells |-> ProcessedRow(sheet[i])] : i \in 1..n})
  /\ \A i, j \in DOMAIN rows : i < j => rows[i].row < rows[j].row
  /\ {rows[i].row : i \in DOMAIN rows} = {i \in 1..n : HasNonEmptyData(ProcessedRow(sheet[i]))}

\* One more iteration keeps it.
LEMMA AddRowRight ==
  ASSUME NEW sheet, NEW n \in Nat \ {0}, NEW rows, FoundRight(rows, sheet, n - 1)
  PROVE  FoundRight(AddRow(rows, n, sheet[n]), sheet, n)
<1> DEFINE R(m) == {[row |-> i, cells |-> ProcessedRow(sheet[i])] : i \in 1..m}
           new  == [row |-> n, cells |-> ProcessedRow(sheet[n])]
<1>1. R(n - 1) \subseteq R(n) /\ new \in R(n)
  OBVIOUS
<1>2. rows \in Seq(R(n)) /\ \A i \in DOMAIN rows : rows[i] \in R(n - 1)
  BY <1>1 DEF FoundRight
<1>3. \A i \in DOMAIN rows : rows[i].row \in 1..(n - 1)
  BY <1>2
<1>4. CASE ~ HasNonEmptyData(ProcessedRow(sheet[n]))
  <2>1. AddRow(rows, n, sheet[n]) = rows
    BY <1>4 DEF AddRow
  <2>2. {i \in 1..n : HasNonEmptyData(ProcessedRow(sheet[i]))}
          = {i \in 1..(n - 1) : HasNonEmptyData(ProcessedRow(sheet[i]))}
    BY <1>4
  <2> QED BY <1>2, <2>1, <2>2 DEF FoundRight
<1>5. CASE HasNonEmptyData(ProcessedRow(sheet[n]))
  <2> DEFINE s == Append(rows, new)
  <2>1. AddRow(rows, n, sheet[n]) = s
    BY <1>5 DEF AddRow
  <2>2. new.row = n
    OBVIOUS
  <2> HIDE DEF new, R
  <2>3. /\ s \in Seq(R(n)) /\ DOMAIN rows = 1..Len(rows) /\ Len(rows) \in Nat
        /\ DOMAIN s = 1..(Len(rows) + 1)
        /\ \A i \in 1..Len(rows) : s[i] = rows[i]
        /\ s[Len(rows) + 1] = new
    BY <1>1, <1>2
  <2> HIDE DEF s
  <2>4. \A i, j \in DOMAIN s : i < j => s[i].row < s[j].row
    <3>1. \A i, j \in DOMAIN rows : i < j => rows[i].row < rows[j].row
      BY DEF FoundRight
    <3> QED BY <1>3, <2>2, <2>3, <3>1
  <2>5. {s[i].row : i \in DOMAIN s} = {rows[i].row : i \in DOMAIN rows} \cup {n}
    <3>1. DOMAIN s = DOMAIN rows \cup {Len(rows) + 1}
      BY <2>3
    <3> QED BY <2>2, <2>3, <3>1
  <2>6. {i \in 1..n : HasNonEmptyData(ProcessedRow(sheet[i]))}
          = {i \in 1..(n - 1) : HasNonEmptyData(ProcessedRow(sheet[i]))} \cup {n}
    BY <1>5
  <2>7. {rows[i].row : i \in DOMAIN rows} = {i \in 1..(n - 1) : HasNonEmptyData(ProcessedRow(sheet[i]))}
    BY DEF FoundRight
  <2>8. s \in Seq({[row |-> i, cells |-> ProcessedRow(sheet[i])] : i \in 1..n})
    BY <2>3 DEF R
  <2>9. FoundRight(s, sheet, n)
    BY <2>4, <2>5, <2>6, <2>7, <2>8 DEF FoundRight
  <2> QED BY <2>1, <2>9
<1> QED BY <1>4, <1>5

\* The rows that extractRealSheetData finds in a sheet of any number of rows are in
\* their order, and they are just those of the first max_rows_per_sheet with data.
THEOREM RowsExtracted ==
  ASSUME NEW sheet, Len(sheet) \in Nat
  PROVE  FoundRight(ExtractRealSheetData(sheet), sheet, LastRow(Len(sheet)))
<1> DEFINE L == LastRow(Len(sheet))
           g == RowsFound(sheet)
           T == {n \in Nat : n <= L /\ ~ FoundRight(g[n], sheet, n)}
<1>1. L \in Nat
  BY RowsColsPos DEF LastRow
<1>2. Finds(g, sheet, L)
  BY <1>1, FoundDef, FindsExists
<1> HIDE DEF g, L
<1>3. \A n \in 0..L : g[n] = IF n = 0 THEN <<>> ELSE AddRow(g[n - 1], n, sheet[n])
  BY <1>2 DEF Finds
<1>4. CASE T # {}
  <2>1. PICK n \in T : \A k \in T : n <= k
    <3>1. T \in SUBSET Nat
      OBVIOUS
    <3> HIDE DEF T
    <3> QED BY <1>4, <3>1, LeastNatural
  <2>2. n \in Nat /\ n <= L /\ ~ FoundRight(g[n], sheet, n)
    BY <2>1
  <2>3. CASE n = 0
    <3>1. FoundRight(<<>>, sheet, 0)
      BY DEF FoundRight
    <3> QED BY <1>1, <1>3, <2>2, <2>3, <3>1
  <2>4. CASE n # 0
    <3>1. FoundRight(g[n - 1], sheet, n - 1)
      BY <1>1, <2>1, <2>2, <2>4
    <3>2. g[n] = AddRow(g[n - 1], n, sheet[n])
      BY <1>1, <1>3, <2>2, <2>4
    <3> QED BY <2>2, <2>4, <3>1, <3>2, AddRowRight
  <2> QED BY <2>3, <2>4
<1>5. CASE T = {}
  BY <1>1, <1>5 DEF ExtractRealSheetData, g, L
<1> QED BY <1>4, <1>5
-----------------------------------------------------------------------------
(***************************************************************************)
(* Truncation.  Each level keeps parts whole within its target, by the     *)
(* counts it is told, and leaves the rest of it to the one below.          *)
(***************************************************************************)
\* The sets that the fields of a level are in.
Names     == UNION {DOMAIN PartsOf(v) : v \in Parts}
Countings == UNION {[S -> Nat] : S \in SUBSET Names}
LevelSet  == [of : Parts, target : Nat, kept : Countings, skipped : Countings,
              cut : SUBSET Names, chars : SUBSET Nat]

\* A part is told its own count, unless its key is another question's too.
OwnCount(level, i, n) ==
  n \in Nat /\ (~ Shared(PartsOf(level.of)[i]) => n = Weight[PartsOf(level.of)[i]])

\* What is kept and what is cut are different parts, and what is kept fits.
Fitting(level) ==
  LET parts == DOMAIN PartsOf(level.of) IN
    /\ level \in LevelSet
    /\ DOMAIN level.kept \subseteq parts /\ DOMAIN level.skipped \subseteq parts
    /\ level.cut \subseteq parts \ DOMAIN level.kept
    /\ \A p \in level.cut : level.cut = {p}
    /\ Used(level) \in Nat /\ Used(level) <= level.target

\* A list keeps its first items and cuts the next; only a text has characters left.
Shaped(level) ==
  LET v == level.of IN
    /\ v.kind = "list" =>
         \E k \in 0..Len(v.items) : DOMAIN level.kept = 1..k /\ level.cut \subseteq {k + 1}
    /\ v.kind = "text" => \A c \in level.chars : level.chars = {c} /\ c <= v.chars
    /\ v.kind # "text" => level.chars = {}
    /\ v.kind \notin {"list", "map"} => DOMAIN level.kept = {} /\ level.cut = {}

Counted(level) ==
  /\ \A i \in DOMAIN level.kept : OwnCount(level, i, level.kept[i])
  /\ \A i \in DOMAIN level.skipped : OwnCount(level, i, level.skipped[i])

\* The tokens told of the priority fields before the i-th that were kept at once.
ToldBefore(level, i) == SumFunctionOnSet(level.kept, KeptBefore(level, i))

\* A map counts its priority fields first and in their order; those it passed over did
\* not fit beside the ones before them.
Preferring(level) ==
  /\ level.of.kind # "map" => DOMAIN level.skipped = {}
  /\ level.of.kind = "map" =>
       /\ DOMAIN level.skipped \subseteq {Priority[j] : j \in DOMAIN Priority}
       /\ \A r \in Ranks(level) : \A x \in DOMAIN level.kept \cup DOMAIN level.skipped :
            \E j \in 1..(r - 1) : x = Priority[j]
       /\ Ranks(level) # {} => DOMAIN level.kept \cap DOMAIN level.skipped = {} /\ level.cut = {}
       /\ \A i \in DOMAIN Priority : Priority[i] \in DOMAIN level.skipped =>
            ToldBefore(level, i) + level.skipped[Priority[i]] > level.target

Sound(level) == Fitting(level) /\ Shaped(level) /\ Counted(level) /\ Preferring(level)

\* The four priority fields.
LEMMA FourFields ==
  /\ DOMAIN Priority = 1..4
  /\ \A i, j \in 1..4 : Priority[i] = Priority[j] => i = j
BY DEF Priority

\* The parts of a value can be truncated themselves, and there are finitely many.
LEMMA PartsRight ==
  ASSUME NEW v \in Parts
  PROVE  /\ v.kind \in {"text", "list", "map", "other"}
         /\ IsFiniteSet(DOMAIN PartsOf(v)) /\ DOMAIN PartsOf(v) \subseteq Names
         /\ \A i \in DOMAIN PartsOf(v) : PartsOf(v)[i] \in Parts
         /\ v.kind = "list" => /\ PartsOf(v) = v.items /\ DOMAIN v.items = 1..Len(v.items)
                               /\ Len(v.items) \in Nat
         /\ v.kind = "text" => DOMAIN PartsOf(v) = {1} /\ v.chars \in Nat
         /\ v.kind = "other" => DOMAIN PartsOf(v) = {}
<1>0. v.kind \in {"text", "list", "map", "other"} /\ DOMAIN PartsOf(v) \subseteq Names
  BY PartsOfParts DEF Names
<1>1. CASE v.kind = "list"
  <2>1. v.items \in Seq(Parts) /\ PartsOf(v) = v.items
    BY <1>1, PartsOfParts DEF PartsOf
  <2>2. DOMAIN v.items = 1..Len(v.items) /\ Len(v.items) \in Nat /\ \A i \in DOMAIN v.items : v.items[i] \in Parts
    BY <2>1
  <2> QED BY <1>0, <1>1, <2>1, <2>2, FS_Interval
<1>2. CASE v.kind = "map"
  <2>1. /\ IsFiniteSet(DOMAIN v.fields) /\ v.fields \in [DOMAIN v.fields -> Parts]
        /\ PartsOf(v) = v.fields
    BY <1>2, PartsOfParts DEF PartsOf
  <2> QED BY <1>0, <1>2, <2>1
<1>3. CASE v.kind = "text"
  <2>1. PartsOf(v) = <<v>> /\ v.chars \in Nat
    BY <1>3, PartsOfParts DEF PartsOf
  <2>2. DOMAIN <<v>> = {1} /\ <<v>>[1] = v
    OBVIOUS
  <2>3. IsFiniteSet({1})
    BY FS_Singleton
  <2> QED BY <1>0, <1>3, <2>1, <2>2, <2>3
<1>4. CASE v.kind = "other"
  <2>1. PartsOf(v) = <<>> /\ DOMAIN <<>> = {}
    BY <1>4 DEF PartsOf
  <2> QED BY <1>0, <1>4, <2>1, FS_EmptySet
<1> QED BY <1>0, <1>1, <1>2, <1>3, <1>4

\* One more count.
LEMMA AddedRight ==
  ASSUME NEW counts \in Countings, NEW i \in Names, NEW n \in Nat
  PROVE  /\ Added(counts, i, n) \in Countings
         /\ DOMAIN Added(counts, i, n) = DOMAIN counts \cup {i}
         /\ Added(counts, i, n)[i] = n
         /\ \A j \in DOMAIN counts : j # i => Added(counts, i, n)[j] = counts[j]
<1>1. PICK S \in SUBSET Names : counts \in [S -> Nat]
  BY DEF Countings
<1> DEFINE f == [j \in S \cup {i} |-> IF j = i THEN n ELSE counts[j]]
<1>2. Added(counts, i, n) = f /\ DOMAIN counts = S
  BY <1>1 DEF Added
<1>3. f \in [S \cup {i} -> Nat]
  BY <1>1
<1>4. S \cup {i} \in SUBSET Names
  OBVIOUS
<1>5. f \in Countings
  BY <1>3, <1>4 DEF Countings
<1> QED BY <1>1, <1>2, <1>5

\* The counts of a level.
LEMMA LevelCounts ==
  ASSUME NEW level, Fitting(level)
  PROVE  /\ level.of \in Parts /\ level.target \in Nat
         /\ level.kept \in Countings /\ level.skipped \in Countings
         /\ IsFiniteSet(DOMAIN level.kept)
         /\ \A i \in DOMAIN level.kept : level.kept[i] \in Nat
         /\ \A i \in DOMAIN level.skipped : level.skipped[i] \in Nat
<1>1. /\ level.of \in Parts /\ level.target \in Nat
      /\ level.kept \in Countings /\ level.skipped \in Countings
  BY DEF Fitting, LevelSet
<1>2. \A counts \in Countings : \A i \in DOMAIN counts : counts[i] \in Nat
  BY DEF Countings
<1>3. IsFiniteSet(DOMAIN level.kept)
  BY <1>1, PartsRight, FS_Subset DEF Fitting
<1> QED BY <1>1, <1>2, <1>3

\* One more part kept adds what was told of it.
LEMMA UsedAdd ==
  ASSUME NEW level, Fitting(level), NEW i \in Names, i \notin DOMAIN level.kept, NEW n \in Nat
  PROVE  LET g == Added(level.kept, i, n) IN SumFunctionOnSet(g, DOMAIN g) = Used(level) + n
<1> DEFINE S == DOMAIN level.kept
           f == level.kept
           g == Added(level.kept, i, n)
<1>1. IsFiniteSet(S) /\ \A j \in S : f[j] \in Nat
  BY LevelCounts
<1>2. DOMAIN g = S \cup {i} /\ g[i] = n /\ \A j \in S : g[j] = f[j]
  <2>1. level.kept \in Countings
    BY LevelCounts
  <2>2. /\ DOMAIN g = S \cup {i} /\ g[i] = n
        /\ \A j \in S : j # i => g[j] = f[j]
    BY <2>1, AddedRight
  <2> QED BY <2>2
<1>3. Used(level) = SumFunctionOnSet(f, S)
  BY DEF Used
<1> HIDE DEF S, f, g
<1>4. SumFunctionOnSet(f, S) = SumFunctionOnSet(g, S)
  BY <1>1, <1>2, SumEqual
<1>5. i \notin S /\ \A j \in S \cup {i} : g[j] \in Nat
  BY <1>1, <1>2 DEF S
<1>6. SumFunctionOnSet(g, S \cup {i}) = g[i] + SumFunctionOnSet(g, S)
  BY <1>1, <1>5, SumAdd
<1>7. SumFunctionOnSet(g, S) \in Nat
  BY <1>1, <1>5, SumNat
<1> QED BY <1>2, <1>3, <1>4, <1>6, <1>7 DEF g

\* What is kept of some parts does not change when another is.
LEMMA SumKept ==
  ASSUME NEW level, Fitting(level), NEW i \in Names, i \notin DOMAIN level.kept, NEW n \in Nat,
         NEW S \in SUBSET DOMAIN level.kept
  PROVE  SumFunctionOnSet(Added(level.kept, i, n), S) = SumFunctionOnSet(level.kept, S)
<1>1. IsFiniteSet(S)
  BY LevelCounts, FS_Subset
<1>2. \A j \in S : Added(level.kept, i, n)[j] = level.kept[j]
  <2>1. level.kept \in Countings
    BY LevelCounts
  <2>2. \A j \in DOMAIN level.kept : j # i => Added(level.kept, i, n)[j] = level.kept[j]
    BY <2>1, AddedRight
  <2> QED BY <2>2
<1> QED BY <1>1, <1>2, SumEqual

\* What is counted next: the next item, the first priority field, or any other field.
LEMMA OpenRight ==
  ASSUME NEW level, Sound(level), NEW i \in Open(level)
  PROVE  /\ i \in DOMAIN PartsOf(level.of) \ DOMAIN level.kept /\ i \in Names
         /\ level.cut = {} /\ level.chars = {}
         /\ level.of.kind = "list" => DOMAIN level.kept = 1..(i - 1)
         /\ level.of.kind = "map" /\ Ranks(level) # {} =>
              \E r \in Ranks(level) : i = Priority[r] /\ \A k \in Ranks(level) : r <= k
<1> DEFINE v    == level.of
           rest == DOMAIN PartsOf(v) \ DOMAIN level.kept
<1>1. level.cut = {} /\ level.chars = {} /\ v \in Parts
  BY LevelCounts DEF Open, Sound
<1>2. CASE v.kind = "map"
  <2>1. CASE Ranks(level) # {}
    <3>1. PICK r \in Ranks(level) : i = Priority[r] /\ \A k \in Ranks(level) : r <= k
      BY <1>1, <1>2, <2>1 DEF Open
    <3>2. i \in rest
      BY <3>1 DEF Ranks
    <3> QED BY <1>1, <1>2, <3>1, <3>2, PartsRight
  <2>2. CASE Ranks(level) = {}
    <3>1. i \in rest
      BY <1>1, <1>2, <2>2 DEF Open
    <3> QED BY <1>1, <1>2, <2>2, <3>1, PartsRight
  <2> QED BY <2>1, <2>2
<1>3. CASE v.kind # "map"
  <2>1. i \in rest /\ \A k \in rest : i <= k
    BY <1>1, <1>3 DEF Open
  <2>2. ASSUME v.kind = "list" PROVE DOMAIN level.kept = 1..(i - 1)
    <3>1. PICK k \in 0..Len(v.items) : DOMAIN level.kept = 1..k
      BY <2>2 DEF Sound, Shaped
    <3>2. rest = (1..Len(v.items)) \ (1..k) /\ Len(v.items) \in Nat
      BY <1>1, <2>2, <3>1, PartsRight
    <3> HIDE DEF rest
    <3>3. i \in (k + 1)..Len(v.items) /\ \A j \in (k + 1)..Len(v.items) : i <= j
      BY <2>1, <3>2
    <3>4. i = k + 1
      BY <3>2, <3>3
    <3> QED BY <3>1, <3>4
  <2> QED BY <1>1, <1>3, <2>1, <2>2, PartsRight
<1> QED BY <1>2, <1>3
-----------------------------------------------------------------------------
\* A part that is kept leaves the level sound.
LEMMA KeepSound ==
  ASSUME NEW level, Sound(level), NEW i \in Open(level), level.of.kind # "text",
         NEW n, OwnCount(level, i, n), Fits(level, n), NEW after,
         after = [level EXCEPT !.kept = Added(@, i, n)]
  PROVE  Sound(after) /\ after.of = level.of /\ after.target = level.target /\ after.cut = {}
<1>1. /\ Fitting(level) /\ level \in LevelSet /\ n \in Nat
      /\ i \in DOMAIN PartsOf(level.of) \ DOMAIN level.kept /\ i \in Names
      /\ level.cut = {} /\ level.chars = {}
  BY OpenRight DEF Sound, Fitting, OwnCount
<1> DEFINE g == Added(level.kept, i, n)
<1>2. /\ g \in Countings /\ DOMAIN g = DOMAIN level.kept \cup {i} /\ g[i] = n
      /\ \A j \in DOMAIN level.kept : g[j] = level.kept[j]
  <2>1. level.kept \in Countings
    BY <1>1, LevelCounts
  <2>2. \A j \in DOMAIN level.kept : j # i
    BY <1>1
  <2> QED BY <1>1, <2>1, <2>2, AddedRight
<1>3. SumFunctionOnSet(g, DOMAIN g) = Used(level) + n
  BY <1>1, UsedAdd
<1>4. \A S \in SUBSET DOMAIN level.kept : SumFunctionOnSet(g, S) = SumFunctionOnSet(level.kept, S)
  BY <1>1, SumKept
<1> HIDE DEF g
<1>5. /\ after \in LevelSet /\ after.of = level.of /\ after.target = level.target
      /\ after.kept = g /\ after.skipped = level.skipped /\ after.cut = {} /\ after.chars = {}
  BY <1>1, <1>2 DEF LevelSet, g
<1>6. Used(after) = Used(level) + n
  BY <1>3, <1>5 DEF Used
<1>7. Fitting(after)
  <2>1. Used(after) \in Nat /\ Used(after) <= after.target
    BY <1>1, <1>5, <1>6 DEF Fitting, Fits
  <2> QED BY <1>1, <1>2, <1>5, <2>1 DEF Fitting
<1>8. Shaped(after)
  <2>1. ASSUME level.of.kind = "list"
        PROVE  \E k \in 0..Len(level.of.items) : DOMAIN g = 1..k
    <3>1. /\ DOMAIN level.kept = 1..(i - 1) /\ i \in 1..Len(level.of.items)
          /\ Len(level.of.items) \in Nat
      BY <1>1, <2>1, OpenRight, LevelCounts, PartsRight
    <3>2. DOMAIN g = 1..i
      BY <1>2, <3>1
    <3> QED BY <3>1, <3>2
  <2>2. level.of.kind \in {"list", "map"}
    BY <1>1, LevelCounts DEF Sound, Shaped, PartsOf
  <2> QED BY <1>5, <2>1, <2>2 DEF Shaped
<1>9. Counted(after)
  BY <1>2, <1>5 DEF Sound, Counted, OwnCount
<1>10. Preferring(after)
  <2>1. CASE level.of.kind # "map"
    BY <1>5, <2>1 DEF Sound, Preferring
  <2>2. CASE level.of.kind = "map"
    <3>0. Preferring(level) /\ DOMAIN level.skipped \subseteq {Priority[j] : j \in DOMAIN Priority}
      BY <2>2 DEF Sound, Preferring
    <3>1. Ranks(after) = {r \in Ranks(level) : Priority[r] # i}
      BY <1>2, <1>5 DEF Ranks
    <3>2. \A r \in Ranks(after) : \A x \in DOMAIN after.kept \cup DOMAIN after.skipped :
             \E j \in 1..(r - 1) : x = Priority[j]
      <4> SUFFICES ASSUME NEW r \in Ranks(after), NEW x \in DOMAIN g \cup DOMAIN level.skipped
                   PROVE  \E j \in 1..(r - 1) : x = Priority[j]
        BY <1>5
      <4>1. CASE x # i
        BY <1>2, <2>2, <3>0, <3>1, <4>1 DEF Preferring
      <4>2. CASE x = i
        <5>1. PICK m \in Ranks(level) : i = Priority[m] /\ \A k \in Ranks(level) : m <= k
          BY <2>2, <3>1, OpenRight
        <5>2. r \in 1..4 /\ m \in 1..4 /\ m <= r /\ r # m
          BY <3>1, <5>1, FourFields DEF Ranks
        <5> QED BY <4>2, <5>1, <5>2
      <4> QED BY <4>1, <4>2
    <3>3. Ranks(level) # {} => i \notin DOMAIN level.skipped
      <4>1. ASSUME Ranks(level) # {} PROVE \E r \in Ranks(level) : i = Priority[r]
        BY <2>2, <4>1, OpenRight
      <4> QED BY <4>1 DEF Ranks
    <3>4. Ranks(after) # {} => DOMAIN after.kept \cap DOMAIN after.skipped = {} /\ after.cut = {}
      BY <1>2, <1>5, <2>2, <3>0, <3>1, <3>3 DEF Preferring
    <3>5. ASSUME NEW k \in DOMAIN Priority, Priority[k] \in DOMAIN after.skipped
          PROVE  ToldBefore(after, k) + after.skipped[Priority[k]] > after.target
      <4>1. i \in DOMAIN level.skipped \/ i \notin {Priority[j] : j \in 1..(k - 1)}
        <5>1. CASE Ranks(level) = {}
          BY <1>1, <5>1, FourFields DEF Ranks
        <5>2. CASE Ranks(level) # {}
          <6>1. PICK m \in Ranks(level) : i = Priority[m]
            BY <2>2, <5>2, OpenRight
          <6>2. PICK j \in 1..(m - 1) : Priority[k] = Priority[j]
            BY <1>5, <2>2, <3>0, <3>5, <6>1 DEF Preferring
          <6>3. k \in 1..4 /\ m \in 1..4 /\ j \in 1..4 /\ j < m
            BY <6>1, <6>2, FourFields DEF Ranks
          <6>4. k < m
            BY <6>2, <6>3, FourFields
          <6>5. \A l \in 1..(k - 1) : Priority[l] # Priority[m]
            BY <6>3, <6>4, FourFields
          <6> QED BY <6>1, <6>5
        <5> QED BY <5>1, <5>2
      <4>2. KeptBefore(after, k) = KeptBefore(level, k)
        BY <1>2, <1>5, <4>1 DEF KeptBefore
      <4>3. KeptBefore(level, k) \subseteq DOMAIN level.kept
        BY DEF KeptBefore
      <4>4. ToldBefore(after, k) = ToldBefore(level, k)
        BY <1>4, <1>5, <4>2, <4>3 DEF ToldBefore
      <4> QED BY <1>5, <2>2, <3>0, <3>5, <4>4 DEF Preferring
    <3> QED BY <1>5, <2>2, <3>0, <3>2, <3>4, <3>5 DEF Preferring
  <2> QED BY <2>1, <2>2
<1> QED BY <1>5, <1>7, <1>8, <1>9, <1>10 DEF Sound

\* So does a priority field that is passed over.
LEMMA SkipSound ==
  ASSUME NEW level, Sound(level), NEW i \in Open(level),
         level.of.kind = "map", Ranks(level) # {},
         NEW n, OwnCount(level, i, n), ~ Fits(level, n), NEW after,
         after = [level EXCEPT !.skipped = Added(@, i, n)]
  PROVE  Sound(after) /\ after.of = level.of /\ after.target = level.target /\ after.cut = {}
<1>1. /\ Fitting(level) /\ level \in LevelSet /\ n \in Nat
      /\ i \in DOMAIN PartsOf(level.of) \ DOMAIN level.kept /\ i \in Names
      /\ level.cut = {} /\ level.chars = {}
  BY OpenRight DEF Sound, Fitting, OwnCount
<1> DEFINE g == Added(level.skipped, i, n)
<1>2. /\ g \in Countings /\ DOMAIN g = DOMAIN level.skipped \cup {i} /\ g[i] = n
      /\ \A j \in DOMAIN level.skipped : j # i => g[j] = level.skipped[j]
  <2>1. level.skipped \in Countings /\ i \in Names /\ n \in Nat
    BY <1>1, LevelCounts
  <2> QED BY <2>1, AddedRight
<1> HIDE DEF g
<1>3. /\ after \in LevelSet /\ after.of = level.of /\ after.target = level.target
      /\ after.kept = level.kept /\ after.skipped = g /\ after.cut = {} /\ after.chars = {}
  BY <1>1, <1>2 DEF LevelSet, g
<1>4. Used(after) = Used(level)
  BY <1>3 DEF Used
<1>5. Fitting(after)
  BY <1>1, <1>2, <1>3, <1>4 DEF Fitting
<1>6. Shaped(after)
  BY <1>3 DEF Sound, Shaped
<1>7. Counted(after)
  BY <1>2, <1>3 DEF Sound, Counted, OwnCount
<1>8. PICK m \in Ranks(level) : i = Priority[m] /\ \A k \in Ranks(level) : m <= k
  BY OpenRight
<1>9. m \in 1..4 /\ Preferring(level)
  BY <1>8, FourFields DEF Ranks, Sound
<1>10. Preferring(after)
  <2>1. Ranks(after) = {r \in Ranks(level) : Priority[r] # i}
    BY <1>2, <1>3 DEF Ranks
  <2>2. DOMAIN g \subseteq {Priority[j] : j \in DOMAIN Priority}
    BY <1>2, <1>8, <1>9, FourFields DEF Preferring
  <2>3. \A r \in Ranks(after) : \A x \in DOMAIN after.kept \cup DOMAIN after.skipped :
           \E j \in 1..(r - 1) : x = Priority[j]
    <3> SUFFICES ASSUME NEW r \in Ranks(after), NEW x \in DOMAIN level.kept \cup DOMAIN g
                 PROVE  \E j \in 1..(r - 1) : x = Priority[j]
      BY <1>3
    <3>1. CASE x # i
      BY <1>2, <1>9, <2>1, <3>1 DEF Preferring
    <3>2. CASE x = i
      <4>1. r \in 1..4 /\ m <= r /\ r # m
        BY <1>8, <2>1, FourFields DEF Ranks
      <4> QED BY <1>8, <1>9, <3>2, <4>1
    <3> QED BY <3>1, <3>2
  <2>4. DOMAIN after.kept \cap DOMAIN after.skipped = {} /\ after.cut = {}
    BY <1>1, <1>2, <1>3, <1>9 DEF Preferring
  <2>5. ASSUME NEW k \in DOMAIN Priority, Priority[k] \in DOMAIN after.skipped
        PROVE  ToldBefore(after, k) + after.skipped[Priority[k]] > after.target
    <3>1. KeptBefore(after, k) = KeptBefore(level, k)
      BY <1>1, <1>2, <1>3 DEF KeptBefore
    <3>2. ToldBefore(after, k) = ToldBefore(level, k)
      BY <1>3, <3>1 DEF ToldBefore
    <3>3. CASE Priority[k] # i
      BY <1>2, <1>3, <1>9, <2>5, <3>2, <3>3 DEF Preferring
    <3>4. CASE Priority[k] = i
      <4>1. k = m
        BY <1>8, <1>9, <3>4, FourFields
      <4>2. KeptBefore(level, m) = DOMAIN level.kept
        BY <1>8, <1>9 DEF KeptBefore, Preferring
      <4>3. ToldBefore(level, k) = Used(level)
        BY <4>1, <4>2 DEF ToldBefore, Used
      <4>4. Used(level) + n > level.target /\ g[i] = n
        BY <1>1, <1>2 DEF Fits, Fitting, LevelSet
      <4> QED BY <1>3, <3>2, <3>4, <4>3, <4>4
    <3> QED BY <3>3, <3>4
  <2> QED BY <1>3, <2>2, <2>3, <2>4, <2>5 DEF Preferring
<1> QED BY <1>3, <1>5, <1>6, <1>7, <1>10 DEF Sound

\* A level that has cut a part is sound, and so is the level below.
LEMMA CutSound ==
  ASSUME NEW level, Sound(level), NEW i \in Open(level), level.of.kind # "text",
         level.of.kind = "map" => Ranks(level) = {}, NEW after,
         after = [level EXCEPT !.cut = {i}]
  PROVE  Sound(after) /\ after.of = level.of /\ after.target = level.target /\ after.cut = {i}
<1>1. /\ Fitting(level) /\ level \in LevelSet
      /\ i \in DOMAIN PartsOf(level.of) \ DOMAIN level.kept /\ i \in Names
  BY OpenRight DEF Sound, Fitting
<1>2. /\ after \in LevelSet /\ after.of = level.of /\ after.target = level.target
      /\ after.kept = level.kept /\ after.skipped = level.skipped
      /\ after.cut = {i} /\ after.chars = level.chars
  BY <1>1 DEF LevelSet
<1>3. Used(after) = Used(level)
  BY <1>2 DEF Used
<1>4. Fitting(after)
  BY <1>1, <1>2, <1>3 DEF Fitting
<1>5. Shaped(after)
  <2>1. ASSUME level.of.kind = "list"
        PROVE  \E k \in 0..Len(level.of.items) : DOMAIN level.kept = 1..k /\ {i} \subseteq {k + 1}
    <3>1. /\ DOMAIN level.kept = 1..(i - 1) /\ i \in 1..Len(level.of.items)
          /\ Len(level.of.items) \in Nat
      BY <1>1, <2>1, OpenRight, LevelCounts, PartsRight
    <3> QED BY <3>1
  <2>2. level.of.kind \in {"list", "map"}
    BY <1>1, LevelCounts, PartsRight
  <2> QED BY <1>2, <2>1, <2>2 DEF Sound, Shaped
<1>6. Counted(after)
  BY <1>2 DEF Sound, Counted, OwnCount
<1>7. Preferring(after)
  <2>1. Ranks(after) = Ranks(level) /\ \A k : KeptBefore(after, k) = KeptBefore(level, k)
    BY <1>2 DEF Ranks, KeptBefore
  <2>2. \A k : ToldBefore(after, k) = ToldBefore(level, k)
    BY <1>2, <2>1 DEF ToldBefore
  <2> QED BY <1>2, <2>1, <2>2 DEF Sound, Preferring
<1> QED BY <1>2, <1>4, <1>5, <1>6, <1>7 DEF Sound

\* A level that begins is sound.
LEMMA NewSound ==
  ASSUME NEW v \in Parts, NEW target \in Nat
  PROVE  /\ Sound(NewLevel(v, target)) /\ NewLevel(v, target).of = v
         /\ NewLevel(v, target).target = target /\ NewLevel(v, target).cut = {}
<1> DEFINE level == NewLevel(v, target)
<1>1. /\ <<>> \in [{} -> Nat] /\ DOMAIN <<>> = {}
  OBVIOUS
<1>2. <<>> \in Countings
  BY <1>1 DEF Countings
<1>3. /\ level \in LevelSet /\ level.of = v /\ level.target = target
      /\ level.kept = <<>> /\ level.skipped = <<>> /\ level.cut = {} /\ level.chars = {}
  BY <1>2 DEF LevelSet, NewLevel
<1> HIDE DEF level
<1>4. Used(level) = 0
  BY <1>1, <1>3, SumEmpty DEF Used
<1>5. Fitting(level)
  BY <1>1, <1>3, <1>4 DEF Fitting
<1>6. Shaped(level)
  <2>1. v.kind = "list" => 0 \in 0..Len(v.items) /\ {} = 1..0
    BY PartsRight
  <2> QED BY <1>1, <1>3, <2>1 DEF Shaped
<1>7. Counted(level) /\ Preferring(level)
  BY <1>1, <1>3 DEF Counted, Preferring
<1> QED BY <1>3, <1>5, <1>6, <1>7 DEF Sound, level

\* A text that has been looked at.
LEMMA TextSound ==
  ASSUME NEW level, Sound(level), level.of.kind = "text", NEW n \in Nat, NEW after,
         TakeText(level, n) = <<after>>
  PROVE  Sound(after) /\ after.of = level.of /\ after.target = level.target /\ after.cut = {}
<1> DEFINE c == IF n <= level.target \/ 4 * level.target >= level.of.chars
                  THEN level.of.chars ELSE 4 * level.target
<1>1. after = [level EXCEPT !.chars = {c}]
  BY DEF TakeText
<1>2. /\ Fitting(level) /\ level \in LevelSet /\ level.target \in Nat /\ level.of.chars \in Nat
      /\ DOMAIN level.kept = {} /\ level.cut = {}
  BY LevelCounts, PartsRight DEF Sound, Fitting, Shaped
<1>3. c \in Nat /\ c <= level.of.chars
  BY <1>2
<1> HIDE DEF c
<1>4. /\ after \in LevelSet /\ after.of = level.of /\ after.target = level.target
      /\ after.kept = level.kept /\ after.skipped = level.skipped
      /\ after.cut = {} /\ after.chars = {c}
  BY <1>1, <1>2, <1>3 DEF LevelSet
<1>5. Used(after) = Used(level)
  BY <1>4 DEF Used
<1>6. Fitting(after) /\ Shaped(after)
  BY <1>2, <1>3, <1>4, <1>5 DEF Fitting, Shaped
<1>7. Counted(after) /\ Preferring(after)
  BY <1>4 DEF Sound, Counted, OwnCount, Preferring
<1> QED BY <1>4, <1>6, <1>7 DEF Sound

\* level, told the count n of its part i, goes on at the same level or, if it cuts the
\* part, with what is left of its target at a level for that.
Follows(level, i, next) ==
  \/ /\ Len(next) = 1 /\ Sound(next[1]) /\ next[1].of = level.of /\ next[1].target = level.target
     /\ next[1].cut = {}
  \/ /\ Len(next) = 2 /\ Sound(next[1]) /\ next[1].of = level.of /\ next[1].target = level.target
     /\ next[1].cut = {i} /\ Used(next[1]) = Used(level)
     /\ Sound(next[2]) /\ next[2].of = PartsOf(level.of)[i] /\ next[2].cut = {}
     /\ next[2].target = level.target - Used(level)

\* What truncateMap, truncateSlice and truncateString make of the count of one part, for
\* any value, any target and whatever the memo says: what is kept of the level fits its
\* target by what was told, the rest of the target is what the level below has, a
\* priority field is passed over only if it does not fit, and what is kept or passed
\* over under its own key was told its own count.
THEOREM OneCallRight ==
  ASSUME NEW level, Sound(level), NEW i \in Open(level), NEW n \in Nat,
         level.of.kind # "text" => OwnCount(level, i, n)
  PROVE  \E next \in Seq(LevelSet) : Take(level, i, n) = next /\ Follows(level, i, next)
<1>0. /\ Fitting(level) /\ level \in LevelSet /\ level.of \in Parts
      /\ i \in DOMAIN PartsOf(level.of) \ DOMAIN level.kept
  BY OpenRight DEF Sound, Fitting, LevelSet
<1>1. \A x \in LevelSet : /\ <<x>> \in Seq(LevelSet) /\ Len(<<x>>) = 1 /\ <<x>>[1] = x
  OBVIOUS
<1>2. CASE level.of.kind = "text"
  <2>1. PICK after : TakeText(level, n) = <<after>>
    BY DEF TakeText
  <2>2. Sound(after) /\ after.of = level.of /\ after.target = level.target /\ after.cut = {}
    BY <1>2, <2>1, TextSound
  <2>3. after \in LevelSet
    BY <2>2 DEF Sound, Fitting
  <2> QED BY <1>1, <1>2, <2>1, <2>2, <2>3 DEF Take, Follows
<1>3. CASE level.of.kind # "text" /\ Fits(level, n)
  <2> DEFINE after == [level EXCEPT !.kept = Added(@, i, n)]
  <2>1. Take(level, i, n) = <<after>>
    BY <1>3 DEF Take, TakePart, Keep
  <2>2. Sound(after) /\ after.of = level.of /\ after.target = level.target /\ after.cut = {}
    BY <1>3, KeepSound
  <2> HIDE DEF after
  <2>3. after \in LevelSet
    BY <2>2 DEF Sound, Fitting
  <2> QED BY <1>1, <2>1, <2>2, <2>3 DEF Follows
<1>4. CASE level.of.kind = "map" /\ Ranks(level) # {} /\ ~ Fits(level, n)
  <2> DEFINE after == [level EXCEPT !.skipped = Added(@, i, n)]
  <2>1. Take(level, i, n) = <<after>>
    BY <1>4 DEF Take, TakePart, Skip
  <2>2. Sound(after) /\ after.of = level.of /\ after.target = level.target /\ after.cut = {}
    BY <1>4, SkipSound
  <2> HIDE DEF after
  <2>3. after \in LevelSet
    BY <2>2 DEF Sound, Fitting
  <2> QED BY <1>1, <2>1, <2>2, <2>3 DEF Follows
<1>5. CASE /\ level.of.kind # "text" /\ ~ Fits(level, n)
           /\ level.of.kind = "map" => Ranks(level) = {}
  <2> DEFINE after == [level EXCEPT !.cut = {i}]
             below == NewLevel(PartsOf(level.of)[i], BudgetLeft(level))
  <2>1. Take(level, i, n) = <<after, below>>
    BY <1>5 DEF Take, TakePart, Cut
  <2>2. /\ Sound(after) /\ after.of = level.of /\ after.target = level.target /\ after.cut = {i}
        /\ Used(after) = Used(level)
    <3>1. Used(after) = Used(level)
      BY <1>0 DEF Used, LevelSet
    <3> HIDE DEF after
    <3>2. after = [level EXCEPT !.cut = {i}]
      BY DEF after
    <3> QED BY <1>5, <3>1, <3>2, CutSound
  <2>3. PartsOf(level.of)[i] \in Parts /\ BudgetLeft(level) = level.target - Used(level) /\ BudgetLeft(level) \in Nat
    BY <1>0, PartsRight DEF BudgetLeft, Fitting, LevelSet
  <2>4. /\ Sound(below) /\ below.of = PartsOf(level.of)[i] /\ below.cut = {}
        /\ below.target = level.target - Used(level)
    BY <2>3, NewSound
  <2> HIDE DEF after, below
  <2>5. after \in LevelSet /\ below \in LevelSet
    BY <2>2, <2>4 DEF Sound, Fitting
  <2>6. /\ <<after, below>> \in Seq(LevelSet) /\ Len(<<after, below>>) = 2
        /\ <<after, below>>[1] = after /\ <<after, below>>[2] = below
    BY <2>5
  <2> QED BY <2>1, <2>2, <2>4, <2>6 DEF Follows
<1> QED BY <1>2, <1>3, <1>4, <1>5
-----------------------------------------------------------------------------
\* The levels of a value that is being truncated, from the value down: each but the
\* deepest has cut the part that the next is for, and what they keep together leaves the
\* deepest its target.
Linked(level, below) ==
  \E p \in DOMAIN PartsOf(level.of) : level.cut = {p} /\ below.of = PartsOf(level.of)[p]

Spent(levels) ==
  SumFunctionOnSet([k \in 1..(Len(levels) - 1) |-> Used(levels[k])], 1..(Len(levels) - 1))

Chain(levels, target) ==
  /\ levels \in Seq(LevelSet) /\ levels # <<>>
  /\ \A k \in 1..Len(levels) : Sound(levels[k])
  /\ levels[1].target = target
  /\ \A k \in 1..(Len(levels) - 1) : Linked(levels[k], levels[k + 1])
  /\ Deepest(levels).cut = {}
  /\ Spent(levels) + Deepest(levels).target = target

\* One level is a chain.
LEMMA ChainBegins ==
  ASSUME NEW v \in Parts, NEW target \in Nat
  PROVE  Chain(<<NewLevel(v, target)>>, target)
<1> DEFINE x == NewLevel(v, target)
           s == <<x>>
<1>1. Sound(x) /\ x.target = target /\ x.cut = {}
  BY NewSound
<1>2. x \in LevelSet
  BY <1>1 DEF Sound, Fitting
<1> HIDE DEF x
<1>3. /\ s \in Seq(LevelSet) /\ s # <<>> /\ Len(s) = 1 /\ s[1] = x
  BY <1>2
<1> HIDE DEF s
<1>4. 1..(Len(s) - 1) = {} /\ Deepest(s) = x /\ 1..Len(s) = {1}
  BY <1>3 DEF Deepest
<1>5. Spent(s) = 0
  BY <1>4, SumEmpty DEF Spent
<1>6. Spent(s) + Deepest(s).target = target
  BY <1>1, <1>4, <1>5
<1>7. Chain(s, target)
  BY <1>1, <1>3, <1>4, <1>6 DEF Chain
<1> QED BY <1>7 DEF s, x

\* One or two elements after m others, in a function that continues them.
LEMMA EndsContinue ==
  ASSUME NEW m \in Nat, NEW l \in {1, 2}, NEW r, NEW f, NEW next,
         \A k \in 1..(m + l) : r[k] = IF k <= m THEN f[k] ELSE next[k - m]
  PROVE  r[m + 1] = next[1] /\ (l = 2 => r[m + 2] = next[2])
<1>1. m + 1 \in 1..(m + l) /\ ~ (m + 1 <= m) /\ m + 1 - m = 1
  OBVIOUS
<1>2. r[m + 1] = next[1]
  BY <1>1
<1>3. ASSUME l = 2 PROVE r[m + 2] = next[2]
  <2>1. m + 2 \in 1..(m + l) /\ ~ (m + 2 <= m) /\ m + 2 - m = 2
    BY <1>3
  <2> QED BY <2>1
<1> QED BY <1>2, <1>3

\* r is s with one or two elements in the place of its last.
Continues(r, s, next) ==
  /\ Len(r) = Len(s) - 1 + Len(next)
  /\ \A k \in 1..(Len(s) - 1) : r[k] = s[k]
  /\ r[Len(s)] = next[1]
  /\ Len(next) = 2 => r[Len(s) + 1] = next[2]

\* A sequence whose last element is replaced.
LEMMA LastReplaced ==
  ASSUME NEW T, NEW s \in Seq(T), s # <<>>, NEW next \in Seq(T), Len(next) \in {1, 2}
  PROVE  /\ SubSeq(s, 1, Len(s) - 1) \o next \in Seq(T)
         /\ Continues(SubSeq(s, 1, Len(s) - 1) \o next, s, next)
<1> DEFINE f == SubSeq(s, 1, Len(s) - 1)
           r == f \o next
           m == Len(s) - 1
           l == Len(next)
<1>1. m \in Nat /\ Len(s) = m + 1 /\ l \in {1, 2}
  BY EmptySeq
<1>2. \A k \in 1..m : s[k] \in T
  BY <1>1, ElementOfSeq
<1> HIDE DEF l
<1>3. f \in Seq(T) /\ Len(f) = m /\ \A k \in 1..m : f[k] = s[k]
  <2>1. /\ SubSeq(s, 1, m) \in Seq(T) /\ Len(SubSeq(s, 1, m)) = IF 1 <= m THEN m - 1 + 1 ELSE 0
        /\ \A k \in 1..(m - 1 + 1) : SubSeq(s, 1, m)[k] = s[1 + k - 1]
    BY <1>1, <1>2, SubSeqProperties
  <2> HIDE DEF m
  <2>2. m - 1 + 1 = m /\ \A k \in 1..m : 1 + k - 1 = k
    BY <1>1
  <2>3. (IF 1 <= m THEN m - 1 + 1 ELSE 0) = m
    BY <1>1
  <2> QED BY <2>1, <2>2, <2>3 DEF m
<1> HIDE DEF f, m
<1>4. /\ r \in Seq(T) /\ Len(r) = m + l
      /\ \A k \in 1..(m + l) : r[k] = IF k <= m THEN f[k] ELSE next[k - m]
  <2>1. /\ f \o next \in Seq(T) /\ Len(f \o next) = Len(f) + Len(next)
        /\ \A k \in 1..(Len(f) + Len(next)) :
             (f \o next)[k] = IF k <= Len(f) THEN f[k] ELSE next[k - Len(f)]
    BY <1>3, ConcatProperties
  <2> QED BY <1>3, <2>1 DEF l
<1> HIDE DEF r
<1>5. \A k \in 1..m : r[k] = s[k]
  <2>1. m \in Nat /\ \A k \in 1..m : k \in 1..(m + l) /\ k <= m
    BY <1>1
  <2> QED BY <1>3, <1>4, <2>1, Zenon
<1>6. r[m + 1] = next[1] /\ (l = 2 => r[m + 2] = next[2])
  <2>1. m \in Nat /\ l \in {1, 2}
    BY <1>1
  <2>2. \A k \in 1..(m + l) : r[k] = IF k <= m THEN f[k] ELSE next[k - m]
    BY <1>4, Zenon
  <2> QED BY ONLY <2>1, <2>2, EndsContinue
<1>7. /\ Len(s) = m + 1 /\ Len(s) - 1 = m /\ Len(s) + 1 = m + 2
      /\ Len(r) = Len(s) - 1 + Len(next)
  BY <1>1, <1>4 DEF l
<1>8. /\ r \in Seq(T) /\ Len(r) = Len(s) - 1 + Len(next)
      /\ \A k \in 1..(Len(s) - 1) : r[k] = s[k]
      /\ r[Len(s)] = next[1]
      /\ Len(next) = 2 => r[Len(s) + 1] = next[2]
  BY <1>4, <1>5, <1>6, <1>7, Zenon DEF l
<1> QED BY <1>8, Zenon DEF r, f, Continues

\* What is spent above the deepest level.
LEMMA SpentNat ==
  ASSUME NEW levels \in Seq(LevelSet), \A k \in 1..Len(levels) : Sound(levels[k])
  PROVE  Spent(levels) \in Nat
<1> DEFINE m == Len(levels) - 1
           f == [k \in 1..m |-> Used(levels[k])]
<1>1. Len(levels) \in Nat /\ m \in Int /\ m <= Len(levels)
  OBVIOUS
<1>2. \A k \in 1..m : f[k] \in Nat
  BY <1>1 DEF Sound, Fitting
<1> HIDE DEF f
<1>3. IsFiniteSet(1..m)
  BY <1>1, FS_Interval
<1>4. SumFunctionOnSet(f, 1..m) \in Nat
  BY <1>2, <1>3, SumNat
<1> QED BY <1>4 DEF Spent, f

\* A chain goes on with its deepest level, or to one below.
LEMMA ChainGoesOn ==
  ASSUME NEW target \in Nat, NEW levels, Chain(levels, target),
         NEW i \in Open(Deepest(levels)), NEW next \in Seq(LevelSet),
         Follows(Deepest(levels), i, next), NEW r, r = SubSeq(levels, 1, Len(levels) - 1) \o next
  PROVE  Chain(r, target) /\ Len(r) >= Len(levels)
<1> DEFINE n == Len(levels)
           d == Deepest(levels)
           A == 1..(n - 1)
<1>1. /\ levels \in Seq(LevelSet) /\ levels # <<>> /\ n \in Nat \ {0} /\ d = levels[n]
      /\ Sound(d) /\ (\A k \in A : Sound(levels[k]))
      /\ levels[1].target = target
      /\ (\A k \in A : Linked(levels[k], levels[k + 1]))
      /\ Spent(levels) + d.target = target
  BY DEF Chain, Deepest
<1>2. Len(next) \in {1, 2} /\ Sound(next[1]) /\ next[1].of = d.of /\ next[1].target = d.target
  BY DEF Follows
<1>3. /\ r \in Seq(LevelSet) /\ Len(r) = n - 1 + Len(next)
      /\ \A k \in A : r[k] = levels[k]
      /\ r[n] = next[1]
      /\ Len(next) = 2 => r[n + 1] = next[2]
  <2>1. levels \in Seq(LevelSet) /\ levels # <<>> /\ Len(next) \in {1, 2}
    BY <1>1, <1>2
  <2>2. /\ SubSeq(levels, 1, Len(levels) - 1) \o next \in Seq(LevelSet)
        /\ Continues(SubSeq(levels, 1, Len(levels) - 1) \o next, levels, next)
    BY <2>1, LastReplaced, Zenon
  <2>3. r \in Seq(LevelSet) /\ Continues(r, levels, next)
    BY <2>2, Zenon
  <2> QED BY <2>3, Zenon DEF Continues
<1>4. i \in DOMAIN PartsOf(d.of)
  BY <1>1, OpenRight
<1>5. Spent(levels) \in Nat /\ d.target \in Nat
  BY <1>1, SpentNat, LevelCounts DEF Chain, Sound
<1> DEFINE f == [k \in A |-> Used(levels[k])]
<1>6. Spent(levels) = SumFunctionOnSet(f, A) /\ IsFiniteSet(A)
  BY <1>1, FS_Interval DEF Spent
<1>7. \A k \in A : f[k] = Used(r[k]) /\ f[k] \in Nat
  BY <1>1, <1>3 DEF Sound, Fitting
<1>8. \A k \in 1..(n - 1) : Linked(r[k], r[k + 1])
  <2> SUFFICES ASSUME NEW k \in 1..(n - 1) PROVE Linked(r[k], r[k + 1])
    OBVIOUS
  <2>1. Linked(levels[k], levels[k + 1]) /\ r[k] = levels[k]
    BY <1>1, <1>3
  <2>2. r[k + 1].of = levels[k + 1].of
    <3>1. CASE k = n - 1
      <4>1. k + 1 = n
        BY <1>1, <3>1
      <4> QED BY <1>1, <1>2, <1>3, <4>1
    <3>2. CASE k # n - 1
      <4>1. k + 1 \in A
        BY <1>1, <3>2
      <4> QED BY <1>3, <4>1
    <3> QED BY <3>1, <3>2
  <2> QED BY <2>1, <2>2 DEF Linked
<1>9. r[1].target = target
  <2>1. CASE n = 1
    BY <1>1, <1>2, <1>3, <2>1
  <2>2. CASE n # 1
    <3>1. 1 \in A
      <4>1. n \in Nat \ {0}
        BY <1>1
      <4> HIDE DEF n
      <4> QED BY <2>2, <4>1
    <3> QED BY <1>1, <1>3, <3>1
  <2> QED BY <2>1, <2>2
<1> HIDE DEF n, d, A, f
<1>10. CASE Len(next) = 1
  <2>0. Len(r) = n /\ n \in Nat \ {0}
    <3>1. Len(r) = n - 1 + 1 /\ n \in Nat \ {0}
      BY <1>1, <1>3, <1>10
    <3> QED BY <3>1
  <2>1. next[1].cut = {} /\ Len(r) = n /\ r # <<>> /\ Deepest(r) = next[1]
    <3>1. next[1].cut = {}
      BY <1>10 DEF Follows
    <3>2. r # <<>>
      BY <2>0
    <3> QED BY <1>3, <2>0, <3>1, <3>2 DEF Deepest
  <2> DEFINE g == [k \in A |-> Used(r[k])]
  <2>2. Spent(r) = SumFunctionOnSet(g, A)
    BY <2>1 DEF Spent, A
  <2>3. \A k \in A : f[k] = g[k]
    BY <1>7
  <2> HIDE DEF g
  <2>4. Spent(r) = Spent(levels)
    BY <1>6, <2>2, <2>3, SumEqual
  <2>5. Spent(r) + Deepest(r).target = target
    BY <1>1, <1>2, <2>1, <2>4
  <2>6. \A k \in 1..Len(r) : Sound(r[k])
    <3>1. \A k \in 1..n : k = n \/ k \in A
      BY <1>1 DEF A
    <3> QED BY <1>1, <1>2, <1>3, <2>1, <3>1
  <2>7. \A k \in 1..(Len(r) - 1) : Linked(r[k], r[k + 1])
    BY <1>8, <2>1
  <2>8. Chain(r, target)
    BY <1>3, <1>9, <2>1, <2>5, <2>6, <2>7 DEF Chain
  <2> QED BY <1>1, <2>1, <2>8 DEF n
<1>11. CASE Len(next) = 2
  <2>1. /\ next[1].cut = {i} /\ Used(next[1]) = Used(d)
        /\ Sound(next[2]) /\ next[2].of = PartsOf(d.of)[i] /\ next[2].cut = {}
        /\ next[2].target = d.target - Used(d)
    BY <1>11 DEF Follows, d
  <2>2. Len(r) = n + 1 /\ r # <<>> /\ Deepest(r) = next[2] /\ n \in Nat \ {0}
    <3>1. Len(r) = n - 1 + 2 /\ n \in Nat \ {0}
      BY <1>1, <1>3, <1>11
    <3>2. Len(r) = n + 1 /\ n \in Nat \ {0}
      BY <3>1
    <3>3. r # <<>>
      <4>1. Len(r) # 0
        BY <3>2
      <4> QED BY <4>1, EmptySeq, Zenon
    <3> QED BY <1>3, <1>11, <3>2, <3>3 DEF Deepest
  <2> DEFINE g == [k \in A \cup {n} |-> Used(r[k])]
  <2>3. 1..(Len(r) - 1) = A \cup {n} /\ n \notin A
    BY <2>2 DEF A
  <2>4. Spent(r) = SumFunctionOnSet(g, A \cup {n})
    BY <2>3 DEF Spent
  <2>5. /\ \A k \in A : f[k] = g[k]
        /\ g[n] = Used(d) /\ Used(d) \in Nat /\ \A k \in A \cup {n} : g[k] \in Nat
    BY <1>1, <1>3, <1>7, <2>1, <2>3 DEF Sound, Fitting
  <2> HIDE DEF g
  <2>6. SumFunctionOnSet(f, A) = SumFunctionOnSet(g, A)
    BY <1>6, <2>5, SumEqual
  <2>7. SumFunctionOnSet(g, A \cup {n}) = g[n] + SumFunctionOnSet(g, A)
    BY <1>6, <2>3, <2>5, SumAdd
  <2>8. Spent(r) = Used(d) + Spent(levels)
    BY <1>6, <2>4, <2>5, <2>6, <2>7
  <2>9. Spent(r) + Deepest(r).target = target
    BY <1>1, <1>5, <2>1, <2>2, <2>5, <2>8
  <2>10. \A k \in 1..Len(r) : Sound(r[k])
    <3>1. \A k \in 1..(n + 1) : k = n + 1 \/ k = n \/ k \in A
      BY <2>2 DEF A
    <3> QED BY <1>1, <1>2, <1>3, <1>11, <2>1, <2>2, <3>1
  <2>11. \A k \in 1..(Len(r) - 1) : Linked(r[k], r[k + 1])
    <3>1. Linked(r[n], r[n + 1])
      BY <1>2, <1>3, <1>4, <1>11, <2>1 DEF Linked
    <3>2. \A k \in 1..(Len(r) - 1) : k = n \/ k \in 1..(n - 1)
      BY <2>2
    <3> QED BY <1>8, <3>1, <3>2
  <2>12. Chain(r, target)
    BY <1>3, <1>9, <2>1, <2>2, <2>9, <2>10, <2>11 DEF Chain
  <2> QED BY <2>2, <2>12 DEF n
<1> QED BY <1>2, <1>10, <1>11
-----------------------------------------------------------------------------
(***************************************************************************)
(* The requests.  What a thread answers depends on what it asked before:   *)
(* the invariant relates its job, its question and what it has been told.  *)
(***************************************************************************)
\* The jobs of the response optimizer.
Optimizers == [tool : {"optimize"}, limit : Limits, levels : Seq(LevelSet),
               part : SUBSET Names, back : Nat]

\* The optimizer has asked for the count of its value, or truncates: what it has done so
\* far is a chain, and its question is that of a part of the deepest level, or of what was
\* left of a part that was cut.
Optimized(t) ==
  LET levels == job[t].levels
      open   == Open(Deepest(levels))
  IN  /\ levels = <<>> => /\ asked[t] \in Values /\ phase[t] # "idle"
                          /\ job[t].part = {} /\ job[t].back = 0
      /\ levels # <<>> =>
           /\ Chain(levels, Target(job[t].limit))
           /\ job[t].back \in 0..(Len(levels) - 1)
           /\ job[t].part # {} =>
                \E i \in open : /\ job[t].part = {i} /\ phase[t] # "idle"
                                /\ asked[t] = Question(Deepest(levels), i)
           /\ job[t].part = {} /\ phase[t] # "idle" => open = {} /\ job[t].back < Len(levels) - 1

Working(t) ==
  /\ job[t] = Idle => phase[t] = "idle"
  /\ job[t].tool \in {"query", "navigation", "check"} => phase[t] # "idle"
  /\ job[t].tool = "query" =>
       \E query \in QueryKinds, speed \in BOOLEAN :
         asked[t] = ResultsOf(ExecuteQuery(query, speed, job[t].workbook # None, job[t].workbook))
  /\ job[t].tool = "navigation" => asked[t].index \in built
  /\ job[t].tool = "check" => asked[t].kind # "navigation"
  /\ job[t].tool = "optimize" => Optimized(t)
  /\ job[t].tool = "batch" => /\ Len(job[t].counts) <= Len(job[t].items)
                              /\ phase[t] # "idle" => Len(job[t].counts) < Len(job[t].items)
  /\ phase[t] = "told" /\ told[t] = None => Weight[asked[t]] = None

\* What a thread may be doing.
AnyJob == Jobs \cup Optimizers

RequestsInv ==
  /\ CounterInv
  /\ built \subseteq NavIndexes
  /\ job \in [Threads -> AnyJob]
  /\ \A t \in Threads : Working(t)

\* What a job is, by its tool.
LEMMA JobKinds ==
  ASSUME NEW j \in AnyJob
  PROVE  /\ j.tool \in {"none", "query", "navigation", "check", "optimize", "batch"}
         /\ j.tool = "none" => j = Idle
         /\ j.tool = "query" => j.workbook \in Workbooks \cup {None}
         /\ j.tool \in {"navigation", "check"} => j.limit \in {SafeBuffer[m] : m \in Models}
         /\ j.tool = "optimize" => j \in Optimizers
         /\ j.tool = "batch" => j \in [tool : {"batch"}, items : Batches, counts : Seq(Nat)]
         /\ j.tool # "optimize" => j \in Jobs
BY DEF AnyJob, Jobs, Optimizers, Idle

\* Every model, known or not, has a limit.
LEMMA ModelLimit ==
  ASSUME NEW model
  PROVE  GetModelLimits(model) \in {SafeBuffer[m] : m \in Models}
BY DefaultModel DEF GetModelLimits

\* What a truncated response is to fit is a number of tokens.
LEMMA TargetNat ==
  ASSUME NEW limit \in Limits
  PROVE  Target(limit) \in Nat
<1>0. limit \in Nat
  BY LimitsNat
<1>1. CASE limit \in Short
  BY <1>0, <1>1, ShortTens DEF Target
<1>2. CASE limit \notin Short
  BY <1>0, <1>2 DEF Target
<1> QED BY <1>1, <1>2

\* A thread that does nothing in a step keeps its part of the invariant.
LEMMA OthersWorking ==
  ASSUME NEW t, Working(t), built \subseteq built', job'[t] = job[t], phase'[t] = phase[t],
         asked'[t] = asked[t], told'[t] = told[t]
  PROVE  Working(t)'
<1>1. job[t].tool = "navigation" => asked[t].index \in built'
  BY DEF Working
<1>2. job[t].tool = "optimize" => Optimized(t)'
  BY DEF Working, Optimized
<1> QED BY <1>1, <1>2 DEF Working

\* The step of one thread keeps the invariant, if it keeps that thread's part.
LEMMA OneWorking ==
  ASSUME RequestsInv, NEW t \in Threads, CounterInv',
         built \subseteq built', built' \subseteq NavIndexes,
         NEW work \in AnyJob, job' = [job EXCEPT ![t] = work], Working(t)',
         \A u \in Threads \ {t} : /\ phase'[u] = phase[u]
                                  /\ asked'[u] = asked[u] /\ told'[u] = told[u]
  PROVE  RequestsInv'
<1>0. job \in [Threads -> AnyJob]
  BY DEF RequestsInv
<1>1. job' \in [Threads -> AnyJob] /\ \A u \in Threads \ {t} : job'[u] = job[u]
  BY <1>0
<1>2. \A u \in Threads \ {t} : Working(u)'
  BY <1>1, OthersWorking DEF RequestsInv
<1>3. \A u \in Threads : Working(u)'
  BY <1>2
<1> QED BY <1>1, <1>3 DEF RequestsInv

\* A thread that asks.
LEMMA Asks ==
  ASSUME RequestsInv, NEW t \in Threads, NEW q \in Questions, Load(t, q)
  PROVE  /\ phase[t] = "idle" /\ asked'[t] = q
         /\ phase'[t] \in {"computing", "told"}
         /\ phase'[t] = "told" => told'[t] # None
         /\ \A u \in Threads \ {t} : phase'[u] = phase[u] /\ asked'[u] = asked[u] /\ told'[u] = told[u]
         /\ CounterInv' /\ TokensNext
<1>1. CounterInv' /\ TokensNext
  BY CounterLoad DEF RequestsInv, TokensNext
<1> QED BY <1>1 DEF RequestsInv, CounterInv, TokensTypeOK, Load

\* A thread that has been told its count and goes on.
LEMMA Returned ==
  ASSUME RequestsInv, NEW t \in Threads, Return(t)
  PROVE  /\ phase[t] = "told" /\ phase'[t] = "idle"
         /\ \A u \in Threads \ {t} : phase'[u] = phase[u] /\ asked'[u] = asked[u] /\ told'[u] = told[u]
         /\ CounterInv' /\ TokensNext
<1>1. CounterInv' /\ TokensNext
  BY CounterReturn DEF RequestsInv, TokensNext
<1> QED BY <1>1 DEF RequestsInv, CounterInv, TokensTypeOK, Return

\* Nobody asks and nothing is cleaned.
LEMMA CounterStays ==
  ASSUME RequestsInv, UNCHANGED tokenVars
  PROVE  CounterInv' /\ [TokensNext]_tokenVars
BY CounterStep DEF RequestsInv

\* What a request has done when it has asked for its first count.
LEMMA Began ==
  ASSUME RequestsInv, NEW t \in Threads, NEW work \in AnyJob, NEW q \in Questions,
         Begins(t, work), Load(t, q)
  PROVE  /\ job'[t] = work /\ job' = [job EXCEPT ![t] = work]
         /\ asked'[t] = q /\ phase'[t] \in {"computing", "told"}
         /\ phase'[t] = "told" => told'[t] # None
         /\ \A u \in Threads \ {t} : phase'[u] = phase[u] /\ asked'[u] = asked[u] /\ told'[u] = told[u]
         /\ CounterInv' /\ TokensNext
<1>1. job' = [job EXCEPT ![t] = work] /\ job \in [Threads -> AnyJob]
  BY DEF RequestsInv, Begins
<1>2. job'[t] = work
  BY <1>1
<1> QED BY <1>1, <1>2, Asks

\* A request that begins.
LEMMA BeginInv ==
  ASSUME RequestsInv, NEW t \in Threads, Begin(t)
  PROVE  RequestsInv' /\ TokensNext
<1>0. built \subseteq NavIndexes
  BY DEF RequestsInv
<1>1. ASSUME NEW query \in QueryKinds, NEW speed \in BOOLEAN, NEW w \in Workbooks \cup {None},
             QueryData(t, query, speed, w)
      PROVE  RequestsInv' /\ TokensNext
  <2> DEFINE q == ResultsOf(ExecuteQuery(query, speed, w # None, w))
             work == [tool |-> "query", workbook |-> w]
  <2>1. q \in Questions /\ Load(t, q) /\ Begins(t, work) /\ work \in AnyJob /\ built' = built
    BY <1>1, QuestionsAsked DEF QueryData, Jobs, AnyJob
  <2>2. work.tool = "query" /\ work.workbook = w
    OBVIOUS
  <2>3. work # Idle
    BY DEF Idle
  <2> HIDE DEF work
  <2>4. Working(t)'
    <3>1. job'[t] = work /\ asked'[t] = q /\ phase'[t] \in {"computing", "told"}
          /\ (phase'[t] = "told" => told'[t] # None)
      BY <2>1, Began
    <3>2. \E query2 \in QueryKinds, speed2 \in BOOLEAN :
            asked'[t] = ResultsOf(ExecuteQuery(query2, speed2, job'[t].workbook # None, job'[t].workbook))
      BY <2>2, <3>1
    <3> QED BY <2>2, <2>3, <3>1, <3>2 DEF Working
  <2> HIDE DEF q
  <2> QED BY <1>0, <2>1, <2>4, Began, OneWorking
<1>2. ASSUME NEW model, BuildNavigationMap(t, model)
      PROVE  RequestsInv' /\ TokensNext
  <2> DEFINE work == [tool |-> "navigation", limit |-> GetModelLimits(model)]
  <2>1. PICK n \in NavIndexes \ built : Load(t, NavigationOf(n)) /\ built' = built \cup {n}
    BY <1>2 DEF BuildNavigationMap
  <2>2. NavigationOf(n) \in Questions /\ Begins(t, work)
    BY <1>2, QuestionsAsked DEF BuildNavigationMap
  <2>3. work \in AnyJob /\ work.tool = "navigation" /\ work # Idle
    BY ModelLimit DEF Jobs, AnyJob, Idle
  <2>4. NavigationOf(n).index \in built'
    BY <2>1 DEF NavigationOf
  <2> HIDE DEF work
  <2>5. Working(t)'
    BY <2>1, <2>2, <2>3, <2>4, Began DEF Working
  <2> QED BY <1>0, <2>1, <2>2, <2>3, <2>5, Began, OneWorking
<1>3. ASSUME NEW model, NEW v \in Values, Check(t, v, model)
      PROVE  RequestsInv' /\ TokensNext
  <2> DEFINE work == [tool |-> "check", limit |-> GetModelLimits(model)]
  <2>1. PICK q \in Questions : Load(t, q) /\ q.kind # "navigation"
    <3>1. CASE Load(t, v)
      BY <3>1, QuestionsAsked, ValuesKinds
    <3>2. CASE v.kind = "text" /\ Load(t, RawText(v))
      BY <3>2, QuestionsAsked DEF RawText
    <3> QED BY <1>3, <3>1, <3>2 DEF Check
  <2>2. Begins(t, work) /\ built' = built
    BY <1>3 DEF Check
  <2>3. work \in AnyJob /\ work.tool = "check" /\ work # Idle
    BY ModelLimit DEF Jobs, AnyJob, Idle
  <2> HIDE DEF work
  <2>4. Working(t)'
    BY <2>1, <2>2, <2>3, Began DEF Working
  <2> QED BY <1>0, <2>1, <2>2, <2>3, <2>4, Began, OneWorking
<1>4. ASSUME NEW v \in Values, NEW limit \in Limits, Optimize(t, v, limit)
      PROVE  RequestsInv' /\ TokensNext
  <2> DEFINE work == [tool |-> "optimize", limit |-> limit, levels |-> <<>>, part |-> {}, back |-> 0]
  <2>1. v \in Questions /\ Load(t, v) /\ Begins(t, work) /\ built' = built
    BY <1>4, QuestionsAsked DEF Optimize
  <2>2. <<>> \in Seq(LevelSet)
    OBVIOUS
  <2>3. /\ work \in AnyJob /\ work.tool = "optimize" /\ work # Idle
        /\ work.levels = <<>> /\ work.part = {} /\ work.back = 0
    BY <2>2 DEF Optimizers, AnyJob, Idle
  <2> HIDE DEF work
  <2>4. job'[t] = work /\ asked'[t] = v /\ phase'[t] \in {"computing", "told"}
        /\ (phase'[t] = "told" => told'[t] # None)
    BY <2>1, <2>3, Began
  <2>5. Optimized(t)'
    BY <2>3, <2>4 DEF Optimized
  <2>6. Working(t)'
    BY <2>3, <2>4, <2>5 DEF Working
  <2> QED BY <1>0, <2>1, <2>3, <2>6, Began, OneWorking
<1>5. ASSUME NEW items \in Batches, BatchCount(t, items)
      PROVE  RequestsInv' /\ TokensNext
  <2> DEFINE work == [tool |-> "batch", items |-> items, counts |-> <<>>]
  <2>1. items \in Seq(Values) /\ Len(items) \in Nat \ {0} /\ items[1] \in Questions
    BY BatchesValues, QuestionsAsked
  <2>2. Load(t, items[1]) /\ Begins(t, work) /\ built' = built
    BY <1>5 DEF BatchCount
  <2>3. work \in AnyJob /\ work.tool = "batch" /\ work # Idle /\ work.items = items /\ Len(work.counts) = 0
    BY DEF Jobs, AnyJob, Idle
  <2> HIDE DEF work
  <2>4. Working(t)'
    BY <2>1, <2>2, <2>3, Began DEF Working
  <2> QED BY <1>0, <2>1, <2>2, <2>3, <2>4, Began, OneWorking
<1> QED BY <1>1, <1>2, <1>3, <1>4, <1>5 DEF Begin

\* A thread whose count is computed: an error is the question's own.
LEMMA StoreInv ==
  ASSUME RequestsInv, NEW t \in Threads, Store(t), UNCHANGED requestVars
  PROVE  RequestsInv' /\ TokensNext
<1>1. /\ asked[t] \in Questions /\ phase[t] = "computing" /\ TokensTypeOK /\ Working(t)
      /\ job[t] \in AnyJob /\ job \in [Threads -> AnyJob]
  BY DEF RequestsInv, CounterInv, TokensTypeOK, Store
<1>2. CounterInv' /\ TokensNext
  BY CounterStore DEF RequestsInv, TokensNext
<1>3. /\ phase'[t] = "told" /\ told'[t] = Weight[asked[t]]
      /\ asked' = asked /\ job' = job /\ built' = built
  BY <1>1 DEF Store, PhaseAfter, TokensTypeOK, requestVars
<1>4. job[t].tool = "optimize" => Optimized(t)'
  BY <1>1, <1>3 DEF Working, Optimized
<1>5. Working(t)'
  BY <1>1, <1>3, <1>4 DEF Working
<1>6. \A u \in Threads \ {t} : phase'[u] = phase[u] /\ told'[u] = told[u]
  BY <1>1 DEF Store, TokensTypeOK
<1>7. job' = [job EXCEPT ![t] = job[t]]
  BY <1>1, <1>3
<1> QED BY <1>1, <1>2, <1>3, <1>5, <1>6, <1>7, OneWorking DEF RequestsInv

\* What the job of a thread that truncates is.
LEMMA TruncatingIs ==
  ASSUME RequestsInv, NEW t \in Threads, Truncating(t)
  PROVE  /\ job[t] \in Optimizers /\ job[t].tool = "optimize"
         /\ Chain(job[t].levels, Target(job[t].limit))
         /\ job[t].levels \in Seq(LevelSet) /\ Len(job[t].levels) \in Nat \ {0}
         /\ Deepest(job[t].levels) = job[t].levels[Len(job[t].levels)]
         /\ job[t].levels # <<>>
         /\ \A k \in 1..Len(job[t].levels) : Sound(job[t].levels[k]) /\ job[t].levels[k].of \in Parts
         /\ Sound(Deepest(job[t].levels)) /\ Deepest(job[t].levels).of \in Parts
         /\ Target(job[t].limit) \in Nat /\ job[t].back \in 0..(Len(job[t].levels) - 1)
         /\ Optimized(t)
<1>1. job[t].tool = "optimize" /\ job[t].levels # <<>> /\ job[t] \in AnyJob /\ Working(t)
  BY DEF Truncating, Optimizing, RequestsInv
<1>2. job[t] \in Optimizers /\ Optimized(t)
  BY <1>1, JobKinds DEF Working
<1>3. /\ Chain(job[t].levels, Target(job[t].limit)) /\ job[t].back \in 0..(Len(job[t].levels) - 1)
      /\ job[t].limit \in Limits
  BY <1>1, <1>2 DEF Optimized, Optimizers
<1>4. /\ job[t].levels \in Seq(LevelSet) /\ \A k \in 1..Len(job[t].levels) : Sound(job[t].levels[k])
  BY <1>3 DEF Chain
<1>5. Len(job[t].levels) \in Nat \ {0}
  BY <1>1, <1>4
<1>6. \A k \in 1..Len(job[t].levels) : job[t].levels[k].of \in Parts
  BY <1>4, LevelCounts DEF Sound
<1>7. Len(job[t].levels) \in 1..Len(job[t].levels)
  BY <1>5
<1>8. Target(job[t].limit) \in Nat
  BY <1>3, TargetNat
<1> QED BY <1>1, <1>2, <1>3, <1>4, <1>5, <1>6, <1>7, <1>8 DEF Deepest

\* Truncation begins with the value itself.
LEMMA TruncateInv ==
  ASSUME RequestsInv, NEW t \in Threads, Truncate(t)
  PROVE  RequestsInv' /\ TokensNext
<1> DEFINE levels == <<NewLevel(asked[t], Target(job[t].limit))>>
           work   == [job[t] EXCEPT !.levels = levels]
<1>1. /\ job[t].tool = "optimize" /\ job[t].levels = <<>> /\ asked[t] \in Parts /\ Return(t)
      /\ job' = [job EXCEPT ![t].levels = levels] /\ built' = built
  BY DEF Truncate, Truncates, Answering
<1>2. job[t] \in AnyJob /\ Working(t) /\ built \subseteq NavIndexes /\ job \in [Threads -> AnyJob]
  BY DEF RequestsInv
<1>3. job[t] \in Optimizers /\ job[t].part = {} /\ job[t].back = 0 /\ job[t].limit \in Limits
  BY <1>1, <1>2, JobKinds DEF Working, Optimized, Optimizers
<1>4. Chain(levels, Target(job[t].limit)) /\ Len(levels) = 1
  BY <1>1, <1>3, TargetNat, ChainBegins
<1>5. levels \in Seq(LevelSet) /\ levels # <<>>
  BY <1>4 DEF Chain
<1> HIDE DEF levels
<1>6. /\ work \in Optimizers /\ work.tool = "optimize" /\ work # Idle /\ work.levels = levels
      /\ work.part = {} /\ work.back = 0 /\ work.limit = job[t].limit
  BY <1>3, <1>5 DEF Optimizers, Idle
<1>7. job' = [job EXCEPT ![t] = work]
  BY <1>1, <1>2
<1> HIDE DEF work
<1>8. job'[t] = work /\ work \in AnyJob /\ phase'[t] = "idle"
  BY <1>1, <1>2, <1>6, <1>7, Returned DEF AnyJob
<1>9. Optimized(t)'
  BY <1>4, <1>5, <1>6, <1>8 DEF Optimized
<1>10. Working(t)'
  BY <1>6, <1>8, <1>9 DEF Working
<1> QED BY <1>1, <1>2, <1>7, <1>8, <1>10, Returned, OneWorking

\* The count of a part is asked for.
LEMMA CountPartInv ==
  ASSUME RequestsInv, NEW t \in Threads, CountPart(t)
  PROVE  RequestsInv' /\ TokensNext
<1> DEFINE level == Deepest(job[t].levels)
<1>1. PICK i \in Open(level) : /\ Load(t, Question(level, i)) /\ job' = [job EXCEPT ![t].part = {i}]
                               /\ built' = built
  BY DEF CountPart
<1>2. Truncating(t) /\ built \subseteq NavIndexes /\ job \in [Threads -> AnyJob]
  BY DEF CountPart, RequestsInv
<1>3. /\ job[t] \in Optimizers /\ Chain(job[t].levels, Target(job[t].limit)) /\ job[t].levels # <<>>
      /\ Sound(level) /\ level.of \in Parts /\ job[t].back \in 0..(Len(job[t].levels) - 1)
  BY <1>2, TruncatingIs
<1> HIDE DEF level
<1>4. i \in DOMAIN PartsOf(level.of) /\ i \in Names
  BY <1>1, <1>3, OpenRight
<1>5. Question(level, i) \in Questions
  BY <1>3, <1>4, PartsRight, PartsCounted DEF Question
<1> DEFINE work == [job[t] EXCEPT !.part = {i}]
<1>6. /\ work \in Optimizers /\ work.tool = "optimize" /\ work # Idle /\ work.levels = job[t].levels
      /\ work.part = {i} /\ work.back = job[t].back /\ work.limit = job[t].limit
  BY <1>3, <1>4 DEF Optimizers, Idle
<1>7. job' = [job EXCEPT ![t] = work]
  BY <1>1, <1>2
<1> HIDE DEF work
<1>8. job'[t] = work /\ work \in AnyJob
  BY <1>2, <1>6, <1>7 DEF AnyJob
<1>9. /\ asked'[t] = Question(level, i) /\ phase'[t] \in {"computing", "told"}
      /\ phase'[t] = "told" => told'[t] # None
  BY <1>1, <1>5, Asks
<1>10. Optimized(t)'
  BY <1>1, <1>3, <1>6, <1>8, <1>9 DEF Optimized, level
<1>11. Working(t)'
  BY <1>6, <1>8, <1>9, <1>10 DEF Working
<1> QED BY <1>1, <1>2, <1>5, <1>7, <1>8, <1>11, Asks, OneWorking

\* The count of a part has been told.
LEMMA PartCountedInv ==
  ASSUME RequestsInv, NEW t \in Threads, PartCounted(t)
  PROVE  RequestsInv' /\ TokensNext
<1> DEFINE levels == job[t].levels
           level  == Deepest(levels)
           n      == told[t]
<1>1. PICK i \in job[t].part :
         job' = [job EXCEPT ![t].levels = Longer(@, i, told[t]), ![t].part = {}]
  BY DEF PartCounted
<1>2. /\ Truncating(t) /\ Return(t) /\ built' = built /\ built \subseteq NavIndexes
      /\ job \in [Threads -> AnyJob] /\ CounterInv /\ Working(t)
  BY DEF PartCounted, RequestsInv
<1>3. /\ job[t] \in Optimizers /\ Chain(levels, Target(job[t].limit)) /\ levels # <<>>
      /\ Sound(level) /\ level.of \in Parts /\ job[t].back \in 0..(Len(levels) - 1)
      /\ Optimized(t) /\ Target(job[t].limit) \in Nat /\ Len(levels) \in Nat
  BY <1>2, TruncatingIs
<1>4. i \in Open(level) /\ asked[t] = Question(level, i)
  BY <1>1, <1>3 DEF Optimized
<1>5. i \in DOMAIN PartsOf(level.of) /\ PartsOf(level.of)[i] \in Parts
  BY <1>3, <1>4, OpenRight, PartsRight
<1>6. asked[t] \in Questions /\ Weight[asked[t]] \in Nat
  BY <1>3, <1>4, <1>5, PartsCounted DEF Question
<1>7. n \in Nat
  <2>1. phase[t] = "told"
    BY <1>2, Returned
  <2>2. Weight[asked[t]] # None
    BY <1>6, NoneNoNumber
  <2>3. told[t] # None
    BY <1>2, <2>1, <2>2 DEF Working
  <2> QED BY <1>2, <2>3 DEF CounterInv, TokensTypeOK
<1>8. level.of.kind # "text" => OwnCount(level, i, n)
  <2>1. phase[t] = "told" /\ Accurate
    BY <1>2, Returned DEF CounterInv
  <2>2. ~ Shared(asked[t]) => n = Weight[asked[t]]
    BY <2>1 DEF Accurate
  <2>3. level.of.kind # "text" => asked[t] = PartsOf(level.of)[i]
    BY <1>4 DEF Question
  <2> QED BY <1>7, <2>2, <2>3 DEF OwnCount
<1>9. PICK next \in Seq(LevelSet) : Take(level, i, n) = next /\ Follows(level, i, next)
  BY <1>3, <1>4, <1>7, <1>8, OneCallRight
<1> DEFINE r == SubSeq(levels, 1, Len(levels) - 1) \o next
<1>10. Longer(levels, i, n) = r
  BY <1>9 DEF Longer
<1>11. Chain(r, Target(job[t].limit)) /\ Len(r) >= Len(levels)
  BY <1>3, <1>4, <1>9, ChainGoesOn
<1> HIDE DEF r, n
<1>12. r \in Seq(LevelSet) /\ r # <<>>
  BY <1>11 DEF Chain
<1> DEFINE work == [job[t] EXCEPT !.levels = r, !.part = {}]
<1>13. /\ work \in Optimizers /\ work.tool = "optimize" /\ work # Idle /\ work.levels = r
       /\ work.part = {} /\ work.back = job[t].back /\ work.limit = job[t].limit
  BY <1>3, <1>12 DEF Optimizers, Idle
<1>14. job' = [job EXCEPT ![t] = work]
  BY <1>1, <1>2, <1>10 DEF n
<1> HIDE DEF work
<1>15. job'[t] = work /\ work \in AnyJob /\ phase'[t] = "idle"
  BY <1>2, <1>13, <1>14, Returned DEF AnyJob
<1>16. work.back \in 0..(Len(r) - 1)
  <2>1. Len(r) \in Nat
    BY <1>12
  <2> HIDE DEF levels
  <2> QED BY <1>3, <1>11, <1>13, <2>1 DEF levels
<1>17. Optimized(t)'
  BY <1>11, <1>12, <1>13, <1>15, <1>16 DEF Optimized
<1>18. Working(t)'
  BY <1>13, <1>15, <1>17 DEF Working
<1> QED BY <1>2, <1>14, <1>15, <1>18, Returned, OneWorking

\* The count of what is left of a part is asked for.
LEMMA CountCutInv ==
  ASSUME RequestsInv, NEW t \in Threads, CountCut(t)
  PROVE  RequestsInv' /\ TokensNext
<1> DEFINE levels == job[t].levels
           k      == Len(levels) - job[t].back
           q      == LeftOf(levels, k)
<1>1. /\ Truncating(t) /\ job[t].part = {} /\ Open(Deepest(levels)) = {}
      /\ job[t].back < Len(levels) - 1 /\ Load(t, q) /\ job' = job /\ built' = built
  BY DEF CountCut, Returning, requestVars
<1>2. built \subseteq NavIndexes /\ job \in [Threads -> AnyJob] /\ job[t] \in AnyJob
  BY DEF RequestsInv
<1>3. /\ job[t] \in Optimizers /\ Chain(levels, Target(job[t].limit)) /\ levels # <<>>
      /\ job[t].back \in 0..(Len(levels) - 1) /\ Len(levels) \in Nat \ {0}
      /\ \A m \in 1..Len(levels) : levels[m].of \in Parts
      /\ job[t].tool = "optimize"
  BY <1>1, TruncatingIs
<1>4. k \in 1..Len(levels)
  <2> HIDE DEF levels
  <2> QED BY <1>3 DEF k
<1>5. levels[k].of \in Parts
  BY <1>3, <1>4
<1>6. q \in Questions
  BY <1>5, PartsCounted DEF LeftOf
<1> HIDE DEF q
<1>7. asked'[t] = q /\ phase'[t] \in {"computing", "told"} /\ (phase'[t] = "told" => told'[t] # None)
  BY <1>1, <1>6, Asks
<1>8. job[t] # Idle /\ job'[t] = job[t] /\ job' = [job EXCEPT ![t] = job[t]]
  BY <1>1, <1>2, <1>3 DEF Idle
<1>9. Optimized(t)'
  BY <1>1, <1>3, <1>8 DEF Optimized
<1>10. Working(t)'
  BY <1>3, <1>7, <1>8, <1>9 DEF Working
<1> QED BY <1>1, <1>2, <1>6, <1>8, <1>10, Asks, OneWorking

\* The count of what is left of a part has been told.
LEMMA CutCountedInv ==
  ASSUME RequestsInv, NEW t \in Threads, CutCounted(t)
  PROVE  RequestsInv' /\ TokensNext
<1> DEFINE levels == job[t].levels
           work   == [job[t] EXCEPT !.back = @ + 1]
<1>1. /\ Truncating(t) /\ job[t].part = {} /\ Return(t)
      /\ job' = [job EXCEPT ![t].back = @ + 1] /\ built' = built
  BY DEF CutCounted, Returning
<1>2. built \subseteq NavIndexes /\ job \in [Threads -> AnyJob] /\ job[t] \in AnyJob
  BY DEF RequestsInv
<1>3. /\ job[t] \in Optimizers /\ Chain(levels, Target(job[t].limit)) /\ levels # <<>>
      /\ job[t].back \in 0..(Len(levels) - 1) /\ Len(levels) \in Nat \ {0} /\ Optimized(t)
  BY <1>1, TruncatingIs
<1>4. phase[t] = "told" /\ phase'[t] = "idle"
  BY <1>1, Returned
<1>5. job[t].back < Len(levels) - 1
  BY <1>1, <1>3, <1>4 DEF Optimized
<1> HIDE DEF levels
<1>6. job[t].back + 1 \in 0..(Len(levels) - 1) /\ job[t].back + 1 \in Nat
  BY <1>3, <1>5
<1>7. /\ work \in Optimizers /\ work.tool = "optimize" /\ work # Idle /\ work.levels = levels
      /\ work.part = {} /\ work.back = job[t].back + 1 /\ work.limit = job[t].limit
  BY <1>1, <1>3, <1>6 DEF Optimizers, Idle, levels
<1>8. job' = [job EXCEPT ![t] = work]
  BY <1>1, <1>2
<1> HIDE DEF work
<1>9. job'[t] = work /\ work \in AnyJob
  BY <1>2, <1>7, <1>8 DEF AnyJob
<1>10. Optimized(t)'
  BY <1>3, <1>4, <1>6, <1>7, <1>9 DEF Optimized
<1>11. Working(t)'
  BY <1>4, <1>7, <1>9, <1>10 DEF Working
<1> QED BY <1>1, <1>2, <1>8, <1>9, <1>11, Returned, OneWorking

\* A thread that answers does nothing.
LEMMA IdleInv ==
  ASSUME RequestsInv, NEW t \in Threads, job' = [job EXCEPT ![t] = Idle], built' = built,
         CounterInv', phase'[t] = "idle",
         \A u \in Threads \ {t} : phase'[u] = phase[u] /\ asked'[u] = asked[u] /\ told'[u] = told[u]
  PROVE  RequestsInv'
<1>1. built \subseteq NavIndexes /\ job \in [Threads -> AnyJob] /\ Idle \in AnyJob
  BY DEF RequestsInv, AnyJob, Jobs
<1>2. job'[t] = Idle
  BY <1>1
<1>3. Working(t)'
  BY <1>2 DEF Working, Idle
<1> QED BY <1>1, <1>3, OneWorking

\* A thread that goes on.
LEMMA GoOnInv ==
  ASSUME RequestsInv, NEW t \in Threads, GoOn(t)
  PROVE  RequestsInv' /\ [TokensNext]_tokenVars
<1>0. /\ job[t] \in AnyJob /\ job \in [Threads -> AnyJob] /\ Working(t)
      /\ built \subseteq NavIndexes /\ TokensTypeOK
  BY DEF RequestsInv, CounterInv
<1>1. CASE Store(t) /\ UNCHANGED requestVars
  BY <1>1, StoreInv
<1>2. CASE BatchCounted(t)
  <2> DEFINE work == [job[t] EXCEPT !.counts = Append(@, told[t])]
  <2>1. /\ job[t] \in [tool : {"batch"}, items : Batches, counts : Seq(Nat)]
        /\ told[t] \in Nat /\ Return(t) /\ built' = built
        /\ job' = [job EXCEPT ![t] = work]
    BY <1>0, <1>2, JobKinds DEF BatchCounted, IsCount, TokensTypeOK
  <2>2. /\ work \in AnyJob /\ work.tool = "batch" /\ work # Idle /\ work.items = job[t].items
        /\ Len(work.counts) = Len(job[t].counts) + 1
    <3>1. job[t].counts \in Seq(Nat)
      BY <2>1
    <3>2. /\ Append(job[t].counts, told[t]) \in Seq(Nat)
          /\ Len(Append(job[t].counts, told[t])) = Len(job[t].counts) + 1
      BY <2>1, <3>1
    <3>3. /\ work \in [tool : {"batch"}, items : Batches, counts : Seq(Nat)]
          /\ work.items = job[t].items /\ work.counts = Append(job[t].counts, told[t])
      BY <2>1, <3>2
    <3> HIDE DEF work
    <3> QED BY <3>2, <3>3 DEF AnyJob, Jobs, Idle
  <2>3. Len(job[t].items) \in Nat /\ Len(job[t].counts) \in Nat
    BY <2>1, BatchesValues
  <2> HIDE DEF work
  <2>4. Len(job[t].counts) < Len(job[t].items)
    BY <1>0, <2>1, Returned DEF Working
  <2>5. job'[t] = work
    BY <1>0, <2>1
  <2>6. Working(t)'
    BY <2>1, <2>2, <2>3, <2>4, <2>5, Returned DEF Working
  <2> QED BY <1>0, <2>1, <2>2, <2>6, Returned, OneWorking
<1>3. CASE BatchGoesOn(t)
  <2> DEFINE q == job[t].items[Len(job[t].counts) + 1]
  <2>1. /\ job[t] \in [tool : {"batch"}, items : Batches, counts : Seq(Nat)]
        /\ Load(t, q) /\ job' = job /\ built' = built /\ Len(job[t].counts) < Len(job[t].items)
    BY <1>0, <1>3, JobKinds DEF BatchGoesOn, requestVars
  <2>2. q \in Questions
    <3>1. job[t].items \in Seq(Values) /\ Len(job[t].counts) \in Nat
      BY <2>1, BatchesValues
    <3>2. q \in Values
      BY <2>1, <3>1
    <3> QED BY <3>2, QuestionsAsked
  <2> HIDE DEF q
  <2>3. phase'[t] \in {"computing", "told"} /\ (phase'[t] = "told" => told'[t] # None)
    BY <2>1, <2>2, Asks
  <2>4. job' = [job EXCEPT ![t] = job[t]]
    BY <1>0, <2>1
  <2>5. Working(t)'
    BY <1>0, <2>1, <2>3 DEF Working, Idle
  <2> QED BY <1>0, <2>1, <2>2, <2>4, <2>5, Asks, OneWorking
<1>4. CASE BatchAnswer(t)
  <2>1. job' = [job EXCEPT ![t] = Idle] /\ built' = built /\ UNCHANGED tokenVars
    BY <1>4 DEF BatchAnswer
  <2>2. phase' = phase /\ asked' = asked /\ told' = told
    BY <2>1 DEF tokenVars
  <2>3. phase[t] = "idle"
    <3>1. /\ job[t] \in [tool : {"batch"}, items : Batches, counts : Seq(Nat)]
          /\ Len(job[t].counts) = Len(job[t].items)
      BY <1>0, <1>4, JobKinds DEF BatchAnswer
    <3>2. Len(job[t].counts) \in Nat
      BY <3>1
    <3> QED BY <1>0, <3>1, <3>2 DEF Working
  <2> QED BY <2>1, <2>2, <2>3, CounterStays, IdleInv
<1>5. CASE AnswerTruncated(t)
  <2>1. job' = [job EXCEPT ![t] = Idle] /\ built' = built /\ UNCHANGED tokenVars /\ phase[t] = "idle"
    BY <1>5 DEF AnswerTruncated, Truncated
  <2>2. phase' = phase /\ asked' = asked /\ told' = told
    BY <2>1 DEF tokenVars
  <2> QED BY <2>1, <2>2, CounterStays, IdleInv
<1>6. CASE Answer(t)
  <2>1. job' = [job EXCEPT ![t] = Idle] /\ Return(t) /\ built' = built
    BY <1>6 DEF Answer
  <2> QED BY <2>1, Returned, IdleInv
<1>7. CASE Truncate(t) \/ CountPart(t) \/ PartCounted(t) \/ CountCut(t) \/ CutCounted(t)
  BY <1>7, TruncateInv, CountPartInv, PartCountedInv, CountCutInv, CutCountedInv
<1> QED BY <1>1, <1>2, <1>3, <1>4, <1>5, <1>6, <1>7 DEF GoOn

\* Every step keeps the invariant, and is one of the token counter or leaves it alone.
LEMMA RequestsStep == RequestsInv /\ [Next]_vars => RequestsInv' /\ [TokensNext]_tokenVars
<1> SUFFICES ASSUME RequestsInv, [Next]_vars PROVE RequestsInv' /\ [TokensNext]_tokenVars
  OBVIOUS
<1>1. ASSUME NEW t \in Threads, Begin(t) PROVE RequestsInv' /\ [TokensNext]_tokenVars
  BY <1>1, BeginInv
<1>2. ASSUME NEW k \in Cleaned, CleanCache(k), UNCHANGED requestVars
      PROVE  RequestsInv' /\ [TokensNext]_tokenVars
  <2>1. CounterInv' /\ TokensNext
    BY <1>2, CleanedKeys, CounterClean DEF RequestsInv, TokensNext
  <2>2. /\ phase' = phase /\ asked' = asked /\ told' = told
        /\ job' = job /\ built' = built
    BY <1>2 DEF CleanCache, requestVars
  <2>3. \A t \in Threads : Working(t)'
    BY <2>2, OthersWorking DEF RequestsInv
  <2> QED BY <2>1, <2>2, <2>3 DEF RequestsInv
<1>3. CASE UNCHANGED vars
  <2>1. CounterInv' /\ [TokensNext]_tokenVars
    BY <1>3, CounterStays DEF vars
  <2>2. /\ phase' = phase /\ asked' = asked /\ told' = told
        /\ job' = job /\ built' = built
    BY <1>3 DEF vars, tokenVars, requestVars
  <2>3. \A t \in Threads : Working(t)'
    BY <2>2, OthersWorking DEF RequestsInv
  <2> QED BY <2>1, <2>2, <2>3 DEF RequestsInv
<1> QED BY <1>1, <1>2, <1>3, GoOnInv DEF Next

\* At first nobody works.
LEMMA RequestsInit == Init => RequestsInv
<1> SUFFICES ASSUME Init PROVE RequestsInv
  OBVIOUS
<1>1. CounterInv
  BY CounterInit DEF Init
<1>2. \A t \in Threads : job[t] = Idle /\ phase[t] = "idle"
  BY DEF Init, TokensInit
<1>3. \A t \in Threads : Working(t)
  <2> SUFFICES ASSUME NEW t \in Threads PROVE Working(t)
    OBVIOUS
  <2>1. job[t] = Idle /\ job[t].tool = "none" /\ phase[t] = "idle"
    BY <1>2 DEF Idle
  <2> QED BY <2>1 DEF Working
<1> QED BY <1>1, <1>2, <1>3 DEF Init, RequestsInv, AnyJob, Jobs

\* The invariant holds at every moment.
LEMMA RequestsAlways == Spec => []RequestsInv
BY RequestsInit, RequestsStep, PTL DEF Spec
-----------------------------------------------------------------------------
\* Requests use the token counter as its specification allows and change nothing of it
\* behind its back: those that truncate, too, which ask for the count of every part and of
\* what is left of it.
THEOREM RequestsCount == Spec => TokensSpec
<1>1. Init => TokensInit
  BY DEF Init
<1> QED BY <1>1, RequestsAlways, RequestsStep, PTL DEF Spec, TokensSpec

\* Beside any other requests, a question that shares its key with no other is told its
\* own count.
THEOREM RequestsAccurate == Spec => []Accurate
<1>1. RequestsInv => Accurate
  BY DEF RequestsInv, CounterInv
<1> QED BY <1>1, RequestsAlways, PTL

\* The types of the requests.
THEOREM RequestsTypeCorrect == Spec => []TypeOK
<1>1. RequestsInv => TypeOK
  <2> SUFFICES ASSUME RequestsInv PROVE TypeOK
    OBVIOUS
  <2>1. ASSUME NEW t \in Threads, job[t].tool = "query" PROVE asked[t].kind = "results"
    <3>1. \A data : ResultsOf(data).kind = "results"
      BY DEF ResultsOf
    <3>2. Working(t)
      BY DEF RequestsInv
    <3>3. PICK data : asked[t] = ResultsOf(data)
      BY <2>1, <3>2 DEF Working
    <3> QED BY <3>1, <3>3
  <2>2. ASSUME NEW level, Sound(level) PROVE LevelOK(level)
    <3>1. /\ level \in LevelSet
          /\ DOMAIN level.kept \subseteq DOMAIN PartsOf(level.of)
          /\ DOMAIN level.skipped \subseteq DOMAIN PartsOf(level.of)
          /\ level.cut \subseteq DOMAIN PartsOf(level.of)
      BY <2>2 DEF Sound, Fitting
    <3>2. /\ level.of \in Parts /\ level.target \in Nat
          /\ \A i \in DOMAIN level.kept : level.kept[i] \in Nat
          /\ \A i \in DOMAIN level.skipped : level.skipped[i] \in Nat
      BY <2>2, LevelCounts DEF Sound
    <3>3. DOMAIN level = {"of", "target", "kept", "skipped", "cut", "chars"} /\ level.chars \subseteq Nat
      BY <3>1 DEF LevelSet
    <3> QED BY <3>1, <3>2, <3>3 DEF LevelOK
  <2>3. ASSUME NEW t \in Threads, Optimizing(t)
        PROVE  job[t].limit \in Limits /\ \A i \in DOMAIN job[t].levels : LevelOK(job[t].levels[i])
    <3>1. job[t] \in Optimizers
      BY <2>3, JobKinds DEF Optimizing, RequestsInv
    <3>2. CASE job[t].levels = <<>>
      <4>1. DOMAIN <<>> = {}
        OBVIOUS
      <4> QED BY <3>1, <3>2, <4>1 DEF Optimizers
    <3>3. CASE job[t].levels # <<>>
      <4>1. Truncating(t)
        BY <2>3, <3>3 DEF Truncating
      <4>2. /\ job[t].levels \in Seq(LevelSet)
            /\ \A k \in 1..Len(job[t].levels) : Sound(job[t].levels[k])
        BY <4>1, TruncatingIs
      <4>3. DOMAIN job[t].levels = 1..Len(job[t].levels)
        BY <4>2
      <4> QED BY <2>2, <3>1, <4>2, <4>3 DEF Optimizers
    <3> QED BY <3>2, <3>3
  <2>4. ASSUME NEW t \in Threads, Truncating(t)
        PROVE  /\ job[t].part \subseteq DOMAIN PartsOf(Deepest(job[t].levels).of)
               /\ job[t].back \in 0..(Len(job[t].levels) - 1)
    <3>1. /\ Optimized(t) /\ job[t].levels # <<>> /\ Sound(Deepest(job[t].levels))
          /\ job[t].back \in 0..(Len(job[t].levels) - 1)
      BY <2>4, TruncatingIs
    <3>2. job[t].part = {} \/ \E i \in Open(Deepest(job[t].levels)) : job[t].part = {i}
      BY <3>1 DEF Optimized
    <3> QED BY <3>1, <3>2, OpenRight
  <2>5. ASSUME NEW t \in Threads, Optimizing(t), ~ Truncating(t)
        PROVE  asked[t] \in Values /\ phase[t] # "idle"
    BY <2>5 DEF Optimizing, Truncating, RequestsInv, Working, Optimized
  <2>6. \A t \in Threads : ~ Optimizing(t) => job[t] \in Jobs
    BY JobKinds DEF Optimizing, RequestsInv
  <2>7. TokensTypeOK /\ built \subseteq NavIndexes /\ DOMAIN job = Threads
    BY DEF RequestsInv, CounterInv
  <2>8. \A t \in Threads :
          /\ job[t] = Idle => phase[t] = "idle"
          /\ job[t].tool \in {"query", "navigation", "check"} => phase[t] # "idle"
          /\ job[t].tool = "navigation" => asked[t].index \in built
          /\ job[t].tool = "check" => asked[t].kind # "navigation"
          /\ job[t].tool = "batch" => Len(job[t].counts) <= Len(job[t].items)
    BY DEF RequestsInv, Working
  <2> HIDE DEF RequestsInv
  <2> QED BY <2>1, <2>3, <2>4, <2>5, <2>6, <2>7, <2>8, Zenon DEF TypeOK
<1> QED BY <1>1, RequestsAlways, PTL
-----------------------------------------------------------------------------
(***************************************************************************)
(* What is answered.                                                       *)
(***************************************************************************)
\* A division rounded up: as many parts as hold n, and no more.
LEMMA RoundedUp ==
  ASSUME NEW n \in Nat, NEW limit \in Nat \ {0}, n > limit, NEW c, c = (n + limit - 1) \div limit
  PROVE  c \in Nat /\ c > 1 /\ n <= c * limit /\ n > (c - 1) * limit
<1>1. c \in Nat /\ limit * c <= n + limit - 1 /\ n + limit - 1 < limit * (c + 1)
  OBVIOUS
<1>2. limit * (c + 1) = limit * c + limit /\ c * limit = limit * c /\ (c - 1) * limit = limit * c - limit
  BY <1>1
<1>3. limit * c \in Nat
  BY <1>1
<1>4. c > 1
  <2>1. CASE c = 0
    BY <1>1, <2>1
  <2>2. CASE c = 1
    BY <1>1, <2>2
  <2> QED BY <1>1, <2>1, <2>2
<1> QED BY <1>1, <1>2, <1>3, <1>4

\* The functions that hold a count against a limit agree for every count and every
\* limit (EstimateChunkingNeeded, ValidateTokenLimit and the two strategies).
THEOREM LimitFunctionsAgree ==
  ASSUME NEW n \in Nat, NEW limit \in Nat \ {0}
  PROVE  LET chunks == ChunksNeeded(n, limit)
         IN  /\ ValidateTokenLimit(n, limit) <=> chunks = 1
             /\ n <= chunks * limit
             /\ chunks > 1 => n > (chunks - 1) * limit
             /\ chunks > 1 => /\ GetCompressionStrategy(n, limit) = "brotli-aggressive"
                              /\ SuggestCompressionMethod(n, limit) = "brotli-11-truncated"
<1>1. CASE n <= limit
  BY <1>1 DEF ChunksNeeded, ValidateTokenLimit
<1>2. CASE n > limit
  <2> DEFINE c == (n + limit - 1) \div limit
  <2>1. ChunksNeeded(n, limit) = c /\ ~ ValidateTokenLimit(n, limit)
    BY <1>2 DEF ChunksNeeded, ValidateTokenLimit
  <2>2. c \in Nat /\ c > 1 /\ n <= c * limit /\ n > (c - 1) * limit
    BY <1>2, RoundedUp
  <2> HIDE DEF c
  <2>3. GetCompressionStrategy(n, limit) = "brotli-aggressive"
    BY <1>2 DEF GetCompressionStrategy
  <2>4. SuggestCompressionMethod(n, limit) = "brotli-11-truncated"
    BY <1>2 DEF SuggestCompressionMethod
  <2> QED BY <2>1, <2>2, <2>3, <2>4
<1> QED BY <1>1, <1>2

\* What a thread is told of a value that it holds against a model's limit.
THEOREM LimitsAlwaysAgree == Spec => []LimitsAgree
<1>1. RequestsInv => LimitsAgree
  <2> SUFFICES ASSUME RequestsInv, NEW t \in Threads, Answering(t, "check") \/ Answering(t, "navigation")
               PROVE  LET n      == told[t]
                          limit  == job[t].limit
                          chunks == ChunksNeeded(n, limit)
                      IN  /\ ValidateTokenLimit(n, limit) <=> chunks = 1
                          /\ n <= chunks * limit
                          /\ chunks > 1 => n > (chunks - 1) * limit
                          /\ chunks > 1 => /\ GetCompressionStrategy(n, limit) = "brotli-aggressive"
                                           /\ SuggestCompressionMethod(n, limit) = "brotli-11-truncated"
    BY DEF LimitsAgree
  <2>1. told[t] \in Nat /\ job[t].tool \in {"check", "navigation"} /\ job[t] \in AnyJob
    BY DEF Answering, RequestsInv, CounterInv, TokensTypeOK
  <2>2. job[t].limit \in Nat \ {0}
    BY <2>1, JobKinds, LimitsPositive
  <2> QED BY <2>1, <2>2, LimitFunctionsAgree
<1> QED BY <1>1, RequestsAlways, PTL

\* A row of the sheet and what is taken of it.
LEMMA RowTaken ==
  ASSUME NEW row \in Seq(Cells)
  PROVE  /\ HasNonEmptyData(ProcessedRow(row)) <=>
              \E j \in DOMAIN row : j <= MaxCols /\ row[j] # "empty"
         /\ \A j \in DOMAIN ProcessedRow(row) :
              /\ j \in DOMAIN row
              /\ ProcessedRow(row)[j] = "nil" <=> row[j] = "empty"
              /\ ProcessedRow(row)[j] = "inf" <=> row[j] = "inf"
<1>1. \A cell \in Cells : /\ Processed(cell) = "nil" <=> cell = "empty"
                          /\ Processed(cell) = "inf" <=> cell = "inf"
  BY DEF Cells, Processed
<1>2. \A j \in DOMAIN row : row[j] \in Cells
  OBVIOUS
<1>3. /\ DOMAIN ProcessedRow(row) = {j \in DOMAIN row : j <= MaxCols}
      /\ \A j \in DOMAIN ProcessedRow(row) : ProcessedRow(row)[j] = Processed(row[j])
  BY RowsColsPos DEF ProcessedRow
<1> QED BY <1>1, <1>2, <1>3 DEF HasNonEmptyData

\* A query that finds results has found the rows of the sheet it read.
LEMMA QueryFinds ==
  ASSUME RequestsInv, NEW t \in Threads, job[t].tool = "query", asked[t].data # <<>>
  PROVE  /\ asked[t].data = <<ExtractRealSheetData(job[t].workbook)>>
         /\ job[t].workbook \in Seq(Seq(Cells))
         /\ asked[t].kind = "results"
<1>1. PICK query \in QueryKinds, speed \in BOOLEAN :
         asked[t] = ResultsOf(ExecuteQuery(query, speed, job[t].workbook # None, job[t].workbook))
  BY DEF RequestsInv, Working
<1>2. /\ asked[t].data = ExecuteQuery(query, speed, job[t].workbook # None, job[t].workbook)
      /\ asked[t].kind = "results"
  BY <1>1 DEF ResultsOf
<1>3. job[t].workbook # None /\ asked[t].data = <<ExtractRealSheetData(job[t].workbook)>>
  BY <1>2 DEF ExecuteQuery
<1>4. job[t].workbook \in Workbooks
  BY <1>3, JobKinds DEF RequestsInv
<1> QED BY <1>2, <1>3, <1>4, WorkbooksRows

\* A query by name answers with the rows of the sheet as it was when it was executed,
\* for any sheet and any limits of rows and columns.
THEOREM RowsAlwaysAnswered == Spec => []RowsAnswered
<1>1. RequestsInv => RowsAnswered
  <2> SUFFICES ASSUME RequestsInv, NEW t \in Threads, job[t].tool = "query", asked[t].data # <<>>
               PROVE  LET rows  == asked[t].data[1]
                          sheet == job[t].workbook
                          Full(row) == \E j \in DOMAIN row : j <= MaxCols /\ row[j] # "empty"
                      IN  /\ \A i, j \in DOMAIN rows : i < j => rows[i].row < rows[j].row
                          /\ {rows[i].row : i \in DOMAIN rows}
                               = {i \in DOMAIN sheet : i <= MaxRows /\ Full(sheet[i])}
                          /\ \A i \in DOMAIN rows : \A j \in DOMAIN rows[i].cells :
                               rows[i].cells[j] = "nil" <=> sheet[rows[i].row][j] = "empty"
                          /\ phase[t] = "told" /\ told[t] = None =>
                               \E i \in DOMAIN sheet : \E j \in DOMAIN sheet[i] : sheet[i][j] = "inf"
    BY DEF RowsAnswered
  <2> DEFINE rows  == asked[t].data[1]
             sheet == job[t].workbook
             Full(row) == \E j \in DOMAIN row : j <= MaxCols /\ row[j] # "empty"
             L == LastRow(Len(sheet))
  <2>1. /\ asked[t].data = <<ExtractRealSheetData(sheet)>> /\ rows = ExtractRealSheetData(sheet)
        /\ sheet \in Seq(Seq(Cells)) /\ asked[t].kind = "results"
    BY QueryFinds
  <2>2. FoundRight(rows, sheet, L)
    BY <2>1, RowsExtracted
  <2>3. 1..L = {i \in DOMAIN sheet : i <= MaxRows} /\ \A i \in DOMAIN sheet : sheet[i] \in Seq(Cells)
    BY <2>1, RowsColsPos DEF LastRow
  <2> HIDE DEF rows, sheet, L
  <2>4. \A i \in 1..L : HasNonEmptyData(ProcessedRow(sheet[i])) <=> Full(sheet[i])
    BY <2>3, RowTaken
  <2>5. \A i, j \in DOMAIN rows : i < j => rows[i].row < rows[j].row
    BY <2>2 DEF FoundRight
  <2>6. {rows[i].row : i \in DOMAIN rows} = {i \in DOMAIN sheet : i <= MaxRows /\ Full(sheet[i])}
    <3>1. {rows[i].row : i \in DOMAIN rows} = {i \in 1..L : HasNonEmptyData(ProcessedRow(sheet[i]))}
      BY <2>2 DEF FoundRight
    <3> QED BY <2>3, <2>4, <3>1
  <2>7. \A i \in DOMAIN rows : /\ rows[i].row \in 1..L
                               /\ rows[i].cells = ProcessedRow(sheet[rows[i].row])
    <3>1. \A i \in DOMAIN rows : rows[i] \in {[row |-> k, cells |-> ProcessedRow(sheet[k])] : k \in 1..L}
      BY <2>2 DEF FoundRight
    <3> QED BY <3>1
  <2>8. ASSUME NEW i \in DOMAIN rows, NEW j \in DOMAIN rows[i].cells
        PROVE  /\ j \in DOMAIN sheet[rows[i].row]
               /\ rows[i].cells[j] = "nil" <=> sheet[rows[i].row][j] = "empty"
               /\ rows[i].cells[j] = "inf" <=> sheet[rows[i].row][j] = "inf"
    <3>1. sheet[rows[i].row] \in Seq(Cells)
      BY <2>3, <2>7
    <3> QED BY <2>7, <3>1, RowTaken
  <2>9. phase[t] = "told" /\ told[t] = None =>
          \E i \in DOMAIN sheet : \E j \in DOMAIN sheet[i] : sheet[i][j] = "inf"
    <3> SUFFICES ASSUME phase[t] = "told", told[t] = None
                 PROVE  \E i \in DOMAIN sheet : \E j \in DOMAIN sheet[i] : sheet[i][j] = "inf"
      OBVIOUS
    <3>1. Weight[asked[t]] = None /\ asked[t] \in Questions
      BY DEF RequestsInv, CounterInv, Working, TokensTypeOK
    <3>2. ~ Marshals(asked[t].data)
      BY <2>1, <3>1, ResultsCounted
    <3>3. PICK k \in DOMAIN asked[t].data : \E i \in DOMAIN asked[t].data[k] :
             \E j \in DOMAIN asked[t].data[k][i].cells : asked[t].data[k][i].cells[j] = "inf"
      BY <3>2 DEF Marshals
    <3>4. asked[t].data[k] = rows
      BY <2>1, <3>3 DEF rows
    <3>5. PICK i \in DOMAIN rows : \E j \in DOMAIN rows[i].cells : rows[i].cells[j] = "inf"
      BY <3>3, <3>4
    <3>6. rows[i].row \in DOMAIN sheet
      BY <2>3, <2>7
    <3> QED BY <2>8, <3>5, <3>6
  <2> QED BY <2>5, <2>6, <2>8, <2>9 DEF rows, sheet
<1> QED BY <1>1, RequestsAlways, PTL
-----------------------------------------------------------------------------
(***************************************************************************)
(* What truncation leaves.                                                 *)
(***************************************************************************)
\* The label of a response stands for its codec.
LEMMA LabelDecodes ==
  \A n, limit : Codec(ResponseMethod(n, limit).label) = ResponseMethod(n, limit).codec
BY DEF Codec, ResponseMethod

\* A level is done: it has cut a part, or has none left to count.
Done(level) == level.cut # {} \/ Open(level) = {}

\* When a response is ready every level is done, and only the deepest has cut nothing.
LEMMA TruncatedIs ==
  ASSUME RequestsInv, NEW t \in Threads, Truncated(t)
  PROVE  LET levels == job[t].levels
             n      == Len(levels)
         IN  /\ Chain(levels, Target(job[t].limit)) /\ levels # <<>>
             /\ n \in Nat \ {0} /\ DOMAIN levels = 1..n /\ levels[n] = Deepest(levels)
             /\ Target(job[t].limit) \in Nat
             /\ \A k \in 1..n : Sound(levels[k]) /\ Done(levels[k])
             /\ \A k \in 1..(n - 1) : Linked(levels[k], levels[k + 1])
             /\ levels[n].cut = {}
<1> DEFINE levels == job[t].levels
           n      == Len(levels)
<1>1. Truncating(t) /\ Open(Deepest(levels)) = {}
  BY DEF Truncated, Returning
<1>2. /\ Chain(levels, Target(job[t].limit)) /\ levels \in Seq(LevelSet) /\ n \in Nat \ {0}
      /\ levels # <<>> /\ Deepest(levels) = levels[n] /\ Target(job[t].limit) \in Nat
      /\ \A k \in 1..n : Sound(levels[k])
  BY <1>1, TruncatingIs
<1>3. DOMAIN levels = 1..n
  BY <1>2
<1>4. levels[n].cut = {} /\ \A k \in 1..(n - 1) : Linked(levels[k], levels[k + 1])
  BY <1>2 DEF Chain
<1>5. \A k \in 1..(n - 1) : levels[k].cut # {}
  BY <1>4 DEF Linked
<1> HIDE DEF levels, n
<1>6. \A k \in 1..n : k = n \/ k \in 1..(n - 1)
  BY <1>2
<1>7. \A k \in 1..n : Done(levels[k])
  BY <1>1, <1>2, <1>5, <1>6 DEF Done
<1> QED BY <1>2, <1>3, <1>4, <1>7 DEF levels, n

\* The marks are not fields.
LEMMA IncludedRight ==
  ASSUME NEW v \in Parts, v.kind = "map", NEW S \in SUBSET DOMAIN PartsOf(v)
  PROVE  Cardinality(S \cup Marks) - 2 = Cardinality(S) /\ Cardinality(S) \in Nat
<1>1. IsFiniteSet(S) /\ Cardinality(S) \in Nat
  BY PartsRight, FS_Subset, FS_CardinalityType
<1>2. S \cap Marks = {}
  BY PartsOfParts DEF PartsOf
<1>3. "_truncated" \notin S /\ "_original_size" \notin S
  BY <1>2 DEF Marks
<1>4. /\ Cardinality(S \cup {"_truncated"}) = Cardinality(S) + 1
      /\ IsFiniteSet(S \cup {"_truncated"})
  BY <1>1, <1>3, FS_AddElement
<1> DEFINE T == S \cup {"_truncated"}
<1>5. "_original_size" \notin T
  BY <1>3
<1>6. S \cup Marks = T \cup {"_original_size"}
  BY DEF Marks
<1> HIDE DEF T
<1>7. Cardinality(S \cup Marks) = Cardinality(T) + 1
  BY <1>4, <1>5, <1>6, FS_AddElement DEF T
<1>8. Cardinality(S \cup Marks) - 2 = Cardinality(S)
  BY <1>1, <1>4, <1>7 DEF T
<1> QED BY <1>1, <1>8

\* A map that is done says how many fields it had and has.
LEMMA MapAnnounced ==
  ASSUME NEW level, Sound(level), level.of.kind = "map"
  PROVE  OriginalSize(level) - IncludedFields(level)
           = Cardinality(DOMAIN PartsOf(level.of) \ InResult(level))
<1> DEFINE D == DOMAIN PartsOf(level.of)
           S == InResult(level)
<1>1. level.of \in Parts /\ IsFiniteSet(D) /\ S \in SUBSET D
  BY LevelCounts, PartsRight DEF Sound, Fitting, InResult
<1>2. IncludedFields(level) = Cardinality(S) /\ Cardinality(S) \in Nat
  BY <1>1, IncludedRight DEF IncludedFields
<1>3. OriginalSize(level) = Cardinality(D)
  BY DEF OriginalSize
<1> HIDE DEF D, S
<1>4. Cardinality(D \ S) = Cardinality(D) - Cardinality(D \cap S) /\ D \cap S = S
  BY <1>1, FS_Difference
<1> QED BY <1>2, <1>3, <1>4 DEF D, S

\* A list or a text that has neither cut a part nor has one left has kept them all.
LEMMA NothingLeft ==
  ASSUME NEW level, Sound(level), Open(level) = {}, level.cut = {}, level.chars = {},
         level.of.kind # "map"
  PROVE  DOMAIN PartsOf(level.of) = DOMAIN level.kept
<1> DEFINE rest == DOMAIN PartsOf(level.of) \ DOMAIN level.kept
<1>1. /\ level.of \in Parts /\ DOMAIN level.kept \subseteq DOMAIN PartsOf(level.of)
      /\ {i \in rest : \A k \in rest : i <= k} = {}
  BY LevelCounts DEF Open, Sound, Fitting
<1>2. rest \in SUBSET Nat
  BY <1>1, PartsRight
<1> HIDE DEF rest
<1>3. rest = {}
  BY <1>1, <1>2, LeastNatural
<1> QED BY <1>1, <1>3 DEF rest

\* A list that is done says how many of its items are missing.
LEMMA ListAnnounced ==
  ASSUME NEW level, Sound(level), Done(level), level.of.kind = "list"
  PROVE  LET missing == DOMAIN PartsOf(level.of) \ InResult(level)
         IN  Summary(level) = IF missing = {} THEN {}
                              ELSE {[missing |-> Cardinality(missing), total |-> Len(level.of.items)]}
<1> DEFINE n       == Len(level.of.items)
           missing == DOMAIN PartsOf(level.of) \ InResult(level)
<1>1. n \in Nat /\ DOMAIN PartsOf(level.of) = 1..n
  BY LevelCounts, PartsRight DEF Sound
<1>2. PICK k \in 0..n : DOMAIN level.kept = 1..k /\ level.cut \subseteq {k + 1}
  BY DEF Sound, Shaped
<1>3. Summary(level) = {[missing |-> LeftOut(n, i), total |-> n] : i \in {j \in level.cut : j < n}}
  BY DEF Summary
<1>4. level.cut \subseteq 1..n
  BY <1>1 DEF Sound, Fitting
<1>5. missing = (1..n) \ ((1..k) \cup level.cut)
  BY <1>1, <1>2 DEF InResult
<1>6. level.cut = {} => 1..n = 1..k
  BY <1>1, <1>2, NothingLeft DEF Done, Sound, Shaped
<1> DEFINE goal == IF missing = {} THEN {} ELSE {[missing |-> Cardinality(missing), total |-> n]}
<1> HIDE DEF n, missing
<1>7. ASSUME level.cut = {} PROVE Summary(level) = goal
  <2>1. missing = {}
    BY <1>5, <1>6, <1>7
  <2>2. Summary(level) = {}
    BY <1>3, <1>7
  <2> QED BY <2>1, <2>2
<1>8. ASSUME level.cut # {} PROVE Summary(level) = goal
  <2>1. level.cut = {k + 1} /\ k + 1 \in 1..n
    BY <1>2, <1>4, <1>8
  <2>2. missing = (k + 2)..n
    BY <1>1, <1>2, <1>5, <2>1
  <2>3. CASE k + 1 = n
    <3>1. missing = {}
      BY <1>1, <1>2, <2>2, <2>3
    <3>2. {j \in level.cut : j < n} = {}
      BY <1>1, <1>2, <2>1, <2>3
    <3>3. Summary(level) = {}
      BY <1>3, <3>2
    <3> QED BY <3>1, <3>3
  <2>4. CASE k + 1 # n
    <3>1. k + 2 \in Int /\ n \in Int /\ k + 2 <= n /\ n - (k + 2) + 1 = n - (k + 1)
      BY <1>1, <1>2, <2>1, <2>4
    <3>2. Cardinality(missing) = n - (k + 1)
      BY <2>2, <3>1, FS_Interval
    <3>3. n \in missing
      BY <2>2, <3>1
    <3>4. {j \in level.cut : j < n} = {k + 1}
      BY <1>1, <1>2, <2>1, <2>4
    <3>5. Summary(level) = {[missing |-> n - (k + 1), total |-> n]}
      BY <1>3, <3>4 DEF LeftOut
    <3> QED BY <3>2, <3>3, <3>5
  <2> QED BY <2>3, <2>4
<1>9. Summary(level) = goal
  BY <1>7, <1>8
<1> QED BY <1>9 DEF n, missing

\* A level that is done says what it left out.
LEMMA DoneAnnounced ==
  ASSUME NEW level, Sound(level), Done(level)
  PROVE  Announced(level)
<1>0. level.of \in Parts /\ level.of.kind \in {"text", "list", "map", "other"}
  BY LevelCounts, PartsRight DEF Sound
<1>1. CASE level.of.kind = "map"
  BY <1>1, MapAnnounced DEF Announced
<1>2. CASE level.of.kind = "list"
  BY <1>2, ListAnnounced DEF Announced
<1>3. CASE level.of.kind = "text"
  <2>1. /\ \A c \in level.chars : level.chars = {c} /\ c <= level.of.chars
        /\ DOMAIN level.kept = {} /\ level.cut = {}
    BY <1>3 DEF Sound, Shaped
  <2>2. DOMAIN PartsOf(level.of) = {1}
    BY <1>0, <1>3, PartsRight
  <2>3. level.chars # {}
    BY <1>3, <2>1, <2>2, NothingLeft DEF Done
  <2>4. \E chars \in level.chars : level.chars = {chars} /\ chars <= level.of.chars
    BY <2>1, <2>3
  <2> QED BY <1>3, <2>4 DEF Announced
<1>4. CASE level.of.kind = "other"
  BY <1>4 DEF Announced
<1> QED BY <1>0, <1>1, <1>2, <1>3, <1>4

\* For any values, counts and limits: whatever truncation left out of a response, at any
\* depth, the response says so with the right numbers.
THEOREM LossAlwaysAnnounced == Spec => []LossAnnounced
<1>1. RequestsInv => LossAnnounced
  <2> SUFFICES ASSUME RequestsInv, NEW t \in Threads, Truncated(t)
               PROVE  LET levels == job[t].levels IN
                        \A i \in DOMAIN levels :
                          /\ Announced(levels[i])
                          /\ IF i = Len(levels) THEN levels[i].cut = {}
                             ELSE \E p \in DOMAIN PartsOf(levels[i].of) :
                                    /\ levels[i].cut = {p}
                                    /\ levels[i + 1].of = PartsOf(levels[i].of)[p]
    <3>1. ASSUME NEW u \in Threads PROVE Codec(Method(u).label) = Method(u).codec
      <4>1. Method(u) = ResponseMethod(told[u], job[u].limit)
        BY DEF Method
      <4> QED BY <4>1, LabelDecodes
    <3> QED BY <3>1 DEF LossAnnounced
  <2> DEFINE levels == job[t].levels
             n      == Len(levels)
  <2>1. /\ n \in Nat \ {0} /\ DOMAIN levels = 1..n
        /\ \A k \in 1..n : Sound(levels[k]) /\ Done(levels[k])
        /\ \A k \in 1..(n - 1) : Linked(levels[k], levels[k + 1])
        /\ levels[n].cut = {}
    BY TruncatedIs
  <2> HIDE DEF levels, n
  <2>2. \A i \in 1..n : i # n => i \in 1..(n - 1)
    BY <2>1
  <2>3. \A i \in DOMAIN levels : Announced(levels[i])
    BY <2>1, DoneAnnounced
  <2> QED BY <2>1, <2>2, <2>3 DEF Linked, levels, n
<1> QED BY <1>1, RequestsAlways, PTL

\* What was told of a part that is kept is what its tokens are.
LEMMA TokensTold ==
  ASSUME NEW level, Sound(level), NEW S \in SUBSET DOMAIN level.kept
  PROVE  /\ TokensOfParts(level, S) = SumFunctionOnSet(level.kept, S)
         /\ TokensOfParts(level, DOMAIN level.kept) = Used(level)
<1>1. \A i \in DOMAIN level.kept : TokensOf(level, i) = level.kept[i]
  BY DEF Sound, Counted, OwnCount, TokensOf
<1>2. ASSUME NEW W \in SUBSET DOMAIN level.kept
      PROVE  TokensOfParts(level, W) = SumFunctionOnSet(level.kept, W)
  <2> DEFINE f == [i \in W |-> TokensOf(level, i)]
             g == level.kept
  <2>1. IsFiniteSet(W)
    BY LevelCounts, FS_Subset DEF Sound
  <2>2. \A i \in W : f[i] = g[i]
    BY <1>1
  <2> HIDE DEF f, g
  <2>3. SumFunctionOnSet(f, W) = SumFunctionOnSet(g, W)
    BY <2>1, <2>2, SumEqual
  <2> QED BY <2>3 DEF TokensOfParts, f, g
<1>3. TokensOfParts(level, DOMAIN level.kept) = SumFunctionOnSet(level.kept, DOMAIN level.kept)
  BY <1>2
<1> QED BY <1>2, <1>3 DEF Used

\* However deep a value is, what is kept of it at all levels fits the target, by the
\* counts that truncation was told: those of the parts themselves, but where their keys
\* are other questions' too.
THEOREM TargetAlwaysKept == Spec => []TargetKept
<1>1. RequestsInv => TargetKept
  <2> SUFFICES ASSUME RequestsInv, NEW t \in Threads, Truncated(t)
               PROVE  TokensKept(job[t].levels) <= Target(job[t].limit)
    BY DEF TargetKept
  <2> DEFINE levels == job[t].levels
             n      == Len(levels)
             target == Target(job[t].limit)
             A      == 1..(n - 1)
             f      == [k \in 1..n |-> TokensOfParts(levels[k], DOMAIN levels[k].kept)]
             g      == [k \in A |-> Used(levels[k])]
  <2>1. /\ n \in Nat \ {0} /\ DOMAIN levels = 1..n /\ levels[n] = Deepest(levels)
        /\ Chain(levels, target) /\ target \in Nat
        /\ \A k \in 1..n : Sound(levels[k])
    BY TruncatedIs
  <2> HIDE DEF levels, n, target
  <2>2. A \cup {n} = 1..n /\ n \notin A /\ IsFiniteSet(A) /\ n \in 1..n
    BY <2>1, FS_Interval
  <2>3. \A k \in 1..n : f[k] = Used(levels[k]) /\ f[k] \in Nat
    <3>1. \A k \in 1..n : TokensOfParts(levels[k], DOMAIN levels[k].kept) = Used(levels[k])
      BY <2>1, TokensTold
    <3> QED BY <2>1, <3>1 DEF Sound, Fitting
  <2>4. \A k \in A : f[k] = g[k]
    BY <2>2, <2>3
  <2>5. TokensKept(levels) = SumFunctionOnSet(f, A \cup {n}) /\ Spent(levels) = SumFunctionOnSet(g, A)
    BY <2>1, <2>2 DEF TokensKept, Spent, n
  <2>6. Spent(levels) + levels[n].target = target
    BY <2>1 DEF Chain
  <2>7. Used(levels[n]) <= levels[n].target /\ levels[n].target \in Nat
    BY <2>1, <2>2, LevelCounts DEF Sound, Fitting
  <2>8. \A k \in A \cup {n} : f[k] \in Nat
    BY <2>2, <2>3
  <2>9. f[n] = Used(levels[n])
    BY <2>2, <2>3
  <2> HIDE DEF f, g, A
  <2>10. SumFunctionOnSet(f, A \cup {n}) = f[n] + SumFunctionOnSet(f, A)
    BY <2>2, <2>8, SumAdd
  <2>11. SumFunctionOnSet(f, A) = SumFunctionOnSet(g, A) /\ SumFunctionOnSet(f, A) \in Nat
    <3>1. \A k \in A : f[k] \in Nat
      BY <2>8
    <3> QED BY <2>2, <2>4, <3>1, SumEqual, SumNat
  <2>12. TokensKept(levels) = Used(levels[n]) + Spent(levels) /\ Spent(levels) \in Nat /\ Used(levels[n]) \in Nat
    BY <2>2, <2>5, <2>8, <2>9, <2>10, <2>11
  <2>13. TokensKept(levels) <= target
    BY <2>1, <2>6, <2>7, <2>12
  <2> QED BY <2>13 DEF levels, target
<1> QED BY <1>1, RequestsAlways, PTL

\* A map that is done has counted all its priority fields.
LEMMA RanksDone ==
  ASSUME NEW level, Sound(level), Done(level), level.of.kind = "map"
  PROVE  Ranks(level) = {}
<1> SUFFICES ASSUME Ranks(level) # {} PROVE FALSE
  OBVIOUS
<1>1. level.cut = {} /\ level.chars = {}
  BY DEF Sound, Shaped, Preferring
<1>2. Ranks(level) \in SUBSET Nat
  BY FourFields DEF Ranks
<1>3. PICK r \in Ranks(level) : \A k \in Ranks(level) : r <= k
  BY <1>2, LeastNatural
<1>4. Priority[r] \in Open(level)
  BY <1>1, <1>3 DEF Open
<1> QED BY <1>1, <1>4 DEF Done

\* A priority field that is not in the result whole does not fit beside those before it,
\* by the counts told; so it does not by its own and theirs if no other question has
\* their keys.
THEOREM PriorityAlwaysKept == Spec => []PriorityKept
<1>1. RequestsInv => PriorityKept
  <2> DEFINE level(t) == job[t].levels[1]
             parts(t) == PartsOf(level(t).of)
  <2> SUFFICES ASSUME RequestsInv, NEW t \in Threads, Truncated(t), level(t).of.kind = "map",
                      NEW i \in DOMAIN Priority,
                      Priority[i] \in DOMAIN parts(t) \ DOMAIN level(t).kept,
                      ~ Shared(parts(t)[Priority[i]])
               PROVE  TokensOfParts(level(t), KeptBefore(level(t), i)) + Weight[parts(t)[Priority[i]]]
                        > level(t).target
    BY DEF PriorityKept
  <2> DEFINE first == level(t)
             p     == Priority[i]
  <2>1. Sound(first) /\ Done(first)
    <3>1. /\ Len(job[t].levels) \in Nat \ {0}
          /\ \A k \in 1..Len(job[t].levels) : Sound(job[t].levels[k]) /\ Done(job[t].levels[k])
      BY TruncatedIs
    <3>2. 1 \in 1..Len(job[t].levels)
      BY <3>1
    <3> QED BY <3>1, <3>2
  <2> HIDE DEF first
  <2>2. /\ first.of.kind = "map" /\ p \in DOMAIN PartsOf(first.of) \ DOMAIN first.kept
        /\ ~ Shared(PartsOf(first.of)[p])
    BY DEF first
  <2>3. Ranks(first) = {}
    BY <2>1, <2>2, RanksDone
  <2>4. p \in DOMAIN first.skipped
    BY <2>2, <2>3 DEF Ranks
  <2>5. ToldBefore(first, i) + first.skipped[p] > first.target
    BY <2>1, <2>2, <2>4 DEF Sound, Preferring
  <2>6. first.skipped[p] = Weight[PartsOf(first.of)[p]]
    BY <2>1, <2>2, <2>4 DEF Sound, Counted, OwnCount
  <2>7. KeptBefore(first, i) \in SUBSET DOMAIN first.kept
    BY DEF KeptBefore
  <2>8. TokensOfParts(first, KeptBefore(first, i)) = ToldBefore(first, i)
    BY <2>1, <2>7, TokensTold DEF ToldBefore
  <2>9. TokensOfParts(first, KeptBefore(first, i)) + Weight[PartsOf(first.of)[p]] > first.target
    BY <2>5, <2>6, <2>8
  <2> QED BY <2>9 DEF first
<1> QED BY <1>1, RequestsAlways, PTL
=============================================================================
