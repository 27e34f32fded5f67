------------------------------ MODULE Requests ------------------------------
(***************************************************************************)
(* Requests that count tokens, beside each other: query_data,              *)
(* build_navigation_map and the response optimizer, which share one token  *)
(* counter (ToolHandler.tokenCounter, handed to compression.NewManager),   *)
(* and callers in Go that hold values against a model's limits.  Each does *)
(* what it does before its count, asks for the count, and answers from     *)
(* what it is told.  The workbook may change between any two requests.     *)
(***************************************************************************)
EXTENDS Tokens, Query, Compression

CONSTANTS
  Tools,       \* of each thread: what it may be asked for
  Workbooks,   \* the contents the workbook's sheet may have
  NavIndexes,  \* the indexes built: each has the time of its building in it
  Values,      \* the values to be optimized, or held against a limit
  Batches,     \* those counted one after another
  Limits,      \* the limits they are to fit
  MaxMemo,     \* bound: no request is sent while the memo has more counts
  Cleaned      \* bound: the keys that CleanCache may delete while requests are counted

ASSUME WorkbooksRows  == Workbooks \subseteq Seq(Seq(Cells))
ASSUME BatchesValues  == Batches \subseteq Seq(Values) \ {<<>>}
ASSUME ValuesKinds    == \A v \in Values : v.kind \in {"text", "list", "map", "other"}
ASSUME LimitsNat      == Limits \subseteq Nat \ {0}
ASSUME CleanedKeys    == Cleaned \subseteq Keys

\* What is counted, beside values and their parts: the results of a query, a navigation
\* index, a text by itself (CountString), and what truncation leaves of a value, which is
\* one question however much it leaves.
ResultsOf(results) == [kind |-> "results", data |-> results]
NavigationOf(n)    == [kind |-> "navigation", index |-> n]
RawText(v)         == [kind |-> "raw", text |-> v]
CutOf(v)           == [kind |-> "cut", of |-> v]

\* A value that JSON has a form for can be truncated; its parts and what is left of it
\* have one too, and no form is empty.
ASSUME ValuesParts == \A v \in Values : Weight[v] # None => v \in Parts
ASSUME PartsCounted ==
  /\ \A v \in Parts : /\ v \in Questions /\ Weight[v] \in Nat \ {0}
                      /\ CutOf(v) \in Questions /\ Weight[CutOf(v)] \in Nat \ {0}
  /\ \A v \in Parts : v.kind = "text" => RawText(v) \in Questions /\ Weight[RawText(v)] \in Nat

\* Results with a number that JSON does not have cannot be counted.
ASSUME ResultsCounted ==
  \A q \in Questions :
    q.kind = "results" => (Weight[q] = None <=> ~ Marshals(q.data))

\* Whatever the handlers ask for has a key and a count.
ASSUME QuestionsAsked ==
  /\ \A query \in QueryKinds, speed \in BOOLEAN, w \in Workbooks \cup {None} :
       ResultsOf(ExecuteQuery(query, speed, w # None, w)) \in Questions
  /\ \A n \in NavIndexes : NavigationOf(n) \in Questions
  /\ Values \subseteq Questions
  /\ \A v \in Values : v.kind = "text" => RawText(v) \in Questions

VARIABLES
  built,  \* the navigation indexes built so far
  job     \* what each thread is doing

requestVars == <<built, job>>
vars        == <<tokenVars, requestVars>>

Idle == [tool |-> "none"]

\* The jobs but those of the response optimizer: it truncates at the levels, the last
\* one the deepest, and has asked for the count of a part of it, or after that for the
\* counts of what was left of the deepest `back` levels.
Jobs ==
  {Idle}
    \cup [tool : {"query"}, workbook : Workbooks \cup {None}]
    \cup [tool : {"navigation", "check"}, limit : {SafeBuffer[m] : m \in Models}]
    \cup [tool : {"batch"}, items : Batches, counts : Seq(Nat)]

Optimizing(t) == job[t].tool = "optimize"
Truncating(t) == Optimizing(t) /\ job[t].levels # <<>>

Deepest(levels) == levels[Len(levels)]

LevelOK(level) ==
  /\ DOMAIN level = {"of", "target", "kept", "skipped", "cut", "chars"}
  /\ level.of \in Parts /\ level.target \in Nat
  /\ DOMAIN level.kept \subseteq DOMAIN PartsOf(level.of)
  /\ DOMAIN level.skipped \subseteq DOMAIN PartsOf(level.of)
  /\ \A i \in DOMAIN level.kept : level.kept[i] \in Nat
  /\ \A i \in DOMAIN level.skipped : level.skipped[i] \in Nat
  /\ level.cut \subseteq DOMAIN PartsOf(level.of) /\ level.chars \subseteq Nat

TypeOK ==
  /\ TokensTypeOK
  /\ built \subseteq NavIndexes
  /\ DOMAIN job = Threads
  /\ \A t \in Threads :
       /\ ~ Optimizing(t) => job[t] \in Jobs
       /\ job[t] = Idle => phase[t] = "idle"
       /\ job[t].tool \in {"query", "navigation", "check"} => phase[t] # "idle"
       /\ job[t].tool = "query" => asked[t].kind = "results"
       /\ job[t].tool = "navigation" => asked[t].index \in built
       /\ job[t].tool = "check" => asked[t].kind # "navigation"
       /\ job[t].tool = "batch" => Len(job[t].counts) <= Len(job[t].items)
       /\ Optimizing(t) => /\ job[t].limit \in Limits
                           /\ \A i \in DOMAIN job[t].levels : LevelOK(job[t].levels[i])
       /\ Truncating(t) => /\ job[t].part \subseteq DOMAIN PartsOf(Deepest(job[t].levels).of)
                           /\ job[t].back \in 0..(Len(job[t].levels) - 1)
       /\ Optimizing(t) /\ ~ Truncating(t) => asked[t] \in Values /\ phase[t] # "idle"

Init ==
  /\ TokensInit
  /\ built = {}
  /\ job = [t \in Threads |-> Idle]
-----------------------------------------------------------------------------
Begins(t, work) ==
  /\ job[t] = Idle /\ work.tool \in Tools[t]
  /\ Cardinality({k \in Keys : memo[k] # None}) <= MaxMemo
  /\ job' = [job EXCEPT ![t] = work]

\* QueryData up to applyAdaptiveResponse: it opens the workbook, which somebody may have
\* saved since another request did, or have taken away.
QueryData(t, query, speed, w) ==
  /\ Begins(t, [tool |-> "query", workbook |-> w])
  /\ Load(t, ResultsOf(ExecuteQuery(query, speed, w # None, w)))
  /\ UNCHANGED built

\* BuildNavigationMap up to calculateTokenTracking: no two indexes are the same, as
\* each holds the time of its LastUpdate.
BuildNavigationMap(t, model) ==
  /\ Begins(t, [tool |-> "navigation", limit |-> GetModelLimits(model)])
  /\ \E n \in NavIndexes \ built : Load(t, NavigationOf(n)) /\ built' = built \cup {n}

\* OptimizeResponse up to its choice of a codec.
Optimize(t, v, limit) ==
  /\ Begins(t, [tool |-> "optimize", limit |-> limit, levels |-> <<>>,
                part |-> {}, back |-> 0])
  /\ Load(t, v)
  /\ UNCHANGED built

\* A value is counted, or a text, and held against the limits of a model.
Check(t, v, model) ==
  /\ Begins(t, [tool |-> "check", limit |-> GetModelLimits(model)])
  /\ \/ Load(t, v)
     \/ v.kind = "text" /\ Load(t, RawText(v))
  /\ UNCHANGED built

\* BatchCount: one value after another.
BatchCount(t, items) ==
  /\ Begins(t, [tool |-> "batch", items |-> items, counts |-> <<>>])
  /\ Load(t, items[1])
  /\ UNCHANGED built

\* Mutant: an error is taken for a count.
AnyCount(n) == TRUE

IsCount(n) == n # None

BatchCounted(t) ==
  /\ job[t].tool = "batch" /\ IsCount(told[t]) /\ Return(t)
  /\ job' = [job EXCEPT ![t].counts = Append(@, told[t])]
  /\ UNCHANGED built

BatchGoesOn(t) ==
  /\ job[t].tool = "batch" /\ Len(job[t].counts) < Len(job[t].items)
  /\ Load(t, job[t].items[Len(job[t].counts) + 1])
  /\ UNCHANGED requestVars

BatchAnswer(t) ==
  /\ job[t].tool = "batch" /\ Len(job[t].counts) = Len(job[t].items)
  /\ job' = [job EXCEPT ![t] = Idle]
  /\ UNCHANGED <<tokenVars, built>>

Answering(t, tool) == phase[t] = "told" /\ told[t] # None /\ job[t].tool = tool

\* OptimizeResponse, told its count.  A value that JSON has no form for may have been told
\* the count of another with its key; what becomes of that one is left open.
Method(t)    == ResponseMethod(told[t], job[t].limit)
Truncates(t) == /\ Answering(t, "optimize") /\ job[t].levels = <<>> /\ asked[t] \in Parts
                /\ Method(t).label = "brotli-11-truncated"

Truncate(t) ==
  /\ Truncates(t) /\ Return(t)
  /\ job' = [job EXCEPT ![t].levels = <<NewLevel(asked[t], Target(job[t].limit))>>]
  /\ UNCHANGED built

\* A text is counted by itself, a part of a list or a map as a value.
Question(level, i) == IF level.of.kind = "text" THEN RawText(level.of) ELSE PartsOf(level.of)[i]

CountPart(t) ==
  LET level == Deepest(job[t].levels) IN
    /\ Truncating(t)
    /\ \E i \in Open(level) :
         Load(t, Question(level, i)) /\ job' = [job EXCEPT ![t].part = {i}]
    /\ UNCHANGED built

\* The deepest level goes on from what its call was told of a part.
Longer(levels, i, n) ==
  SubSeq(levels, 1, Len(levels) - 1) \o Take(Deepest(levels), i, n)

PartCounted(t) ==
  /\ Truncating(t) /\ Return(t)
  /\ \E i \in job[t].part :
       job' = [job EXCEPT ![t].levels = Longer(@, i, told[t]), ![t].part = {}]
  /\ UNCHANGED built

\* Nothing is left out of the level itself; a map always gets its marks.
Whole(level) ==
  CASE level.of.kind = "text" -> level.chars = {level.of.chars}
    [] level.of.kind = "list" -> InResult(level) = DOMAIN PartsOf(level.of)
    [] level.of.kind = "map"  -> FALSE
    [] OTHER                  -> TRUE

\* What truncateData returns for level k.
LeftOf(levels, k) ==
  IF \A m \in k..Len(levels) : Whole(levels[m]) THEN levels[k].of ELSE CutOf(levels[k].of)

Returning(t) == Truncating(t) /\ job[t].part = {} /\ Open(Deepest(job[t].levels)) = {}

\* What was left of the part that was cut is counted, from the deepest level up; it stays
\* in the result as it has tokens.
CountCut(t) ==
  LET levels == job[t].levels IN
    /\ Returning(t) /\ job[t].back < Len(levels) - 1
    /\ Load(t, LeftOf(levels, Len(levels) - job[t].back))
    /\ UNCHANGED requestVars

CutCounted(t) ==
  /\ Returning(t) /\ Return(t)
  /\ job' = [job EXCEPT ![t].back = @ + 1]
  /\ UNCHANGED built

\* The truncated response is ready to be compressed.
Truncated(t) == Returning(t) /\ phase[t] = "idle" /\ job[t].back = Len(job[t].levels) - 1

AnswerTruncated(t) ==
  /\ Truncated(t)
  /\ job' = [job EXCEPT ![t] = Idle]
  /\ UNCHANGED <<tokenVars, built>>

\* The handler answers from the count it was told, or with an error; a batch only so.
Answer(t) ==
  /\ job[t].tool = "batch" => told[t] = None
  /\ ~ Truncates(t) /\ ~ Truncating(t)
  /\ Return(t)
  /\ job' = [job EXCEPT ![t] = Idle]
  /\ UNCHANGED built

Begin(t) ==
  \/ \E query \in QueryKinds, speed \in BOOLEAN, w \in Workbooks \cup {None} :
       QueryData(t, query, speed, w)
  \/ \E model \in Models \cup {None} : BuildNavigationMap(t, model)
  \/ \E model \in Models \cup {None}, v \in Values : Check(t, v, model)
  \/ \E v \in Values, limit \in Limits : Optimize(t, v, limit)
  \/ \E items \in Batches : BatchCount(t, items)

GoOn(t) ==
  \/ Store(t) /\ UNCHANGED requestVars
  \/ BatchCounted(t) \/ BatchGoesOn(t) \/ BatchAnswer(t)
  \/ Truncate(t) \/ CountPart(t) \/ PartCounted(t) \/ CountCut(t) \/ CutCounted(t)
  \/ Answer(t) \/ AnswerTruncated(t)

Next ==
  \/ \E t \in Threads : Begin(t) \/ GoOn(t)
  \/ \E k \in Cleaned : CleanCache(k) /\ UNCHANGED requestVars

Spec == Init /\ [][Next]_vars

\* A handler that runs goes on: no step of a count waits for another thread.
FairSpec == Spec /\ \A t \in Threads : WF_vars(GoOn(t))
-----------------------------------------------------------------------------
(***************************************************************************)
(* Properties, most of them of a thread's answer, once it has been told    *)
(* its count.                                                              *)
(***************************************************************************)
\* A query by name answers with the rows of the sheet as it was when the query was
\* executed: of its first max_rows_per_sheet rows those, and all those, with something
\* in their first cells, each once and in their order, every cell in its column
\* (extractRealSheetData); a query that is told an error had a number in its rows that
\* JSON does not have.
RowsAnswered ==
  \A t \in Threads : job[t].tool = "query" /\ asked[t].data # <<>> =>
    LET rows  == asked[t].data[1]
        sheet == job[t].workbook
        Full(row) == \E j \in DOMAIN row : j <= MaxCols /\ row[j] # "empty"
    IN  /\ \A i, j \in DOMAIN rows : i < j => rows[i].row < rows[j].row
        /\ {rows[i].row : i \in DOMAIN rows}
             = {i \in DOMAIN sheet : i <= MaxRows /\ Full(sheet[i])}
        /\ \A i \in DOMAIN rows : \A j \in DOMAIN rows[i].cells :
             rows[i].cells[j] = "nil" <=> sheet[rows[i].row][j] = "empty"
        /\ phase[t] = "told" /\ told[t] = None =>
             \E i \in DOMAIN sheet : \E j \in DOMAIN sheet[i] : sheet[i][j] = "inf"

\* The functions that hold a count against a model's limit agree: a value is refused
\* exactly if it needs more than one chunk, its chunks are as many as hold it and no
\* more, and for whatever is refused the counter advises the strongest compression and
\* the compression manager the one that truncates.
LimitsAgree ==
  \A t \in Threads : Answering(t, "check") \/ Answering(t, "navigation") =>
    LET n      == told[t]
        limit  == job[t].limit
        chunks == ChunksNeeded(n, limit)
    IN  /\ ValidateTokenLimit(n, limit) <=> chunks = 1
        /\ n <= chunks * limit
        /\ chunks > 1 => n > (chunks - 1) * limit
        /\ chunks > 1 => /\ GetCompressionStrategy(n, limit) = "brotli-aggressive"
                         /\ SuggestCompressionMethod(n, limit) = "brotli-11-truncated"

\* A level says what truncation took from its value: a map by its numbers of fields, a
\* list by how many items there are and how many are missing, if any are; of a text there
\* is not more than it has.
Announced(level) ==
  LET v       == level.of
      missing == DOMAIN PartsOf(v) \ InResult(level)
  IN  CASE v.kind = "map"  -> OriginalSize(level) - IncludedFields(level) = Cardinality(missing)
        [] v.kind = "list" ->
             Summary(level) = IF missing = {} THEN {}
                              ELSE {[missing |-> Cardinality(missing), total |-> Len(v.items)]}
        [] v.kind = "text" -> \E chars \in level.chars : level.chars = {chars} /\ chars <= v.chars
        [] OTHER           -> TRUE

\* A receiver that decodes by the label gets what was sent (Decompress), and whatever
\* truncation left out of it, at any depth, it says so, with the right numbers: what is
\* under a part that was cut is what was made of that part (truncateMap, truncateSlice,
\* truncateString).
LossAnnounced ==
  \A t \in Threads :
    /\ Answering(t, "optimize") => Codec(Method(t).label) = Method(t).codec
    /\ Truncated(t) =>
         LET levels == job[t].levels IN
           \A i \in DOMAIN levels :
             /\ Announced(levels[i])
             /\ IF i = Len(levels) THEN levels[i].cut = {}
                ELSE \E p \in DOMAIN PartsOf(levels[i].of) :
                       levels[i].cut = {p} /\ levels[i + 1].of = PartsOf(levels[i].of)[p]

\* The tokens of a part that is kept: its own, unless the memo may have had another
\* question's count for it.
TokensOf(level, i) ==
  IF Shared(PartsOf(level.of)[i]) THEN level.kept[i] ELSE Weight[PartsOf(level.of)[i]]

\* Those of some parts.
TokensOfParts(level, S) == SumFunctionOnSet([i \in S |-> TokensOf(level, i)], S)

TokensKept(levels) ==
  SumFunctionOnSet([k \in DOMAIN levels |-> TokensOfParts(levels[k], DOMAIN levels[k].kept)],
                   DOMAIN levels)

\* However deep a value is, truncation leaves its target (70% of the limit) with one
\* part at most: what is kept at all levels together fits in it by the counts it was
\* told, which are the parts' own but where keys collide; but for the last part, which
\* may be one that cannot be cut and is passed on as it is (truncateData's budgets).
TargetKept ==
  \A t \in Threads : Truncated(t) => TokensKept(job[t].levels) <= Target(job[t].limit)

\* The priority fields before the i-th that were kept when they were first counted.
KeptBefore(level, i) ==
  (DOMAIN level.kept \ DOMAIN level.skipped) \cap {Priority[j] : j \in 1..(i - 1)}

\* The fields "metadata", "summary", "index" and "pagination" are there, whole, before
\* any other, the first of them first, whatever order the map gives its fields in: one
\* that is not does not fit beside those before it (truncateMap).
PriorityKept ==
  \A t \in Threads : Truncated(t) /\ job[t].levels[1].of.kind = "map" =>
    LET level == job[t].levels[1]
        parts == PartsOf(level.of)
    IN  \A i \in DOMAIN Priority :
          /\ Priority[i] \in DOMAIN parts \ DOMAIN level.kept
          /\ ~ Shared(parts[Priority[i]])
          => TokensOfParts(level, KeptBefore(level, i)) + Weight[parts[Priority[i]]] > level.target

\* Every request is answered, with an error if it must be, whatever the other threads
\* and CleanCache do to the memo.
Answered == \A t \in Threads : (job[t] # Idle) ~> (job[t] = Idle)
=============================================================================
