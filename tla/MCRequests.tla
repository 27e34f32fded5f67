----------------------------- MODULE MCRequests -----------------------------
(* Constants of Requests for TLC.  What has a key in the memo is worked out *)
(* from how values print: Count's key is the type and the printed form.     *)
EXTENDS Requests, SequencesExt

CONSTANTS t1, t2, nav, big

SomeTools == (t1 :> {"query", "check", "batch"}) @@ (t2 :> {"navigation", "optimize"})

\* Rows that print alike, a row past MaxRows, an empty row, one with its data past
\* MaxCols, and one with a text like "Infos".
SomeWorkbooks ==
  { << <<"two words">>, <<>>, <<"number">> >>,
    << <<"word", "word">>, <<"empty", "empty", "word">> >>,
    << <<"number and word">>, <<"inf">> >> }

Text(tokens, chars) == [kind |-> "text", tokens |-> tokens, chars |-> chars]
Other(tokens)       == [kind |-> "other", tokens |-> tokens]
List(items)         == [kind |-> "list", items |-> items]
Map(fields)         == [kind |-> "map", fields |-> fields]

Six   == Other(6)
Three == Other(3)

\* A text like "int_123", under which Count has the number 123.
Dense == Text(4, 7)
One   == Other(1)

Plain  == Text(11, 19)
Nested == List(<<Six, List(<<One, Dense>>), Three>>)
Report == Map([metadata |-> Six, summary |-> One, index |-> Three, rows |-> List(<<Plain, Three>>)])

\* A value that json.Marshal refuses.
Broken == Other(None)

SomeValues == {Dense, Nested, Report, Broken}

\* Brackets, and for a text its quotes, are a token; the keys of a map are left out.
RECURSIVE CountIn(_)
CountIn(v) ==
  CASE v.kind \in {"list", "map"} ->
         1 + SumFunction([i \in DOMAIN PartsOf(v) |-> CountIn(PartsOf(v)[i])])
    [] v.kind = "text" -> v.tokens + 1
    [] OTHER           -> v.tokens

RECURSIVE PartsIn(_)
PartsIn(v) ==
  {v} \cup IF v.kind \in {"list", "map"} THEN UNION {PartsIn(PartsOf(v)[i]) : i \in DOMAIN PartsOf(v)}
           ELSE {}

SomeParts == UNION {PartsIn(v) : v \in SomeValues \ {Broken}}
Texts     == {v \in SomeParts : v.kind = "text"}

SomeBatches == {<<Dense, Report>>, <<Broken, Dense>>}

AllResults ==
  {ExecuteQuery("name", TRUE, TRUE, w) : w \in SomeWorkbooks} \cup {<<>>}

AllQuestions ==
  {ResultsOf(r) : r \in AllResults} \cup {NavigationOf(nav)}
    \cup {Broken} \cup SomeParts \cup {RawText(v) : v \in Texts} \cup {CutOf(v) : v \in SomeParts}

\* fmt's %v parts the cells of a row with a space, and quotes nothing.
Printed(results) ==
  LET PrintedRow(cells) ==
        FlattenSeq([j \in DOMAIN cells |->
          IF cells[j] = "two words" THEN <<"word", "word">> ELSE <<cells[j]>>])
  IN  [k \in DOMAIN results |->
         [i \in DOMAIN results[k] |-> PrintedRow(results[k][i].cells)]]

KeyOfQuestion(q) ==
  CASE q.kind = "results" -> [kind |-> "results", data |-> Printed(q.data)]
    [] q = RawText(Dense) -> One
    [] OTHER              -> q

KeysOf   == [q \in AllQuestions |-> KeyOfQuestion(q)]
SomeKeys == {KeyOfQuestion(q) : q \in AllQuestions}

\* The keys of several questions, and one that is a single question's, which is told the
\* same whether its count is in the memo or not.
SomeCleaned == {KeysOf[q] : q \in {r \in AllQuestions : Shared(r)}} \cup {KeysOf[Dense]}

WeightOf(q) ==
  CASE q.kind = "results" -> IF Marshals(q.data) THEN
                               LET FR(n, row) == n + Len(row.cells) IN
                               IF q.data = <<>> THEN 1
                               ELSE FoldLeft(FR, 2, q.data[1])
                             ELSE None
    [] q.kind = "navigation" -> 20
    [] q.kind = "raw" -> q.text.tokens
    [] q = Broken -> None
    [] q.kind = "cut" -> 1
    [] OTHER -> CountIn(q)

Weights == [q \in AllQuestions |-> WeightOf(q)]
Buffers == (big :> 10)
=============================================================================
