---------------------------- MODULE Compression ----------------------------
(***************************************************************************)
(* What becomes of a value that is to fit a limit of tokens                *)
(* (internal/compression/manager.go): a codec chosen by its count and,     *)
(* when it does not fit, truncation, which goes down into maps, lists and  *)
(* texts with what is left of the budget.                                  *)
(*                                                                         *)
(* A value is a text, with its length, a list or a map, with its parts, or *)
(* any other, which truncation does not know.  A call of truncateData is a *)
(* level: it asks for the count of one part after another, keeps it or     *)
(* not by what it is told, and cuts one part at most, by calling itself.   *)
(***************************************************************************)
EXTENDS Integers, Sequences, FiniteSets, Functions

CONSTANTS
  Parts,  \* the values that may be truncated, and theirs
  Short   \* limits for 0.7 of which floating point comes out just under a whole number

ASSUME ShortTens == \A limit \in Short : limit \in Nat /\ limit >= 10 /\ limit % 10 = 0

\* What truncateMap adds to a map before it counts the fields: then "_included_fields".
Marks == {"_truncated", "_original_size"}

ASSUME PartsOfParts ==
  \A v \in Parts :
    \/ v.kind = "text" /\ v.chars \in Nat
    \/ v.kind = "list" /\ v.items \in Seq(Parts)
    \/ /\ v.kind = "map" /\ IsFiniteSet(DOMAIN v.fields)
       /\ DOMAIN v.fields \cap (Marks \cup {"_included_fields"}) = {}
       /\ v.fields \in [DOMAIN v.fields -> Parts]
    \/ v.kind = "other"

\* The parts of a list or a map, by position or by name; a text is looked at as a whole.
PartsOf(v) ==
  CASE v.kind = "list" -> v.items
    [] v.kind = "map"  -> v.fields
    [] v.kind = "text" -> <<v>>
    [] OTHER           -> <<>>
-----------------------------------------------------------------------------
\* A call of truncateData: the parts it kept and the priority fields it passed over,
\* each with the count it was told, the part it cut, and of a text how many characters
\* are left of it, once that is known.
NewLevel(v, target) ==
  [of |-> v, target |-> target, kept |-> <<>>, skipped |-> <<>>, cut |-> {}, chars |-> {}]

\* currentTokens.
Used(level) == SumFunctionOnSet(level.kept, DOMAIN level.kept)

\* Mutant: the whole budget is there for the part that is cut.
BudgetAgain(level) == level.target

\* What a part that is cut may still take.
BudgetLeft(level) == level.target - Used(level)

\* A part whose count is n is kept beside those that are.
Fits(level, n) == Used(level) + n <= level.target

Priority == <<"metadata", "summary", "index", "pagination">>

\* Mutant: the fields are taken as they come.
NoneFirst(level) == {}

\* The priority fields still to be counted, by their rank.
Ranks(level) ==
  {i \in DOMAIN Priority :
     Priority[i] \in DOMAIN PartsOf(level.of) \ (DOMAIN level.kept \cup DOMAIN level.skipped)}

\* The parts one of which is counted next: the first item not kept; the first of the
\* priority fields, then any other field, as a map is ranged over in any order.
Open(level) ==
  LET v    == level.of
      rest == DOMAIN PartsOf(v) \ DOMAIN level.kept
  IN  IF level.cut # {} \/ level.chars # {} THEN {}
      ELSE IF v.kind = "map" /\ Ranks(level) # {}
             THEN {Priority[i] : i \in {j \in Ranks(level) : \A k \in Ranks(level) : j <= k}}
             ELSE IF v.kind = "map" THEN rest ELSE {i \in rest : \A k \in rest : i <= k}

Added(counts, i, n) == [j \in DOMAIN counts \cup {i} |-> IF j = i THEN n ELSE counts[j]]

\* What becomes of the level and the calls below it when part i is told the count n.
Keep(level, i, n) == <<[level EXCEPT !.kept = Added(@, i, n)]>>
Skip(level, i, n) == <<[level EXCEPT !.skipped = Added(@, i, n)]>>
Cut(level, i)     == <<[level EXCEPT !.cut = {i}], NewLevel(PartsOf(level.of)[i], BudgetLeft(level))>>

\* The loops of truncateMap and truncateSlice.
TakePart(level, i, n) ==
  IF Fits(level, n) THEN Keep(level, i, n)
  ELSE IF level.of.kind = "map" /\ Ranks(level) # {} THEN Skip(level, i, n)
  ELSE Cut(level, i)

\* truncateString, "... [truncated]" included; a text with few characters for its tokens
\* is not cut.
TakeText(level, n) ==
  LET whole == n <= level.target \/ 4 * level.target >= level.of.chars
  IN  <<[level EXCEPT !.chars = {IF whole THEN level.of.chars ELSE 4 * level.target}]>>

Take(level, i, n) == IF level.of.kind = "text" THEN TakeText(level, n) ELSE TakePart(level, i, n)
-----------------------------------------------------------------------------
\* What is in the result of the level, whole or cut.
InResult(level) == DOMAIN level.kept \cup level.cut

\* "_original_size" and "_included_fields": the result has two of its three marks then.
OriginalSize(level)   == Cardinality(DOMAIN PartsOf(level.of))
IncludedFields(level) == Cardinality(InResult(level) \cup Marks) - 2

\* Mutant: the item that was cut is counted among those left out.
LeftOutIncluding(n, i) == n - i + 1

\* "_truncated_items": those after item i (the code counts from zero).
LeftOut(n, i) == n - i

\* The summary of the remaining items, which a list gets if one is cut and it is not the
\* last.
Summary(level) ==
  LET n == Len(level.of.items)
  IN  {[missing |-> LeftOut(n, i), total |-> n] : i \in {j \in level.cut : j < n}}
-----------------------------------------------------------------------------
\* OptimizeResponse: the label and the codec of a response, for a count of n tokens.
ResponseMethod(n, limit) ==
  LET Method(label, codec) == [label |-> label, codec |-> codec] IN
    CASE 10 * n < 5 * limit -> Method("none", "plain")
      [] 10 * n >= 5 * limit /\ 10 * n < 8 * limit -> Method("gzip", "gzip")
      [] 10 * n >= 8 * limit /\ n < limit -> Method("brotli-4", "brotli")
      [] OTHER -> Method("brotli-11-truncated", "brotli")

\* What a truncated response is to fit.
Target(limit) == (7 * limit) \div 10 - (IF limit \in Short THEN 1 ELSE 0)

\* SuggestCompressionMethod, for a count of n tokens.
SuggestCompressionMethod(n, limit) ==
  CASE 10 * n < 5 * limit -> "none"
    [] 10 * n >= 5 * limit /\ 10 * n < 8 * limit -> "gzip"
    [] 10 * n >= 8 * limit /\ n < limit -> "brotli-4"
    [] OTHER -> "brotli-11-truncated"

\* Decompress: which codec a label stands for, none for one it does not know.
Codec(label) ==
  CASE label = "none" -> "plain"
    [] label = "gzip" -> "gzip"
    [] label \in {"brotli-4", "brotli-11", "brotli-11-truncated"} -> "brotli"
    [] OTHER -> "unknown"
=============================================================================
