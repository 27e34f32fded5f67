------------------------------- MODULE Query -------------------------------
(***************************************************************************)
(* How query_data finds its results (internal/server/query.go).  The       *)
(* handler keeps no state: whatever navigation index and cursor it is      *)
(* given, it works on one sheet, "Sheet1", of a workbook with a fixed      *)
(* path, from its first row.  Limits come as JSON numbers, which the       *)
(* code's .(int) never matches, so that they are the defaults.             *)
(*                                                                         *)
(* A query has a "=" ("exact"), or is a part of the sheet's name           *)
(* ("name"; the empty query is), or neither ("other").  A cell is known by *)
(* what Sscanf("%f") makes of it: a text may begin like a number (then it  *)
(* becomes one) or like "inf" or "nan".                                    *)
(***************************************************************************)
EXTENDS Integers, Sequences

CONSTANTS
  MaxRows,  \* max_rows_per_sheet, 1000
  MaxCols   \* cells taken of a row, 21

ASSUME RowsColsPos == MaxRows \in Nat \ {0} /\ MaxCols \in Nat \ {0}

QueryKinds == {"exact", "name", "other"}

Cells == {"empty", "number", "word", "two words", "number and word", "inf"}

\* determineQueryStrategy.  "hybrid" is for more than ten sheets: there is one.
Strategy(query, preferSpeed) ==
  IF query = "exact" /\ preferSpeed THEN "index" ELSE "scan"

\* parseFinancialValue, and what becomes of its result.
Processed(cell) ==
  CASE cell = "empty"           -> "nil"
    [] cell = "number and word" -> "number"
    [] OTHER                    -> cell

\* The cells taken of a row.
ProcessedRow(row) ==
  [j \in 1..(IF Len(row) < MaxCols THEN Len(row) ELSE MaxCols) |-> Processed(row[j])]

HasNonEmptyData(cells) == \E j \in DOMAIN cells : cells[j] # "nil"

\* Mutant: the row after the last one is taken.
LastRowOver(n) == IF MaxRows < n THEN MaxRows + 1 ELSE n

\* How many of n rows are looked at.
LastRow(n) == IF MaxRows < n THEN MaxRows ELSE n

\* One iteration of the loop over the rows: if there is data in row n it is added.
AddRow(rows, n, row) ==
  LET cells == ProcessedRow(row) IN
    IF HasNonEmptyData(cells) THEN Append(rows, [row |-> n, cells |-> cells]) ELSE rows

\* The rows found in a sheet after n iterations.
RowsFound(sheet) ==
  LET found[n \in 0..LastRow(Len(sheet))] ==
        IF n = 0 THEN <<>> ELSE AddRow(found[n - 1], n, sheet[n])
  IN  found

ExtractRealSheetData(sheet) == RowsFound(sheet)[LastRow(Len(sheet))]

\* executeQuery: the data chunks found.  A search by index finds nothing, as its index
\* manager has just been made; the sheet is scanned if the query is in its name, and
\* passed over if it cannot be read.
ExecuteQuery(query, preferSpeed, readable, sheet) ==
  IF Strategy(query, preferSpeed) = "scan" /\ query = "name" /\ readable
  THEN <<ExtractRealSheetData(sheet)>> ELSE <<>>

\* json.Marshal has no form for an infinite number or NaN.
Marshals(results) ==
  \A k \in DOMAIN results : \A i \in DOMAIN results[k] :
    \A j \in DOMAIN results[k][i].cells : results[k][i].cells[j] # "inf"
=============================================================================
