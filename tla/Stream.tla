------------------------------- MODULE Stream -------------------------------
(***************************************************************************)
(* Streams of rows (internal/streaming/reader.go).  A ChunkReader sends    *)
(* the sheets of one chunk of analyze_file, a WindowedReader the rows of   *)
(* one window of a sheet, as records that are written one after another;   *)
(* the writer may break at any of them.  The client knows only what has    *)
(* arrived: it takes a stream that ends with its last record and asks      *)
(* again for any other.                                                    *)
(*                                                                         *)
(* The file is in memory once it is open, so that a stream is of one       *)
(* content; the chunks may be of an earlier one, with more or fewer        *)
(* sheets.  A row is its place, <<sheet, row>>; cells are left out: a      *)
(* window cuts columns as it cuts rows.                                    *)
(***************************************************************************)
EXTENDS Integers, Sequences, FiniteSets

CONSTANTS
  Workbooks,    \* the workbooks to stream: the number of rows of each sheet
  Counts,       \* the numbers of sheets the chunks may have been made for
  ChunkSizes,   \* the values of chunk_size
  ChunkBatch,   \* rows per record of a chunk, 100
  WindowBatch,  \* rows per record of a window, 50
  MaxResults,   \* rows a query's cursor moves on by, 100 or what a caller in Go says
  None          \* nothing is being streamed

ASSUME WorkbooksSeq  == Workbooks \subseteq Seq(Nat)
ASSUME CountsNat     == Counts \subseteq Nat
ASSUME ChunkSizesPos == ChunkSizes \subseteq Nat \ {0}
ASSUME BatchesPos    == /\ ChunkBatch \in Nat \ {0} /\ WindowBatch \in Nat \ {0}
                        /\ MaxResults \in Nat \ {0}

VARIABLES
  book,    \* the rows of each sheet of the workbook
  count,   \* how many sheets it had for analyze_file
  size,    \* the chunk_size of that call
  todo,    \* first sheets of the chunks the client has not got
  got,     \* how often it got each row, from the chunks it took
  offset,  \* how far it has followed the cursors of a query over the first sheet
  read,    \* the rows it got from their windows
  job,     \* the chunk or window being streamed
  place,   \* where its reader is
  sheet,   \* the sheet it is at
  row,     \* the next row
  batch,   \* rows not sent yet
  out      \* the records that have arrived

setup      == <<book, count, size>>
clientVars == <<todo, got, offset, read>>
readerVars == <<job, place, sheet, row, batch, out>>
vars       == <<setup, clientVars, readerVars>>
-----------------------------------------------------------------------------
Sheets    == 0..(Len(book) - 1)
Rows(s)   == book[s + 1]
Places    == UNION {{s} \X (0..(Rows(s) - 1)) : s \in Sheets}

\* createChunks: the chunks' first sheets, and the last one of each.
Starts  == {s \in 0..(count - 1) : s % size = 0}
Last(s) == IF s + size > count THEN count - 1 ELSE s + size - 1

Chunks  == [first : Nat, last : Nat]
Windows == [start : Nat, end : Nat]

Marks   == [type : {"metadata", "complete", "window_complete"}]
             \cup [type : {"sheet_start"}, sheet : Nat, total : Nat]
             \cup [type : {"sheet_complete"}, sheet : Nat]
             \cup [type : {"window_start"}, total : Nat]
Data    == [type : {"rows"}, sheet : Nat, start : Nat, rows : Seq(Nat \X Nat)]
Records == Marks \cup Data

TypeOK ==
  /\ book \in Workbooks /\ count \in Counts /\ size \in ChunkSizes
  /\ todo \subseteq Starts
  /\ got \in [Places -> Nat]
  /\ offset \in Nat /\ read \subseteq Nat
  /\ job \in Chunks \cup Windows \cup {None}
  /\ place \in {"idle", "sheets", "rows", "window", "ended"}
  /\ sheet \in Nat /\ row \in Nat
  /\ batch \in Seq(Nat \X Nat)
  /\ out \in Seq(Records)

Init ==
  /\ book \in Workbooks /\ count \in Counts /\ size \in ChunkSizes
  /\ todo = Starts
  /\ got = [p \in Places |-> 0]
  /\ offset = 0 /\ read = {}
  /\ job = None /\ place = "idle"
  /\ sheet = 0 /\ row = 0 /\ batch = <<>> /\ out = <<>>
-----------------------------------------------------------------------------
Send(record) == out' = Append(out, record)

\* StreamChunk begins: its first record arrives or not.
StreamChunk(first) ==
  /\ place = "idle" /\ first \in todo
  /\ job' = [first |-> first, last |-> Last(first)]
  /\ sheet' = first
  /\ \/ place' = "sheets" /\ out' = <<[type |-> "metadata"]>>
     \/ place' = "ended" /\ UNCHANGED out
  /\ UNCHANGED <<setup, clientVars, row, batch>>

\* Mutant: the last sheet of the range is taken for its end.
MoreSheetsShort == sheet < job.last /\ sheet < Len(book)

\* The range is inclusive, and the workbook may have fewer sheets by now.
MoreSheets == sheet <= job.last /\ sheet < Len(book)

\* streamSheet: the rows of the next sheet are read and its header is sent.
SheetStart ==
  /\ place = "sheets" /\ MoreSheets
  /\ Send([type |-> "sheet_start", sheet |-> sheet, total |-> Rows(sheet)])
  /\ place' = "rows" /\ row' = 0 /\ batch' = <<>>
  /\ UNCHANGED <<setup, clientVars, job, sheet>>

\* Mutants: a batch starts a row early; it is sent only when it is full; it is not
\* emptied.
StartsEarly(filled)  == row - Len(filled)
FullOnly(filled)     == Len(filled) >= ChunkBatch
NeverEmptied(filled) == filled

BatchStart(filled) == row - Len(filled) + 1
BatchReady(filled) == Len(filled) >= ChunkBatch \/ row = Rows(sheet) - 1
Emptied(filled)    == <<>>

\* A row goes into the batch, which is sent when it is full or the row is the last.
BatchRow ==
  /\ place = "rows" /\ row < Rows(sheet)
  /\ LET filled == Append(batch, <<sheet, row>>) IN
       IF BatchReady(filled)
       THEN /\ Send([type |-> "rows", sheet |-> sheet, start |-> BatchStart(filled),
                     rows |-> filled])
            /\ batch' = Emptied(filled)
       ELSE batch' = filled /\ UNCHANGED out
  /\ row' = row + 1
  /\ UNCHANGED <<setup, clientVars, job, place, sheet>>

SheetComplete ==
  /\ place = "rows" /\ row >= Rows(sheet)
  /\ Send([type |-> "sheet_complete", sheet |-> sheet])
  /\ place' = "sheets" /\ sheet' = sheet + 1
  /\ UNCHANGED <<setup, clientVars, job, row, batch>>

Complete ==
  /\ place = "sheets" /\ ~ MoreSheets
  /\ Send([type |-> "complete"])
  /\ place' = "ended"
  /\ UNCHANGED <<setup, clientVars, job, sheet, row, batch>>
-----------------------------------------------------------------------------
\* Mutant: the first row after the page is passed over.
NextWindowPast(o) == [start |-> o + MaxResults + 1, end |-> o + 2 * MaxResults]

\* createQueryPagination: the window sealed in the cursor of a page at offset o.
NextWindow(o) == [start |-> o + MaxResults, end |-> o + 2 * MaxResults]

\* ReadWindow: both ends belong to the window, which the sheet may cut short.
WindowEnd(w) == IF w.end < Rows(0) THEN w.end ELSE Rows(0) - 1

WindowRows(w) == [j \in 1..(WindowEnd(w) - w.start + 1) |-> <<0, w.start + j - 1>>]

\* StreamWindow of the window of the last cursor, until it is past the sheet.
StreamWindow ==
  /\ place = "idle" /\ Len(book) > 0 /\ NextWindow(offset).start < Rows(0)
  /\ job' = NextWindow(offset)
  /\ batch' = WindowRows(NextWindow(offset))
  /\ \/ place' = "window" /\ out' = <<[type |-> "window_start", total |-> Len(batch')]>>
     \/ place' = "ended" /\ UNCHANGED out
  /\ UNCHANGED <<setup, clientVars, sheet, row>>

\* Mutant: the start row of a record is counted from the window's.
StartInWindow(i) == i

WindowStart(i) == i + job.start

WindowData ==
  /\ place = "window" /\ row < Len(batch)
  /\ LET end == IF row + WindowBatch > Len(batch) THEN Len(batch) ELSE row + WindowBatch IN
       Send([type |-> "rows", sheet |-> 0, start |-> WindowStart(row),
             rows |-> SubSeq(batch, row + 1, end)])
  /\ row' = row + WindowBatch
  /\ UNCHANGED <<setup, clientVars, job, place, sheet, batch>>

\* Mutant: the end is seen only if the last record is a full one.
AllSentExactly == row = Len(batch)

AllSent == row >= Len(batch)

WindowComplete ==
  /\ place = "window" /\ AllSent
  /\ Send([type |-> "window_complete"])
  /\ place' = "ended"
  /\ UNCHANGED <<setup, clientVars, job, sheet, row, batch>>
-----------------------------------------------------------------------------
\* The writer breaks, or the rows of a sheet cannot be read: no record says so.
Fail ==
  /\ place \in {"sheets", "rows", "window"}
  /\ place' = "ended"
  /\ UNCHANGED <<setup, clientVars, job, sheet, row, batch, out>>

\* Record k brings row p.
Brings(k, p) ==
  /\ out[k].type = "rows" /\ out[k].sheet = p[1]
  /\ \E j \in DOMAIN out[k].rows : out[k].start + j - 1 = p[2]

Times(p) == Cardinality({k \in DOMAIN out : Brings(k, p)})

\* What the client goes by.
Whole(type) == out # <<>> /\ out[Len(out)].type = type

\* The stream is at its end, and the client takes it or will ask again.
Receive ==
  /\ place = "ended"
  /\ IF Whole("complete")
     THEN /\ todo' = todo \ {job.first}
          /\ got' = [p \in Places |-> got[p] + Times(p)]
     ELSE UNCHANGED <<todo, got>>
  /\ IF Whole("window_complete")
     THEN /\ read' = read \cup {n \in 0..(Rows(0) - 1) : Times(<<0, n>>) > 0}
          /\ offset' = offset + MaxResults
     ELSE UNCHANGED <<read, offset>>
  /\ place' = "idle" /\ job' = None
  /\ sheet' = 0 /\ row' = 0 /\ batch' = <<>> /\ out' = <<>>
  /\ UNCHANGED setup

\* What the reader does by itself.
Write ==
  \/ SheetStart \/ BatchRow \/ SheetComplete \/ Complete
  \/ WindowData \/ WindowComplete

Next ==
  \/ \E first \in todo : StreamChunk(first)
  \/ StreamWindow
  \/ Write
  \/ Fail
  \/ Receive

Spec == Init /\ [][Next]_vars

\* The reader's goroutine runs on.  Nothing is assumed of its writer or its client.
FairSpec == Spec /\ WF_vars(Write)
-----------------------------------------------------------------------------
(***************************************************************************)
(* Properties.                                                             *)
(***************************************************************************)
\* Whatever a record brings is the row its start row and position say, although the
\* start is computed from a batch that grows, is sent and is used again (streamSheet,
\* StreamWindow).
InPlace ==
  \A k \in DOMAIN out : out[k].type = "rows" =>
    \A j \in DOMAIN out[k].rows : out[k].rows[j] = <<out[k].sheet, out[k].start + j - 1>>

\* A stream that breaks is good as far as it came: of every sheet it brought a first
\* part without gaps, each row once (StreamChunk).
NoGaps ==
  place \in {"sheets", "rows", "ended"} /\ job \in Chunks =>
    \A p \in Places : Times(p) <= 1 /\ (Times(p) = 1 => \A n \in 0..p[2] : Times(<<p[1], n>>) = 1)

\* A record that says a sheet is complete comes after all the rows its header told of.
SheetsWhole ==
  \A k \in DOMAIN out : out[k].type = "sheet_complete" =>
    \E h \in 1..k : /\ out[h].type = "sheet_start" /\ out[h].sheet = out[k].sheet
                    /\ \A n \in 0..(out[h].total - 1) : \E d \in h..k : Brings(d, <<out[k].sheet, n>>)

\* The chunks that a client took are whole: whatever broke and was asked for again, and
\* however many sheets the workbook has lost or gained since, each row of a sheet of
\* theirs came exactly once and no other row (createChunks and StreamChunk compute
\* their bounds apart).
ChunksExact ==
  \A p \in Places :
    got[p] = IF p[1] >= count \/ p[1] - (p[1] % size) \in todo THEN 0 ELSE 1

\* Read one after another, the windows that the cursors of a query hand on leave out
\* no row after its first page (createQueryPagination takes their ends for excluded,
\* ReadWindow for included: the rows at the ends come twice).
WindowsAdjoin ==
  Len(book) > 0 =>
    \A n \in MaxResults..(offset + MaxResults) : n < Rows(0) /\ offset > 0 => n \in read

\* A stream that has begun comes to an end (the loops of StreamChunk and StreamWindow).
StreamEnds == (place # "idle") ~> (place = "idle" \/ place = "ended")
=============================================================================
