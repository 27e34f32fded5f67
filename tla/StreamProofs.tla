---------------------------- MODULE StreamProofs ----------------------------
(***************************************************************************)
(* What holds of streams for workbooks, chunks, batches and windows of any *)
(* size.                                                                   *)
(***************************************************************************)
EXTENDS Stream, FiniteSetTheorems, TLAPS

\* What is assumed of the constants, in one fact.
LEMMA StreamConstants ==
  /\ Workbooks \subseteq Seq(Nat) /\ Counts \subseteq Nat
  /\ ChunkSizes \subseteq Nat \ {0}
  /\ ChunkBatch \in Nat \ {0} /\ WindowBatch \in Nat \ {0} /\ MaxResults \in Nat \ {0}
BY WorkbooksSeq, CountsNat, ChunkSizesPos, BatchesPos

\* The rows waiting to be sent are consecutive ones, up to where the reader is.
Waiting ==
  /\ place = "rows" =>
       /\ sheet \in Sheets /\ row <= Rows(sheet) /\ Len(batch) <= row
       /\ \A j \in DOMAIN batch : batch[j] = <<sheet, row - Len(batch) + j - 1>>
  /\ place = "window" =>
       /\ job \in Windows /\ job \notin Chunks
       /\ \A j \in DOMAIN batch : batch[j] = <<0, job.start + j - 1>>

\* Where the reader is goes with what it streams.
Streaming ==
  /\ place \in {"sheets", "rows"} => job \in Chunks /\ job.first <= sheet
  /\ place = "idle" => sheet = 0 /\ row = 0 /\ batch = <<>> /\ out = <<>>

ReaderInv == TypeOK /\ Waiting /\ Streaming /\ InPlace
-----------------------------------------------------------------------------
\* The number of rows of a sheet.
LEMMA RowsNat ==
  ASSUME book \in Workbooks
  PROVE  /\ Len(book) \in Nat
         /\ \A s \in Sheets : s \in Nat /\ Rows(s) \in Nat
         /\ Len(book) > 0 => 0 \in Sheets
BY StreamConstants DEF Sheets, Rows

\* A sequence with one element more.
LEMMA Appended ==
  ASSUME NEW S, NEW q \in Seq(S), NEW x \in S
  PROVE  /\ Append(q, x) \in Seq(S) /\ Len(Append(q, x)) = Len(q) + 1
         /\ \A k \in 1..Len(q) : Append(q, x)[k] = q[k]
         /\ Append(q, x)[Len(q) + 1] = x
         /\ DOMAIN Append(q, x) = 1..(Len(q) + 1) /\ DOMAIN q = 1..Len(q)
         /\ Len(q) \in Nat
OBVIOUS

\* How often a row has been brought is a number.
LEMMA TimesNat ==
  ASSUME out \in Seq(Records), NEW p
  PROVE  /\ Times(p) \in Nat
         /\ Times(p) = 0 <=> \A k \in DOMAIN out : ~ Brings(k, p)
         /\ (\A k, l \in DOMAIN out : Brings(k, p) /\ Brings(l, p) => k = l) => Times(p) <= 1
<1> DEFINE S == {k \in DOMAIN out : Brings(k, p)}
<1>1. IsFiniteSet(S)
  <2>1. DOMAIN out = 1..Len(out) /\ Len(out) \in Nat
    OBVIOUS
  <2>2. IsFiniteSet(DOMAIN out)
    BY <2>1, FS_Interval
  <2> QED BY <2>2, FS_Subset
<1>2. Cardinality(S) \in Nat /\ (Cardinality(S) = 0 <=> S = {})
  BY <1>1, FS_CardinalityType, FS_EmptySet
<1>3. ASSUME \A k, l \in DOMAIN out : Brings(k, p) /\ Brings(l, p) => k = l
      PROVE  Cardinality(S) <= 1
  <2>1. CASE S = {}
    BY <1>2, <2>1
  <2>2. CASE S # {}
    <3>1. PICK k \in S : TRUE
      BY <2>2
    <3>2. S = {k}
      BY <1>3, <3>1
    <3>3. Cardinality({k}) = 1
      BY FS_Singleton
    <3> HIDE DEF S
    <3> QED BY <3>2, <3>3
  <2> QED BY <2>1, <2>2
<1> QED BY <1>2, <1>3 DEF Times

\* The windows of cursors have no negative bounds and are no chunks.
LEMMA WindowsNoChunks ==
  ASSUME NEW o \in Nat
  PROVE  NextWindow(o) \in Windows /\ NextWindow(o) \notin Chunks /\ NextWindow(o).start \in Nat
<1>1. NextWindow(o) \in Windows /\ NextWindow(o).start \in Nat
  BY StreamConstants DEF NextWindow, Windows
<1>2. "first" \notin DOMAIN NextWindow(o)
  BY DEF NextWindow
<1>3. \A c \in Chunks : "first" \in DOMAIN c
  BY DEF Chunks
<1> QED BY <1>1, <1>2, <1>3

\* The rows of a window that begins in the sheet.
LEMMA RowsOfWindow ==
  ASSUME book \in Workbooks, Len(book) > 0, NEW w \in Windows, w.start < Rows(0), w.start <= w.end
  PROVE  /\ WindowRows(w) \in Seq(Nat \X Nat)
         /\ \A j \in DOMAIN WindowRows(w) : WindowRows(w)[j] = <<0, w.start + j - 1>>
<1> DEFINE n == WindowEnd(w) - w.start + 1
<1>1. n \in Nat /\ w.start \in Nat
  BY RowsNat DEF WindowEnd, Windows
<1>2. \A j \in 1..n : <<0, w.start + j - 1>> \in Nat \X Nat
  BY <1>1
<1>3. WindowRows(w) = [j \in 1..n |-> <<0, w.start + j - 1>>]
  BY DEF WindowRows
<1> HIDE DEF n
<1> QED BY <1>1, <1>2, <1>3
-----------------------------------------------------------------------------
\* A record that brings nothing, or brings rows in their places, keeps them all there.
LEMMA SentInPlace ==
  ASSUME InPlace, out \in Seq(Records), NEW r \in Records, Send(r),
         r.type = "rows" => \A j \in DOMAIN r.rows : r.rows[j] = <<r.sheet, r.start + j - 1>>
  PROVE  InPlace' /\ out' \in Seq(Records)
<1>1. /\ out' = Append(out, r) /\ out' \in Seq(Records)
      /\ DOMAIN out' = 1..(Len(out) + 1) /\ DOMAIN out = 1..Len(out) /\ Len(out) \in Nat
      /\ \A k \in 1..Len(out) : out'[k] = out[k]
      /\ out'[Len(out) + 1] = r
  BY Appended DEF Send
<1>2. SUFFICES ASSUME NEW k \in DOMAIN out', out'[k].type = "rows", NEW j \in DOMAIN out'[k].rows
               PROVE  out'[k].rows[j] = <<out'[k].sheet, out'[k].start + j - 1>>
  BY <1>1 DEF InPlace
<1>3. CASE k \in 1..Len(out)
  BY <1>1, <1>2, <1>3 DEF InPlace
<1>4. CASE k = Len(out) + 1
  BY <1>1, <1>2, <1>4
<1> QED BY <1>1, <1>3, <1>4

\* Records are records, and the marks bring nothing.
LEMMA RecordsOfMarks ==
  /\ \A t \in {"metadata", "complete", "window_complete"} : [type |-> t] \in Records
  /\ \A s, n \in Nat : [type |-> "sheet_start", sheet |-> s, total |-> n] \in Records
  /\ \A s \in Nat : [type |-> "sheet_complete", sheet |-> s] \in Records
  /\ \A n \in Nat : [type |-> "window_start", total |-> n] \in Records
BY DEF Records, Marks

\* Rows of sheets make a record.
LEMMA RecordsOfRows ==
  ASSUME NEW s \in Nat, NEW a \in Nat, NEW q \in Seq(Nat \X Nat)
  PROVE  [type |-> "rows", sheet |-> s, start |-> a, rows |-> q] \in Records
BY DEF Records, Data
-----------------------------------------------------------------------------
\* The workbook stays what it is.
LEMMA SameBook ==
  ASSUME UNCHANGED setup
  PROVE  /\ book' = book /\ count' = count /\ size' = size
         /\ Starts' = Starts /\ Places' = Places /\ Sheets' = Sheets
         /\ \A s : Rows(s)' = Rows(s)
BY DEF setup, Starts, Places, Sheets, Rows

\* The chunk of a first sheet that is to do.
LEMMA ChunkOfStart ==
  ASSUME TypeOK, NEW first \in Starts
  PROVE  /\ first \in Nat /\ Last(first) \in Nat /\ first <= Last(first)
         /\ [first |-> first, last |-> Last(first)] \in Chunks
         /\ first <= count - 1
BY StreamConstants DEF TypeOK, Starts, Last, Chunks

\* At first nothing is read or sent.
LEMMA ReaderInit == Init => ReaderInv
<1> SUFFICES ASSUME Init PROVE ReaderInv
  OBVIOUS
<1>1. TypeOK
  BY DEF Init, TypeOK
<1>2. Waiting /\ Streaming /\ InPlace
  BY DEF Init, Waiting, Streaming, InPlace
<1> QED BY <1>1, <1>2 DEF ReaderInv

\* A chunk begins with its metadata, or with nothing.
LEMMA ReaderChunk ==
  ASSUME ReaderInv, NEW first \in todo, StreamChunk(first)
  PROVE  ReaderInv'
<1>1. /\ book' = book /\ count' = count /\ size' = size
      /\ Starts' = Starts /\ Places' = Places /\ Sheets' = Sheets
      /\ UNCHANGED clientVars
  BY SameBook DEF StreamChunk
<1>2. /\ first \in Starts /\ first \in Nat
      /\ [first |-> first, last |-> Last(first)] \in Chunks
  BY ChunkOfStart DEF ReaderInv, TypeOK
<1>3. out = <<>> /\ row' = row /\ batch' = batch
  BY DEF StreamChunk, ReaderInv, Streaming
<1>4. out' = out \/ Send([type |-> "metadata"])
  BY <1>3 DEF StreamChunk, Send
<1>5. InPlace' /\ out' \in Seq(Records)
  BY <1>4, SentInPlace, RecordsOfMarks DEF ReaderInv, TypeOK, InPlace
<1>6. TypeOK'
  BY <1>1, <1>2, <1>3, <1>5 DEF StreamChunk, ReaderInv, TypeOK, clientVars
<1>7. Waiting' /\ Streaming'
  BY <1>2 DEF StreamChunk, Waiting, Streaming
<1> QED BY <1>5, <1>6, <1>7 DEF ReaderInv

\* A header of a sheet of the workbook; the batch is empty.
LEMMA ReaderSheetStart == ASSUME ReaderInv, SheetStart PROVE ReaderInv'
<1>1. /\ book' = book /\ count' = count /\ size' = size
      /\ Starts' = Starts /\ Places' = Places /\ Sheets' = Sheets
      /\ \A s : Rows(s)' = Rows(s)
      /\ UNCHANGED clientVars
  BY SameBook DEF SheetStart
<1>2. sheet \in Sheets /\ sheet \in Nat /\ Rows(sheet) \in Nat
  BY RowsNat DEF SheetStart, MoreSheets, ReaderInv, TypeOK, Sheets
<1>3. InPlace' /\ out' \in Seq(Records)
  BY <1>2, SentInPlace, RecordsOfMarks DEF SheetStart, ReaderInv, TypeOK
<1>4. TypeOK'
  BY <1>1, <1>3 DEF SheetStart, ReaderInv, TypeOK, clientVars
<1>5. sheet' = sheet /\ row' = 0 /\ batch' = <<>> /\ place' = "rows" /\ job' = job
  BY DEF SheetStart
<1>6. Waiting'
  BY <1>1, <1>2, <1>5 DEF Waiting
<1>7. Streaming'
  BY <1>5 DEF ReaderInv, Streaming, SheetStart
<1> QED BY <1>3, <1>4, <1>6, <1>7 DEF ReaderInv

\* A row joins the batch, and a batch that is ready goes out with its own start.
LEMMA ReaderBatchRow == ASSUME ReaderInv, BatchRow PROVE ReaderInv'
<1> DEFINE filled == Append(batch, <<sheet, row>>)
           record == [type |-> "rows", sheet |-> sheet, start |-> BatchStart(filled), rows |-> filled]
<1>1. /\ book' = book /\ count' = count /\ size' = size
      /\ Starts' = Starts /\ Places' = Places /\ Sheets' = Sheets
      /\ \A s : Rows(s)' = Rows(s)
      /\ UNCHANGED clientVars
  BY SameBook DEF BatchRow
<1>2. /\ sheet \in Sheets /\ sheet \in Nat /\ Rows(sheet) \in Nat
      /\ row \in Nat /\ row < Rows(sheet)
      /\ Len(batch) \in Nat /\ Len(batch) <= row
      /\ batch \in Seq(Nat \X Nat)
      /\ \A j \in DOMAIN batch : batch[j] = <<sheet, row - Len(batch) + j - 1>>
  BY RowsNat DEF BatchRow, ReaderInv, TypeOK, Waiting
<1>3. /\ filled \in Seq(Nat \X Nat) /\ Len(filled) = Len(batch) + 1
      /\ DOMAIN filled = 1..(Len(batch) + 1)
      /\ \A j \in 1..Len(batch) : filled[j] = batch[j]
      /\ filled[Len(batch) + 1] = <<sheet, row>>
      /\ DOMAIN batch = 1..Len(batch)
  <2>1. <<sheet, row>> \in Nat \X Nat /\ batch \in Seq(Nat \X Nat)
    BY <1>2
  <2> DEFINE S == Nat \X Nat
             x == <<sheet, row>>
  <2>2. x \in S /\ batch \in Seq(S)
    BY <2>1
  <2> HIDE DEF S, x
  <2>3. /\ Append(batch, x) \in Seq(S) /\ Len(Append(batch, x)) = Len(batch) + 1
        /\ DOMAIN Append(batch, x) = 1..(Len(batch) + 1)
        /\ \A j \in 1..Len(batch) : Append(batch, x)[j] = batch[j]
        /\ Append(batch, x)[Len(batch) + 1] = x
        /\ DOMAIN batch = 1..Len(batch)
    BY <2>2, Appended
  <2> QED BY <2>3 DEF S, x
<1>4. \A j \in DOMAIN filled : filled[j] = <<sheet, row - Len(batch) + j - 1>>
  <2> TAKE j \in DOMAIN filled
  <2> HIDE DEF filled
  <2>1. CASE j \in 1..Len(batch)
    BY <1>2, <1>3, <2>1
  <2>2. CASE j = Len(batch) + 1
    BY <1>2, <1>3, <2>2
  <2>3. j \in 1..(Len(batch) + 1)
    BY <1>3
  <2>4. j \in 1..Len(batch) \/ j = Len(batch) + 1
    BY <1>2, <2>3
  <2> QED BY <2>1, <2>2, <2>4
<1>5. BatchStart(filled) = row - Len(batch) /\ BatchStart(filled) \in Nat
  BY <1>2, <1>3 DEF BatchStart
<1>6. record \in Records
  BY <1>2, <1>3, <1>5, RecordsOfRows
<1>7. \/ Send(record) /\ batch' = <<>>
      \/ out' = out /\ batch' = filled
  BY DEF BatchRow, Emptied
<1>8. row' = row + 1 /\ sheet' = sheet /\ job' = job /\ place' = "rows"
  BY DEF BatchRow
<1>9. InPlace' /\ out' \in Seq(Records)
  <2>1. CASE out' = out
    BY <2>1 DEF ReaderInv, TypeOK, InPlace
  <2>2. CASE Send(record)
    <3>1. record.rows = filled /\ record.sheet = sheet /\ record.start = row - Len(batch)
      BY <1>5
    <3>2. \A j \in DOMAIN record.rows : record.rows[j] = <<record.sheet, record.start + j - 1>>
      BY <1>4, <3>1
    <3> HIDE DEF record
    <3> QED BY <1>6, <2>2, <3>2, SentInPlace DEF ReaderInv, TypeOK
  <2> QED BY <1>7, <2>1, <2>2
<1>10. batch' \in Seq(Nat \X Nat)
  <2>1. <<>> \in Seq(Nat \X Nat)
    OBVIOUS
  <2> QED BY <1>3, <1>7, <2>1, Zenon
<1> HIDE DEF filled, record
<1>11. TypeOK'
  BY <1>1, <1>2, <1>8, <1>9, <1>10 DEF ReaderInv, TypeOK, clientVars
<1>12. Waiting'
  <2>1. sheet' \in Sheets' /\ row' <= Rows(sheet)'
    BY <1>1, <1>2, <1>8
  <2>2. Len(batch') <= row' /\ \A j \in DOMAIN batch' : batch'[j] = <<sheet', row' - Len(batch') + j - 1>>
    <3>1. CASE batch' = <<>>
      BY <1>2, <1>8, <3>1
    <3>2. CASE batch' = filled
      BY <1>2, <1>3, <1>4, <1>8, <3>2
    <3> QED BY <1>7, <3>1, <3>2
  <2> QED BY <1>1, <1>8, <2>1, <2>2 DEF Waiting, Rows
<1>13. Streaming'
  BY <1>8 DEF ReaderInv, Streaming, BatchRow
<1> QED BY <1>9, <1>11, <1>12, <1>13 DEF ReaderInv

\* The rest of a sheet was sent before its end is.
LEMMA ReaderSheetComplete == ASSUME ReaderInv, SheetComplete PROVE ReaderInv'
<1>1. /\ book' = book /\ count' = count /\ size' = size
      /\ Starts' = Starts /\ Places' = Places /\ Sheets' = Sheets
      /\ UNCHANGED clientVars
  BY SameBook DEF SheetComplete
<1>2. sheet \in Nat
  BY DEF ReaderInv, TypeOK
<1>3. InPlace' /\ out' \in Seq(Records)
  BY <1>2, SentInPlace, RecordsOfMarks DEF SheetComplete, ReaderInv, TypeOK
<1>4. TypeOK'
  BY <1>1, <1>2, <1>3 DEF SheetComplete, ReaderInv, TypeOK, clientVars
<1>5. Waiting'
  BY DEF SheetComplete, Waiting
<1>6. Streaming'
  <2>1. job \in Chunks /\ job.first \in Nat /\ job.first <= sheet
    BY DEF SheetComplete, ReaderInv, Streaming, Chunks
  <2>2. job' = job /\ sheet' = sheet + 1 /\ place' = "sheets"
    BY DEF SheetComplete
  <2> QED BY <1>2, <2>1, <2>2 DEF Streaming
<1> QED BY <1>3, <1>4, <1>5, <1>6 DEF ReaderInv

\* The last record of a stream, with nothing left to send.
LEMMA ReaderComplete == ASSUME ReaderInv, Complete \/ WindowComplete PROVE ReaderInv'
<1>1. /\ book' = book /\ count' = count /\ size' = size
      /\ Starts' = Starts /\ Places' = Places /\ Sheets' = Sheets
      /\ UNCHANGED clientVars
  BY SameBook DEF Complete, WindowComplete
<1>2. InPlace' /\ out' \in Seq(Records)
  BY SentInPlace, RecordsOfMarks DEF Complete, WindowComplete, ReaderInv, TypeOK
<1>3. /\ UNCHANGED <<job, sheet, row, batch>> /\ place' = "ended"
  BY DEF Complete, WindowComplete
<1>4. TypeOK'
  BY <1>1, <1>2, <1>3 DEF ReaderInv, TypeOK, clientVars
<1>5. Waiting' /\ Streaming'
  BY <1>3 DEF Waiting, Streaming
<1> QED BY <1>2, <1>4, <1>5 DEF ReaderInv

\* A window begins with all its rows waiting.
LEMMA ReaderWindow == ASSUME ReaderInv, StreamWindow PROVE ReaderInv'
<1> DEFINE w == NextWindow(offset)
<1>1. /\ book' = book /\ count' = count /\ size' = size
      /\ Starts' = Starts /\ Places' = Places /\ Sheets' = Sheets
      /\ UNCHANGED clientVars
  BY SameBook DEF StreamWindow
<1>2. /\ w \in Windows /\ w \notin Chunks /\ w.start \in Nat /\ w.start <= w.end
  <2>1. offset \in Nat
    BY DEF ReaderInv, TypeOK
  <2>2. w.start <= w.end
    BY <2>1, StreamConstants DEF NextWindow
  <2> QED BY <2>1, <2>2, WindowsNoChunks
<1>3. /\ WindowRows(w) \in Seq(Nat \X Nat)
      /\ \A j \in DOMAIN WindowRows(w) : WindowRows(w)[j] = <<0, w.start + j - 1>>
  BY <1>2, RowsOfWindow DEF StreamWindow, ReaderInv, TypeOK
<1>4. /\ job' = w /\ batch' = WindowRows(w) /\ sheet' = sheet /\ row' = row
      /\ place' \in {"window", "ended"} /\ out = <<>>
  BY DEF StreamWindow, ReaderInv, Streaming
<1> HIDE DEF w
<1>5. Len(batch') \in Nat
  BY <1>3, <1>4
<1>6. out' = out \/ Send([type |-> "window_start", total |-> Len(batch')])
  BY <1>4 DEF StreamWindow, Send
<1>7. InPlace' /\ out' \in Seq(Records)
  <2>1. CASE out' = out
    BY <2>1 DEF ReaderInv, TypeOK, InPlace
  <2>2. CASE Send([type |-> "window_start", total |-> Len(batch')])
    <3>1. [type |-> "window_start", total |-> Len(batch')] \in Records
      BY <1>5, RecordsOfMarks
    <3> QED BY <2>2, <3>1, SentInPlace DEF ReaderInv, TypeOK
  <2> QED BY <1>6, <2>1, <2>2
<1>8. TypeOK'
  BY <1>1, <1>2, <1>3, <1>4, <1>7 DEF ReaderInv, TypeOK, clientVars
<1>9. Waiting' /\ Streaming'
  BY <1>2, <1>3, <1>4 DEF Waiting, Streaming
<1> QED BY <1>7, <1>8, <1>9 DEF ReaderInv

\* A part of a window starts where the part before it ended.
LEMMA ReaderWindowData == ASSUME ReaderInv, WindowData PROVE ReaderInv'
<1> DEFINE end == IF row + WindowBatch > Len(batch) THEN Len(batch) ELSE row + WindowBatch
           part == SubSeq(batch, row + 1, end)
           record == [type |-> "rows", sheet |-> 0, start |-> WindowStart(row), rows |-> part]
<1>1. /\ book' = book /\ count' = count /\ size' = size
      /\ Starts' = Starts /\ Places' = Places /\ Sheets' = Sheets
      /\ UNCHANGED clientVars
  BY SameBook DEF WindowData
<1>2. /\ row \in Nat /\ batch \in Seq(Nat \X Nat) /\ row < Len(batch) /\ Len(batch) \in Nat
      /\ job \in Windows /\ job \notin Chunks /\ job.start \in Nat
      /\ \A j \in DOMAIN batch : batch[j] = <<0, job.start + j - 1>>
  BY DEF WindowData, ReaderInv, TypeOK, Waiting, Windows
<1>3. end \in Nat /\ end <= Len(batch) /\ row + 1 <= end
  BY <1>2, StreamConstants
<1> HIDE DEF end
<1>4. /\ part \in Seq(Nat \X Nat) /\ DOMAIN part = 1..(end - row)
      /\ \A j \in 1..(end - row) : part[j] = batch[row + j]
  BY <1>2, <1>3
<1> HIDE DEF part
<1>5. WindowStart(row) = row + job.start /\ WindowStart(row) \in Nat
  BY <1>2 DEF WindowStart
<1>6. record \in Records
  BY <1>4, <1>5, RecordsOfRows
<1>7. \A j \in DOMAIN part : part[j] = <<0, WindowStart(row) + j - 1>>
  <2> TAKE j \in DOMAIN part
  <2>1. j \in 1..(end - row) /\ row + j \in DOMAIN batch
    <3>1. j \in 1..(end - row)
      BY <1>4
    <3>2. row + j \in 1..Len(batch)
      BY <1>2, <1>3, <3>1
    <3>3. DOMAIN batch = 1..Len(batch)
      BY <1>2
    <3> QED BY <3>1, <3>2, <3>3
  <2>2. batch[row + j] = <<0, job.start + (row + j) - 1>>
    BY <1>2, <2>1
  <2>3. job.start + (row + j) - 1 = WindowStart(row) + j - 1
    <3>1. j \in Nat /\ row \in Nat /\ job.start \in Nat
      BY <1>2, <1>3, <2>1
    <3> QED BY <1>5, <3>1
  <2> QED BY <1>4, <2>1, <2>2, <2>3
<1>8. record.rows = part /\ record.sheet = 0 /\ record.start = WindowStart(row) /\ Send(record)
  BY DEF WindowData, part, end
<1> HIDE DEF record
<1>9. InPlace' /\ out' \in Seq(Records)
  BY <1>6, <1>7, <1>8, SentInPlace DEF ReaderInv, TypeOK
<1>10. /\ row' = row + WindowBatch /\ UNCHANGED <<job, sheet, batch, place>> /\ place = "window"
  BY DEF WindowData
<1>11. TypeOK'
  <2>1. row' \in Nat
    BY <1>2, <1>10, StreamConstants
  <2> QED BY <1>1, <1>9, <1>10, <2>1 DEF ReaderInv, TypeOK, clientVars
<1>12. Waiting' /\ Streaming'
  BY <1>2, <1>10 DEF Waiting, Streaming
<1> QED BY <1>9, <1>11, <1>12 DEF ReaderInv

\* A stream that breaks keeps what it sent and forgets its batch.
LEMMA ReaderFail == ASSUME ReaderInv, Fail PROVE ReaderInv'
<1>1. /\ book' = book /\ count' = count /\ size' = size
      /\ Starts' = Starts /\ Places' = Places /\ Sheets' = Sheets
      /\ UNCHANGED clientVars
  BY SameBook DEF Fail
<1>2. UNCHANGED <<job, sheet, row, batch, out>> /\ place' = "ended"
  BY DEF Fail
<1>3. TypeOK'
  BY <1>1, <1>2 DEF ReaderInv, TypeOK, clientVars
<1>4. Waiting' /\ Streaming' /\ InPlace'
  BY <1>2 DEF ReaderInv, Waiting, Streaming, InPlace
<1> QED BY <1>3, <1>4 DEF ReaderInv

\* The client takes what it understands, and the reader is idle again.
LEMMA ReaderReceive == ASSUME ReaderInv, Receive PROVE ReaderInv'
<1>1. /\ book' = book /\ count' = count /\ size' = size
      /\ Starts' = Starts /\ Places' = Places /\ Sheets' = Sheets
  BY SameBook DEF Receive
<1>2. /\ place' = "idle" /\ job' = None
      /\ sheet' = 0 /\ row' = 0 /\ batch' = <<>> /\ out' = <<>>
  BY DEF Receive
<1>3. todo' \subseteq Starts /\ got' \in [Places -> Nat]
  <2>1. \A p \in Places : got[p] \in Nat /\ Times(p) \in Nat
    BY TimesNat DEF ReaderInv, TypeOK
  <2>2. \A p \in Places : got[p] + Times(p) \in Nat
    BY <2>1
  <2>3. (todo' = todo \/ todo' = todo \ {job.first})
        /\ (got' = got \/ got' = [p \in Places |-> got[p] + Times(p)])
    BY DEF Receive
  <2> QED BY <2>2, <2>3 DEF ReaderInv, TypeOK
<1>4. offset' \in Nat /\ read' \subseteq Nat
  <2>1. {n \in 0..(Rows(0) - 1) : Times(<<0, n>>) > 0} \subseteq Nat
    OBVIOUS
  <2>2. \/ read' = read
        \/ read' = read \cup {n \in 0..(Rows(0) - 1) : Times(<<0, n>>) > 0}
    BY DEF Receive
  <2>3. offset' = offset \/ offset' = offset + MaxResults
    BY DEF Receive
  <2>4. read \subseteq Nat /\ offset \in Nat
    BY DEF ReaderInv, TypeOK
  <2>5. read' \subseteq Nat
    BY <2>1, <2>2, <2>4, Zenon
  <2> QED BY <2>3, <2>4, <2>5, StreamConstants
<1>5. TypeOK'
  BY <1>1, <1>2, <1>3, <1>4 DEF ReaderInv, TypeOK
<1>6. Waiting' /\ Streaming' /\ InPlace'
  BY <1>2 DEF Waiting, Streaming, InPlace
<1> QED BY <1>5, <1>6 DEF ReaderInv

\* No step disturbs it.
LEMMA ReaderStep == ReaderInv /\ [Next]_vars => ReaderInv'
<1> SUFFICES ASSUME ReaderInv, [Next]_vars PROVE ReaderInv'
  OBVIOUS
<1>1. CASE Next
  BY <1>1, ReaderChunk, ReaderWindow, ReaderSheetStart, ReaderBatchRow, ReaderSheetComplete,
     ReaderComplete, ReaderWindowData, ReaderFail, ReaderReceive DEF Next, Write
<1>2. CASE UNCHANGED vars
  <2>1. UNCHANGED <<setup, book, count, size, todo, got, offset, read, job, place, sheet, row, batch, out>>
    BY <1>2 DEF vars, setup, clientVars, readerVars
  <2>2. Starts' = Starts /\ Places' = Places /\ Sheets' = Sheets /\ \A s : Rows(s)' = Rows(s)
    BY <2>1, SameBook
  <2>3. TypeOK'
    BY <2>1, <2>2 DEF ReaderInv, TypeOK
  <2>4. Waiting' /\ Streaming' /\ InPlace'
    BY <2>1, <2>2 DEF ReaderInv, Waiting, Streaming, InPlace
  <2> QED BY <2>3, <2>4 DEF ReaderInv
<1> QED BY <1>1, <1>2

\* The invariant of the reader holds at every moment.
LEMMA ReaderAlways == Spec => []ReaderInv
BY ReaderInit, ReaderStep, PTL DEF Spec

\* Chunks, windows, readers and clients stay what they are.
THEOREM StreamTypeCorrect == Spec => []TypeOK
<1>1. ReaderInv => TypeOK
  BY DEF ReaderInv
<1> QED BY <1>1, ReaderAlways, PTL

\* Whatever a record brings is the row its start row and position say: the start of a
\* batch is computed from rows that are all in it, whatever the sizes of batches.
THEOREM RowsInPlace == Spec => []InPlace
<1>1. ReaderInv => InPlace
  BY DEF ReaderInv
<1> QED BY <1>1, ReaderAlways, PTL
-----------------------------------------------------------------------------
(***************************************************************************)
(* What the records of a chunk bring.                                      *)
(***************************************************************************)
Carries(r, p) ==
  r.type = "rows" /\ r.sheet = p[1] /\ \E j \in DOMAIN r.rows : r.start + j - 1 = p[2]

Brought(p) == \E k \in DOMAIN out : Brings(k, p)
Once(p)    == \A k, l \in DOMAIN out : Brings(k, p) /\ Brings(l, p) => k = l

\* The rows before p in its sheet have been brought if p has.
First(p) == Brought(p) => \A n \in 0..p[2] : Brought(<<p[1], n>>)

\* The sheets the reader has left, and what has been sent of the one it is at.
Behind(p) == job.first <= p[1] /\ p[1] < sheet
Sent(p)   == Behind(p) \/ (p[1] = sheet /\ p[2] < row - Len(batch))

\* The chunk is one the client has not got yet, with the bounds it was given.
Asked == place # "idle" /\ job \in Chunks => job.first \in todo /\ job.last = Last(job.first)

OnceEach == place # "idle" /\ job \in Chunks => \A p \in Places : Once(p)

Gapless == place = "ended" /\ job \in Chunks => \A p \in Places : First(p)

Front ==
  /\ place = "sheets" => /\ sheet <= job.last + 1
                         /\ \A p \in Places : Brought(p) <=> Behind(p)
  /\ place = "rows" => /\ sheet <= job.last
                       /\ row = Rows(sheet) => batch = <<>>
                       /\ \A p \in Places : Brought(p) <=> Sent(p)

Finished ==
  Whole("complete") =>
    /\ place = "ended" /\ job \in Chunks
    /\ \A p \in Places : Brought(p) <=> job.first <= p[1] /\ p[1] <= job.last

ChunkInv == Asked /\ OnceEach /\ Gapless /\ Front /\ Finished

\* What a place is.
LEMMA PlaceIs ==
  ASSUME book \in Workbooks, NEW p \in Places
  PROVE  /\ p[1] \in Sheets /\ p[1] \in Nat /\ p[1] < Len(book) /\ Len(book) \in Nat
         /\ Rows(p[1]) \in Nat /\ p[2] \in Nat /\ p[2] < Rows(p[1])
         /\ \A n \in 0..p[2] : <<p[1], n>> \in Places
<1>1. PICK s \in Sheets : p \in {s} \X (0..(Rows(s) - 1))
  BY DEF Places
<1>2. p[1] = s /\ p[2] \in 0..(Rows(s) - 1)
  BY <1>1
<1>3. s \in Nat /\ s < Len(book) /\ Len(book) \in Nat /\ Rows(s) \in Nat
  BY <1>1, RowsNat DEF Sheets
<1>4. ASSUME NEW n \in 0..p[2] PROVE <<p[1], n>> \in Places
  <2>1. n \in 0..(Rows(s) - 1)
    BY <1>2, <1>3
  <2>2. <<p[1], n>> \in {s} \X (0..(Rows(s) - 1))
    BY <1>2, <2>1
  <2> QED BY <1>1, <2>2 DEF Places
<1> QED BY <1>1, <1>2, <1>3, <1>4

\* A row that each record brings at most once.
LEMMA TimesOnce ==
  ASSUME out \in Seq(Records), NEW p, Once(p)
  PROVE  Times(p) \in {0, 1} /\ (Times(p) = 1 <=> Brought(p))
<1>1. /\ Times(p) \in Nat
      /\ Times(p) = 0 <=> \A k \in DOMAIN out : ~ Brings(k, p)
      /\ Times(p) <= 1
  BY TimesNat DEF Once
<1>2. Times(p) \in {0, 1}
  BY <1>1
<1> QED BY <1>1, <1>2 DEF Brought

\* A record more brings what it carries.
LEMMA SentBrings ==
  ASSUME out \in Seq(Records), NEW r \in Records, Send(r)
  PROVE  /\ \A p : Brought(p)' <=> Brought(p) \/ Carries(r, p)
         /\ \A p : Once(p) /\ ~ (Brought(p) /\ Carries(r, p)) => Once(p)'
         /\ \A t : Whole(t)' <=> r.type = t
<1>1. /\ out' = Append(out, r) /\ out' \in Seq(Records) /\ out' # <<>>
      /\ DOMAIN out' = 1..(Len(out) + 1) /\ DOMAIN out = 1..Len(out) /\ Len(out) \in Nat
      /\ Len(out') = Len(out) + 1
      /\ \A k \in 1..Len(out) : out'[k] = out[k]
      /\ out'[Len(out) + 1] = r
  BY Appended DEF Send
<1>2. \A k : k \in DOMAIN out' <=> k \in DOMAIN out \/ k = Len(out) + 1
  BY <1>1
<1>3. \A k, p : /\ Brings(k, p)' <=> Carries(out'[k], p)
                /\ Brings(k, p) <=> Carries(out[k], p)
  BY DEF Brings, Carries
<1>4. \A p : \A k \in DOMAIN out : Brings(k, p)' <=> Brings(k, p)
  BY <1>1, <1>3
<1>5. \A p, k : k = Len(out) + 1 => (Brings(k, p)' <=> Carries(r, p))
  BY <1>1, <1>3
<1>6. ASSUME NEW p PROVE Brought(p)' <=> Brought(p) \/ Carries(r, p)
  <2>1. Brought(p)' <=> \E k \in DOMAIN out' : Brings(k, p)'
    BY DEF Brought
  <2>2. Brought(p) <=> \E k \in DOMAIN out : Brings(k, p)
    BY DEF Brought
  <2> QED BY <1>2, <1>4, <1>5, <2>1, <2>2
<1>7. ASSUME NEW p, Once(p), ~ (Brought(p) /\ Carries(r, p)) PROVE Once(p)'
  <2>1. SUFFICES ASSUME NEW k \in DOMAIN out', NEW l \in DOMAIN out', Brings(k, p)', Brings(l, p)'
                 PROVE  k = l
    BY DEF Once
  <2>2. CASE k \in DOMAIN out /\ l \in DOMAIN out
    BY <1>4, <1>7, <2>1, <2>2 DEF Once
  <2>3. CASE k = Len(out) + 1 /\ l = Len(out) + 1
    BY <2>3
  <2>4. ASSUME NEW m \in DOMAIN out, Brings(m, p)', NEW n, n = Len(out) + 1, Brings(n, p)' PROVE FALSE
    BY <1>4, <1>5, <1>7, <2>4 DEF Brought
  <2> QED BY <1>2, <2>1, <2>2, <2>3, <2>4
<1>8. ASSUME NEW t PROVE Whole(t)' <=> r.type = t
  <2>1. out'[Len(out')] = r
    BY <1>1
  <2> QED BY <1>1, <2>1 DEF Whole
<1> QED BY <1>6, <1>7, <1>8

\* A mark brings nothing.
LEMMA MarkSent ==
  ASSUME out \in Seq(Records), NEW r \in Records, Send(r), r.type # "rows"
  PROVE  /\ \A p : Brought(p)' <=> Brought(p)
         /\ \A p : Once(p) => Once(p)'
         /\ \A t : Whole(t)' <=> r.type = t
<1>1. \A p : ~ Carries(r, p)
  BY DEF Carries
<1> QED BY <1>1, SentBrings

\* While its sheets are read, a stream has brought what lies before the reader.
LEMMA FrontFirst ==
  ASSUME TypeOK, Waiting, Streaming, Front, place \in {"sheets", "rows"}, NEW p \in Places
  PROVE  First(p)
<1>1. SUFFICES ASSUME Brought(p), NEW n \in 0..p[2] PROVE Brought(<<p[1], n>>)
  BY DEF First
<1>2. /\ p[1] \in Nat /\ p[2] \in Nat /\ <<p[1], n>> \in Places
      /\ n \in Nat /\ n <= p[2]
  BY PlaceIs DEF TypeOK
<1>3. <<p[1], n>>[1] = p[1] /\ <<p[1], n>>[2] = n
  OBVIOUS
<1> DEFINE q == <<p[1], n>>
<1>4. q \in Places /\ q[1] = p[1] /\ q[2] = n
  BY <1>2, <1>3
<1> HIDE DEF q
<1>5. Brought(q)
  <2>1. CASE place = "sheets"
    BY <1>1, <1>4, <2>1 DEF Front, Behind
  <2>2. CASE place = "rows"
    <3>1. row \in Nat /\ Len(batch) \in Nat
      BY DEF TypeOK
    <3>2. Sent(p)
      BY <1>1, <2>2 DEF Front
    <3>3. Sent(q)
      BY <1>2, <1>4, <3>1, <3>2 DEF Sent, Behind
    <3> QED BY <1>4, <2>2, <3>3 DEF Front
  <2> QED BY <2>1, <2>2
<1> QED BY <1>5 DEF q
\* What has been brought is what the records bring.
LEMMA Unsent ==
  ASSUME out' = out
  PROVE  /\ \A p : Brought(p)' <=> Brought(p)
         /\ \A p : Once(p)' <=> Once(p)
         /\ \A t : Whole(t)' <=> Whole(t)
BY DEF Brought, Once, Whole, Brings

\* An empty stream has brought nothing.
LEMMA NothingSent ==
  ASSUME out = <<>>
  PROVE  /\ \A p : ~ Brought(p) /\ Once(p)
         /\ \A t : ~ Whole(t)
BY DEF Brought, Once, Whole

\* With the workbook, the bounds of its chunks stay.
LEMMA SameSetup ==
  ASSUME UNCHANGED setup
  PROVE  /\ book' = book /\ count' = count /\ size' = size
         /\ Starts' = Starts /\ Places' = Places /\ Sheets' = Sheets
         /\ \A n : Rows(n)' = Rows(n)
         /\ \A n : Last(n)' = Last(n)
BY SameBook DEF Last
-----------------------------------------------------------------------------
\* At first no chunk is read.
LEMMA ChunkInit == Init => ChunkInv
<1> SUFFICES ASSUME Init PROVE ChunkInv
  OBVIOUS
<1>1. out = <<>> /\ place = "idle"
  BY DEF Init
<1> QED BY <1>1, NothingSent DEF ChunkInv, Asked, OnceEach, Gapless, Front, Finished

\* A chunk that begins is at the front of its first sheet.
LEMMA ChunkBegun ==
  ASSUME ReaderInv, NEW first \in todo, StreamChunk(first)
  PROVE  ChunkInv'
<1>1. /\ book' = book /\ count' = count /\ size' = size
      /\ Starts' = Starts /\ Places' = Places /\ Sheets' = Sheets
      /\ \A n : Rows(n)' = Rows(n)
      /\ \A n : Last(n)' = Last(n)
  BY SameSetup DEF StreamChunk
<1>2. /\ first \in Starts /\ first \in Nat /\ Last(first) \in Nat /\ first <= Last(first)
  BY ChunkOfStart DEF ReaderInv, TypeOK
<1>3. out = <<>> /\ out \in Seq(Records)
  BY DEF StreamChunk, ReaderInv, Streaming
<1>4. /\ todo' = todo /\ job'.first = first /\ job'.last = Last(first)
      /\ sheet' = first /\ place' \in {"sheets", "ended"} /\ job' \in Chunks
  BY ChunkOfStart DEF StreamChunk, clientVars, ReaderInv, TypeOK
<1>5. /\ \A p : ~ Brought(p)' /\ Once(p)'
      /\ ~ Whole("complete")'
  <2>1. CASE out' = out
    BY <1>3, <2>1, Unsent, NothingSent
  <2>2. CASE Send([type |-> "metadata"])
    BY <1>3, <2>2, MarkSent, NothingSent, RecordsOfMarks
  <2> QED BY <1>3, <2>1, <2>2 DEF StreamChunk, Send
<1>6. Asked' /\ OnceEach' /\ Gapless' /\ Finished'
  BY <1>1, <1>4, <1>5 DEF Asked, OnceEach, Gapless, Finished, First
<1>7. Front'
  <2>1. \A p \in Places : p[1] \in Nat
    BY PlaceIs DEF ReaderInv, TypeOK
  <2>2. \A p \in Places : ~ Behind(p)'
    BY <1>2, <1>4, <2>1 DEF Behind
  <2> QED BY <1>1, <1>2, <1>4, <1>5, <2>2 DEF Front
<1> QED BY <1>6, <1>7 DEF ChunkInv

\* A header brings no row and moves the front past nothing.
LEMMA ChunkSheetStart == ASSUME ReaderInv, ChunkInv, SheetStart PROVE ChunkInv'
<1>1. /\ book' = book /\ count' = count /\ size' = size
      /\ Starts' = Starts /\ Places' = Places /\ Sheets' = Sheets
      /\ \A n : Rows(n)' = Rows(n)
      /\ \A n : Last(n)' = Last(n)
  BY SameSetup DEF SheetStart
<1>2. sheet \in Sheets /\ sheet \in Nat /\ Rows(sheet) \in Nat
  BY RowsNat DEF SheetStart, MoreSheets, ReaderInv, TypeOK, Sheets
<1>3. /\ place = "sheets" /\ place' = "rows" /\ job' = job /\ job \in Chunks /\ todo' = todo
      /\ sheet' = sheet /\ row' = 0 /\ batch' = <<>> /\ sheet <= job.last
  BY DEF SheetStart, MoreSheets, ReaderInv, Streaming, clientVars
<1>4. /\ \A p : Brought(p)' <=> Brought(p)
      /\ \A p : Once(p) => Once(p)'
      /\ ~ Whole("complete")'
  BY <1>2, MarkSent, RecordsOfMarks DEF SheetStart, ReaderInv, TypeOK
<1>5. Asked' /\ OnceEach' /\ Gapless' /\ Finished'
  BY <1>1, <1>3, <1>4 DEF ChunkInv, Asked, OnceEach, Gapless, Finished
<1>6. Front'
  <2>1. \A p \in Places : p[2] \in Nat
    BY PlaceIs DEF ReaderInv, TypeOK
  <2>2. \A p \in Places : Sent(p)' <=> Behind(p)
    BY <1>3, <2>1 DEF Sent, Behind
  <2> QED BY <1>1, <1>3, <1>4, <2>2 DEF ChunkInv, Front
<1> QED BY <1>5, <1>6 DEF ChunkInv

\* The end of a sheet moves the front to the next one's first row.
LEMMA ChunkSheetComplete == ASSUME ReaderInv, ChunkInv, SheetComplete PROVE ChunkInv'
<1>1. /\ book' = book /\ count' = count /\ size' = size
      /\ Starts' = Starts /\ Places' = Places /\ Sheets' = Sheets
      /\ \A n : Rows(n)' = Rows(n)
      /\ \A n : Last(n)' = Last(n)
  BY SameSetup DEF SheetComplete
<1>2. /\ sheet \in Sheets /\ sheet \in Nat /\ Rows(sheet) \in Nat /\ row \in Nat
      /\ row = Rows(sheet)
  BY RowsNat DEF SheetComplete, ReaderInv, TypeOK, Waiting
<1>3. /\ place = "rows" /\ place' = "sheets" /\ job' = job /\ job \in Chunks /\ todo' = todo
      /\ job.first \in Nat /\ job.last \in Nat /\ job.first <= sheet
      /\ sheet' = sheet + 1 /\ sheet <= job.last /\ batch = <<>>
  BY <1>2 DEF SheetComplete, ReaderInv, Streaming, clientVars, Chunks, ChunkInv, Front
<1>4. /\ \A p : Brought(p)' <=> Brought(p)
      /\ \A p : Once(p) => Once(p)'
      /\ ~ Whole("complete")'
  BY <1>2, MarkSent, RecordsOfMarks DEF SheetComplete, ReaderInv, TypeOK
<1>5. Asked' /\ OnceEach' /\ Gapless' /\ Finished'
  BY <1>1, <1>3, <1>4 DEF ChunkInv, Asked, OnceEach, Gapless, Finished
<1>6. Front'
  <2>1. ASSUME NEW p \in Places PROVE Behind(p)' <=> Sent(p)
    <3>1. p[1] \in Nat /\ p[2] \in Nat /\ p[2] < Rows(p[1])
      BY PlaceIs DEF ReaderInv, TypeOK
    <3> QED BY <1>2, <1>3, <3>1 DEF Behind, Sent
  <2> QED BY <1>1, <1>2, <1>3, <1>4, <2>1 DEF ChunkInv, Front
<1> QED BY <1>5, <1>6 DEF ChunkInv

\* Once a chunk is complete every row of its sheets was brought.
LEMMA ChunkComplete == ASSUME ReaderInv, ChunkInv, Complete PROVE ChunkInv'
<1>1. /\ book' = book /\ count' = count /\ size' = size
      /\ Starts' = Starts /\ Places' = Places /\ Sheets' = Sheets
      /\ \A n : Rows(n)' = Rows(n)
      /\ \A n : Last(n)' = Last(n)
  BY SameSetup DEF Complete
<1>2. /\ place = "sheets" /\ place' = "ended" /\ job' = job /\ job \in Chunks /\ todo' = todo
      /\ job.first \in Nat /\ job.last \in Nat /\ job.first <= sheet /\ sheet \in Nat
      /\ sheet <= job.last + 1 /\ ~ (sheet <= job.last /\ sheet < Len(book))
  BY DEF Complete, ReaderInv, TypeOK, Streaming, clientVars, Chunks, ChunkInv, Front, MoreSheets
<1>3. /\ \A p : Brought(p)' <=> Brought(p)
      /\ \A p : Once(p) => Once(p)'
  BY MarkSent, RecordsOfMarks DEF Complete, ReaderInv, TypeOK
<1>4. Asked' /\ OnceEach' /\ Front'
  BY <1>1, <1>2, <1>3 DEF ChunkInv, Asked, OnceEach, Front
<1>5. Gapless'
  <2>1. \A p \in Places : First(p)
    BY <1>2, FrontFirst DEF ReaderInv, ChunkInv
  <2>2. \A p \in Places : First(p)'
    BY <1>3, <2>1 DEF First
  <2> QED BY <1>1, <2>2 DEF Gapless
<1>6. Finished'
  <2>1. ASSUME NEW p \in Places
        PROVE  Behind(p) <=> job.first <= p[1] /\ p[1] <= job.last
    <3>1. p[1] \in Nat /\ p[1] < Len(book) /\ Len(book) \in Nat
      BY PlaceIs DEF ReaderInv, TypeOK
    <3> QED BY <1>2, <3>1 DEF Behind
  <2> QED BY <1>1, <1>2, <1>3, <2>1 DEF ChunkInv, Front, Finished
<1> QED BY <1>4, <1>5, <1>6 DEF ChunkInv

\* A stream that breaks has brought a first part of its chunk.
LEMMA ChunkFail == ASSUME ReaderInv, ChunkInv, Fail PROVE ChunkInv'
<1>1. /\ book' = book /\ count' = count /\ size' = size
      /\ Starts' = Starts /\ Places' = Places /\ Sheets' = Sheets
      /\ \A n : Rows(n)' = Rows(n)
      /\ \A n : Last(n)' = Last(n)
  BY SameSetup DEF Fail
<1>2. /\ place \in {"sheets", "rows", "window"} /\ place' = "ended" /\ job' = job /\ todo' = todo
      /\ out' = out
  BY DEF Fail, clientVars
<1>3. Asked' /\ OnceEach' /\ Front' /\ Finished'
  BY <1>1, <1>2, Unsent DEF ChunkInv, Asked, OnceEach, Front, Finished
<1>4. Gapless'
  <2>1. SUFFICES ASSUME job \in Chunks, NEW p \in Places PROVE First(p)'
    BY <1>1, <1>2 DEF Gapless
  <2>2. place \in {"sheets", "rows"}
    BY <1>2, <2>1 DEF ReaderInv, Waiting
  <2>3. First(p)
    BY <2>2, FrontFirst DEF ReaderInv, ChunkInv
  <2> QED BY <1>2, <2>3, Unsent DEF First
<1> QED BY <1>3, <1>4 DEF ChunkInv

\* Nothing is said of a reader that is idle.
LEMMA ChunkReceive == ASSUME Receive PROVE ChunkInv'
<1>1. out' = <<>> /\ place' = "idle"
  BY DEF Receive
<1>2. ~ Whole("complete")'
  BY <1>1 DEF Whole
<1> QED BY <1>1, <1>2 DEF ChunkInv, Asked, OnceEach, Gapless, Front, Finished

\* A row that is read is sent with those that wait, or waits with them.
LEMMA ChunkBatchRow == ASSUME ReaderInv, ChunkInv, BatchRow PROVE ChunkInv'
<1> DEFINE filled == Append(batch, <<sheet, row>>)
           record == [type |-> "rows", sheet |-> sheet, start |-> BatchStart(filled), rows |-> filled]
<1>1. /\ book' = book /\ count' = count /\ size' = size
      /\ Starts' = Starts /\ Places' = Places /\ Sheets' = Sheets
      /\ \A n : Rows(n)' = Rows(n)
      /\ \A n : Last(n)' = Last(n)
  BY SameSetup DEF BatchRow
<1>2. /\ sheet \in Sheets /\ sheet \in Nat /\ Rows(sheet) \in Nat
      /\ row \in Nat /\ row < Rows(sheet)
      /\ Len(batch) \in Nat /\ Len(batch) <= row
      /\ batch \in Seq(Nat \X Nat)
  BY RowsNat DEF BatchRow, ReaderInv, TypeOK, Waiting
<1>3. /\ filled \in Seq(Nat \X Nat) /\ Len(filled) = Len(batch) + 1
      /\ DOMAIN filled = 1..(Len(batch) + 1)
  <2> DEFINE S == Nat \X Nat
             x == <<sheet, row>>
  <2>1. x \in S /\ batch \in Seq(S)
    BY <1>2
  <2> HIDE DEF S, x
  <2>2. /\ Append(batch, x) \in Seq(S) /\ Len(Append(batch, x)) = Len(batch) + 1
        /\ DOMAIN Append(batch, x) = 1..(Len(batch) + 1)
    BY <2>1, Appended
  <2> QED BY <2>2 DEF S, x
<1>4. BatchStart(filled) = row - Len(batch) /\ BatchStart(filled) \in Nat
  BY <1>2, <1>3 DEF BatchStart
<1>5. record \in Records
  BY <1>2, <1>3, <1>4, RecordsOfRows
<1>6. /\ row' = row + 1 /\ sheet' = sheet /\ job' = job /\ place' = "rows" /\ place = "rows"
      /\ todo' = todo /\ job \in Chunks /\ job.first \in Nat /\ job.first <= sheet
  BY DEF BatchRow, clientVars, ReaderInv, Streaming, Chunks
<1>7. \/ Send(record) /\ batch' = <<>>
      \/ out' = out /\ batch' = filled /\ row # Rows(sheet) - 1
  BY DEF BatchRow, Emptied, BatchReady
<1>8. record.type = "rows" /\ record.sheet = sheet /\ record.start = row - Len(batch) /\ record.rows = filled
  BY <1>4
<1> HIDE DEF filled, record
<1>9. \A p \in Places : p[1] \in Nat /\ p[2] \in Nat
  BY PlaceIs DEF ReaderInv, TypeOK
<1>10. ASSUME NEW p \in Places
       PROVE  Carries(record, p) <=> p[1] = sheet /\ row - Len(batch) <= p[2] /\ p[2] < row + 1
  <2>1. p[2] \in Nat
    BY <1>9
  <2>2. ASSUME row - Len(batch) <= p[2], p[2] < row + 1
        PROVE  \E j \in DOMAIN filled : row - Len(batch) + j - 1 = p[2]
    <3> DEFINE j == p[2] - (row - Len(batch)) + 1
    <3>1. j \in 1..(Len(batch) + 1) /\ row - Len(batch) + j - 1 = p[2]
      BY <1>2, <2>1, <2>2
    <3> HIDE DEF j
    <3> QED BY <1>3, <3>1
  <2>3. ASSUME NEW j \in DOMAIN filled, row - Len(batch) + j - 1 = p[2]
        PROVE  row - Len(batch) <= p[2] /\ p[2] < row + 1
    <3>1. j \in 1..(Len(batch) + 1)
      BY <1>3
    <3> QED BY <1>2, <2>3, <3>1
  <2> QED BY <1>8, <2>2, <2>3 DEF Carries
<1>11. CASE Send(record) /\ batch' = <<>>
  <2>1. /\ \A p : Brought(p)' <=> Brought(p) \/ Carries(record, p)
        /\ \A p : Once(p) /\ ~ (Brought(p) /\ Carries(record, p)) => Once(p)'
        /\ ~ Whole("complete")'
    BY <1>5, <1>8, <1>11, SentBrings DEF ReaderInv, TypeOK
  <2>2. Asked' /\ Gapless' /\ Finished'
    BY <1>1, <1>6, <2>1 DEF ChunkInv, Asked, Gapless, Finished
  <2>3. \A p \in Places : Brought(p) <=> Sent(p)
    BY <1>6 DEF ChunkInv, Front
  <2>4. OnceEach'
    <3>1. ASSUME NEW p \in Places PROVE ~ (Sent(p) /\ Carries(record, p))
      BY <1>2, <1>9, <1>10 DEF Sent, Behind
    <3>2. \A p \in Places : Once(p)
      BY <1>6 DEF ChunkInv, OnceEach
    <3> QED BY <1>1, <2>1, <2>3, <3>1, <3>2 DEF OnceEach
  <2>5. Front'
    <3>1. ASSUME NEW p \in Places PROVE Sent(p)' <=> Sent(p) \/ Carries(record, p)
      <4>1. Len(batch') = 0
        BY <1>11
      <4> QED BY <1>2, <1>6, <1>9, <1>10, <4>1 DEF Sent, Behind
    <3> QED BY <1>1, <1>6, <1>11, <2>1, <2>3, <3>1 DEF ChunkInv, Front
  <2> QED BY <2>2, <2>4, <2>5 DEF ChunkInv
<1>12. CASE out' = out /\ batch' = filled /\ row # Rows(sheet) - 1
  <2>1. Asked' /\ OnceEach' /\ Gapless' /\ Finished'
    BY <1>1, <1>6, <1>12, Unsent DEF ChunkInv, Asked, OnceEach, Gapless, Finished
  <2>2. Front'
    <3>1. ASSUME NEW p \in Places PROVE Sent(p)' <=> Sent(p)
      <4>1. Len(batch') = Len(batch) + 1
        BY <1>3, <1>12
      <4>2. row' - Len(batch') = row - Len(batch)
        BY <1>2, <1>6, <4>1
      <4> QED BY <1>6, <4>2 DEF Sent, Behind
    <3>2. row' # Rows(sheet)
      BY <1>2, <1>6, <1>12
    <3> QED BY <1>1, <1>6, <1>12, <3>1, <3>2, Unsent DEF ChunkInv, Front
  <2> QED BY <2>1, <2>2 DEF ChunkInv
<1> QED BY <1>7, <1>11, <1>12

\* Windows are no chunks.
LEMMA ChunkWindow ==
  ASSUME ReaderInv, ChunkInv, StreamWindow \/ WindowData \/ WindowComplete
  PROVE  ChunkInv'
<1>1. job' \notin Chunks
  <2>1. CASE StreamWindow
    BY <2>1, WindowsNoChunks DEF StreamWindow, ReaderInv, TypeOK
  <2>2. CASE WindowData \/ WindowComplete
    BY <2>2 DEF WindowData, WindowComplete, ReaderInv, Waiting
  <2> QED BY <2>1, <2>2
<1>2. place' \in {"window", "ended"}
  BY DEF StreamWindow, WindowData, WindowComplete
<1>3. ~ Whole("complete")'
  <2>1. CASE StreamWindow
    <3>1. out = <<>>
      BY <2>1 DEF StreamWindow, ReaderInv, Streaming
    <3>2. CASE out' = out
      BY <3>1, <3>2, NothingSent, Unsent
    <3>3. CASE out' = <<[type |-> "window_start", total |-> Len(batch')]>>
      BY <3>3 DEF Whole
    <3> QED BY <2>1, <3>2, <3>3 DEF StreamWindow
  <2>2. ASSUME NEW r, out' = Append(out, r), r.type # "complete", out \in Seq(Records), out' \in Seq(Records)
        PROVE  ~ Whole("complete")'
    <3>1. Len(out') = Len(out) + 1 /\ out'[Len(out) + 1] = r
      BY <2>2
    <3> QED BY <2>2, <3>1 DEF Whole
  <2>3. out' \in Seq(Records) /\ out \in Seq(Records)
    BY ReaderWindow, ReaderWindowData, ReaderComplete DEF ReaderInv, TypeOK
  <2>4. CASE WindowData \/ WindowComplete
    BY <2>2, <2>3, <2>4 DEF WindowData, WindowComplete, Send
  <2> QED BY <2>1, <2>4
<1> QED BY <1>1, <1>2, <1>3 DEF ChunkInv, Asked, OnceEach, Gapless, Front, Finished

\* No step loses or repeats a row of the chunk that is read.
LEMMA ChunkStep == ReaderInv /\ ChunkInv /\ [Next]_vars => ChunkInv'
<1> SUFFICES ASSUME ReaderInv, ChunkInv, [Next]_vars PROVE ChunkInv'
  OBVIOUS
<1>1. CASE Next
  BY <1>1, ChunkBegun, ChunkWindow, ChunkSheetStart, ChunkBatchRow, ChunkSheetComplete,
     ChunkComplete, ChunkFail, ChunkReceive DEF Next, Write
<1>2. CASE UNCHANGED vars
  <2>1. UNCHANGED <<setup, todo, job, place, sheet, row, batch, out>>
    BY <1>2 DEF vars, clientVars, readerVars
  <2>2. /\ Places' = Places
        /\ \A n : Rows(n)' = Rows(n)
        /\ \A n : Last(n)' = Last(n)
    BY <2>1, SameSetup
  <2>3. \A p : (Behind(p)' <=> Behind(p)) /\ (Sent(p)' <=> Sent(p)) /\ (First(p)' <=> First(p))
    BY <2>1, Unsent DEF Behind, Sent, First
  <2> QED BY <2>1, <2>2, <2>3, Unsent DEF ChunkInv, Asked, OnceEach, Gapless, Front, Finished
<1> QED BY <1>1, <1>2

\* What is known of a chunk in the middle of its stream holds at every moment.
LEMMA ChunkAlways == Spec => [](ReaderInv /\ ChunkInv)
<1>1. Init => ReaderInv /\ ChunkInv
  BY ReaderInit, ChunkInit
<1>2. ReaderInv /\ ChunkInv /\ [Next]_vars => (ReaderInv /\ ChunkInv)'
  BY ReaderStep, ChunkStep
<1> QED BY <1>1, <1>2, PTL DEF Spec

\* A stream that breaks is good as far as it came: of every sheet it brought a first
\* part without gaps, each row once, for sheets and batches of any length.
THEOREM StreamsWithoutGaps == Spec => []NoGaps
<1>1. ReaderInv /\ ChunkInv => NoGaps
  <2> SUFFICES ASSUME ReaderInv, ChunkInv, place \in {"sheets", "rows", "ended"}, job \in Chunks,
                      NEW p \in Places
               PROVE  Times(p) <= 1 /\ (Times(p) = 1 => \A n \in 0..p[2] : Times(<<p[1], n>>) = 1)
    BY DEF NoGaps
  <2>1. \A q \in Places : Times(q) \in {0, 1} /\ (Times(q) = 1 <=> Brought(q))
    BY TimesOnce DEF ReaderInv, TypeOK, ChunkInv, OnceEach
  <2>2. First(p)
    <3>1. CASE place = "ended"
      BY <3>1 DEF ChunkInv, Gapless
    <3>2. CASE place \in {"sheets", "rows"}
      BY <3>2, FrontFirst DEF ReaderInv, ChunkInv
    <3> QED BY <3>1, <3>2
  <2>3. \A n \in 0..p[2] : <<p[1], n>> \in Places
    BY PlaceIs DEF ReaderInv, TypeOK
  <2> QED BY <2>1, <2>2, <2>3 DEF First
<1> QED BY <1>1, ChunkAlways, PTL
-----------------------------------------------------------------------------
\* The first sheet of a place's chunk; whether its rows are still to come or never will.
Chunk(p)   == p[1] - (p[1] % size)
Pending(p) == p[1] >= count \/ Chunk(p) \in todo

\* The chunk a sheet is in starts at a multiple of the chunk size, the only one that is
\* not after the sheet and less than a chunk before it.
LEMMA StartOf ==
  ASSUME NEW i \in Nat, NEW c \in Nat \ {0}
  PROVE  i - (i % c) \in 0..i /\ (i - (i % c)) % c = 0
<1>1. i % c \in 0..(c - 1) /\ i \div c \in Int /\ i = c * (i \div c) + (i % c)
  BY Z3
<1>2. i % c <= i
  BY <1>1
<1>3. i - (i % c) = c * (i \div c)
  BY <1>1
<1>4. (c * (i \div c)) % c = 0
  BY <1>1, SMTT(30)
<1> QED BY <1>1, <1>2, <1>3, <1>4

\* The only multiple of c in the c numbers up to i is i without its remainder.
LEMMA OneStart ==
  ASSUME NEW i \in Nat, NEW c \in Nat \ {0}, NEW o \in Nat, o % c = 0, o <= i, i < o + c
  PROVE  i - (i % c) = o
OBVIOUS

\* A sheet there was belongs to one chunk.
LEMMA OneChunk ==
  ASSUME TypeOK, NEW p \in Places, NEW first \in Starts
  PROVE  first <= p[1] /\ p[1] <= Last(first) <=> p[1] < count /\ Chunk(p) = first
<1>1. /\ p[1] \in Nat /\ size \in Nat \ {0} /\ count \in Nat
      /\ first \in Nat /\ first % size = 0 /\ first < count
  BY PlaceIs, StreamConstants DEF TypeOK, Starts
<1> DEFINE s == p[1]
<1>2. ASSUME first <= s, s <= Last(first) PROVE s < count /\ s - (s % size) = first
  <2>1. s < count /\ s < first + size
    BY <1>1, <1>2 DEF Last
  <2> QED BY <1>1, <1>2, <2>1, OneStart
<1>3. ASSUME s < count, s - (s % size) = first PROVE first <= s /\ s <= Last(first)
  <2>1. s % size \in 0..(size - 1)
    BY <1>1
  <2> QED BY <1>1, <1>3, <2>1 DEF Last
<1> QED BY <1>2, <1>3 DEF Chunk

\* At first nothing was got and everything is to do.
LEMMA ExactInit == Init => ChunksExact
<1> SUFFICES ASSUME Init, NEW p \in Places
             PROVE  got[p] = IF p[1] >= count \/ p[1] - (p[1] % size) \in todo THEN 0 ELSE 1
  BY DEF ChunksExact
<1>1. book \in Workbooks /\ size \in Nat \ {0} /\ count \in Nat /\ todo = Starts /\ got[p] = 0
  BY StreamConstants DEF Init
<1>2. p[1] \in Nat
  BY <1>1, PlaceIs
<1>3. p[1] < count => p[1] - (p[1] % size) \in Starts
  <2> DEFINE o == p[1] - (p[1] % size)
  <2>1. o \in 0..p[1] /\ o % size = 0
    BY <1>1, <1>2, StartOf
  <2> HIDE DEF o
  <2>2. p[1] < count => o \in Starts
    BY <1>1, <1>2, <2>1 DEF Starts
  <2> QED BY <2>2 DEF o
<1> QED BY <1>1, <1>2, <1>3

\* A chunk is counted when it is complete, and is no one's to do any more.
LEMMA ExactReceive == ASSUME ReaderInv, ChunkInv, ChunksExact, Receive PROVE ChunksExact'
<1>1. book' = book /\ count' = count /\ size' = size /\ Places' = Places
  BY SameSetup DEF Receive
<1>2. \A p : Pending(p) <=> p[1] >= count \/ p[1] - (p[1] % size) \in todo
  BY DEF Pending, Chunk
<1>3. \A p \in Places : got[p] = IF Pending(p) THEN 0 ELSE 1
  BY <1>2 DEF ChunksExact
<1>4. \A p : Pending(p)' <=> p[1] >= count \/ Chunk(p) \in todo'
  BY <1>1 DEF Pending, Chunk
<1>5. ASSUME NEW p \in Places PROVE got'[p] = IF Pending(p)' THEN 0 ELSE 1
  <2>1. CASE ~ Whole("complete")
    BY <1>3, <1>4, <2>1 DEF Receive, Pending
  <2>2. CASE Whole("complete")
    <3>1. place = "ended" /\ job \in Chunks
      BY <2>2 DEF ChunkInv, Finished
    <3>2. job.first \in todo /\ job.first \in Starts /\ job.last = Last(job.first)
      BY <3>1 DEF ChunkInv, Asked, ReaderInv, TypeOK
    <3>3. Brought(p) <=> p[1] < count /\ Chunk(p) = job.first
      BY <2>2, <3>2, OneChunk DEF ChunkInv, Finished, ReaderInv
    <3>4. Times(p) \in {0, 1} /\ (Times(p) = 1 <=> Brought(p))
      BY <3>1, TimesOnce DEF ReaderInv, TypeOK, ChunkInv, OnceEach
    <3>5. todo' = todo \ {job.first} /\ got'[p] = got[p] + Times(p)
      BY <2>2 DEF Receive
    <3>6. p[1] \in Nat /\ count \in Nat
      BY PlaceIs, StreamConstants DEF ReaderInv, TypeOK
    <3>7. CASE Brought(p)
      <4>1. Pending(p) /\ ~ Pending(p)'
        BY <1>4, <3>2, <3>3, <3>5, <3>6, <3>7 DEF Pending
      <4> QED BY <1>3, <3>4, <3>5, <3>7, <4>1
    <3>8. CASE ~ Brought(p)
      <4>1. Pending(p)' <=> Pending(p)
        BY <1>4, <3>3, <3>5, <3>6, <3>8 DEF Pending
      <4> QED BY <1>3, <3>4, <3>5, <3>8, <4>1
    <3> QED BY <3>7, <3>8
  <2> QED BY <2>1, <2>2
<1> QED BY <1>1, <1>5 DEF ChunksExact, Pending, Chunk

\* A row is got exactly when its chunk is done, in every step.
LEMMA ExactStep == ReaderInv /\ ChunkInv /\ ChunksExact /\ [Next]_vars => ChunksExact'
<1> SUFFICES ASSUME ReaderInv, ChunkInv, ChunksExact, [Next]_vars PROVE ChunksExact'
  OBVIOUS
<1>1. CASE Receive
  BY <1>1, ExactReceive
<1>2. CASE UNCHANGED <<setup, todo, got>>
  BY <1>2, SameSetup DEF ChunksExact
<1>3. Receive \/ UNCHANGED <<setup, todo, got>>
  BY DEF Next, Write, StreamChunk, StreamWindow, SheetStart, BatchRow, SheetComplete, Complete,
         WindowData, WindowComplete, Fail, clientVars, vars
<1> QED BY <1>1, <1>2, <1>3

\* The chunks that a client took are whole, whatever broke and was asked for again and
\* however many sheets came or went in between.
THEOREM ChunksComeExactlyOnce == Spec => []ChunksExact
<1>1. Init => ReaderInv /\ ChunkInv /\ ChunksExact
  BY ReaderInit, ChunkInit, ExactInit
<1>2. ReaderInv /\ ChunkInv /\ ChunksExact /\ [Next]_vars => (ReaderInv /\ ChunkInv /\ ChunksExact)'
  BY ReaderStep, ChunkStep, ExactStep
<1> QED BY <1>1, <1>2, PTL DEF Spec
-----------------------------------------------------------------------------
(***************************************************************************)
(* What the records of a window bring, and what the client has read.       *)
(***************************************************************************)

\* The window is that of the client's cursor; its rows are sent from the first on.
WindowFront ==
  /\ place = "window" =>
       /\ job = NextWindow(offset) /\ Len(book) > 0 /\ job.start < Rows(0)
       /\ batch = WindowRows(job)
       /\ \A i \in DOMAIN batch : i <= row => Brought(batch[i])
  /\ Whole("window_complete") =>
       /\ place = "ended" /\ job = NextWindow(offset) /\ Len(book) > 0
       /\ \A i \in DOMAIN WindowRows(job) : Brought(WindowRows(job)[i])

WindowInv == WindowFront /\ WindowsAdjoin

\* Each row of a window is one of those it is read as.
LEMMA RowOfWindow ==
  ASSUME book \in Workbooks, Len(book) > 0, NEW w, w.start \in Nat, w.end \in Nat,
         NEW n \in Nat, w.start <= n, n <= w.end, n < Rows(0)
  PROVE  n - w.start + 1 \in DOMAIN WindowRows(w) /\ WindowRows(w)[n - w.start + 1] = <<0, n>>
<1>1. Rows(0) \in Nat
  BY RowsNat
<1>2. n - w.start + 1 \in 1..(WindowEnd(w) - w.start + 1)
  BY <1>1 DEF WindowEnd
<1>3. w.start + (n - w.start + 1) - 1 = n
  OBVIOUS
<1> QED BY <1>2, <1>3 DEF WindowRows

\* At first no window is read.
LEMMA WindowInit == Init => WindowInv
<1> SUFFICES ASSUME Init PROVE WindowInv
  OBVIOUS
<1>1. out = <<>> /\ place = "idle" /\ offset = 0
  BY DEF Init
<1>2. WindowFront
  BY <1>1, NothingSent DEF WindowFront
<1>3. WindowsAdjoin
  BY <1>1 DEF WindowsAdjoin
<1> QED BY <1>2, <1>3 DEF WindowInv

\* Steps of the reader leave the client alone.
LEMMA AdjoinKept ==
  ASSUME WindowsAdjoin, UNCHANGED <<setup, offset, read>>
  PROVE  WindowsAdjoin'
BY SameSetup DEF WindowsAdjoin

\* A window that begins has brought nothing.
LEMMA WindowBegun == ASSUME ReaderInv, WindowInv, StreamWindow PROVE WindowInv'
<1>1. /\ book' = book /\ UNCHANGED <<setup, offset, read>>
      /\ \A n : Rows(n)' = Rows(n)
  BY SameSetup DEF StreamWindow, clientVars
<1>2. /\ job' = NextWindow(offset) /\ NextWindow(offset).start < Rows(0) /\ Len(book) > 0
      /\ batch' = WindowRows(NextWindow(offset)) /\ row' = 0
  BY DEF StreamWindow, ReaderInv, Streaming
<1>3. NextWindow(offset)' = NextWindow(offset) /\ WindowRows(job)' = WindowRows(job')
  BY <1>1 DEF NextWindow, WindowRows, WindowEnd, Rows
<1>4. ~ Whole("window_complete")'
  <2>1. out = <<>>
    BY DEF StreamWindow, ReaderInv, Streaming
  <2>2. CASE out' = out
    BY <2>1, <2>2 DEF Whole
  <2>3. CASE out' = <<[type |-> "window_start", total |-> Len(batch')]>>
    BY <2>3 DEF Whole
  <2> QED BY <2>2, <2>3 DEF StreamWindow
<1>5. \A i \in DOMAIN batch' : ~ (i <= row')
  BY <1>2 DEF WindowRows
<1>6. WindowFront'
  BY <1>1, <1>2, <1>3, <1>4, <1>5 DEF WindowFront
<1> QED BY <1>1, <1>6, AdjoinKept DEF WindowInv

\* A part of a window brings the rows at its positions.
LEMMA WindowPart == ASSUME ReaderInv, WindowInv, WindowData PROVE WindowInv'
<1> DEFINE end == IF row + WindowBatch > Len(batch) THEN Len(batch) ELSE row + WindowBatch
           part == SubSeq(batch, row + 1, end)
           record == [type |-> "rows", sheet |-> 0, start |-> WindowStart(row), rows |-> part]
<1>1. /\ book' = book /\ UNCHANGED <<setup, offset, read>>
      /\ \A n : Rows(n)' = Rows(n)
  BY SameSetup DEF WindowData, clientVars
<1>2. /\ row \in Nat /\ batch \in Seq(Nat \X Nat) /\ row < Len(batch) /\ Len(batch) \in Nat
      /\ job \in Windows /\ job.start \in Nat
      /\ DOMAIN batch = 1..Len(batch)
      /\ \A j \in DOMAIN batch : batch[j] = <<0, job.start + j - 1>>
  BY DEF WindowData, ReaderInv, TypeOK, Waiting, Windows
<1>3. /\ row' = row + WindowBatch /\ UNCHANGED <<job, batch, place>> /\ place = "window"
      /\ Send(record)
  BY DEF WindowData
<1>4. end \in Nat /\ end <= Len(batch) /\ row + 1 <= end
      /\ \A i \in 1..Len(batch) : i <= row + WindowBatch => i <= end
  BY <1>2, StreamConstants
<1> HIDE DEF end
<1>5. part \in Seq(Nat \X Nat) /\ DOMAIN part = 1..(end - row)
  BY <1>2, <1>4
<1>6. WindowStart(row) = row + job.start /\ WindowStart(row) \in Nat
  BY <1>2 DEF WindowStart
<1> HIDE DEF part
<1>7. record \in Records /\ record.type = "rows" /\ record.sheet = 0
      /\ record.start = row + job.start /\ record.rows = part
  BY <1>5, <1>6, RecordsOfRows
<1> HIDE DEF record
<1>8. /\ \A p : Brought(p)' <=> Brought(p) \/ Carries(record, p)
      /\ ~ Whole("window_complete")'
  BY <1>3, <1>7, SentBrings DEF ReaderInv, TypeOK
<1>9. ASSUME NEW i \in DOMAIN batch', i <= row' PROVE Brought(batch[i])'
  <2>1. i \in 1..Len(batch) /\ batch[i] = <<0, job.start + i - 1>>
    BY <1>2, <1>3
  <2>2. CASE i <= row
    BY <1>2, <1>3, <1>8, <2>1, <2>2 DEF WindowInv, WindowFront
  <2>3. CASE i > row
    <3>1. i - row \in 1..(end - row)
      BY <1>2, <1>3, <1>4, <1>9, <2>1, <2>3
    <3>2. (row + job.start) + (i - row) - 1 = job.start + i - 1
      BY <1>2, <2>1
    <3>3. batch[i][1] = 0 /\ batch[i][2] = job.start + i - 1
      BY <2>1
    <3>4. Carries(record, batch[i])
      BY <1>5, <1>7, <3>1, <3>2, <3>3 DEF Carries
    <3> QED BY <1>3, <1>8, <3>4
  <2> QED BY <1>2, <2>1, <2>2, <2>3
<1>10. NextWindow(offset)' = NextWindow(offset) /\ WindowRows(job)' = WindowRows(job)
  BY <1>1, <1>3 DEF NextWindow, WindowRows, WindowEnd, Rows
<1>11. WindowFront'
  <2>1. \A i \in DOMAIN batch' : i <= row' => Brought(batch[i])'
    BY <1>9
  <2> QED BY <1>1, <1>3, <1>8, <1>10, <2>1 DEF WindowInv, WindowFront
<1> QED BY <1>1, <1>11, AdjoinKept DEF WindowInv

\* A window that is complete has brought all its rows.
LEMMA WindowFull == ASSUME ReaderInv, WindowInv, WindowComplete PROVE WindowInv'
<1>1. /\ book' = book /\ UNCHANGED <<setup, offset, read>>
  BY SameSetup DEF WindowComplete, clientVars
<1>2. /\ UNCHANGED <<job, batch, row>> /\ place = "window" /\ place' = "ended" /\ row >= Len(batch)
      /\ row \in Nat /\ Len(batch) \in Nat /\ DOMAIN batch = 1..Len(batch)
  BY DEF WindowComplete, AllSent, ReaderInv, TypeOK
<1>3. \A p : Brought(p)' <=> Brought(p)
  BY MarkSent, RecordsOfMarks DEF WindowComplete, ReaderInv, TypeOK
<1>4. NextWindow(offset)' = NextWindow(offset) /\ WindowRows(job)' = WindowRows(job)
  BY <1>1, <1>2 DEF NextWindow, WindowRows, WindowEnd, Rows
<1>5. \A i \in DOMAIN batch : Brought(batch[i])
  BY <1>2 DEF WindowInv, WindowFront
<1>6. WindowFront'
  <2>1. /\ place' # "window" /\ job' = NextWindow(offset) /\ Len(book) > 0
        /\ WindowRows(job) = batch
    BY <1>2 DEF WindowInv, WindowFront
  <2> QED BY <1>1, <1>2, <1>3, <1>4, <1>5, <2>1 DEF WindowFront
<1> QED BY <1>1, <1>6, AdjoinKept DEF WindowInv

\* The rows of sheets, and what breaks.
LEMMA WindowOther ==
  ASSUME ReaderInv, ChunkInv, WindowInv,
         \/ \E first \in todo : StreamChunk(first)
         \/ SheetStart \/ BatchRow \/ SheetComplete \/ Complete \/ Fail
  PROVE  WindowInv'
<1>1. /\ book' = book /\ UNCHANGED <<setup, offset, read>>
  BY SameSetup DEF StreamChunk, SheetStart, BatchRow, SheetComplete, Complete, Fail, clientVars
<1>2. place' # "window" /\ place # "ended"
  BY DEF StreamChunk, SheetStart, BatchRow, SheetComplete, Complete, Fail
<1>3. ~ Whole("window_complete")
  BY <1>2 DEF WindowInv, WindowFront
<1>4. ~ Whole("window_complete")'
  <2>1. out \in Seq(Records) /\ out' \in Seq(Records)
    BY ReaderStep DEF ReaderInv, TypeOK, Next, Write
  <2>2. ASSUME NEW r, out' = Append(out, r), r.type # "window_complete" PROVE ~ Whole("window_complete")'
    <3>1. Len(out') = Len(out) + 1 /\ out'[Len(out) + 1] = r
      BY <2>1, <2>2
    <3> QED BY <2>2, <3>1 DEF Whole
  <2>3. CASE out' = out
    BY <1>3, <2>3, Unsent
  <2>4. CASE \E first \in todo : StreamChunk(first)
    <3>1. CASE out' = <<[type |-> "metadata"]>>
      BY <3>1 DEF Whole
    <3> QED BY <2>3, <2>4, <3>1 DEF StreamChunk
  <2>5. CASE SheetStart \/ SheetComplete \/ Complete
    BY <2>2, <2>5 DEF SheetStart, SheetComplete, Complete, Send
  <2>6. CASE BatchRow
    BY <2>2, <2>3, <2>6 DEF BatchRow, Send
  <2>7. CASE Fail
    BY <2>3, <2>7 DEF Fail
  <2> QED BY <2>4, <2>5, <2>6, <2>7
<1>5. WindowFront'
  BY <1>2, <1>4 DEF WindowFront
<1> QED BY <1>1, <1>5, AdjoinKept DEF WindowInv

\* The client has read the window of its cursor whole when it goes on to the next.
LEMMA WindowReceive == ASSUME ReaderInv, WindowInv, Receive PROVE WindowInv'
<1>1. book' = book /\ \A n : Rows(n)' = Rows(n)
  BY SameSetup DEF Receive
<1>2. WindowFront'
  <2>1. out' = <<>> /\ place' = "idle"
    BY DEF Receive
  <2> QED BY <2>1 DEF WindowFront, Whole
<1>3. CASE ~ Whole("window_complete")
  <2>1. UNCHANGED <<setup, offset, read>>
    BY <1>3 DEF Receive
  <2> QED BY <1>2, <2>1, AdjoinKept DEF WindowInv
<1>4. CASE Whole("window_complete")
  <2>1. /\ job = NextWindow(offset)
        /\ \A i \in DOMAIN WindowRows(job) : Brought(WindowRows(job)[i])
    BY <1>4 DEF WindowInv, WindowFront
  <2>2. /\ read' = read \cup {n \in 0..(Rows(0) - 1) : Times(<<0, n>>) > 0}
        /\ offset' = offset + MaxResults
    BY <1>4 DEF Receive
  <2>3. /\ offset \in Nat /\ MaxResults \in Nat \ {0}
        /\ job.start = offset + MaxResults /\ job.end = offset + 2 * MaxResults
    BY <2>1, StreamConstants DEF NextWindow, ReaderInv, TypeOK
  <2>4. SUFFICES ASSUME Len(book) > 0, NEW n \in MaxResults..(offset' + MaxResults), n < Rows(0)
                 PROVE  n \in read'
    BY <1>1, <1>2 DEF WindowInv, WindowsAdjoin
  <2>5. Rows(0) \in Nat /\ n \in Nat /\ n <= offset + 2 * MaxResults
    BY <2>2, <2>3, <2>4, RowsNat DEF ReaderInv, TypeOK
  <2>6. CASE n < job.start
    <3>1. offset > 0 /\ n \in MaxResults..(offset + MaxResults)
      BY <2>3, <2>4, <2>5, <2>6
    <3> QED BY <2>2, <2>4, <3>1 DEF WindowInv, WindowsAdjoin
  <2>7. CASE job.start <= n
    <3>1. job.start \in Nat /\ job.end \in Nat /\ n <= job.end
      BY <2>3, <2>5
    <3>2. n - job.start + 1 \in DOMAIN WindowRows(job) /\ WindowRows(job)[n - job.start + 1] = <<0, n>>
      BY <2>4, <2>5, <2>7, <3>1, RowOfWindow DEF ReaderInv, TypeOK
    <3>3. Brought(<<0, n>>)
      BY <2>1, <3>2
    <3>4. Times(<<0, n>>) \in Nat /\ Times(<<0, n>>) # 0
      BY <3>3, TimesNat DEF Brought, ReaderInv, TypeOK
    <3>5. Times(<<0, n>>) > 0
      BY <3>4
    <3>6. n \in 0..(Rows(0) - 1)
      BY <2>4, <2>5
    <3> QED BY <2>2, <3>5, <3>6
  <2> QED BY <2>3, <2>5, <2>6, <2>7
<1> QED BY <1>3, <1>4

\* Every step keeps what is known of windows.
LEMMA WindowStep == ReaderInv /\ ChunkInv /\ WindowInv /\ [Next]_vars => WindowInv'
<1> SUFFICES ASSUME ReaderInv, ChunkInv, WindowInv, [Next]_vars PROVE WindowInv'
  OBVIOUS
<1>1. CASE Next
  BY <1>1, WindowBegun, WindowPart, WindowFull, WindowOther, WindowReceive DEF Next, Write
<1>2. CASE UNCHANGED vars
  <2>1. /\ UNCHANGED <<setup, offset, read, job, place, row, batch, out>>
    BY <1>2 DEF vars, clientVars, readerVars
  <2>2. book' = book /\ \A n : Rows(n)' = Rows(n)
    BY <2>1, SameSetup
  <2>3. NextWindow(offset)' = NextWindow(offset) /\ WindowRows(job)' = WindowRows(job)
    BY <2>1, <2>2 DEF NextWindow, WindowRows, WindowEnd, Rows
  <2>4. WindowFront'
    BY <2>1, <2>2, <2>3, Unsent DEF WindowInv, WindowFront
  <2> QED BY <2>1, <2>4, AdjoinKept DEF WindowInv
<1> QED BY <1>1, <1>2

\* Read one after another, the windows of a query's cursors leave out no row after its
\* first page, for sheets, pages and batches of any length.
THEOREM WindowsLeaveNoGap == Spec => []WindowsAdjoin
<1>1. Init => ReaderInv /\ ChunkInv /\ WindowInv
  BY ReaderInit, ChunkInit, WindowInit
<1>2. ReaderInv /\ ChunkInv /\ WindowInv /\ [Next]_vars => (ReaderInv /\ ChunkInv /\ WindowInv)'
  BY ReaderStep, ChunkStep, WindowStep
<1>3. WindowInv => WindowsAdjoin
  BY DEF WindowInv
<1> QED BY <1>1, <1>2, <1>3, PTL DEF Spec
-----------------------------------------------------------------------------
(***************************************************************************)
(* What a record that says a sheet is complete may be believed.            *)
(***************************************************************************)

\* Rows 0..n-1 of sheet s came in the records from h to k.
Came(s, n, h, k) == \A i \in 0..(n - 1) : \E d \in h..k : Brings(d, <<s, i>>)

\* The header of the sheet being sent told of all its rows; those that do not wait any
\* more came after it.
Announced ==
  place = "rows" =>
    \E h \in DOMAIN out :
      /\ out[h].type = "sheet_start" /\ out[h].sheet = sheet /\ out[h].total = Rows(sheet)
      /\ Came(sheet, row - Len(batch), h, Len(out))

SheetsInv == Announced /\ SheetsWhole

\* What came stays: records are only added.
LEMMA CameKept ==
  ASSUME out \in Seq(Records), NEW r \in Records, Send(r)
  PROVE  /\ out' \in Seq(Records) /\ Len(out') = Len(out) + 1 /\ Len(out) \in Nat
         /\ DOMAIN out' = 1..(Len(out) + 1) /\ DOMAIN out = 1..Len(out)
         /\ \A k \in 1..Len(out) : out'[k] = out[k]
         /\ out'[Len(out) + 1] = r
         /\ \A d \in 1..Len(out) : \A p : Brings(d, p)' <=> Brings(d, p)
         /\ \A d, p : Brings(d, p)' <=> Carries(out'[d], p)
<1>1. /\ out' \in Seq(Records) /\ Len(out') = Len(out) + 1 /\ Len(out) \in Nat
      /\ DOMAIN out' = 1..(Len(out) + 1) /\ DOMAIN out = 1..Len(out)
      /\ \A k \in 1..Len(out) : out'[k] = out[k]
      /\ out'[Len(out) + 1] = r
  BY Appended DEF Send
<1>2. \A d \in 1..Len(out) : \A p : Brings(d, p)' <=> Brings(d, p)
  BY <1>1 DEF Brings
<1>3. \A d, p : Brings(d, p)' <=> Carries(out'[d], p)
  BY DEF Brings, Carries
<1> QED BY <1>1, <1>2, <1>3

\* A record that ends no sheet, or one whose rows have come since its header, keeps the
\* property.
LEMMA SheetsWholeKept ==
  ASSUME SheetsWhole, out \in Seq(Records), NEW r \in Records, Send(r),
         r.type = "sheet_complete" =>
           \E h \in DOMAIN out : /\ out[h].type = "sheet_start" /\ out[h].sheet = r.sheet
                                 /\ Came(r.sheet, out[h].total, h, Len(out))
  PROVE  SheetsWhole'
<1>1. SUFFICES ASSUME NEW k \in DOMAIN out', out'[k].type = "sheet_complete"
               PROVE  \E h \in 1..k :
                        /\ out'[h].type = "sheet_start" /\ out'[h].sheet = out'[k].sheet
                        /\ \A n \in 0..(out'[h].total - 1) :
                             \E d \in h..k : Carries(out'[d], <<out'[k].sheet, n>>)
  BY DEF SheetsWhole, Brings, Carries
<1>2. CASE k \in 1..Len(out)
  <2>1. out'[k] = out[k] /\ k \in DOMAIN out
    BY <1>2, CameKept
  <2>2. PICK h \in 1..k :
          /\ out[h].type = "sheet_start" /\ out[h].sheet = out[k].sheet
          /\ \A n \in 0..(out[h].total - 1) : \E d \in h..k : Brings(d, <<out[k].sheet, n>>)
    BY <1>1, <2>1 DEF SheetsWhole
  <2>3. h \in 1..Len(out) /\ \A d \in h..k : d \in 1..Len(out)
    BY <1>2, CameKept
  <2>4. out'[h] = out[h] /\ \A d \in h..k : \A p : Brings(d, p) => Carries(out'[d], p)
    BY <2>3, CameKept
  <2>5. \A n \in 0..(out[h].total - 1) : \E d \in h..k : Carries(out'[d], <<out[k].sheet, n>>)
    BY <2>2, <2>4
  <2> QED BY <2>1, <2>2, <2>4, <2>5
<1>3. CASE k = Len(out) + 1
  <2>1. out'[k] = r
    BY <1>3, CameKept
  <2>2. PICK h \in DOMAIN out : /\ out[h].type = "sheet_start" /\ out[h].sheet = r.sheet
                                /\ Came(r.sheet, out[h].total, h, Len(out))
    BY <1>1, <2>1
  <2>3. h \in 1..k /\ h \in 1..Len(out) /\ out'[h] = out[h]
    BY <1>3, <2>2, CameKept
  <2>4. \A d \in h..Len(out) : d \in h..k /\ \A p : Brings(d, p) => Carries(out'[d], p)
    BY <1>3, <2>3, CameKept
  <2>5. \A n \in 0..(out[h].total - 1) : \E d \in h..Len(out) : Brings(d, <<r.sheet, n>>)
    BY <2>2 DEF Came
  <2>6. \A n \in 0..(out[h].total - 1) : \E d \in h..k : Carries(out'[d], <<r.sheet, n>>)
    BY <2>4, <2>5
  <2> QED BY <2>1, <2>2, <2>3, <2>6
<1> QED BY <1>2, <1>3, CameKept

\* At first no sheet was announced.
LEMMA SheetsInit == Init => SheetsInv
<1> SUFFICES ASSUME Init PROVE SheetsInv
  OBVIOUS
<1>1. out = <<>> /\ place = "idle"
  BY DEF Init
<1> QED BY <1>1 DEF SheetsInv, Announced, SheetsWhole

\* A header announces the rows of the sheet as they are.
LEMMA SheetsStart == ASSUME ReaderInv, SheetsInv, SheetStart PROVE SheetsInv'
<1> DEFINE r == [type |-> "sheet_start", sheet |-> sheet, total |-> Rows(sheet)]
<1>1. \A n : Rows(n)' = Rows(n)
  BY SameSetup DEF SheetStart
<1>2. sheet \in Nat /\ Rows(sheet) \in Nat /\ out \in Seq(Records)
  BY RowsNat DEF SheetStart, MoreSheets, ReaderInv, TypeOK, Sheets
<1>3. r \in Records /\ Send(r) /\ r.type = "sheet_start" /\ r.sheet = sheet /\ r.total = Rows(sheet)
  BY <1>2, RecordsOfMarks DEF SheetStart
<1> HIDE DEF r
<1>4. SheetsWhole'
  BY <1>2, <1>3, SheetsWholeKept DEF SheetsInv
<1>5. sheet' = sheet /\ row' = 0 /\ batch' = <<>>
  BY DEF SheetStart
<1>6. Announced'
  <2> DEFINE h == Len(out) + 1
  <2>1. h \in DOMAIN out' /\ out'[h] = r
    BY <1>2, <1>3, CameKept
  <2> HIDE DEF h
  <2>2. 0..(row' - Len(batch') - 1) = {}
    BY <1>5
  <2>3. Rows(sheet)' = Rows(sheet)
    BY <1>1, <1>5 DEF Rows
  <2> QED BY <1>3, <1>5, <2>1, <2>2, <2>3 DEF Announced, Came
<1> QED BY <1>4, <1>6 DEF SheetsInv

\* A row of a sheet was announced by its header.
LEMMA SheetsRow == ASSUME ReaderInv, SheetsInv, BatchRow PROVE SheetsInv'
<1> DEFINE filled == Append(batch, <<sheet, row>>)
           record == [type |-> "rows", sheet |-> sheet, start |-> BatchStart(filled), rows |-> filled]
<1>1. \A n : Rows(n)' = Rows(n)
  BY SameSetup DEF BatchRow
<1>2. /\ sheet \in Nat /\ Rows(sheet) \in Nat /\ row \in Nat
      /\ Len(batch) \in Nat /\ Len(batch) <= row
      /\ batch \in Seq(Nat \X Nat) /\ out \in Seq(Records)
  BY RowsNat DEF BatchRow, ReaderInv, TypeOK, Waiting
<1>3. /\ filled \in Seq(Nat \X Nat) /\ Len(filled) = Len(batch) + 1
      /\ DOMAIN filled = 1..(Len(batch) + 1)
  <2> DEFINE S == Nat \X Nat
             x == <<sheet, row>>
  <2>1. x \in S /\ batch \in Seq(S)
    BY <1>2
  <2> HIDE DEF S, x
  <2>2. /\ Append(batch, x) \in Seq(S) /\ Len(Append(batch, x)) = Len(batch) + 1
        /\ DOMAIN Append(batch, x) = 1..(Len(batch) + 1)
    BY <2>1, Appended
  <2> QED BY <2>2 DEF S, x
<1>4. BatchStart(filled) = row - Len(batch) /\ BatchStart(filled) \in Nat
  BY <1>2, <1>3 DEF BatchStart
<1>5. record \in Records
  BY <1>2, <1>3, <1>4, RecordsOfRows
<1>6. row' = row + 1 /\ sheet' = sheet /\ place = "rows"
  BY DEF BatchRow
<1>7. \/ Send(record) /\ batch' = <<>>
      \/ out' = out /\ batch' = filled
  BY DEF BatchRow, Emptied
<1>8. record.type = "rows" /\ record.sheet = sheet /\ record.start = row - Len(batch) /\ record.rows = filled
  BY <1>4
<1> HIDE DEF filled, record
<1>9. PICK h \in DOMAIN out :
        /\ out[h].type = "sheet_start" /\ out[h].sheet = sheet /\ out[h].total = Rows(sheet)
        /\ Came(sheet, row - Len(batch), h, Len(out))
  BY <1>6 DEF SheetsInv, Announced
<1>10. Rows(sheet)' = Rows(sheet)
  BY <1>1, <1>6 DEF Rows
<1>11. CASE Send(record) /\ batch' = <<>>
  <2>1. SheetsWhole'
    BY <1>2, <1>5, <1>8, <1>11, SheetsWholeKept DEF SheetsInv
  <2>2. h \in 1..Len(out) /\ Len(out) \in Nat /\ Len(out') = Len(out) + 1 /\ h \in DOMAIN out'
        /\ out'[h] = out[h] /\ out'[Len(out) + 1] = record
    BY <1>2, <1>5, <1>11, CameKept
  <2>3. \A d \in h..Len(out) : \A p : Brings(d, p) => Carries(out'[d], p)
    BY <1>2, <1>5, <1>11, <2>2, CameKept
  <2>4. ASSUME NEW n \in 0..row PROVE \E d \in h..Len(out') : Carries(out'[d], <<sheet, n>>)
    <3>1. CASE n < row - Len(batch)
      <4>1. n \in 0..((row - Len(batch)) - 1)
        BY <1>2, <3>1
      <4>2. PICK d \in h..Len(out) : Brings(d, <<sheet, n>>)
        BY <1>9, <4>1 DEF Came
      <4> QED BY <2>2, <2>3, <4>2
    <3>2. CASE n >= row - Len(batch)
      <4> DEFINE j == n - (row - Len(batch)) + 1
      <4>1. j \in 1..(Len(batch) + 1) /\ (row - Len(batch)) + j - 1 = n
        BY <1>2, <3>2
      <4> HIDE DEF j
      <4>2. Carries(record, <<sheet, n>>)
        BY <1>3, <1>8, <4>1 DEF Carries
      <4>3. Len(out) + 1 \in h..Len(out')
        BY <2>2
      <4> QED BY <2>2, <4>2, <4>3
    <3>3. n < row - Len(batch) \/ n >= row - Len(batch)
      BY <1>2
    <3> QED BY <3>1, <3>2, <3>3
  <2>5. row' - Len(batch') - 1 = row
    BY <1>2, <1>6, <1>11
  <2>6. Announced'
    BY <1>6, <1>9, <1>10, <2>2, <2>4, <2>5 DEF Announced, Came, Brings, Carries
  <2> QED BY <2>1, <2>6 DEF SheetsInv
<1>12. CASE out' = out /\ batch' = filled
  <2>1. SheetsWhole'
    BY <1>12 DEF SheetsInv, SheetsWhole, Brings
  <2>2. row' - Len(batch') = row - Len(batch)
    <3>1. Len(batch') = Len(batch) + 1
      BY <1>3, <1>12
    <3> QED BY <1>2, <1>6, <3>1
  <2>3. Announced'
    BY <1>6, <1>9, <1>10, <1>12, <2>2 DEF Announced, Came, Brings
  <2> QED BY <2>1, <2>3 DEF SheetsInv
<1> QED BY <1>7, <1>11, <1>12

\* All rows have been read and none waits.
LEMMA SheetsEnd == ASSUME ReaderInv, ChunkInv, SheetsInv, SheetComplete PROVE SheetsInv'
<1> DEFINE r == [type |-> "sheet_complete", sheet |-> sheet]
<1>1. /\ place = "rows" /\ row >= Rows(sheet) /\ sheet \in Nat /\ row \in Nat /\ Rows(sheet) \in Nat
      /\ row = Rows(sheet) /\ batch = <<>> /\ out \in Seq(Records)
  BY RowsNat DEF SheetComplete, ReaderInv, TypeOK, Waiting, ChunkInv, Front
<1>2. r \in Records /\ Send(r) /\ r.sheet = sheet
  BY <1>1, RecordsOfMarks DEF SheetComplete
<1>3. row - Len(batch) = Rows(sheet)
  BY <1>1
<1>4. \E h \in DOMAIN out : /\ out[h].type = "sheet_start" /\ out[h].sheet = r.sheet
                            /\ Came(r.sheet, out[h].total, h, Len(out))
  BY <1>1, <1>2, <1>3 DEF SheetsInv, Announced
<1> HIDE DEF r
<1>5. SheetsWhole'
  BY <1>1, <1>2, <1>4, SheetsWholeKept DEF SheetsInv
<1>6. Announced'
  BY DEF SheetComplete, Announced
<1> QED BY <1>5, <1>6 DEF SheetsInv

\* Other records end no sheet.
LEMMA SheetsOther ==
  ASSUME ReaderInv, SheetsInv,
         \/ \E first \in todo : StreamChunk(first)
         \/ Complete \/ StreamWindow \/ WindowData \/ WindowComplete \/ Fail \/ Receive
  PROVE  SheetsInv'
<1>1. place' # "rows"
  BY DEF StreamChunk, Complete, StreamWindow, WindowData, WindowComplete, Fail, Receive
<1>2. SheetsWhole'
  <2>1. CASE out' = out
    BY <2>1 DEF SheetsInv, SheetsWhole, Brings
  <2>2. CASE out' = <<>>
    BY <2>2 DEF SheetsWhole
  <2>3. ASSUME NEW r, out' = Append(out, r), r.type # "sheet_complete" PROVE SheetsWhole'
    <3>1. out \in Seq(Records) /\ out' \in Seq(Records)
      BY ReaderStep DEF ReaderInv, TypeOK, Next, Write
    <3>2. Len(out) \in Nat /\ Len(out) + 1 \in DOMAIN out' /\ out'[Len(out) + 1] = r
      BY <2>3, <3>1
    <3>3. r \in Records
      BY <3>1, <3>2
    <3> QED BY <2>3, <3>1, <3>3, SheetsWholeKept DEF SheetsInv, Send
  <2>4. CASE \E first \in todo : StreamChunk(first)
    <3>1. out = <<>>
      BY <2>4 DEF StreamChunk, ReaderInv, Streaming
    <3>2. <<[type |-> "metadata"]>> = Append(out, [type |-> "metadata"])
      BY <3>1
    <3> QED BY <2>1, <2>3, <2>4, <3>2 DEF StreamChunk
  <2>5. CASE StreamWindow
    <3> DEFINE r == [type |-> "window_start", total |-> Len(batch')]
    <3>1. out = <<>>
      BY <2>5 DEF StreamWindow, ReaderInv, Streaming
    <3>2. <<r>> = Append(out, r) /\ r.type # "sheet_complete"
      BY <3>1
    <3>3. out' = out \/ out' = <<r>>
      BY <2>5 DEF StreamWindow
    <3> HIDE DEF r
    <3> QED BY <2>1, <2>3, <3>2, <3>3
  <2>6. CASE Complete \/ WindowData \/ WindowComplete
    BY <2>3, <2>6 DEF Complete, WindowData, WindowComplete, Send
  <2>7. CASE Fail \/ Receive
    BY <2>1, <2>2, <2>7 DEF Fail, Receive
  <2> QED BY <2>4, <2>5, <2>6, <2>7
<1> QED BY <1>1, <1>2 DEF SheetsInv, Announced

\* Every step keeps what headers announced and ends tell.
LEMMA SheetsStep == ReaderInv /\ ChunkInv /\ SheetsInv /\ [Next]_vars => SheetsInv'
<1> SUFFICES ASSUME ReaderInv, ChunkInv, SheetsInv, [Next]_vars PROVE SheetsInv'
  OBVIOUS
<1>1. CASE Next
  BY <1>1, SheetsStart, SheetsRow, SheetsEnd, SheetsOther DEF Next, Write
<1>2. CASE UNCHANGED vars
  <2>1. /\ UNCHANGED <<setup, place, sheet, row, batch, out>>
    BY <1>2 DEF vars, readerVars
  <2>2. Rows(sheet)' = Rows(sheet)
    BY <2>1, SameSetup DEF Rows
  <2>3. SheetsWhole'
    BY <2>1 DEF SheetsInv, SheetsWhole, Brings
  <2>4. Announced'
    BY <2>1, <2>2 DEF SheetsInv, Announced, Came, Brings
  <2> QED BY <2>3, <2>4 DEF SheetsInv
<1> QED BY <1>1, <1>2

\* A record that says a sheet is complete comes after all the rows its header told of,
\* whatever the sizes of sheets and batches.
THEOREM CompleteSheetsAreWhole == Spec => []SheetsWhole
<1>1. Init => ReaderInv /\ ChunkInv /\ SheetsInv
  BY ReaderInit, ChunkInit, SheetsInit
<1>2. ReaderInv /\ ChunkInv /\ SheetsInv /\ [Next]_vars => (ReaderInv /\ ChunkInv /\ SheetsInv)'
  BY ReaderStep, ChunkStep, SheetsStep
<1>3. SheetsInv => SheetsWhole
  BY DEF SheetsInv
<1> QED BY <1>1, <1>2, <1>3, PTL DEF Spec
=============================================================================
