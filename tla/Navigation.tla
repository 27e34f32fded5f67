----------------------------- MODULE Navigation -----------------------------
(***************************************************************************)
(* Walking a workbook sheet by sheet: analyze_file cuts its list of sheets *)
(* into chunks and signs a cursor for each, build_navigation_map answers   *)
(* one window of sheets from a cursor's offset.  The server remembers      *)
(* nothing between the calls; the workbook on disk may be edited between   *)
(* any two of them, and inside analyze_file, which reads the file twice.   *)
(*                                                                         *)
(* A client walks the chunks of its last analysis in any order.  A lost    *)
(* answer needs no action: nothing changes on the server and the client    *)
(* asks again.  Sheets are their positions, contents a version number.     *)
(* The next_cursor of an answer's pagination, which does not depend on the *)
(* page, is left out.                                                      *)
(***************************************************************************)
EXTENDS Integers, FiniteSets

CONSTANTS
  MaxSheets,    \* bound: the most sheets a workbook may have
  MaxEdits,     \* bound: the edits made to the workbook
  ChunkSizes,   \* the values of chunk_size clients ask for
  WindowSizes,  \* the values of window_size clients ask for
  MaxAge,       \* a cursor older than this is expired, 24 hours
  None          \* no analysis, no cursor

ASSUME MaxSheetsPos  == MaxSheets \in Nat \ {0}
ASSUME MaxEditsNat   == MaxEdits \in Nat
ASSUME ChunkSizesPos == ChunkSizes \subseteq Nat \ {0}
ASSUME WindowsPos    == WindowSizes \subseteq Nat \ {0}
ASSUME MaxAgeNat     == MaxAge \in Nat
ASSUME NoneDistinct  == None \notin Nat

VARIABLES
  count,     \* how many sheets the workbook has
  version,   \* which content it has: the SHA-256 of one is not that of another
  reading,   \* an analyze_file between its two reads of the workbook
  plan,      \* the client's last analysis
  todo,      \* offsets of that analysis's cursors not followed yet
  seen       \* how often the walk got each sheet

vars == <<count, version, reading, plan, todo, seen>>
-----------------------------------------------------------------------------
Positions == 0..(MaxSheets - 1)
Contents  == 0..MaxEdits
Ages      == 0..(MaxAge + 1)    \* ages saturate once past MaxAge

\* opened and count are what the chunks were made from, checksum and size what
\* the client is told and asked for, window what it will ask for.
Analyses == [opened : Contents, count : 1..MaxSheets, checksum : Contents,
             size : ChunkSizes, window : WindowSizes, age : Ages]
Readings == [opened : Contents, count : 1..MaxSheets, size : ChunkSizes]

ASSUME NoneNoRecord == None \notin Analyses \cup Readings

TypeOK ==
  /\ count \in 1..MaxSheets
  /\ version \in Contents
  /\ reading \in Readings \cup {None}
  /\ plan \in Analyses \cup {None}
  /\ todo \subseteq Positions
  /\ seen \in [Positions -> Nat]

Init ==
  /\ count \in 1..MaxSheets
  /\ version = 0
  /\ reading = None
  /\ plan = None
  /\ todo = {}
  /\ seen = [i \in Positions |-> 0]
-----------------------------------------------------------------------------
\* Mutant: the loop runs once too often.
StartsInclusive(n, size) == {i \in 0..n : i % size = 0}

\* createChunks: the offsets of the chunks of n sheets, and so of their cursors.
\* The answer's next_cursor is the second one's again.
Starts(n, size) == {i \in 0..(n - 1) : i % size = 0}

\* AnalyzeFile opens the workbook: excelize.OpenFile reads the whole of it.
AnalyzeOpen(size) ==
  /\ reading = None
  /\ reading' = [opened |-> version, count |-> count, size |-> size]
  /\ UNCHANGED <<count, version, plan, todo, seen>>

\* calculateFileMetadata reads the file again for its checksum, and the answer
\* reaches the client, which will ask for pages of the given window.
AnalyzeAnswer(window) ==
  /\ reading # None
  /\ plan' = [opened |-> reading.opened, count |-> reading.count, checksum |-> version,
              size |-> reading.size, window |-> window, age |-> 0]
  /\ todo' = Starts(reading.count, reading.size)
  /\ seen' = [i \in Positions |-> 0]
  /\ reading' = None
  /\ UNCHANGED <<count, version>>

\* One of its steps fails: the client gets an error.
AnalyzeFail ==
  /\ reading # None
  /\ reading' = None
  /\ UNCHANGED <<count, version, plan, todo, seen>>
-----------------------------------------------------------------------------
\* Mutants: the window is one sheet longer; it starts after the offset.
PageLong(offset, window)  == {i \in Positions : offset <= i /\ i < count /\ i <= offset + window}
PageAfter(offset, window) == {i \in Positions : offset < i /\ i < count /\ i < offset + window}

\* buildNavigationIndex: the sheets answered from offset, none when it is past the end.
Page(offset, window) == {i \in Positions : offset <= i /\ i < count /\ i < offset + window}

\* ParseCursor refuses a cursor past its age.
Expired(age) == age > MaxAge

\* build_navigation_map with the cursor at offset of the client's analysis.
\* The checksum sealed in the cursor is never looked at; what the answer says of it is
\* left out, as it compares with a constant.
Walk(offset) ==
  /\ plan # None /\ offset \in todo
  /\ ~ Expired(plan.age)
  /\ todo' = todo \ {offset}
  /\ seen' = [i \in Positions |->
                IF i \in Page(offset, plan.window) THEN seen[i] + 1 ELSE seen[i]]
  /\ UNCHANGED <<count, version, reading, plan>>
-----------------------------------------------------------------------------
\* Somebody saves the workbook, with as many sheets as before or not.
Edit(n) ==
  /\ version < MaxEdits
  /\ version' = version + 1
  /\ count' = n
  /\ UNCHANGED <<reading, plan, todo, seen>>

Older(age) == IF age > MaxAge THEN age ELSE age + 1

\* Time passes: cursors grow old.
Tick ==
  /\ plan' = IF plan = None THEN None ELSE [plan EXCEPT !.age = Older(@)]
  /\ UNCHANGED <<count, version, reading, todo, seen>>

Next ==
  \/ \E size \in ChunkSizes : AnalyzeOpen(size)
  \/ \E window \in WindowSizes : AnalyzeAnswer(window)
  \/ AnalyzeFail
  \/ \E offset \in todo : Walk(offset)
  \/ \E n \in 1..MaxSheets : Edit(n)
  \/ Tick

Spec == Init /\ [][Next]_vars
-----------------------------------------------------------------------------
(***************************************************************************)
(* Properties.                                                             *)
(***************************************************************************)

\* The workbook is still the one the chunks were made from.
Unchanged == plan # None /\ plan.opened = version

\* A walk whose window_size is the analysis's chunk_size gets every sheet of the
\* chunks it followed exactly once and no other (createChunks and
\* buildNavigationIndex compute their bounds apart from each other).
WalkExact ==
  Unchanged /\ plan.window = plan.size =>
    \A i \in 0..(count - 1) : seen[i] = IF i - (i % plan.size) \in todo THEN 0 ELSE 1

\* A finished walk with a wider window, such as the default one of 1000, still
\* misses no sheet.
WalkCovers ==
  Unchanged /\ plan.window >= plan.size /\ todo = {} =>
    \A i \in 0..(count - 1) : seen[i] > 0

\* While the workbook has the checksum the analysis answered, a finished walk has
\* got all of it ("File checksum for validation", server.go line 302).  False: the
\* checksum may be that of a later content than the chunks.
WalkTrusted ==
  (/\ plan # None /\ todo = {} /\ plan.window = plan.size
   /\ plan.checksum = version) => \A i \in 0..(count - 1) : seen[i] = 1
=============================================================================
