-------------------------- MODULE NavigationProofs --------------------------
(***************************************************************************)
(* What holds of Navigation for workbooks, chunks and windows of any size. *)
(***************************************************************************)
EXTENDS Navigation, TLAPS

USE DEF Positions, Contents, Ages

\* What is assumed of the sizes and bounds.
Bounds ==
  /\ MaxSheets \in Nat \ {0} /\ MaxEdits \in Nat /\ MaxAge \in Nat
  /\ ChunkSizes \subseteq Nat \ {0} /\ WindowSizes \subseteq Nat \ {0}
  /\ None \notin Nat

\* The assumptions on the constants, in one fact.
LEMMA NavConstants == Bounds
BY MaxSheetsPos, MaxEditsNat, MaxAgeNat, ChunkSizesPos, WindowsPos, NoneDistinct DEF Bounds

\* No record is None.
LEMMA NoneApart == None \notin Analyses /\ None \notin Readings
BY NoneNoRecord

\* The chunk a sheet is in starts at a multiple of the chunk size, not after the
\* sheet and less than a chunk before it ...
LEMMA ChunkOf ==
  ASSUME NEW i \in Nat, NEW c \in Nat \ {0}
  PROVE  /\ i - (i % c) \in 0..i /\ (i - (i % c)) % c = 0 /\ i < i - (i % c) + c
<1>1. i % c \in 0..(c - 1) /\ i \div c \in Int /\ i = c * (i \div c) + (i % c)
  BY Z3
<1>2. i % c <= i
  BY <1>1
<1>3. i - (i % c) = c * (i \div c)
  BY <1>1
<1>4. (c * (i \div c)) % c = 0
  BY <1>1, SMTT(30)
<1> QED BY <1>1, <1>2, <1>3, <1>4

\* ... and is the only such start.
LEMMA ChunkUnique ==
  ASSUME NEW i \in Nat, NEW c \in Nat \ {0}, NEW o \in Nat, o % c = 0, o <= i, i < o + c
  PROVE  i - (i % c) = o
OBVIOUS
-----------------------------------------------------------------------------
\* The offsets of chunks are positions of the workbook.
LEMMA StartsArePositions ==
  ASSUME NEW n \in 1..MaxSheets, NEW size \in ChunkSizes
  PROVE  Starts(n, size) \subseteq Positions
BY NavConstants DEF Bounds, Starts

\* Every step keeps the types.
LEMMA NavNextTypeOK == TypeOK /\ [Next]_vars => TypeOK'
<1> SUFFICES ASSUME TypeOK, [Next]_vars PROVE TypeOK'
  OBVIOUS
<1> USE NavConstants DEF Bounds, TypeOK
<1>1. ASSUME NEW size \in ChunkSizes, AnalyzeOpen(size) PROVE TypeOK'
  BY <1>1 DEF AnalyzeOpen, Readings
<1>2. ASSUME NEW window \in WindowSizes, AnalyzeAnswer(window) PROVE TypeOK'
  <2>1. reading \in Readings
    BY <1>2 DEF AnalyzeAnswer
  <2>2. todo' \subseteq Positions
    BY <1>2, <2>1, StartsArePositions DEF AnalyzeAnswer, Readings
  <2>3. plan' \in Analyses
    BY <1>2, <2>1 DEF AnalyzeAnswer, Readings, Analyses
  <2>4. seen' \in [Positions -> Nat]
    BY <1>2 DEF AnalyzeAnswer
  <2> QED BY <1>2, <2>2, <2>3, <2>4 DEF AnalyzeAnswer
<1>3. CASE AnalyzeFail
  BY <1>3 DEF AnalyzeFail
<1>4. ASSUME NEW offset \in todo, Walk(offset) PROVE TypeOK'
  <2>1. seen' \in [Positions -> Nat]
    BY <1>4 DEF Walk
  <2> QED BY <1>4, <2>1 DEF Walk
<1>5. ASSUME NEW n \in 1..MaxSheets, Edit(n) PROVE TypeOK'
  BY <1>5 DEF Edit
<1>6. CASE Tick
  <2>0. ASSUME NEW age \in Ages PROVE Older(age) \in Ages
    BY DEF Older
  <2> HIDE DEF Positions, Contents, Ages
  <2>1. plan' \in Analyses \cup {None}
    BY <1>6, <2>0 DEF Tick, Analyses
  <2> QED BY <1>6, <2>1 DEF Tick
<1>7. CASE UNCHANGED vars
  BY <1>7 DEF vars
<1> QED BY <1>1, <1>2, <1>3, <1>4, <1>5, <1>6, <1>7 DEF Next

\* The variables of a walk keep their types.
THEOREM NavTypeCorrect == Spec => []TypeOK
<1>1. Init => TypeOK
  BY NavConstants DEF Bounds, Init, TypeOK
<1> QED BY <1>1, NavNextTypeOK, PTL DEF Spec
-----------------------------------------------------------------------------
(***************************************************************************)
(* A walk.  As long as the workbook is the one the chunks were made from,  *)
(* what is left to do is made of chunk starts, and a sheet's own chunk     *)
(* tells whether the walk has got it.                                      *)
(***************************************************************************)

\* The sizes an analysis remembers are those of the workbook it opened.
SameCount ==
  /\ Unchanged => plan.count = count /\ todo \subseteq Starts(count, plan.size)
  /\ reading # None /\ reading.opened = version => reading.count = count

\* A sheet whose chunk was followed with a window at least as wide was got.
ChunksGot ==
  Unchanged /\ plan.window >= plan.size =>
    \A i \in 0..(count - 1) : i - (i % plan.size) \notin todo => seen[i] > 0

\* What an analysis and an unfinished one know of the past: contents they opened
\* are not later than the workbook's.
PastContents ==
  /\ plan # None => plan.opened <= version
  /\ reading # None => reading.opened <= version

WalkInv == TypeOK /\ PastContents /\ SameCount /\ WalkExact /\ ChunksGot

\* A step that changes neither the workbook, nor the analysis but for its age, nor
\* what was got keeps the invariant.
LEMMA WalkUntouched ==
  ASSUME WalkInv, TypeOK', UNCHANGED <<count, version, todo, seen>>,
         (plan # None) = (plan' # None),
         plan # None => /\ plan'.opened = plan.opened /\ plan'.count = plan.count
                        /\ plan'.size = plan.size /\ plan'.window = plan.window,
         reading' = reading \/ reading' = None
           \/ (reading'.opened = version /\ reading'.count = count)
  PROVE  WalkInv'
<1>1. Unchanged' = Unchanged
  BY DEF Unchanged
<1>2. PastContents'
  BY DEF WalkInv, PastContents, TypeOK
<1>3. SameCount'
  BY <1>1 DEF WalkInv, SameCount, Unchanged
<1>4. WalkExact' /\ ChunksGot'
  BY <1>1 DEF WalkInv, WalkExact, ChunksGot, Unchanged
<1> QED BY <1>2, <1>3, <1>4 DEF WalkInv

\* A fresh analysis leaves all of its chunks to do.
LEMMA AnswerWalk ==
  ASSUME WalkInv, TypeOK', NEW window \in WindowSizes, AnalyzeAnswer(window)
  PROVE  WalkInv'
<1> USE NavConstants DEF Bounds
<1>1. reading # None /\ reading \in Readings /\ plan' # None /\ plan' \in Analyses
  <2>1. reading # None /\ reading \in Readings \cup {None} /\ plan' \in Analyses \cup {None}
    BY DEF AnalyzeAnswer, WalkInv, TypeOK
  <2>2. reading \in Readings
    BY <2>1
  <2>3. plan' \in Analyses
    <3> HIDE DEF Positions, Contents, Ages
    <3>1. version \in Contents /\ 0 \in Ages
      BY DEF Ages, WalkInv, TypeOK
    <3> QED BY <2>2, <3>1 DEF AnalyzeAnswer, Analyses, Readings
  <2> QED BY <2>1, <2>2, <2>3, NoneApart
<1>2. /\ plan'.opened = reading.opened /\ plan'.count = reading.count
      /\ plan'.size = reading.size /\ todo' = Starts(reading.count, reading.size)
      /\ seen' = [i \in Positions |-> 0] /\ reading' = None
      /\ UNCHANGED <<count, version>>
  BY DEF AnalyzeAnswer
<1>3. PastContents'
  BY <1>1, <1>2 DEF WalkInv, PastContents
<1>4. SameCount'
  BY <1>1, <1>2 DEF WalkInv, SameCount, Unchanged
<1>5. ASSUME Unchanged', NEW i \in 0..(count - 1)
      PROVE  i - (i % plan'.size) \in todo' /\ seen'[i] = 0
  <2>1. reading.count = count /\ plan'.size \in Nat \ {0} /\ count \in 1..MaxSheets
    BY <1>1, <1>2, <1>5 DEF WalkInv, SameCount, Unchanged, Readings, TypeOK
  <2> DEFINE c == plan'.size
             o == i - (i % c)
  <2>2. c \in Nat \ {0} /\ i \in Nat /\ i < count
    BY <2>1
  <2>3. o \in 0..i /\ o % c = 0
    <3> HIDE DEF c
    <3> QED BY <2>2, ChunkOf
  <2>4. o \in 0..(count - 1)
    <3> HIDE DEF o
    <3> QED BY <2>1, <2>2, <2>3
  <2>5. o \in Starts(count, c)
    BY <2>3, <2>4 DEF Starts
  <2> QED BY <1>2, <2>1, <2>5
<1>6. WalkExact' /\ ChunksGot'
  BY <1>2, <1>5 DEF WalkExact, ChunksGot
<1> QED BY <1>3, <1>4, <1>6 DEF WalkInv

\* Following a chunk's cursor gets the sheets of that chunk, and no other one's
\* when the window is no wider.
LEMMA StepWalk ==
  ASSUME WalkInv, TypeOK', NEW offset \in todo, Walk(offset)
  PROVE  WalkInv'
<1> USE NavConstants DEF Bounds
<1>1. /\ plan \in Analyses /\ plan' = plan /\ todo' = todo \ {offset}
      /\ UNCHANGED <<count, version, reading>>
      /\ seen' = [i \in Positions |->
                    IF i \in Page(offset, plan.window) THEN seen[i] + 1 ELSE seen[i]]
  BY DEF Walk, WalkInv, TypeOK
<1>2. PastContents' /\ SameCount'
  BY <1>1 DEF WalkInv, PastContents, SameCount, Unchanged
<1>3. ASSUME Unchanged, NEW i \in 0..(count - 1), plan.window >= plan.size
      PROVE  /\ i - (i % plan.size) = offset => i \in Page(offset, plan.window)
             /\ plan.window = plan.size /\ i \in Page(offset, plan.window)
                  => i - (i % plan.size) = offset
             /\ i \in Positions /\ seen[i] \in Nat
  <2>1. /\ offset \in Nat /\ offset % plan.size = 0 /\ count \in 1..MaxSheets
        /\ plan.size \in Nat \ {0} /\ plan.window \in Nat
    <3>1. plan.size \in ChunkSizes /\ plan.window \in WindowSizes
      BY <1>1 DEF Analyses
    <3>2. offset \in Starts(count, plan.size) /\ count \in 1..MaxSheets
      BY <1>3 DEF WalkInv, SameCount, TypeOK
    <3>3. offset \in 0..(count - 1) /\ offset % plan.size = 0
      BY <3>2 DEF Starts
    <3>4. plan.size \in Nat \ {0} /\ plan.window \in Nat
      BY <3>1
    <3>5. offset \in Nat
      BY <3>2, <3>3
    <3> QED BY <3>2, <3>3, <3>4, <3>5
  <2>2. i - (i % plan.size) = offset => i \in Page(offset, plan.window)
    BY <1>3, <2>1, ChunkOf DEF Page
  <2>3. plan.window = plan.size /\ i \in Page(offset, plan.window) => i - (i % plan.size) = offset
    BY <2>1, ChunkUnique DEF Page
  <2> QED BY <2>1, <2>2, <2>3 DEF WalkInv, TypeOK
<1>4. WalkExact'
  <2> SUFFICES ASSUME Unchanged, plan.window = plan.size, NEW i \in 0..(count - 1)
               PROVE  seen'[i] = IF i - (i % plan.size) \in todo \ {offset} THEN 0 ELSE 1
    BY <1>1 DEF WalkExact, Unchanged
  <2>1. plan.size \in Nat /\ plan.window >= plan.size
    <3>1. plan.size \in ChunkSizes
      BY <1>1 DEF Analyses
    <3>2. plan.size \in Nat
      BY <3>1
    <3> QED BY <3>2
  <2>2. seen[i] = IF i - (i % plan.size) \in todo THEN 0 ELSE 1
    BY DEF WalkInv, WalkExact
  <2>3. i \in Page(offset, plan.window) <=> i - (i % plan.size) = offset
    BY <1>3, <2>1
  <2> QED BY <1>1, <1>3, <2>1, <2>2, <2>3
<1>5. ChunksGot'
  <2> SUFFICES ASSUME Unchanged, plan.window >= plan.size, NEW i \in 0..(count - 1),
                      i - (i % plan.size) \notin todo \ {offset}
               PROVE  seen'[i] > 0
    BY <1>1 DEF ChunksGot, Unchanged
  <2>1. CASE i - (i % plan.size) = offset
    BY <1>1, <1>3, <2>1
  <2>2. CASE i - (i % plan.size) \notin todo
    BY <1>1, <1>3, <2>2 DEF WalkInv, ChunksGot
  <2> QED BY <2>1, <2>2
<1> QED BY <1>2, <1>4, <1>5 DEF WalkInv

\* Every step keeps the invariant of a walk: an edit makes it say nothing more.
LEMMA NextWalk == WalkInv /\ [Next]_vars => WalkInv'
<1> SUFFICES ASSUME WalkInv, [Next]_vars PROVE WalkInv'
  OBVIOUS
<1>0. TypeOK'
  BY NavNextTypeOK DEF WalkInv
<1>1. ASSUME NEW size \in ChunkSizes, AnalyzeOpen(size) PROVE WalkInv'
  BY <1>0, <1>1, WalkUntouched DEF AnalyzeOpen
<1>2. ASSUME NEW window \in WindowSizes, AnalyzeAnswer(window) PROVE WalkInv'
  BY <1>0, <1>2, AnswerWalk
<1>3. CASE AnalyzeFail
  BY <1>0, <1>3, WalkUntouched DEF AnalyzeFail
<1>4. ASSUME NEW offset \in todo, Walk(offset) PROVE WalkInv'
  BY <1>0, <1>4, StepWalk
<1>5. ASSUME NEW n \in 1..MaxSheets, Edit(n) PROVE WalkInv'
  <2>1. /\ version \in Nat /\ version' = version + 1
        /\ UNCHANGED <<plan, reading, todo, seen>>
    BY <1>5, NavConstants DEF Bounds, Edit, WalkInv, TypeOK
  <2>2. /\ plan # None => plan.opened \in Nat /\ plan.opened <= version
        /\ reading # None => reading.opened \in Nat /\ reading.opened <= version
    BY NavConstants DEF Bounds, WalkInv, PastContents, TypeOK, Analyses, Readings
  <2>3. ~ Unchanged' /\ PastContents' /\ ~(reading' # None /\ reading'.opened = version')
    BY <2>1, <2>2 DEF Unchanged, PastContents
  <2> QED BY <1>0, <2>3 DEF WalkInv, SameCount, WalkExact, ChunksGot
<1>6. CASE Tick
  <2>1. plan # None => /\ plan' # None /\ plan'.opened = plan.opened /\ plan'.count = plan.count
                       /\ plan'.size = plan.size /\ plan'.window = plan.window
    <3>1. CASE plan # None
      <4>1. plan \in Analyses /\ plan' = [plan EXCEPT !.age = Older(@)]
        BY <1>6, <3>1 DEF Tick, WalkInv, TypeOK
      <4>2. plan' \in Analyses
        BY <4>1, NavConstants DEF Bounds, Analyses, Older
      <4> QED BY <4>1, <4>2, NoneApart DEF Analyses
    <3> QED BY <3>1
  <2>2. plan = None => plan' = None
    BY <1>6 DEF Tick
  <2> QED BY <1>0, <1>6, <2>1, <2>2, WalkUntouched DEF Tick
<1>7. CASE UNCHANGED vars
  BY <1>0, <1>7, WalkUntouched DEF vars
<1> QED BY <1>1, <1>2, <1>3, <1>4, <1>5, <1>6, <1>7 DEF Next

\* The invariant holds before any analysis.
LEMMA InitWalk == Init => WalkInv
BY NavConstants DEF Bounds, Init, WalkInv, TypeOK, PastContents, SameCount, WalkExact, ChunksGot, Unchanged

\* A walk with the analysis's own chunk size gets each sheet exactly once.
THEOREM WalkIsExact == Spec => []WalkExact
<1>1. WalkInv => WalkExact
  BY DEF WalkInv
<1> QED BY <1>1, InitWalk, NextWalk, PTL DEF Spec

\* A finished walk with a window no narrower than its chunks misses no sheet.
THEOREM WalkMissesNone == Spec => []WalkCovers
<1>1. WalkInv => WalkCovers
  BY DEF WalkInv, ChunksGot, WalkCovers
<1> QED BY <1>1, InitWalk, NextWalk, PTL DEF Spec
=============================================================================
