---------------------------- MODULE ServerProofs ----------------------------
(***************************************************************************)
(* How a server and its launcher end, for any number of requests, lines    *)
(* and signals.                                                            *)
(***************************************************************************)
EXTENDS Server, FiniteSetTheorems, TLAPS

\* The assumptions on the constants, in one fact.
LEMMA ServerConstants ==
  /\ N \in Nat /\ MaxSignals \in Nat
  /\ None \notin Codes /\ Signal \notin {0, 1, 2}
BY NNat, SignalsNat, NoneNoCode, SignalNoCode DEF Codes

\* Each place of main belongs to one mode.
Modes ==
  /\ main = "reading" => mode = "stdio"
  /\ main \in {"launched", "waiting", "draining"} => mode = "http"
  /\ serve # "none" \/ grace # "none" => mode = "http"
  /\ main \in {"unborn", "loading"} => serve = "none"

\* The grace period starts when main leaves the state of waiting, and a server that
\* drains has listened.
Stages ==
  /\ main \notin {"draining", "exited"} => grace = "none"
  /\ mode = "http" /\ sent # {} => serve \in {"listening", "returned"}
  /\ main = "draining" => sent # {}

\* Lines are read one after the other.
Lines == mode = "stdio" => sent = 1..Cardinality(sent)

\* The launcher starts the server once and ends once.
Launched ==
  /\ launcher = "starting" => main = "unborn"
  /\ launcher # "exited" => code = None

ServerInv ==
  /\ TypeOK
  /\ Modes
  /\ Stages
  /\ Lines
  /\ Launched
  /\ GracefulExit
  /\ ForcedOnlyLate
  /\ LauncherLast
-----------------------------------------------------------------------------
\* A sequence over a set is one over a larger set, also with an element more of it.
LEMMA LongerSeq ==
  ASSUME NEW S, NEW T, S \subseteq T, NEW q \in Seq(S)
  PROVE  q \in Seq(T) /\ \A x \in T : Append(q, x) \in Seq(T)
<1>1. q \in Seq(T)
  OBVIOUS
<1> QED BY <1>1

\* Requests are counted by a natural number.
LEMMA SentCounted == sent \subseteq Requests => Cardinality(sent) \in Nat
<1>1. IsFiniteSet(1..N)
  BY ServerConstants, FS_Interval
<1> QED BY <1>1, FS_Subset, FS_CardinalityType DEF Requests

\* A new process.
LEMMA ServerInvInit == Init => ServerInv
<1> SUFFICES ASSUME Init PROVE ServerInv
  OBVIOUS
<1> USE ServerConstants DEF Init
<1>1. sent = 1..Cardinality(sent)
  BY FS_EmptySet
<1>2. out \in Seq(sent \ open) /\ sent \subseteq Requests /\ open \subseteq sent
  OBVIOUS
<1>3. TypeOK
  <2>1. main \in {"unborn", "loading"} /\ launcher \in {"none", "starting"}
    OBVIOUS
  <2>2. mode \in {"http", "stdio"} /\ interval \in BOOLEAN /\ kind \in [Requests -> Kinds(mode)]
    OBVIOUS
  <2>3. signals \in 0..MaxSignals
    OBVIOUS
  <2> QED BY <1>2, <2>1, <2>2, <2>3 DEF TypeOK, Codes
<1>4. Modes /\ Stages /\ Launched
  BY DEF Modes, Stages, Launched
<1>5. GracefulExit /\ ForcedOnlyLate /\ LauncherLast
  BY DEF GracefulExit, ForcedOnlyLate, LauncherLast, Codes
<1> QED BY <1>1, <1>3, <1>4, <1>5 DEF ServerInv, Lines

\* A signal leaves the server as it is, or puts the signal in the channel, or ends a
\* server that does not wait for it.
LEMMA SignalledEnds ==
  ASSUME ServerInv, Signalled
  PROVE  \/ main' = main /\ exit' = exit /\ queue' \in BOOLEAN
         \/ Alive /\ grace = "none" /\ main' = "exited" /\ exit' = Signal /\ queue' = queue
BY DEF ServerInv, TypeOK, Stages, Signalled, Alive, Live, Die

\* Every step keeps the invariant.
LEMMA ServerInvNext == ServerInv /\ [Next]_vars => ServerInv'
<1> SUFFICES ASSUME ServerInv, [Next]_vars PROVE ServerInv'
  OBVIOUS
<1> USE ServerConstants DEF ServerInv, TypeOK, Modes, Stages, Lines, Launched, GracefulExit, ForcedOnlyLate,
      LauncherLast, Requests, Alive, Codes, Live, Die, setup, serverVars, requestVars, launcherVars
<1>1. CASE LoadConfig
  BY <1>1 DEF LoadConfig
<1>2. CASE Notify
  BY <1>2 DEF Notify
<1>3. CASE Shutdown
  <2>1. CASE open = {}
    <3>1. main' = "exited" /\ exit' = 0 /\ grace' = "running" /\ queue' = FALSE /\ main = "waiting"
      BY <1>3, <2>1 DEF Shutdown, GraceStarted
    <3>2. UNCHANGED <<setup, serve, ticker, requestVars, launcherVars, signals>>
      BY <1>3 DEF Shutdown
    <3>3. TypeOK'
      BY <3>1, <3>2
    <3>4. Modes' /\ Stages' /\ Launched'
      BY <3>1, <3>2
    <3>5. GracefulExit' /\ ForcedOnlyLate' /\ LauncherLast'
      BY <2>1, <3>1, <3>2
    <3>6. Lines'
      BY <3>2
    <3> QED BY <3>3, <3>4, <3>5, <3>6
  <2>2. CASE open # {}
    BY <1>3, <2>2 DEF Shutdown, GraceStarted
  <2> QED BY <2>1, <2>2
<1>4. CASE ShutdownReturns
  BY <1>4 DEF ShutdownReturns, Drained
<1>5. CASE Spawn
  BY <1>5 DEF Spawn
<1>6. CASE Ready
  BY <1>6 DEF Ready
<1>7. CASE Forward
  <2>1. launcher' = "ready" /\ code' = code /\ forward' = FALSE
    BY <1>7 DEF Forward, HandOn
  <2>2. UNCHANGED <<setup, serve, ticker, grace, requestVars, signals>>
    BY <1>7 DEF Forward
  <2>3. CASE main' = main /\ exit' = exit /\ queue' \in BOOLEAN
    BY <1>7, <2>1, <2>2, <2>3 DEF Forward
  <2>4. CASE Alive /\ grace = "none" /\ main' = "exited" /\ exit' = Signal /\ queue' = queue
    BY <1>7, <2>1, <2>2, <2>4 DEF Forward
  <2> QED BY <1>7, <2>3, <2>4, SignalledEnds DEF Forward, HandOn
<1>8. CASE ChildEnds
  BY <1>8 DEF ChildEnds
<1>9. CASE Start
  BY <1>9 DEF Start
<1>10. CASE Listen
  BY <1>10 DEF Listen, Returned
<1>11. CASE BackgroundServices
  BY <1>11 DEF BackgroundServices
<1>12. CASE GraceOver
  BY <1>12 DEF GraceOver
<1>13. CASE ReadLine
  <2>0. Line \in Requests /\ sent = 1..Cardinality(sent) /\ sent' = sent \cup {Line}
    BY <1>13 DEF ReadLine
  <2>1. Line = Cardinality(sent) + 1 /\ Cardinality(sent) \in Nat /\ Line \notin sent
    BY <2>0, SentCounted DEF Line
  <2>2. sent' = 1..Cardinality(sent')
    <3>1. sent' = 1..Line
      BY <2>0, <2>1
    <3>2. Cardinality(1..Line) = Line
      BY <2>1, FS_Interval
    <3> QED BY <3>1, <3>2
  <2>3. open' \subseteq sent' /\ out' \in Seq(sent' \ open')
    <3>0. open = {} /\ out \in Seq(sent)
      BY <1>13 DEF ReadLine
    <3>1. CASE kind[Line] = "blank"
      BY <1>13, <2>0, <3>0, <3>1, LongerSeq DEF ReadLine
    <3>2. CASE kind[Line] = "bad"
      <4>1. out' = Append(out, Line) /\ open' = {}
        BY <1>13, <3>0, <3>2 DEF ReadLine, Refused
      <4> QED BY <2>0, <3>0, <4>1, LongerSeq
    <3>3. CASE kind[Line] \notin {"blank", "bad"}
      <4>1. out' = out /\ open' = {Line}
        BY <1>13, <3>3 DEF ReadLine
      <4>2. sent' \ open' = sent
        BY <2>0, <2>1, <4>1
      <4> QED BY <2>0, <3>0, <4>1, <4>2
    <3> QED BY <3>1, <3>2, <3>3
  <2> QED BY <1>13, <2>0, <2>2, <2>3 DEF ReadLine
<1>14. CASE HandleLine
  <2>1. PICK r \in open : \/ out' = Append(out, r) /\ open' = {} /\ Live
                          \/ Die(2) /\ UNCHANGED <<open, out>>
    BY <1>14 DEF HandleLine
  <2>2. open' \subseteq sent' /\ out' \in Seq(sent' \ open')
    <3>1. r \in sent /\ sent' = sent
      BY <1>14, <2>1 DEF HandleLine
    <3>2. CASE out' = Append(out, r) /\ open' = {}
      BY <3>1, <3>2, LongerSeq
    <3>3. CASE UNCHANGED <<open, out>>
      BY <3>1, <3>3
    <3> QED BY <2>1, <3>2, <3>3
  <2> QED BY <1>14, <2>1, <2>2 DEF HandleLine
<1>15. CASE EndOfInput
  BY <1>15 DEF EndOfInput, Line
<1>16. CASE OutOfMemory
  BY <1>16 DEF OutOfMemory
<1>17. ASSUME NEW r \in Requests, Accept(r) PROVE ServerInv'
  BY <1>17 DEF Accept
<1>18. ASSUME NEW r \in Requests, Handled(r) PROVE ServerInv'
  <2>1. open' \subseteq sent' /\ out' \in Seq(sent' \ open')
    <3>1. r \in sent /\ sent' = sent /\ open' = open \ {r}
      BY <1>18 DEF Handled
    <3>2. CASE out' = Append(out, r)
      BY <3>1, <3>2, LongerSeq
    <3>3. CASE out' = out
      BY <3>1, <3>3, LongerSeq
    <3> QED BY <1>18, <3>2, <3>3 DEF Handled
  <2> QED BY <1>18, <2>1 DEF Handled
<1>19. ASSUME NEW toLauncher \in BOOLEAN, NEW toServer \in BOOLEAN, SendSignal(toLauncher, toServer) PROVE ServerInv'
  <2>1. Signalled \/ UNCHANGED <<main, exit, queue>>
    BY <1>19 DEF SendSignal
  <2>2. CASE toLauncher /\ launcher \in {"starting", "spawned"}
    BY <1>19, <2>1, <2>2, SignalledEnds DEF SendSignal
  <2>3. CASE toLauncher /\ launcher = "ready"
    BY <1>19, <2>1, <2>3, SignalledEnds DEF SendSignal
  <2>4. CASE ~ toLauncher \/ launcher \notin {"starting", "spawned", "ready"}
    BY <1>19, <2>1, <2>4, SignalledEnds DEF SendSignal
  <2> QED BY <2>2, <2>3, <2>4
<1>20. CASE UNCHANGED vars
  BY <1>20 DEF vars
<1> QED BY <1>1, <1>2, <1>3, <1>4, <1>5, <1>6, <1>7, <1>8, <1>9, <1>10, <1>11, <1>12, <1>13, <1>14, <1>15, <1>16, <1>17, <1>18, <1>19, <1>20 DEF Next, Main, Launcher
-----------------------------------------------------------------------------
(***************************************************************************)
(* The answers on standard output.  That they keep the order of the lines  *)
(* needs that the line being handled is the last one read: StartStdio      *)
(* reads no line before it has answered the one before.                    *)
(***************************************************************************)
LastLine == mode = "stdio" => \A r \in open : r = Cardinality(sent) /\ kind[r] # "blank"

Increasing(q) == \A i, j \in DOMAIN q : i < j => q[i] < q[j]
Elements(q)   == {q[i] : i \in DOMAIN q}

\* An answer that comes after all the others leaves them in order.
LEMMA AppendLast ==
  ASSUME NEW q \in Seq(Nat), NEW r \in Nat, \A i \in DOMAIN q : q[i] < r, Increasing(q)
  PROVE  Increasing(Append(q, r)) /\ Elements(Append(q, r)) = Elements(q) \cup {r}
<1> DEFINE s == Append(q, r)
<1>1. /\ DOMAIN q = 1..Len(q) /\ DOMAIN s = 1..(Len(q) + 1) /\ Len(q) \in Nat
      /\ \A i \in 1..Len(q) : s[i] = q[i]
      /\ s[Len(q) + 1] = r
  OBVIOUS
<1> HIDE DEF s
<1>2. Increasing(s)
  BY <1>1 DEF Increasing
<1>3. Elements(s) = Elements(q) \cup {r}
  <2>1. DOMAIN s = DOMAIN q \cup {Len(q) + 1}
    BY <1>1
  <2> QED BY <1>1, <2>1 DEF Elements
<1> QED BY <1>2, <1>3 DEF s

\* No step changes the mode, the configuration or what a request is.
LEMMA SetupKept == [Next]_vars => setup' = setup
<1> SUFFICES ASSUME [Next]_vars PROVE setup' = setup
  OBVIOUS
<1>1. Main \/ Launcher => setup' = setup
  BY DEF Main, Launcher, LoadConfig, Notify, Shutdown, ShutdownReturns, Spawn, Ready, Forward, ChildEnds
<1>2. Start \/ Listen \/ BackgroundServices \/ GraceOver \/ ReadLine \/ HandleLine \/ EndOfInput \/ OutOfMemory
        => setup' = setup
  BY DEF Start, Listen, BackgroundServices, GraceOver, ReadLine, HandleLine, EndOfInput, OutOfMemory
<1>3. \A r \in Requests : Accept(r) \/ Handled(r) => setup' = setup
  BY DEF Accept, Handled
<1>4. \A toLauncher, toServer \in BOOLEAN : SendSignal(toLauncher, toServer) => setup' = setup
  BY DEF SendSignal
<1>5. UNCHANGED vars => setup' = setup
  BY DEF vars
<1> QED BY <1>1, <1>2, <1>3, <1>4, <1>5 DEF Next

\* Every step keeps the answers in order.
LEMMA InOrderNext == ServerInv /\ LastLine /\ InOrder /\ [Next]_vars => LastLine' /\ InOrder'
<1> SUFFICES ASSUME ServerInv, LastLine, InOrder, [Next]_vars PROVE LastLine' /\ InOrder'
  OBVIOUS
<1> SUFFICES ASSUME mode = "stdio" PROVE LastLine' /\ InOrder'
  <2>1. setup' = setup
    BY SetupKept
  <2>2. mode' = mode
    BY <2>1 DEF setup
  <2>3. mode # "stdio" => LastLine' /\ InOrder'
    BY <2>2 DEF LastLine, InOrder
  <2> QED BY <2>3
<1> DEFINE c == Cardinality(sent)
<1>1. sent = 1..c /\ c \in Nat /\ open \subseteq sent
  BY SentCounted DEF ServerInv, TypeOK, Lines
<1>2. out \in Seq(Nat) /\ \A i \in DOMAIN out : out[i] \in sent \ open
  <2>1. out \in Seq(sent \ open) /\ sent \ open \subseteq Nat
    BY <1>1 DEF ServerInv, TypeOK
  <2>2. out \in Seq(Nat)
    BY <2>1, LongerSeq
  <2> QED BY <2>1, <2>2
<1>3. CASE UNCHANGED <<setup, requestVars>>
  BY <1>3 DEF LastLine, InOrder, setup, requestVars
<1>4. CASE ReadLine
  <2>1. /\ Line = c + 1 /\ open = {} /\ sent' = sent \cup {Line}
        /\ mode' = mode /\ kind' = kind /\ Line \notin sent
    BY <1>1, <1>4 DEF ReadLine, Line, setup
  <2>2. Cardinality(sent') = Line
    <3>1. sent' = 1..Line
      BY <1>1, <2>1
    <3>2. Cardinality(1..Line) = Line
      BY <1>1, <2>1, FS_Interval
    <3> QED BY <3>1, <3>2
  <2>3. CASE kind[Line] = "blank"
    BY <1>4, <2>1, <2>3 DEF ReadLine, LastLine, InOrder
  <2>4. CASE kind[Line] = "bad"
    <3>1. out' = Append(out, Line) /\ open' = {}
      BY <1>4, <2>1, <2>4 DEF ReadLine, Refused
    <3>2. \A i \in DOMAIN out : out[i] < Line
      BY <1>1, <1>2, <2>1
    <3>3. Increasing(out') /\ Elements(out') = Elements(out) \cup {Line}
      <4>1. Line \in Nat /\ Increasing(out)
        BY <1>1, <2>1, <3>1 DEF InOrder, Increasing
      <4> QED BY <1>2, <2>1, <3>1, <3>2, <4>1, AppendLast
    <3> QED BY <2>1, <2>4, <3>1, <3>3 DEF LastLine, InOrder, Increasing, Elements
  <2>5. CASE kind[Line] \notin {"blank", "bad"}
    <3>1. out' = out /\ open' = {Line}
      BY <1>4, <2>5 DEF ReadLine
    <3>2. {r \in sent' : kind'[r] # "blank" /\ r \notin open'} = {r \in sent : kind[r] # "blank" /\ r \notin open}
      BY <2>1, <3>1
    <3> QED BY <2>1, <2>2, <2>5, <3>1, <3>2 DEF LastLine, InOrder
  <2> QED BY <2>3, <2>4, <2>5
<1>5. CASE HandleLine
  <2>0. UNCHANGED <<setup, sent>>
    BY <1>5 DEF HandleLine
  <2>1. PICK r \in open : \/ kind[r] # "endless" /\ kind[r] # "panics" /\ out' = Append(out, r) /\ open' = {}
                          \/ UNCHANGED <<open, out>>
    BY <1>5 DEF HandleLine
  <2>2. CASE UNCHANGED <<open, out>>
    BY <1>3, <2>0, <2>2 DEF requestVars
  <2>3. CASE out' = Append(out, r) /\ open' = {}
    <3>1. r = c /\ open = {r}
      BY DEF LastLine
    <3>2. \A i \in DOMAIN out : out[i] < r
      BY <1>1, <1>2, <3>1
    <3>3. Increasing(out') /\ Elements(out') = Elements(out) \cup {r}
      <4>1. r \in Nat /\ Increasing(out)
        BY <1>1, <2>3, <3>1 DEF InOrder, Increasing
      <4> QED BY <1>2, <2>3, <3>1, <3>2, <4>1, AppendLast
    <3>4. kind[r] # "blank"
      BY DEF LastLine
    <3> QED BY <1>1, <2>0, <2>3, <3>1, <3>3, <3>4 DEF LastLine, InOrder, Increasing, Elements, setup
  <2> QED BY <2>1, <2>2, <2>3
<1>6. ASSUME NEW r \in Requests, Accept(r) \/ Handled(r) PROVE FALSE
  BY <1>6 DEF Accept, Handled, ServerInv, Modes
<1> QED BY <1>3, <1>4, <1>5, <1>6
        DEF Next, Main, Launcher, LoadConfig, Notify, Shutdown, ShutdownReturns, Spawn, Ready, Forward,
            ChildEnds, Start, Listen, BackgroundServices, GraceOver, EndOfInput, OutOfMemory, SendSignal, vars
-----------------------------------------------------------------------------
\* The types of a server's life.
THEOREM ServerTypeCorrect == Spec => []TypeOK
<1>1. ServerInv => TypeOK
  BY DEF ServerInv
<1> QED BY <1>1, ServerInvInit, ServerInvNext, PTL DEF Spec

\* No server that exits with 0 leaves a request it had accepted.
THEOREM ExitIsGraceful == Spec => []GracefulExit
<1>1. ServerInv => GracefulExit
  BY DEF ServerInv
<1> QED BY <1>1, ServerInvInit, ServerInvNext, PTL DEF Spec

\* A shutdown fails for the end of its grace period only.
THEOREM ForceIsLate == Spec => []ForcedOnlyLate
<1>1. ServerInv => ForcedOnlyLate
  BY DEF ServerInv
<1> QED BY <1>1, ServerInvInit, ServerInvNext, PTL DEF Spec

\* The launcher, unless killed, does not end before the server.
THEOREM LauncherIsLast == Spec => []LauncherLast
<1>1. ServerInv => LauncherLast
  BY DEF ServerInv
<1> QED BY <1>1, ServerInvInit, ServerInvNext, PTL DEF Spec

\* On standard output every line gets its answer, in the order of the lines.
THEOREM AnswersInOrder == Spec => []InOrder
<1>1. Init => LastLine /\ InOrder
  BY DEF Init, LastLine, InOrder
<1> QED BY <1>1, ServerInvInit, ServerInvNext, InOrderNext, PTL DEF Spec
=============================================================================
