------------------------------- MODULE Server -------------------------------
(***************************************************************************)
(* The life of a server process (cmd/main.go, internal/server/server.go),  *)
(* started by itself or by its launcher (bin/mcp-xlsm.js): its mode, its   *)
(* goroutines, the requests it is handling, the signals either process     *)
(* gets and the codes they exit with.                                      *)
(*                                                                         *)
(* A request is told apart by what its handler does: it answers, with a    *)
(* result or an error ("plain"); it cannot be parsed ("bad"); it never     *)
(* ends ("endless", as analyze_file with chunk_size 0) or panics           *)
(* ("panics", as build_navigation_map with window_size 0).  On standard    *)
(* input a line may also be empty ("blank") or longer than the scanner     *)
(* takes ("long").                                                         *)
(***************************************************************************)
EXTENDS Integers, Sequences, FiniteSets

CONSTANTS
  N,           \* bound: the requests or lines of a session
  MaxSignals,  \* bound: the times somebody sends SIGINT or SIGTERM
  None,        \* still running
  Signal       \* killed by a signal, in place of an exit code

ASSUME NNat         == N \in Nat
ASSUME SignalsNat   == MaxSignals \in Nat
ASSUME NoneNoCode   == None \notin {0, 1, 2, Signal}
ASSUME SignalNoCode == Signal \notin {0, 1, 2}

VARIABLES
  mode,      \* the flag --stdio
  interval,  \* the configuration has a cleanup interval
  kind,      \* of each request or line
  main,      \* where the server's main function is
  exit,      \* how the process ended
  serve,     \* the goroutine of Start
  ticker,    \* the goroutine of startBackgroundServices
  queue,     \* a signal is in the channel `quit', which holds one
  grace,     \* the shutdown grace period
  sent,      \* requests that reached a handler, or lines read
  open,      \* those still being handled
  out,       \* those answered, in order
  launcher,  \* where bin/mcp-xlsm.js is
  forward,   \* it has a signal to hand on
  code,      \* how it ended
  signals    \* signals sent so far

serverVars   == <<main, exit, serve, ticker, queue, grace>>
requestVars  == <<sent, open, out>>
launcherVars == <<launcher, forward, code>>
setup        == <<mode, interval, kind>>
vars         == <<setup, serverVars, requestVars, launcherVars, signals>>

Requests == 1..N
Codes    == {0, 1, 2, Signal}

Kinds(m) == {"plain", "bad", "endless", "panics"}
              \cup (IF m = "stdio" THEN {"blank", "long"} ELSE {})

TypeOK ==
  /\ mode \in {"http", "stdio"} /\ interval \in BOOLEAN
  /\ kind \in [Requests -> Kinds(mode)]
  /\ main \in {"unborn", "loading", "launched", "waiting", "draining", "reading", "exited"}
  /\ exit \in Codes \cup {None} /\ (exit # None <=> main = "exited")
  /\ serve \in {"none", "starting", "started", "listening", "returned"}
  /\ ticker \in {"none", "starting", "running"}
  /\ queue \in BOOLEAN
  /\ grace \in {"none", "running", "over"}
  /\ sent \subseteq Requests /\ open \subseteq sent
  /\ out \in Seq(sent \ open)
  /\ launcher \in {"none", "starting", "spawned", "ready", "exited"}
  /\ forward \in BOOLEAN /\ code \in Codes \cup {None}
  /\ signals \in 0..MaxSignals

\* The binary is run by itself, as install-mcp.js registers it, or by the launcher.
Init ==
  /\ mode \in {"http", "stdio"}
  /\ interval \in BOOLEAN
  /\ kind \in [Requests -> Kinds(mode)]
  /\ \/ launcher = "none" /\ main = "loading"
     \/ launcher = "starting" /\ main = "unborn"
  /\ exit = None /\ code = None
  /\ serve = "none" /\ ticker = "none" /\ grace = "none"
  /\ queue = FALSE /\ forward = FALSE
  /\ sent = {} /\ open = {} /\ out = <<>>
  /\ signals = 0
-----------------------------------------------------------------------------
Alive == main \notin {"unborn", "exited"}

\* The process ends, with whatever it is doing.
Die(c) == main' = "exited" /\ exit' = c

Live == UNCHANGED <<main, exit>>

\* main reads its configuration: a missing file means the defaults, but a file that
\* leaves something out means zero.  Then it runs the server in its mode.
LoadConfig ==
  /\ main = "loading"
  /\ \/ Die(1) /\ UNCHANGED <<serve, ticker>>
     \/ /\ mode = "http"
        /\ main' = "launched" /\ serve' = "starting" /\ UNCHANGED <<exit, ticker>>
     \/ /\ mode = "stdio"
        /\ main' = "reading" /\ ticker' = "starting" /\ UNCHANGED <<exit, serve>>
  /\ UNCHANGED <<setup, queue, grace, requestVars, launcherVars, signals>>

\* Start, in its goroutine: the ticker's goroutine is started first.
Start ==
  /\ Alive /\ serve = "starting"
  /\ serve' = "started" /\ ticker' = "starting"
  /\ UNCHANGED <<setup, main, exit, queue, grace, requestVars, launcherVars, signals>>

\* Mutant: the orderly end of ListenAndServe is taken for a failure as well.
ReturnedFatal(err) == Die(1)

\* What main's goroutine does with the error that Start returns.
Returned(err) == IF err # "closed" THEN Die(1) ELSE Live

\* ListenAndServe: the port is free or not, and Shutdown ends it.
Listen ==
  /\ Alive
  /\ \/ serve = "started" /\ serve' = "listening" /\ Live
     \/ serve = "started" /\ serve' = "returned" /\ Returned("in use")
     \/ serve = "listening" /\ main = "draining" /\ serve' = "returned" /\ Returned("closed")
  /\ UNCHANGED <<setup, ticker, queue, grace, requestVars, launcherVars, signals>>

\* startBackgroundServices: NewTicker panics without a positive interval, and a panic
\* of a goroutine ends the process.  Its ticks change nothing.
BackgroundServices ==
  /\ Alive /\ ticker = "starting"
  /\ ticker' = "running"
  /\ IF interval THEN Live ELSE Die(2)
  /\ UNCHANGED <<setup, serve, queue, grace, requestVars, launcherVars, signals>>
-----------------------------------------------------------------------------
\* signal.Notify: from here on signals do not kill.
Notify ==
  /\ main = "launched"
  /\ main' = "waiting"
  /\ UNCHANGED <<setup, exit, serve, ticker, queue, grace, requestVars, launcherVars, signals>>

\* Mutant: Shutdown is given a context without a timeout.
GraceForever == "none"

\* The state of shutdownCtx once it is made.
GraceStarted == "running"

\* main takes the signal and calls Shutdown, which closes the listener and returns at
\* once if no request is being handled.
Shutdown ==
  /\ main = "waiting" /\ queue
  /\ queue' = FALSE
  /\ grace' = GraceStarted
  /\ IF open = {} THEN Die(0) ELSE main' = "draining" /\ UNCHANGED exit
  /\ UNCHANGED <<setup, serve, ticker, requestVars, launcherVars, signals>>

\* Mutant: main goes by the end of ListenAndServe, which does not wait for requests.
DrainedEarly == serve = "returned"

\* What Shutdown polls for.
Drained == open = {}

\* Shutdown returns.
ShutdownReturns ==
  /\ main = "draining"
  /\ \/ Drained /\ Die(0)
     \/ grace = "over" /\ Die(1)
  /\ UNCHANGED <<setup, serve, ticker, queue, grace, requestVars, launcherVars, signals>>

\* The timer of shutdownCtx.
GraceOver ==
  /\ Alive /\ grace = "running"
  /\ grace' = "over"
  /\ UNCHANGED <<setup, main, exit, serve, ticker, queue, requestVars, launcherVars, signals>>
-----------------------------------------------------------------------------
\* handleMCPRequest gets a request, in a goroutine of its own: nothing limits how many.
Accept(r) ==
  /\ Alive /\ serve = "listening" /\ main # "draining"
  /\ r \notin sent
  /\ sent' = sent \cup {r} /\ open' = open \cup {r}
  /\ UNCHANGED <<setup, serverVars, out, launcherVars, signals>>

\* It ends: with an answer, of a result or an error; or without, when RequestTimeout
\* has passed and the connection is closed, or when net/http recovers its panic.
Handled(r) ==
  /\ Alive /\ mode = "http" /\ r \in open
  /\ \/ kind[r] \in {"plain", "bad"} /\ out' = Append(out, r)
     \/ kind[r] \in {"plain", "panics"} /\ UNCHANGED out
  /\ open' = open \ {r}
  /\ UNCHANGED <<setup, serverVars, sent, launcherVars, signals>>

\* createChunks without end takes all memory.
OutOfMemory ==
  /\ Alive /\ \E r \in open : kind[r] = "endless"
  /\ \E c \in {2, Signal} : Die(c)
  /\ UNCHANGED <<setup, serve, ticker, queue, grace, requestVars, launcherVars, signals>>

\* The line that StartStdio's scanner reads next.
Line == Cardinality(sent) + 1

\* Mutants: after the parse error the line is routed like any other; it is dropped.
RefusedAndRouted(r) == out' = Append(out, r) /\ open' = {r}
RefusedSilently(r)  == UNCHANGED <<out, open>>

\* A line that is no JSON is answered with -32700, and the loop continues.
Refused(r) == out' = Append(out, r) /\ UNCHANGED open

\* scanner.Scan finds a line.
ReadLine ==
  /\ main = "reading" /\ open = {} /\ Line \in Requests
  /\ kind[Line] # "long"
  /\ sent' = sent \cup {Line}
  /\ CASE kind[Line] = "blank" -> UNCHANGED <<open, out>>
       [] kind[Line] = "bad"   -> Refused(Line)
       [] OTHER                -> open' = {Line} /\ UNCHANGED out
  /\ UNCHANGED <<setup, serverVars, launcherVars, signals>>

\* routeRequest returns and the answer is written, or it panics: nothing recovers.
HandleLine ==
  /\ main = "reading"
  /\ \E r \in open :
       \/ /\ kind[r] # "endless" /\ kind[r] # "panics"
          /\ out' = Append(out, r) /\ open' = {}
          /\ Live
       \/ /\ kind[r] = "panics" /\ Die(2)
          /\ UNCHANGED <<open, out>>
  /\ UNCHANGED <<setup, serve, ticker, queue, grace, sent, launcherVars, signals>>

\* scanner.Scan ends the loop, at the end of the input or at a line too long.
EndOfInput ==
  /\ main = "reading" /\ open = {}
  /\ Die(IF Line \notin Requests THEN 0 ELSE 1)
  /\ Line \in Requests => kind[Line] = "long"
  /\ UNCHANGED <<setup, serve, ticker, queue, grace, requestVars, launcherVars, signals>>
-----------------------------------------------------------------------------
\* A signal reaches the server: it goes into the channel, if there is room, or kills.
Signalled ==
  CASE main \in {"waiting", "draining"}           -> queue' = TRUE /\ Live
    [] Alive /\ main \notin {"waiting", "draining"} -> Die(Signal) /\ UNCHANGED queue
    [] OTHER                                      -> UNCHANGED <<main, exit, queue>>

\* The launcher looks for the binary and the configuration, then spawns the server,
\* which may fail.
Spawn ==
  /\ launcher = "starting"
  /\ \/ launcher' = "exited" /\ code' = 1 /\ UNCHANGED main
     \/ launcher' = "spawned" /\ main' \in {"unborn", "loading"} /\ UNCHANGED code
  /\ UNCHANGED <<setup, exit, serve, ticker, queue, grace, requestVars, forward, signals>>

\* Its handlers of the child's events and of signals are registered.
Ready ==
  /\ launcher = "spawned"
  /\ launcher' = "ready"
  /\ UNCHANGED <<setup, serverVars, requestVars, forward, code, signals>>

\* Mutants: the launcher exits on a signal itself; it does not hand the signal on.
ForwardAndExit == Signalled /\ launcher' = "exited" /\ code' = 0
ForwardNothing == UNCHANGED <<main, exit, queue, launcher, code>>

\* child.kill.
HandOn == Signalled /\ UNCHANGED <<launcher, code>>

\* The handler of SIGINT and SIGTERM.
Forward ==
  /\ launcher = "ready" /\ forward
  /\ forward' = FALSE
  /\ HandOn
  /\ UNCHANGED <<setup, serve, ticker, grace, requestVars, signals>>

\* The child's `exit' event, with no code when a signal killed it, or `error' event.
ChildEnds ==
  /\ launcher = "ready" /\ main \in {"exited", "unborn"}
  /\ launcher' = "exited"
  /\ code' = CASE main = "unborn" -> 1
               [] exit = Signal   -> 0
               [] OTHER           -> exit
  /\ UNCHANGED <<setup, serverVars, requestVars, forward, signals>>

\* Somebody sends a signal to either process, or from a terminal to both.
SendSignal(toLauncher, toServer) ==
  /\ signals < MaxSignals
  /\ signals' = signals + 1
  /\ IF toServer THEN Signalled ELSE UNCHANGED <<main, exit, queue>>
  /\ CASE toLauncher /\ launcher \in {"starting", "spawned"} ->
            launcher' = "exited" /\ code' = Signal /\ UNCHANGED forward
       [] toLauncher /\ launcher = "ready" -> forward' = TRUE /\ UNCHANGED <<launcher, code>>
       [] OTHER                            -> UNCHANGED launcherVars
  /\ UNCHANGED <<setup, serve, ticker, grace, requestVars>>

Main == LoadConfig \/ Notify \/ Shutdown \/ ShutdownReturns
Launcher == Spawn \/ Ready \/ Forward \/ ChildEnds

Next ==
  \/ Main
  \/ Launcher
  \/ Start \/ Listen \/ BackgroundServices \/ GraceOver
  \/ \E r \in Requests : Accept(r) \/ Handled(r)
  \/ ReadLine \/ HandleLine \/ EndOfInput \/ OutOfMemory
  \/ \E toLauncher, toServer \in BOOLEAN : SendSignal(toLauncher, toServer)

Spec == Init /\ [][Next]_vars

\* The two main programs run on, and so does the timer.  Nothing is assumed of
\* requests or of signals.
FairSpec == Spec /\ WF_vars(Main) /\ WF_vars(Launcher) /\ WF_vars(GraceOver)
-----------------------------------------------------------------------------
(***************************************************************************)
(* Properties.                                                             *)
(***************************************************************************)
\* On standard output there is one answer for each line read that is not empty, in
\* the order of the lines, but for the one being handled: clients match answers by
\* their order when a parse error leaves them without an id (StartStdio).
InOrder ==
  mode = "stdio" =>
    /\ {out[i] : i \in DOMAIN out} = {r \in sent : kind[r] # "blank" /\ r \notin open}
    /\ \A i, j \in DOMAIN out : i < j => out[i] < out[j]

\* A server that exits with 0, "Server exited", has finished every request it had
\* accepted, whenever the signal came ("Setup graceful shutdown", main.go line 42).
GracefulExit == mode = "http" /\ exit = 0 => open = {}

\* A shutdown is reported as failed only when its grace period is over, although
\* ListenAndServe returns an error the moment Shutdown begins (main.go line 56).
ForcedOnlyLate == grace # "none" /\ exit = 1 => grace = "over"

\* The launcher does not leave the server behind: it ends by itself only after the
\* server has, unless the server could not be started.
LauncherLast == code \in {0, 1, 2} => ~ Alive

\* A signal that the server waits for ends it, even if a request never does.
SignalsStop == (main = "waiting" /\ queue) ~> (main = "exited")

\* A signal to the launcher alone ends both processes, in either mode and at every
\* point of the server's start.
LauncherStops == (launcher = "ready" /\ forward) ~> (launcher = "exited" /\ ~ Alive)
=============================================================================
