------------------------------- MODULE Tokens -------------------------------
(***************************************************************************)
(* The token counter (internal/token/counter.go): one memo of counts for   *)
(* all requests, without a lock around the three steps of a count (look it *)
(* up, compute it, store it), and what is decided from a count.            *)
(*                                                                         *)
(* A question is a value given to Count or a text given to CountString.    *)
(* Count finds it under the value's type and printed form, CountString     *)
(* under the text itself: different questions may have one key.            *)
(***************************************************************************)
EXTENDS Integers

CONSTANTS
  Threads,    \* the goroutines of requests
  Questions,  \* what they may have counted
  Keys,       \* the keys of the memo
  KeyOf,      \* under which key each question is
  Weight,     \* its tokens; None for a value that is no JSON
  Models,     \* the models there are limits for
  Default,    \* "sonnet-4"
  SafeBuffer, \* the limit of each
  None        \* not there

ASSUME KeysOfQuestions == KeyOf \in [Questions -> Keys]
ASSUME WeightsNat      == Weight \in [Questions -> Nat \cup {None}]
ASSUME LimitsPositive  == SafeBuffer \in [Models -> Nat \ {0}]
ASSUME DefaultModel    == Default \in Models
ASSUME NoneNoNumber    == None \notin Nat /\ None \notin Questions

VARIABLES
  memo,   \* the counts in tc.cache
  phase,  \* of each thread: it is computing a count, or has been told one
  asked,  \* its question
  told    \* the answer, None for an error

tokenVars == <<memo, phase, asked, told>>

TokensTypeOK ==
  /\ memo \in [Keys -> Nat \cup {None}]
  /\ phase \in [Threads -> {"idle", "computing", "told"}]
  /\ asked \in [Threads -> Questions \cup {None}]
  /\ told \in [Threads -> Nat \cup {None}]
  /\ \A t \in Threads : phase[t] # "idle" => asked[t] \in Questions

TokensInit ==
  /\ memo = [k \in Keys |-> None]
  /\ phase = [t \in Threads |-> "idle"]
  /\ asked = [t \in Threads |-> None]
  /\ told = [t \in Threads |-> None]
-----------------------------------------------------------------------------
\* Count and CountString: the memo is looked up.
Load(t, q) ==
  /\ phase[t] = "idle"
  /\ asked' = [asked EXCEPT ![t] = q]
  /\ LET found == memo[KeyOf[q]] IN
       /\ phase' = [phase EXCEPT ![t] = IF found # None THEN "told" ELSE "computing"]
       /\ told' = [told EXCEPT ![t] = found]
  /\ UNCHANGED memo

\* Mutant: a value that cannot be counted is tried again.
PhaseRetry(n) == IF n = None THEN "computing" ELSE "told"

\* An error is an answer too.
PhaseAfter(n) == "told"

\* The value is counted; the count, if there is one, is stored over whatever is there.
Store(t) ==
  /\ phase[t] = "computing"
  /\ LET q == asked[t]
         n == Weight[q]
     IN  /\ memo' = IF n = None THEN memo ELSE [memo EXCEPT ![KeyOf[q]] = n]
         /\ told' = [told EXCEPT ![t] = n]
         /\ phase' = [phase EXCEPT ![t] = PhaseAfter(n)]
  /\ UNCHANGED asked

\* The handler goes on with the answer.
Return(t) ==
  /\ phase[t] = "told"
  /\ phase' = [phase EXCEPT ![t] = "idle"]
  /\ asked' = [asked EXCEPT ![t] = None]
  /\ told' = [told EXCEPT ![t] = None]
  /\ UNCHANGED memo

\* Mutant: a count is cleared and its key stays.
Cleared == 0

\* What Delete leaves.
Deleted == None

\* CleanCache deletes one key after another, others may be stored meanwhile.
CleanCache(k) ==
  /\ memo[k] # None
  /\ memo' = [memo EXCEPT ![k] = Deleted]
  /\ UNCHANGED <<phase, asked, told>>

TokensNext ==
  \/ \E t \in Threads : (\E q \in Questions : Load(t, q)) \/ Store(t) \/ Return(t)
  \/ \E k \in Keys : CleanCache(k)

\* Counts by themselves, for any handlers.
TokensSpec == TokensInit /\ [][TokensNext]_tokenVars
-----------------------------------------------------------------------------
\* GetModelLimits: a model nobody knows has the default's limits.
GetModelLimits(model) == SafeBuffer[IF model \in Models THEN model ELSE Default]

\* ValidateTokenLimit, of n tokens and what GetModelLimits says.
ValidateTokenLimit(n, limit) == n <= limit

\* Mutant: a full last chunk is followed by an empty one.
ChunksNeededPlus(n, limit) == IF n <= limit THEN 1 ELSE n \div limit + 1

\* EstimateChunkingNeeded: into how many chunks.
ChunksNeeded(n, limit) == IF n <= limit THEN 1 ELSE (n + limit - 1) \div limit

\* GetCompressionStrategy.
GetCompressionStrategy(n, limit) ==
  CASE 10 * n < 5 * limit -> "none"
    [] 10 * n >= 5 * limit /\ 10 * n < 7 * limit -> "gzip"
    [] 10 * n >= 7 * limit /\ 10 * n < 9 * limit -> "brotli"
    [] OTHER -> "brotli-aggressive"
-----------------------------------------------------------------------------
(***************************************************************************)
(* Properties.                                                             *)
(***************************************************************************)
Shared(q) == \E other \in Questions : other # q /\ KeyOf[other] = KeyOf[q]

\* "Convert to JSON for accurate counting" (counter.go, line 62): whatever other requests
\* have counted or cleaned between its steps, a question that shares its key with no
\* other is told its own count, and an error only if it has none.
Accurate ==
  \A t \in Threads :
    phase[t] = "told" /\ ~ Shared(asked[t]) => told[t] = Weight[asked[t]]
=============================================================================
