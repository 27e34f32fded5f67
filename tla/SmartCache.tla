----------------------------- MODULE SmartCache -----------------------------
(***************************************************************************)
(* The memory-bounded cache of internal/cache/smart_cache.go: an LRU of    *)
(* fixed capacity beside a table (hotData) that records, for each key, its *)
(* access count, its last access, its time to live and its size.  The two  *)
(* are kept in step by hand: the LRU drops its oldest key by itself when   *)
(* it overflows and the table is not told (the eviction callback is        *)
(* empty), so a key may stay in the table as a ghost.                      *)
(*                                                                         *)
(* Every exported method holds the mutex throughout, so it is one action;  *)
(* GetWithValidation takes the mutex twice and is two.  Time is a number   *)
(* of ticks since the last access.                                         *)
(***************************************************************************)
EXTENDS FiniteSets, Integers, Functions

CONSTANTS
  Keys,        \* the keys callers use
  Values,      \* the values callers store
  Wrapped,     \* the values that are *CacheEntry, which validation inspects
  Checksum,    \* the checksum each wrapped value carries
  None,        \* no value
  NoSum,       \* the empty expected checksum: validate the expiry only
  Sizes,       \* the sizes callers give their values
  LruCap,      \* capacity of the LRU, 1000 in the code
  MaxMemory,   \* the memory limit
  ShortTTL,    \* time to live of an entry, 5 minutes
  LongTTL,     \* time to live of a promoted entry, 10 minutes
  ColdAge,     \* an entry used once is evictable past this age, 5 minutes
  OldAge,      \* any entry is evictable past this age, 15 minutes
  HotCount,    \* an entry is promoted after more accesses than this, 3
  Threads,     \* the callers of GetWithValidation
  Idle,        \* a thread that is not between its two critical sections
  MaxStat      \* bound: the statistics are counted up to here

ASSUME KeysFinite    == IsFiniteSet(Keys)
ASSUME SizesNat      == Sizes \subseteq Nat
ASSUME LruCapPos     == LruCap \in Nat \ {0}
ASSUME MaxMemoryNat  == MaxMemory \in Nat
ASSUME AgesOrdered   == /\ ShortTTL \in Nat /\ LongTTL \in Nat
                        /\ ColdAge \in Nat /\ OldAge \in Nat
                        /\ ShortTTL <= ColdAge /\ ShortTTL < LongTTL
                        /\ ColdAge <= OldAge /\ LongTTL <= OldAge
ASSUME HotCountNat   == HotCount \in Nat \ {0}
ASSUME WrappedValues == Wrapped \subseteq Values
ASSUME MaxStatNat    == MaxStat \in Nat

VARIABLES
  cached,      \* contents of the LRU: a function from its keys to values
  older,       \* <<j, k>> when key j of the LRU was used before key k
  hotData,     \* the tracking table: a function from its keys to HotEntry
  currentMem,  \* the running memory count
  expired,     \* the values whose ExpiresAt is past
  pending,     \* what each thread holds between its two critical sections
  stats,       \* the statistics counters
  accepted     \* history: each key's last Set that returned true, None once deleted

vars == <<cached, older, hotData, currentMem, expired, pending, stats, accepted>>
-----------------------------------------------------------------------------
MaxAge == OldAge + 1     \* older than every threshold: ages saturate here

HotEntry == [count : 1..(HotCount + 1), age : 0..MaxAge,
             ttl : {ShortTTL, LongTTL}, size : Nat]
Stats    == [hits : Nat, misses : Nat, evictions : Nat, promotions : Nat]
Lookup   == [key : Keys, value : Values, want : Range(Checksum) \cup {NoSum}]

TypeOK ==
  /\ DOMAIN cached \subseteq Keys /\ cached \in [DOMAIN cached -> Values]
  /\ older \subseteq Keys \X Keys
  /\ DOMAIN hotData \subseteq Keys /\ hotData \in [DOMAIN hotData -> HotEntry]
  /\ currentMem \in Int
  /\ expired \subseteq Values
  /\ pending \in [Threads -> Lookup \cup {Idle}]
  /\ stats \in Stats
  /\ accepted \in [Keys -> Values \cup {None}]

\* The memory the keys of S account for in the table.
SizeOf(table, S) == SumFunctionOnSet([k \in DOMAIN table |-> table[k].size], S)

Bump(n) == IF n < MaxStat THEN n + 1 ELSE n
BumpBy(n, d) == IF n + d < MaxStat THEN n + d ELSE MaxStat
-----------------------------------------------------------------------------
Init ==
  /\ cached = [k \in {} |-> {}]
  /\ older = {}
  /\ hotData = [k \in {} |-> {}]
  /\ currentMem = 0
  /\ expired = {}
  /\ pending = [t \in Threads |-> Idle]
  /\ stats = [hits |-> 0, misses |-> 0, evictions |-> 0, promotions |-> 0]
  /\ accepted = [k \in Keys |-> None]

\* The LRU's order once k is its most recent key and the keys are those of D.
UsedLast(k, D) ==
  (older \cap ((D \ {k}) \X (D \ {k}))) \cup {<<j, k>> : j \in D \ {k}}

\* Mutant: every further access doubles the time to live.
DoubledTTL(n, ttl) == IF n > HotCount THEN 2 * ttl ELSE ttl

\* The time to live of an entry after its n-th access.
TTLAfter(n, ttl) == IF n > HotCount THEN LongTTL ELSE ttl

\* updateHotData, after the LRU was found to hold k.
Accessed(k) ==
  IF k \in DOMAIN hotData
  THEN LET e == hotData[k]
           n == IF e.count > HotCount THEN e.count ELSE e.count + 1
       IN  [hotData EXCEPT ![k] =
              [count |-> n, age |-> 0, ttl |-> TTLAfter(n, e.ttl), size |-> e.size]]
  ELSE [j \in DOMAIN hotData \cup {k} |->
          IF j = k THEN [count |-> 1, age |-> 0, ttl |-> ShortTTL, size |-> 0]
          ELSE hotData[j]]

\* Mutant: promotion one access early.
PromotesEarly(k) == /\ k \in DOMAIN hotData
                    /\ hotData[k].count >= HotCount - 1
                    /\ hotData[k].ttl < LongTTL

\* Whether this access of k counts as a promotion.
Promotes(k) == /\ k \in DOMAIN hotData
               /\ hotData[k].count >= HotCount
               /\ hotData[k].ttl < LongTTL

Read(k) ==
  IF k \in DOMAIN cached
  THEN /\ older' = UsedLast(k, DOMAIN cached)
       /\ hotData' = Accessed(k)
       /\ stats' = [stats EXCEPT !.hits = Bump(@),
                                 !.promotions = IF Promotes(k) THEN Bump(@) ELSE @]
  ELSE /\ stats' = [stats EXCEPT !.misses = Bump(@)]
       /\ UNCHANGED <<older, hotData>>

Get(k) ==
  /\ Read(k)
  /\ UNCHANGED <<cached, currentMem, expired, pending, accepted>>
-----------------------------------------------------------------------------
\* Mutant: the first pass forgets the age.
ColdAnyAge == {k \in DOMAIN hotData : hotData[k].count < 2}

\* The keys evictColdData's first pass, and its second one, may take.
Cold == {k \in DOMAIN hotData : hotData[k].count < 2 /\ hotData[k].age > ColdAge}
Old  == {k \in DOMAIN hotData : hotData[k].age > OldAge}

\* What one pass over candidates, in the map's random order, may have evicted
\* when it stops: it stops as soon as need is met, or when it has seen them all.
Pass(candidates, need) ==
  {E \in SUBSET candidates :
     /\ SizeOf(hotData, E) >= need \/ E = candidates
     /\ E = {} \/ \E last \in E : SizeOf(hotData, E \ {last}) < need}

\* The sets of keys evictColdData(need) may remove.
Evictions(need) ==
  UNION {{E1 \cup E2 : E2 \in Pass(Old \ E1, need - SizeOf(hotData, E1))} :
           E1 \in Pass(Cold, need)}

\* Mutant: the table is cleaned and the LRU forgotten.
CachedKept(gone) == cached

\* Restrictions of the LRU and of the table to the keys outside gone.
CachedWithout(gone)  == [k \in DOMAIN cached \ gone |-> cached[k]]
HotWithout(gone)     == [k \in DOMAIN hotData \ gone |-> hotData[k]]
OlderWithout(gone)   == older \cap ((Keys \ gone) \X (Keys \ gone))

\* The key lru.Add drops when it makes room for k among the keys of held.
Overflow(k, held) ==
  IF k \in held \/ Cardinality(held) < LruCap THEN {}
  ELSE {j \in held : \A i \in held : <<i, j>> \notin older}

\* Mutants: the size of the value being replaced is taken before the eviction;
\* it is never given back; a value already present is kept.
ReplacedBefore(k, gone) ==
  IF k \in DOMAIN cached /\ k \in DOMAIN hotData THEN hotData[k].size ELSE 0
ReplacedNever(k, gone) == 0
ContentsOnce(k, v, kept) ==
  [j \in kept |-> IF j \in DOMAIN cached THEN cached[j] ELSE v]

\* The size Set gives back for the value it replaces, after gone was evicted: a
\* ghost's size is not given back, the LRU not having its key.
Replaced(k, gone) ==
  IF k \in DOMAIN cached \ gone /\ k \in DOMAIN hotData \ gone
  THEN hotData[k].size ELSE 0

\* The LRU with v under k and the other keys of kept as they were.
Contents(k, v, kept) == [j \in kept |-> IF j = k THEN v ELSE cached[j]]

\* The rest of Set once there is room: gone has been evicted.
Store(k, v, size, gone) ==
  LET held == DOMAIN cached \ gone
      kept == (held \ Overflow(k, held)) \cup {k}
  IN  /\ cached' = Contents(k, v, kept)
      /\ older' = UsedLast(k, kept)
      /\ hotData' = [j \in (DOMAIN hotData \ gone) \cup {k} |->
                       IF j = k
                       THEN [count |-> 1, age |-> 0, ttl |-> ShortTTL, size |-> size]
                       ELSE hotData[j]]
      /\ currentMem' = currentMem - SizeOf(hotData, gone) - Replaced(k, gone) + size
      /\ accepted' = [accepted EXCEPT ![k] = v]

\* What evictColdData returns: whether evicting gone freed size.
MadeRoom(gone, size) == SizeOf(hotData, gone) >= size

\* Set returning true.
SetStores(k, v, size) ==
  /\ \/ /\ currentMem + size <= MaxMemory
        /\ Store(k, v, size, {})
        /\ UNCHANGED stats
     \/ /\ currentMem + size > MaxMemory
        /\ \E gone \in Evictions(size) :
             /\ MadeRoom(gone, size)
             /\ Store(k, v, size, gone)
             /\ stats' = [stats EXCEPT !.evictions = BumpBy(@, Cardinality(gone))]
  /\ UNCHANGED <<expired, pending>>

\* Set returning false: what the eviction removed stays removed.
SetRefused(size) ==
  /\ currentMem + size > MaxMemory
  /\ \E gone \in Evictions(size) :
       /\ ~ MadeRoom(gone, size)
       /\ cached' = CachedWithout(gone)
       /\ older' = OlderWithout(gone)
       /\ hotData' = HotWithout(gone)
       /\ currentMem' = currentMem - SizeOf(hotData, gone)
       /\ stats' = [stats EXCEPT !.evictions = BumpBy(@, Cardinality(gone))]
  /\ UNCHANGED <<expired, pending, accepted>>
-----------------------------------------------------------------------------
\* Removal of the keys of gone from the LRU and, with their sizes, from the table.
Drop(gone) ==
  /\ cached' = CachedWithout(gone)
  /\ older' = OlderWithout(gone)
  /\ hotData' = HotWithout(gone)
  /\ currentMem' = currentMem - SizeOf(hotData, gone \cap DOMAIN hotData)
  /\ UNCHANGED <<expired, stats>>

Delete(k) ==
  /\ Drop({k})
  /\ accepted' = [accepted EXCEPT ![k] = None]
  /\ UNCHANGED pending

Clear ==
  /\ cached' = [k \in {} |-> {}]
  /\ older' = {}
  /\ hotData' = [k \in {} |-> {}]
  /\ currentMem' = 0
  /\ accepted' = [k \in Keys |-> None]
  /\ UNCHANGED <<expired, pending, stats>>

\* Mutant: cleanup spares entries used more than once.
LapsedOnce == {k \in DOMAIN hotData : hotData[k].age > hotData[k].ttl /\ hotData[k].count < 2}

\* The tracked keys whose time to live is over.
Lapsed == {k \in DOMAIN hotData : hotData[k].age > hotData[k].ttl}

\* One run of the cleanup goroutine.
Cleanup ==
  /\ Drop(Lapsed)
  /\ UNCHANGED <<pending, accepted>>
-----------------------------------------------------------------------------
\* GetWithValidation, first critical section: the Get.  A wrapped value is
\* then inspected outside the mutex; anything else is returned as it is.
ValidateGet(t, k, want) ==
  /\ pending[t] = Idle
  /\ Read(k)
  /\ pending' = IF k \in DOMAIN cached /\ cached[k] \in Wrapped
                THEN [pending EXCEPT ![t] = [key |-> k, value |-> cached[k], want |-> want]]
                ELSE pending
  /\ UNCHANGED <<cached, currentMem, expired, accepted>>

\* Whether validation against the checksum want rejects the value v.
Rejected(v, want) ==
  \/ v \in expired
  \/ want # NoSum /\ v \in Wrapped /\ Checksum[v] # want

\* Second critical section: the entry seen was rejected, its key is deleted.
ValidateDelete(t) ==
  /\ pending[t] # Idle
  /\ Rejected(pending[t].value, pending[t].want)
  /\ Drop({pending[t].key})
  /\ pending' = [pending EXCEPT ![t] = Idle]
  /\ UNCHANGED accepted

\* The entry seen was accepted and is returned.
ValidateReturn(t) ==
  /\ pending[t] # Idle
  /\ ~ Rejected(pending[t].value, pending[t].want)
  /\ pending' = [pending EXCEPT ![t] = Idle]
  /\ UNCHANGED <<cached, older, hotData, currentMem, expired, stats, accepted>>
-----------------------------------------------------------------------------
\* The clock: every tracked entry has gone unused for one more tick.
Tick ==
  /\ hotData' = [k \in DOMAIN hotData |->
                   [hotData[k] EXCEPT !.age = IF @ < MaxAge THEN @ + 1 ELSE @]]
  /\ UNCHANGED <<cached, older, currentMem, expired, pending, stats, accepted>>

\* The clock passes the ExpiresAt of a value.
Expire(v) ==
  /\ v \in Wrapped \ expired
  /\ expired' = expired \cup {v}
  /\ UNCHANGED <<cached, older, hotData, currentMem, pending, stats, accepted>>

Set == \E size \in Sizes :
         \/ \E k \in Keys, v \in Values : SetStores(k, v, size)
         \/ SetRefused(size)

Validate == \E t \in Threads :
              \/ \E k \in Keys, want \in Range(Checksum) \cup {NoSum} : ValidateGet(t, k, want)
              \/ ValidateDelete(t)
              \/ ValidateReturn(t)

Next ==
  \/ \E k \in Keys : Get(k) \/ Delete(k)
  \/ Set
  \/ Clear
  \/ Cleanup
  \/ Validate
  \/ Tick
  \/ \E v \in Values : Expire(v)

Spec == Init /\ [][Next]_vars

\* Time passes and the one-minute ticker of cleanupLoop keeps firing.
FairSpec == Spec /\ WF_vars(Tick) /\ WF_vars(Cleanup)
-----------------------------------------------------------------------------
(***************************************************************************)
(* Properties.                                                             *)
(***************************************************************************)

\* Every key the LRU holds is tracked, so cleanup will see it and the branch of
\* updateHotData marked "This shouldn't happen" (lines 114-121) is never taken.
Tracked == DOMAIN cached \subseteq DOMAIN hotData

\* The running count stays between 0 and the limit, whatever mix of evictions,
\* replacements, expiries and deletions happens (Set, line 75; evictColdData).
WithinMemory == currentMem \in 0..MaxMemory

\* The running count never falls below what the tracked entries occupy, ghosts
\* included: memory in use is never reported as free.
NeverUndercounts == SizeOf(hotData, DOMAIN hotData) <= currentMem

\* The memory count can be relied on: it is within its limit and covers what the
\* tracked entries occupy, whatever Set, evictColdData and Delete give back.
MemoryKept == WithinMemory /\ NeverUndercounts

\* The running count is exactly what the tracked entries occupy, as long as the
\* LRU never drops a key behind the table's back.  (False once it overflows.)
CountedExactly == currentMem = SizeOf(hotData, DOMAIN hotData)

\* The LRU holds at most LruCap keys: making room for a new key always finds a
\* least recently used one.
WithinCapacity == Cardinality(DOMAIN cached) <= LruCap

\* A promotion (CacheStats.HotPromotions) is earned by HotCount hits of its own,
\* up to where the counters are bounded.
PromotionsEarned ==
  stats.hits >= IF stats.promotions * HotCount < MaxStat
                THEN stats.promotions * HotCount ELSE MaxStat

\* Neither the cleanup goroutine nor memory pressure removes a tracked entry
\* whose time to live is not over; promotion doubles the protection (lines 110,
\* 135, 153 and 232 use four different thresholds).
TTLRespected ==
  [][Cleanup \/ Set => \A k \in DOMAIN hotData \ DOMAIN hotData' :
                           hotData[k].age > hotData[k].ttl]_vars

\* What GetWithValidation deletes is an entry that its validation rejects
\* ("Invalidate stale data", line 268).
DeletesOnlyRejected ==
  [][\A t \in Threads :
       ValidateDelete(t) =>
         LET p == pending[t]
         IN  p.key \in DOMAIN cached => Rejected(cached[p.key], p.want)]_vars

\* The cache implements the lossy map: whatever is evicted, expired, replaced or
\* deleted, a Get returns the value of the last Set of its key that returned true,
\* or nothing, and nothing after a Delete.
Abstract == INSTANCE LossyMap WITH store <- cached, Capacity <- LruCap
ImplementsLossyMap == Abstract!Spec
ReadsLastAccepted  == Abstract!Faithful

\* An entry nobody uses is eventually dropped by the cleanup goroutine.
IdleDropped ==
  \A k \in Keys : []<>(k \notin DOMAIN hotData \/ hotData[k].age = 0)
=============================================================================
