-------------------------- MODULE SmartCacheProofs --------------------------
(***************************************************************************)
(* What holds of SmartCache for every value of its constants.              *)
(***************************************************************************)
EXTENDS SmartCache, SumTheorems, TLAPS

Constants ==
  /\ IsFiniteSet(Keys) /\ Sizes \subseteq Nat
  /\ LruCap \in Nat \ {0} /\ MaxMemory \in Nat
  /\ ShortTTL \in Nat /\ LongTTL \in Nat /\ ColdAge \in Nat /\ OldAge \in Nat
  /\ ShortTTL <= ColdAge /\ ShortTTL < LongTTL
  /\ ColdAge <= OldAge /\ LongTTL <= OldAge
  /\ HotCount \in Nat \ {0} /\ Wrapped \subseteq Values /\ MaxStat \in Nat

\* The assumptions on the constants, in one fact.
LEMMA ConstantFacts == Constants
BY KeysFinite, SizesNat, LruCapPos, MaxMemoryNat, AgesOrdered, HotCountNat,
   WrappedValues, MaxStatNat DEF Constants

\* The sizes of the tracked keys of S add up to a natural number.
LEMMA SizeNat ==
  ASSUME TypeOK, NEW S \in SUBSET DOMAIN hotData
  PROVE  SizeOf(hotData, S) \in Nat /\ IsFiniteSet(S)
<1> DEFINE f == [k \in DOMAIN hotData |-> hotData[k].size]
<1>1. IsFiniteSet(S)
  BY KeysFinite, FS_Subset DEF TypeOK
<1>2. \A k \in S : f[k] \in Nat
  BY DEF TypeOK, HotEntry
<1> HIDE DEF f
<1>3. SumFunctionOnSet(f, S) \in Nat
  BY <1>1, <1>2, SumNat
<1> QED BY <1>1, <1>3 DEF SizeOf, f

\* The keys of gone and the others share the total size between them.
LEMMA SizeSplit ==
  ASSUME TypeOK, NEW S \in SUBSET DOMAIN hotData, NEW gone \in SUBSET S
  PROVE  SizeOf(hotData, S) = SizeOf(hotData, S \ gone) + SizeOf(hotData, gone)
<1> DEFINE f == [k \in DOMAIN hotData |-> hotData[k].size]
<1>1. IsFiniteSet(S)
  BY SizeNat
<1>2. \A k \in S : f[k] \in Nat
  BY DEF TypeOK, HotEntry
<1> HIDE DEF f
<1>3. SumFunctionOnSet(f, S) = SumFunctionOnSet(f, S \ gone) + SumFunctionOnSet(f, gone)
  BY <1>1, <1>2, SumSplit
<1> QED BY <1>3 DEF SizeOf, f

\* One key accounts for its own size.
LEMMA SizeOne ==
  ASSUME TypeOK, NEW k \in DOMAIN hotData
  PROVE  SizeOf(hotData, {k}) = hotData[k].size
<1> DEFINE f == [j \in DOMAIN hotData |-> hotData[j].size]
<1>1. f[k] = hotData[k].size /\ f[k] \in Nat
  BY DEF TypeOK, HotEntry
<1> HIDE DEF f
<1>2. SumFunctionOnSet(f, {} \cup {k}) = f[k] + SumFunctionOnSet(f, {})
  BY <1>1, SumAdd, FS_EmptySet
<1>3. {} \cup {k} = {k}
  OBVIOUS
<1> QED BY <1>1, <1>2, <1>3, SumEmpty DEF SizeOf, f

\* Keys whose entries keep their sizes over a step account for as much after it.
LEMMA SizeKept ==
  ASSUME TypeOK, TypeOK', NEW S \in SUBSET DOMAIN hotData, S \subseteq DOMAIN hotData',
         \A k \in S : hotData'[k].size = hotData[k].size
  PROVE  SizeOf(hotData', S) = SizeOf(hotData, S)
<1> DEFINE f == [k \in DOMAIN hotData |-> hotData[k].size]
           g == [k \in DOMAIN hotData' |-> hotData'[k].size]
<1>1. IsFiniteSet(S)
  BY SizeNat
<1>2. \A k \in S : f[k] = g[k]
  OBVIOUS
<1>3. SizeOf(hotData, S) = SumFunctionOnSet(f, S) /\ SizeOf(hotData', S) = SumFunctionOnSet(g, S)
  BY DEF SizeOf
<1> HIDE DEF f, g
<1>4. SumFunctionOnSet(f, S) = SumFunctionOnSet(g, S)
  BY <1>1, <1>2, SumEqual
<1> QED BY <1>3, <1>4

\* Eviction takes tracked keys only.
LEMMA EvictionsTracked ==
  ASSUME NEW need, NEW gone \in Evictions(need)
  PROVE  gone \subseteq DOMAIN hotData
BY DEF Evictions, Pass, Cold, Old
-----------------------------------------------------------------------------
(***************************************************************************)
(* Type correctness.                                                       *)
(***************************************************************************)

\* The empty cache NewSmartCache makes is well typed.
LEMMA InitTypeOK == Init => TypeOK
BY ConstantFacts DEF Init, TypeOK, Constants, Stats, HotEntry

\* What Get and updateHotData change keeps its type: a counter stays positive, an
\* access never sets a time to live other than the two.
LEMMA ReadTypeOK ==
  ASSUME TypeOK, NEW k \in Keys, Read(k)
  PROVE  /\ older' \subseteq Keys \X Keys
         /\ DOMAIN hotData' \subseteq Keys /\ hotData' \in [DOMAIN hotData' -> HotEntry]
         /\ stats' \in Stats
<1>1. CASE k \in DOMAIN cached
  <2>1. older' \subseteq Keys \X Keys
    BY <1>1 DEF Read, UsedLast, TypeOK
  <2>2. DOMAIN hotData' \subseteq Keys /\ hotData' \in [DOMAIN hotData' -> HotEntry]
    <3>1. hotData' = Accessed(k)
      BY <1>1 DEF Read
    <3>2. CASE k \in DOMAIN hotData
      <4> DEFINE n == IF hotData[k].count > HotCount THEN hotData[k].count
                      ELSE hotData[k].count + 1
                 e == [count |-> n, age |-> 0, size |-> hotData[k].size,
                       ttl |-> TTLAfter(n, hotData[k].ttl)]
      <4>1. hotData[k] \in HotEntry
        BY <3>2 DEF TypeOK
      <4>2. n \in 1..(HotCount + 1)
        BY <4>1, ConstantFacts DEF HotEntry, Constants
      <4>3. e \in HotEntry
        <5> HIDE DEF n
        <5> QED BY <4>1, <4>2, ConstantFacts DEF HotEntry, Constants, MaxAge, TTLAfter
      <4>4. hotData' = [hotData EXCEPT ![k] = e]
        BY <3>1, <3>2 DEF Accessed, TTLAfter
      <4> HIDE DEF e
      <4> QED BY <4>3, <4>4 DEF TypeOK
    <3>3. CASE k \notin DOMAIN hotData
      <4> DEFINE e == [count |-> 1, age |-> 0, ttl |-> ShortTTL, size |-> 0]
      <4>1. e \in HotEntry
        BY ConstantFacts DEF HotEntry, Constants, MaxAge
      <4>2. hotData' = [j \in DOMAIN hotData \cup {k} |-> IF j = k THEN e ELSE hotData[j]]
        BY <3>1, <3>3 DEF Accessed, TTLAfter
      <4> HIDE DEF e
      <4> QED BY <4>1, <4>2 DEF TypeOK
    <3> QED BY <3>2, <3>3
  <2>3. stats' \in Stats
    <3>1. \A n \in Nat : Bump(n) \in Nat
      BY ConstantFacts DEF Bump, Constants
    <3> DEFINE p == IF Promotes(k) THEN Bump(stats.promotions) ELSE stats.promotions
    <3>2. p \in Nat
      BY <3>1 DEF TypeOK, Stats
    <3>3. stats' = [stats EXCEPT !.hits = Bump(@), !.promotions = p]
      BY <1>1 DEF Read
    <3> HIDE DEF p
    <3> QED BY <3>1, <3>2, <3>3 DEF TypeOK, Stats
  <2> QED BY <2>1, <2>2, <2>3
<1>2. CASE k \notin DOMAIN cached
  BY <1>2, ConstantFacts DEF Read, TypeOK, Stats, Bump, Constants
<1> QED BY <1>1, <1>2

\* Deleting, expiring and evicting keep the types.
LEMMA DropTypeOK ==
  ASSUME TypeOK, NEW gone, Drop(gone), pending' \in [Threads -> Lookup \cup {Idle}],
         accepted' \in [Keys -> Values \cup {None}]
  PROVE  TypeOK'
<1>1. SizeOf(hotData, gone \cap DOMAIN hotData) \in Nat
  BY SizeNat
<1>2. currentMem' \in Int
  BY <1>1 DEF Drop, TypeOK
<1> QED BY <1>2 DEF Drop, TypeOK, CachedWithout, HotWithout, OlderWithout

\* The rest of Set, once there is room, keeps the types.
LEMMA StoreTypeOK ==
  ASSUME TypeOK, NEW k \in Keys, NEW v \in Values, NEW size \in Sizes,
         NEW gone \in SUBSET DOMAIN hotData, Store(k, v, size, gone),
         stats' \in Stats, UNCHANGED <<expired, pending>>
  PROVE  TypeOK'
<1> DEFINE held == DOMAIN cached \ gone
           kept == (held \ Overflow(k, held)) \cup {k}
           replaced == IF k \in held /\ k \in DOMAIN hotData \ gone THEN hotData[k].size ELSE 0
<1>1. DOMAIN cached' \subseteq Keys /\ cached' \in [DOMAIN cached' -> Values]
  BY DEF Store, Contents, Replaced, TypeOK
<1>2. older' \subseteq Keys \X Keys
  <2>1. kept \subseteq Keys
    BY DEF TypeOK
  <2>2. older' = UsedLast(k, kept)
    BY DEF Store, Contents, Replaced
  <2> HIDE DEF kept
  <2> QED BY <2>1, <2>2 DEF UsedLast, TypeOK
<1>3. DOMAIN hotData' \subseteq Keys /\ hotData' \in [DOMAIN hotData' -> HotEntry]
  BY ConstantFacts DEF Store, Contents, Replaced, TypeOK, HotEntry, Constants, MaxAge
<1>4. currentMem' \in Int
  <2>1. SizeOf(hotData, gone) \in Nat /\ size \in Nat /\ replaced \in Nat
    BY SizeNat, ConstantFacts DEF Constants, TypeOK, HotEntry
  <2>2. currentMem' = currentMem - SizeOf(hotData, gone) - replaced + size
    BY DEF Store, Contents, Replaced
  <2> HIDE DEF replaced
  <2> QED BY <2>1, <2>2 DEF TypeOK
<1>5. accepted' \in [Keys -> Values \cup {None}]
  BY DEF Store, Contents, Replaced, TypeOK
<1> QED BY <1>1, <1>2, <1>3, <1>4, <1>5 DEF TypeOK

\* Counting evictions yields a natural number.
LEMMA BumpByNat ==
  ASSUME NEW n \in Nat, NEW d \in Nat
  PROVE  BumpBy(n, d) \in Nat
BY ConstantFacts DEF BumpBy, Constants

\* What evictColdData removes can be counted.
LEMMA EvictionCount ==
  ASSUME TypeOK, NEW need, NEW gone \in Evictions(need)
  PROVE  Cardinality(gone) \in Nat
BY EvictionsTracked, SizeNat, FS_CardinalityType

\* Set keeps the types whether it stores or refuses.
LEMMA SetTypeOK == TypeOK /\ Set => TypeOK'
<1> SUFFICES ASSUME TypeOK, NEW size \in Sizes,
                    \/ \E k \in Keys, v \in Values : SetStores(k, v, size)
                    \/ SetRefused(size)
             PROVE  TypeOK'
  BY DEF Set
<1>1. ASSUME NEW k \in Keys, NEW v \in Values, SetStores(k, v, size) PROVE TypeOK'
  <2>1. CASE Store(k, v, size, {}) /\ UNCHANGED stats
    BY <1>1, <2>1, StoreTypeOK DEF SetStores, MadeRoom, TypeOK
  <2>2. ASSUME NEW gone \in Evictions(size), Store(k, v, size, gone),
               stats' = [stats EXCEPT !.evictions = BumpBy(@, Cardinality(gone))]
        PROVE  TypeOK'
    <3>1. stats' \in Stats
      BY <2>2, EvictionCount, BumpByNat DEF TypeOK, Stats
    <3> QED BY <1>1, <2>2, <3>1, StoreTypeOK, EvictionsTracked DEF SetStores, MadeRoom
  <2> QED BY <1>1, <2>1, <2>2 DEF SetStores, MadeRoom
<1>2. ASSUME SetRefused(size) PROVE TypeOK'
  <2>1. PICK gone \in Evictions(size) :
           /\ cached' = CachedWithout(gone)
           /\ older' = OlderWithout(gone)
           /\ hotData' = HotWithout(gone)
           /\ currentMem' = currentMem - SizeOf(hotData, gone)
           /\ stats' = [stats EXCEPT !.evictions = BumpBy(@, Cardinality(gone))]
    BY <1>2 DEF SetRefused, MadeRoom
  <2>2. stats' \in Stats
    BY <2>1, EvictionCount, BumpByNat DEF TypeOK, Stats
  <2>3. currentMem' \in Int
    BY <2>1, EvictionsTracked, SizeNat DEF TypeOK
  <2> QED BY <1>2, <2>1, <2>2, <2>3 DEF SetRefused, MadeRoom, TypeOK, CachedWithout, HotWithout, OlderWithout
<1> QED BY <1>1, <1>2

\* Every step keeps the types.
LEMMA NextTypeOK == TypeOK /\ [Next]_vars => TypeOK'
<1> SUFFICES ASSUME TypeOK, [Next]_vars PROVE TypeOK'
  OBVIOUS
<1>1. ASSUME NEW k \in Keys, Get(k) PROVE TypeOK'
  BY <1>1, ReadTypeOK DEF Get, TypeOK
<1>2. ASSUME NEW k \in Keys, Delete(k) PROVE TypeOK'
  <2>1. accepted' \in [Keys -> Values \cup {None}] /\ pending' \in [Threads -> Lookup \cup {Idle}]
    BY <1>2 DEF Delete, TypeOK
  <2> QED BY <1>2, <2>1, DropTypeOK DEF Delete
<1>3. CASE Set
  BY <1>3, SetTypeOK
<1>4. CASE Clear
  BY <1>4 DEF Clear, TypeOK, HotEntry
<1>5. CASE Cleanup
  <2>1. accepted' \in [Keys -> Values \cup {None}] /\ pending' \in [Threads -> Lookup \cup {Idle}]
    BY <1>5 DEF Cleanup, TypeOK
  <2> QED BY <1>5, <2>1, DropTypeOK DEF Cleanup
<1>6. ASSUME NEW t \in Threads, NEW k \in Keys, NEW want \in Range(Checksum) \cup {NoSum},
             ValidateGet(t, k, want)
      PROVE  TypeOK'
  <2>1. pending' \in [Threads -> Lookup \cup {Idle}]
    BY <1>6 DEF ValidateGet, TypeOK, Lookup
  <2> QED BY <1>6, <2>1, ReadTypeOK DEF ValidateGet, TypeOK
<1>7. ASSUME NEW t \in Threads, ValidateDelete(t) PROVE TypeOK'
  <2>1. accepted' \in [Keys -> Values \cup {None}] /\ pending' \in [Threads -> Lookup \cup {Idle}]
    BY <1>7 DEF ValidateDelete, TypeOK
  <2> QED BY <1>7, <2>1, DropTypeOK DEF ValidateDelete
<1>8. ASSUME NEW t \in Threads, ValidateReturn(t) PROVE TypeOK'
  BY <1>8 DEF ValidateReturn, TypeOK
<1>9. CASE Tick
  <2>1. hotData' \in [DOMAIN hotData -> HotEntry]
    BY <1>9, ConstantFacts DEF Tick, TypeOK, HotEntry, MaxAge, Constants
  <2> QED BY <1>9, <2>1 DEF Tick, TypeOK
<1>10. ASSUME NEW v \in Values, Expire(v) PROVE TypeOK'
  BY <1>10 DEF Expire, TypeOK
<1>11. CASE UNCHANGED vars
  BY <1>11 DEF vars, TypeOK
<1> QED BY <1>1, <1>2, <1>3, <1>4, <1>5, <1>6, <1>7, <1>8, <1>9, <1>10, <1>11
        DEF Next, Validate

\* The variables of the cache keep their types.
THEOREM TypeCorrect == Spec => []TypeOK
<1>1. Init => TypeOK
  BY InitTypeOK
<1>2. TypeOK /\ [Next]_vars => TypeOK'
  BY NextTypeOK
<1> QED BY <1>1, <1>2, PTL DEF Spec
-----------------------------------------------------------------------------
(***************************************************************************)
(* Memory accounting.  WithinMemory is not inductive: that the count does  *)
(* not become negative needs NeverUndercounts.                             *)
(***************************************************************************)
Accounting == TypeOK /\ WithinMemory /\ NeverUndercounts

\* Removing the keys of gone and giving their sizes back keeps the accounts.
LEMMA DropAccounting ==
  ASSUME Accounting, TypeOK', NEW gone \in SUBSET DOMAIN hotData,
         hotData' = HotWithout(gone), currentMem' = currentMem - SizeOf(hotData, gone)
  PROVE  Accounting'
<1> DEFINE D == DOMAIN hotData
<1>0. TypeOK
  BY DEF Accounting
<1>1. SizeOf(hotData, D) = SizeOf(hotData, D \ gone) + SizeOf(hotData, gone)
  BY <1>0, SizeSplit
<1>2. SizeOf(hotData', D \ gone) = SizeOf(hotData, D \ gone) /\ DOMAIN hotData' = D \ gone
  <2>1. DOMAIN hotData' = D \ gone /\ \A k \in D \ gone : hotData'[k] = hotData[k]
    BY DEF HotWithout
  <2> QED BY <1>0, <2>1, SizeKept
<1>3. SizeOf(hotData, D) \in Nat /\ SizeOf(hotData, D \ gone) \in Nat /\ SizeOf(hotData, gone) \in Nat
  BY <1>0, SizeNat
<1>4. SizeOf(hotData', DOMAIN hotData') = SizeOf(hotData, D \ gone)
  BY <1>2 DEF SizeOf
<1> HIDE DEF D
<1>5. /\ SizeOf(hotData, D) <= currentMem /\ currentMem \in 0..MaxMemory /\ MaxMemory \in Nat
  BY ConstantFacts DEF Accounting, NeverUndercounts, WithinMemory, Constants, D
<1>6. currentMem' \in 0..MaxMemory /\ SizeOf(hotData, D \ gone) <= currentMem'
  BY <1>1, <1>3, <1>5
<1> QED BY <1>4, <1>6 DEF Accounting, NeverUndercounts, WithinMemory

\* What the tracked keys occupy after k was stored: the new value, and whatever
\* else is left.
LEMMA StoredSize ==
  ASSUME TypeOK, TypeOK', NEW k \in Keys, NEW v \in Values, NEW size \in Sizes,
         NEW gone \in SUBSET DOMAIN hotData, Store(k, v, size, gone)
  PROVE  SizeOf(hotData', DOMAIN hotData') = SizeOf(hotData, (DOMAIN hotData \ gone) \ {k}) + size
<1> DEFINE R == DOMAIN hotData \ gone
           g == [j \in DOMAIN hotData' |-> hotData'[j].size]
<1>1. /\ DOMAIN hotData' = R \cup {k} /\ hotData'[k].size = size
      /\ \A j \in R \ {k} : hotData'[j] = hotData[j]
  BY DEF Store, Contents, Replaced
<1>2. SizeOf(hotData', R \ {k}) = SizeOf(hotData, R \ {k})
  BY <1>1, SizeKept
<1>3. SizeOf(hotData', DOMAIN hotData') = SumFunctionOnSet(g, DOMAIN hotData')
  BY DEF SizeOf
<1>4. SizeOf(hotData', R \ {k}) = SumFunctionOnSet(g, R \ {k})
  BY DEF SizeOf
<1>5. DOMAIN hotData' = (R \ {k}) \cup {k} /\ g[k] = size
  BY <1>1
<1>6. \A j \in (R \ {k}) \cup {k} : g[j] \in Nat
  BY <1>1 DEF TypeOK, HotEntry
<1>7. IsFiniteSet(R \ {k})
  BY SizeNat
<1> HIDE DEF g, R
<1>8. SumFunctionOnSet(g, (R \ {k}) \cup {k}) = g[k] + SumFunctionOnSet(g, R \ {k})
  BY <1>6, <1>7, SumAdd
<1>9. SizeOf(hotData, R \ {k}) \in Nat /\ size \in Nat
  BY SizeNat, ConstantFacts DEF Constants, R
<1> QED BY <1>2, <1>3, <1>4, <1>5, <1>8, <1>9 DEF R

\* Storing keeps them as well: a replaced entry gives its size back, unless it
\* was a ghost; and when there was no room, what was evicted makes up for it.
LEMMA StoreAccounting ==
  ASSUME Accounting, TypeOK', NEW k \in Keys, NEW v \in Values, NEW size \in Sizes,
         NEW gone \in SUBSET DOMAIN hotData, Store(k, v, size, gone),
         currentMem + size <= MaxMemory \/ size <= SizeOf(hotData, gone)
  PROVE  Accounting'
<1> DEFINE D == DOMAIN hotData
           R == D \ gone
           held == DOMAIN cached \ gone
           replaced == IF k \in held /\ k \in R THEN hotData[k].size ELSE 0
<1>0. TypeOK
  BY DEF Accounting
<1>1. SizeOf(hotData, D) = SizeOf(hotData, R) + SizeOf(hotData, gone)
  BY <1>0, SizeSplit
<1>4. SizeOf(hotData', DOMAIN hotData') = SizeOf(hotData, R \ {k}) + size
  BY <1>0, StoredSize
<1>5. SizeOf(hotData, R) >= SizeOf(hotData, R \ {k}) + replaced /\ replaced \in Nat
  <2>1. CASE k \in R
    <3>1. SizeOf(hotData, R) = SizeOf(hotData, R \ {k}) + SizeOf(hotData, {k})
      BY <1>0, <2>1, SizeSplit
    <3>2. SizeOf(hotData, {k}) = hotData[k].size /\ hotData[k].size \in Nat
      BY <1>0, <2>1, SizeOne DEF TypeOK, HotEntry
    <3>3. SizeOf(hotData, R \ {k}) \in Nat
      BY <1>0, SizeNat
    <3> QED BY <3>1, <3>2, <3>3
  <2>2. CASE k \notin R
    <3>1. R \ {k} = R /\ replaced = 0 /\ SizeOf(hotData, R) \in Nat
      BY <1>0, <2>2, SizeNat
    <3> HIDE DEF R, replaced
    <3> QED BY <3>1
  <2> QED BY <2>1, <2>2
<1>6. currentMem' = currentMem - SizeOf(hotData, gone) - replaced + size
  BY DEF Store, Contents, Replaced
<1>7. SizeOf(hotData, R) \in Nat /\ SizeOf(hotData, R \ {k}) \in Nat /\ SizeOf(hotData, gone) \in Nat /\ size \in Nat
  BY <1>0, SizeNat, ConstantFacts DEF Constants
<1> HIDE DEF R, replaced
<1>8. SizeOf(hotData, D) <= currentMem /\ currentMem \in 0..MaxMemory /\ MaxMemory \in Nat
  BY ConstantFacts DEF Accounting, NeverUndercounts, WithinMemory, Constants
<1> HIDE DEF D
<1>9. SizeOf(hotData, R \ {k}) + size <= currentMem' /\ currentMem' \in 0..MaxMemory
  BY <1>1, <1>5, <1>6, <1>7, <1>8
<1> QED BY <1>4, <1>9 DEF Accounting, NeverUndercounts, WithinMemory

\* Set keeps the accounts whether it stores or refuses.
LEMMA SetAccounting == Accounting /\ Set => Accounting'
<1> SUFFICES ASSUME Accounting, NEW size \in Sizes,
                    \/ \E k \in Keys, v \in Values : SetStores(k, v, size)
                    \/ SetRefused(size)
             PROVE  Accounting'
  BY DEF Set
<1>0. TypeOK'
  BY SetTypeOK DEF Accounting, Set
<1>1. ASSUME NEW k \in Keys, NEW v \in Values, SetStores(k, v, size) PROVE Accounting'
  BY <1>0, <1>1, StoreAccounting, EvictionsTracked DEF SetStores, MadeRoom
<1>2. CASE SetRefused(size)
  BY <1>0, <1>2, DropAccounting, EvictionsTracked DEF SetRefused, MadeRoom
<1> QED BY <1>1, <1>2

\* Delete, cleanup and the Delete of validation keep the accounts, whether or not
\* the keys they remove are tracked.
LEMMA RemovalAccounting ==
  ASSUME Accounting, TypeOK', NEW gone, Drop(gone)
  PROVE  Accounting'
<1>1. HotWithout(gone) = HotWithout(gone \cap DOMAIN hotData)
  BY DEF HotWithout
<1> QED BY <1>1, DropAccounting DEF Drop

\* Steps that leave the keys, their sizes and the count alone.
LEMMA SameSizes ==
  ASSUME Accounting, TypeOK', DOMAIN hotData' = DOMAIN hotData, currentMem' = currentMem,
         \A k \in DOMAIN hotData : hotData'[k].size = hotData[k].size
  PROVE  Accounting'
<1>1. SizeOf(hotData', DOMAIN hotData') = SizeOf(hotData, DOMAIN hotData)
  <2>1. SizeOf(hotData', DOMAIN hotData') = SumFunctionOnSet([k \in DOMAIN hotData' |-> hotData'[k].size], DOMAIN hotData)
    BY DEF SizeOf
  <2>2. [k \in DOMAIN hotData' |-> hotData'[k].size] = [k \in DOMAIN hotData |-> hotData[k].size]
    OBVIOUS
  <2> QED BY <2>1, <2>2 DEF SizeOf
<1> QED BY <1>1 DEF Accounting, NeverUndercounts, WithinMemory

\* An access leaves the tracked keys and their sizes alone: the branch of
\* updateHotData that would add an entry of size 0 is not taken.
LEMMA ReadSizes ==
  ASSUME TypeOK, Tracked, NEW k \in Keys, Read(k)
  PROVE  /\ DOMAIN hotData' = DOMAIN hotData
         /\ \A j \in DOMAIN hotData : hotData'[j].size = hotData[j].size
BY DEF Read, Accessed, TTLAfter, Tracked, TypeOK

\* Every step keeps the keys of the LRU tracked.
LEMMA NextTracked == TypeOK /\ Tracked /\ [Next]_vars => Tracked'
<1> SUFFICES ASSUME TypeOK, Tracked, [Next]_vars PROVE Tracked'
  OBVIOUS
<1>1. ASSUME NEW k \in Keys, Read(k), UNCHANGED cached PROVE Tracked'
  BY <1>1, ReadSizes DEF Tracked
<1>2. ASSUME NEW gone, Drop(gone) PROVE Tracked'
  BY <1>2 DEF Drop, CachedWithout, HotWithout, Tracked
<1>3. ASSUME NEW k \in Keys, NEW v \in Values, NEW size, NEW gone, Store(k, v, size, gone) PROVE Tracked'
  BY <1>3 DEF Store, Contents, Replaced, Tracked
<1>4. ASSUME NEW size \in Sizes, SetRefused(size) PROVE Tracked'
  BY <1>4 DEF SetRefused, MadeRoom, CachedWithout, HotWithout, Tracked
<1>5. CASE Set
  BY <1>3, <1>4, <1>5 DEF Set, SetStores
<1>6. CASE Clear \/ Tick \/ (\E v \in Values : Expire(v)) \/ UNCHANGED vars
  BY <1>6 DEF Clear, Tick, Expire, vars, Tracked
<1>7. CASE Cleanup \/ \E k \in Keys : Get(k) \/ Delete(k)
  BY <1>1, <1>2, <1>7 DEF Cleanup, Get, Delete
<1>8. CASE Validate
  BY <1>1, <1>2, <1>8 DEF Validate, ValidateGet, ValidateDelete, ValidateReturn, Tracked
<1> QED BY <1>5, <1>6, <1>7, <1>8 DEF Next

\* Every step keeps the accounts.
LEMMA NextAccounting == Accounting /\ Tracked /\ [Next]_vars => Accounting'
<1> SUFFICES ASSUME Accounting, Tracked, [Next]_vars PROVE Accounting'
  OBVIOUS
<1>0. TypeOK /\ TypeOK'
  BY NextTypeOK DEF Accounting
<1>1. ASSUME NEW k \in Keys, Read(k), UNCHANGED currentMem PROVE Accounting'
  BY <1>0, <1>1, ReadSizes, SameSizes
<1>2. CASE Set
  BY <1>2, SetAccounting
<1>3. CASE Clear
  <2>1. SizeOf(hotData', DOMAIN hotData') = 0
    BY <1>3, SumEmpty DEF Clear, SizeOf
  <2> QED BY <1>0, <1>3, <2>1, ConstantFacts
          DEF Clear, Accounting, WithinMemory, NeverUndercounts, Constants
<1>4. CASE Tick
  BY <1>0, <1>4, SameSizes DEF Tick, TypeOK, HotEntry
<1>5. CASE (\E v \in Values : Expire(v)) \/ UNCHANGED vars
  BY <1>0, <1>5, SameSizes DEF Expire, vars
<1>6. CASE Cleanup \/ \E k \in Keys : Get(k) \/ Delete(k)
  BY <1>0, <1>1, <1>6, RemovalAccounting DEF Cleanup, Get, Delete
<1>7. CASE Validate
  <2>1. ASSUME NEW t \in Threads, ValidateDelete(t) PROVE Accounting'
    BY <1>0, <2>1, RemovalAccounting DEF ValidateDelete
  <2>2. ASSUME NEW t \in Threads, ValidateReturn(t) PROVE Accounting'
    BY <1>0, <2>2, SameSizes DEF ValidateReturn
  <2> QED BY <1>1, <1>7, <2>1, <2>2 DEF Validate, ValidateGet
<1> QED BY <1>2, <1>3, <1>4, <1>5, <1>6, <1>7 DEF Next

\* The accounts of an empty cache are in order.
LEMMA InitAccounting == Init => Accounting /\ Tracked
<1> SUFFICES ASSUME Init PROVE Accounting /\ Tracked
  OBVIOUS
<1>1. SizeOf(hotData, DOMAIN hotData) = 0
  BY SumEmpty DEF Init, SizeOf
<1> QED BY <1>1, InitTypeOK, ConstantFacts
        DEF Init, Accounting, WithinMemory, NeverUndercounts, Tracked, Constants

\* Every key the LRU holds is tracked: updateHotData never meets one that is not.
THEOREM AllTracked == Spec => []Tracked
<1>1. Init => TypeOK /\ Tracked
  BY InitTypeOK, InitAccounting
<1>2. TypeOK /\ Tracked /\ [Next]_vars => TypeOK' /\ Tracked'
  BY NextTypeOK, NextTracked
<1> QED BY <1>1, <1>2, PTL DEF Spec

\* The memory count stays between 0 and the limit, and never below what the
\* tracked entries occupy, whatever is evicted, replaced or expires.
THEOREM MemorySafe == Spec => []MemoryKept
<1>1. Init => Accounting /\ Tracked
  BY InitAccounting
<1>2. Accounting /\ Tracked /\ [Next]_vars => Accounting' /\ Tracked'
  BY NextAccounting, NextTracked DEF Accounting
<1>3. Accounting => MemoryKept
  BY DEF Accounting, MemoryKept
<1> QED BY <1>1, <1>2, <1>3, PTL DEF Spec
-----------------------------------------------------------------------------
(***************************************************************************)
(* When the memory count is exact.  A ghost is a key that the LRU dropped  *)
(* by itself and the table still tracks; setting it again counts its old   *)
(* size for ever.  Nothing else makes the count wrong.                     *)
(***************************************************************************)
NoGhost == DOMAIN hotData \subseteq DOMAIN cached

\* Removing tracked keys gives back what they occupy.
LEMMA DropExact ==
  ASSUME TypeOK, TypeOK', CountedExactly, NEW gone \in SUBSET DOMAIN hotData,
         hotData' = HotWithout(gone), currentMem' = currentMem - SizeOf(hotData, gone)
  PROVE  CountedExactly'
<1> DEFINE D == DOMAIN hotData
<1>1. SizeOf(hotData, D) = SizeOf(hotData, D \ gone) + SizeOf(hotData, gone)
  BY SizeSplit
<1>2. SizeOf(hotData', D \ gone) = SizeOf(hotData, D \ gone) /\ DOMAIN hotData' = D \ gone
  <2>1. DOMAIN hotData' = D \ gone /\ \A k \in D \ gone : hotData'[k] = hotData[k]
    BY DEF HotWithout
  <2> QED BY <2>1, SizeKept
<1>3. SizeOf(hotData, D \ gone) \in Nat /\ SizeOf(hotData, gone) \in Nat
  BY SizeNat
<1>4. currentMem = SizeOf(hotData, D)
  BY DEF CountedExactly
<1>5. SizeOf(hotData', DOMAIN hotData') = SizeOf(hotData, D \ gone)
  BY <1>2
<1> HIDE DEF D
<1>6. currentMem' = SizeOf(hotData', DOMAIN hotData')
  BY <1>1, <1>3, <1>4, <1>5
<1> QED BY <1>6 DEF CountedExactly

\* A key that is set gives back what it occupied, unless it is a ghost.
LEMMA StoreExact ==
  ASSUME TypeOK, TypeOK', CountedExactly, NEW k \in Keys, NEW v \in Values, NEW size \in Sizes,
         NEW gone \in SUBSET DOMAIN hotData, Store(k, v, size, gone),
         k \in DOMAIN hotData => k \in DOMAIN cached
  PROVE  CountedExactly'
<1> DEFINE D == DOMAIN hotData
           R == D \ gone
<1>1. SizeOf(hotData, D) = SizeOf(hotData, R) + SizeOf(hotData, gone)
  BY SizeSplit
<1>2. SizeOf(hotData', DOMAIN hotData') = SizeOf(hotData, R \ {k}) + size
  BY StoredSize
<1>3. SizeOf(hotData, R) = SizeOf(hotData, R \ {k}) + Replaced(k, gone) /\ Replaced(k, gone) \in Nat
  <2>1. CASE k \in R
    <3>1. SizeOf(hotData, R) = SizeOf(hotData, R \ {k}) + SizeOf(hotData, {k})
      BY <2>1, SizeSplit
    <3>2. SizeOf(hotData, {k}) = hotData[k].size /\ hotData[k].size \in Nat
      BY <2>1, SizeOne DEF TypeOK, HotEntry
    <3>3. Replaced(k, gone) = hotData[k].size
      BY <2>1 DEF Replaced
    <3> QED BY <3>1, <3>2, <3>3
  <2>2. CASE k \notin R
    <3>1. R \ {k} = R /\ Replaced(k, gone) = 0 /\ SizeOf(hotData, R) \in Nat
      BY <2>2, SizeNat DEF Replaced
    <3> HIDE DEF R
    <3> QED BY <3>1
  <2> QED BY <2>1, <2>2
<1>4. currentMem' = currentMem - SizeOf(hotData, gone) - Replaced(k, gone) + size
  BY DEF Store
<1>5. SizeOf(hotData, R \ {k}) \in Nat /\ SizeOf(hotData, gone) \in Nat /\ size \in Nat
  BY SizeNat, ConstantFacts DEF Constants
<1>6. currentMem = SizeOf(hotData, D)
  BY DEF CountedExactly
<1> HIDE DEF D, R
<1>7. currentMem' = SizeOf(hotData', DOMAIN hotData')
  BY <1>1, <1>2, <1>3, <1>4, <1>5, <1>6
<1> QED BY <1>7 DEF CountedExactly

\* Steps that leave the keys, their sizes and the count alone.
LEMMA SameExact ==
  ASSUME CountedExactly, DOMAIN hotData' = DOMAIN hotData, currentMem' = currentMem,
         \A k \in DOMAIN hotData : hotData'[k].size = hotData[k].size
  PROVE  CountedExactly'
<1>1. [k \in DOMAIN hotData' |-> hotData'[k].size] = [k \in DOMAIN hotData |-> hotData[k].size]
  OBVIOUS
<1> QED BY <1>1 DEF CountedExactly, SizeOf

\* Every step that sets no ghost keeps the count exact.
LEMMA NextExact ==
  ASSUME TypeOK, Tracked, CountedExactly, [Next]_vars,
         \A k \in Keys, v \in Values, size \in Sizes :
           SetStores(k, v, size) => k \notin DOMAIN hotData \ DOMAIN cached
  PROVE  CountedExactly'
<1>0. TypeOK'
  BY NextTypeOK
<1>1. ASSUME NEW k \in Keys, Read(k), UNCHANGED currentMem PROVE CountedExactly'
  BY <1>1, ReadSizes, SameExact
<1>2. ASSUME NEW gone, Drop(gone) PROVE CountedExactly'
  <2>1. HotWithout(gone) = HotWithout(gone \cap DOMAIN hotData)
    BY DEF HotWithout
  <2> QED BY <1>0, <1>2, <2>1, DropExact DEF Drop
<1>3. CASE Set
  <2>1. ASSUME NEW k \in Keys, NEW v \in Values, NEW size \in Sizes, SetStores(k, v, size)
        PROVE  CountedExactly'
    <3>1. k \in DOMAIN hotData => k \in DOMAIN cached
      BY <2>1
    <3>2. \E gone \in SUBSET DOMAIN hotData : Store(k, v, size, gone)
      BY <2>1, EvictionsTracked DEF SetStores
    <3> QED BY <1>0, <3>1, <3>2, StoreExact
  <2>2. ASSUME NEW size \in Sizes, SetRefused(size) PROVE CountedExactly'
    BY <1>0, <2>2, DropExact, EvictionsTracked DEF SetRefused
  <2> QED BY <1>3, <2>1, <2>2 DEF Set
<1>4. CASE Clear
  <2>1. SizeOf(hotData', DOMAIN hotData') = 0
    BY <1>4, SumEmpty DEF Clear, SizeOf
  <2> QED BY <1>4, <2>1 DEF Clear, CountedExactly
<1>5. CASE Tick
  BY <1>5, SameExact DEF Tick, TypeOK, HotEntry
<1>6. CASE (\E v \in Values : Expire(v)) \/ UNCHANGED vars
  BY <1>6, SameExact DEF Expire, vars
<1>7. CASE Cleanup \/ \E k \in Keys : Get(k) \/ Delete(k)
  BY <1>1, <1>2, <1>7 DEF Cleanup, Get, Delete
<1>8. CASE Validate
  <2>1. ASSUME NEW t \in Threads, ValidateReturn(t) PROVE CountedExactly'
    BY <2>1, SameExact DEF ValidateReturn
  <2> QED BY <1>1, <1>2, <1>8, <2>1 DEF Validate, ValidateGet, ValidateDelete
<1> QED BY <1>3, <1>4, <1>5, <1>6, <1>7, <1>8 DEF Next

\* The one step that can make an exact memory count wrong is a Set of a key that is
\* tracked and that the LRU does not hold (Set, line 83).
THEOREM OnlyGhostsLeak ==
  Spec => [][CountedExactly /\ ~ CountedExactly' =>
               \E k \in DOMAIN hotData \ DOMAIN cached, v \in Values, size \in Sizes :
                 SetStores(k, v, size)]_vars
<1> DEFINE Leaks == CountedExactly /\ ~ CountedExactly' =>
                      \E k \in DOMAIN hotData \ DOMAIN cached, v \in Values, size \in Sizes :
                        SetStores(k, v, size)
<1>1. TypeOK /\ Tracked /\ [Next]_vars => [Leaks]_vars
  BY NextExact
<1>2. Spec => [](TypeOK /\ Tracked)
  BY AllTracked, TypeCorrect, PTL
<1> QED BY <1>1, <1>2, PTL DEF Spec

\* As long as no ghost arises the memory count is exact.
THEOREM ExactWithoutGhosts == Spec /\ []NoGhost => []CountedExactly
<1>1. Init => CountedExactly
  BY SumEmpty DEF Init, CountedExactly, SizeOf
<1>2. TypeOK /\ Tracked /\ NoGhost /\ CountedExactly /\ [Next]_vars => CountedExactly'
  BY NextExact DEF NoGhost
<1>3. Spec => [](TypeOK /\ Tracked)
  BY AllTracked, TypeCorrect, PTL
<1> QED BY <1>1, <1>2, <1>3, PTL DEF Spec

\* An LRU with room for every key drops none, so that no step makes a ghost.
LEMMA NextNoGhost ==
  ASSUME Cardinality(Keys) <= LruCap, TypeOK, Tracked, NoGhost, [Next]_vars
  PROVE  NoGhost'
<1>1. ASSUME NEW k \in Keys, Read(k), UNCHANGED cached PROVE NoGhost'
  BY <1>1, ReadSizes DEF NoGhost
<1>2. ASSUME NEW gone, Drop(gone) PROVE NoGhost'
  BY <1>2 DEF Drop, CachedWithout, HotWithout, NoGhost
<1>3. ASSUME NEW k \in Keys, NEW held \in SUBSET Keys PROVE Overflow(k, held) = {}
  <2>1. CASE k \in held
    BY <2>1 DEF Overflow
  <2>2. CASE k \notin held
    <3>1. held \subseteq Keys /\ held # Keys /\ IsFiniteSet(Keys)
      BY <2>2, KeysFinite
    <3>2. Cardinality(held) < Cardinality(Keys) /\ Cardinality(held) \in Nat /\ Cardinality(Keys) \in Nat
      BY <3>1, FS_Subset, FS_CardinalityType
    <3>3. Cardinality(held) < LruCap
      BY <3>2, ConstantFacts DEF Constants
    <3> QED BY <3>3 DEF Overflow
  <2> QED BY <2>1, <2>2
<1>4. ASSUME NEW k \in Keys, NEW v \in Values, NEW size, NEW gone, Store(k, v, size, gone)
      PROVE  NoGhost'
  <2>1. Overflow(k, DOMAIN cached \ gone) = {}
    BY <1>3 DEF TypeOK
  <2>2. DOMAIN cached' = (DOMAIN cached \ gone) \cup {k}
    BY <1>4, <2>1 DEF Store, Contents
  <2>3. DOMAIN hotData' = (DOMAIN hotData \ gone) \cup {k}
    BY <1>4 DEF Store
  <2> QED BY <2>2, <2>3 DEF NoGhost
<1>5. ASSUME NEW size \in Sizes, SetRefused(size) PROVE NoGhost'
  BY <1>5 DEF SetRefused, CachedWithout, HotWithout, NoGhost
<1>6. CASE Set
  BY <1>4, <1>5, <1>6 DEF Set, SetStores
<1>7. CASE Clear \/ Tick \/ (\E v \in Values : Expire(v)) \/ UNCHANGED vars
  BY <1>7 DEF Clear, Tick, Expire, vars, NoGhost
<1>8. CASE Cleanup \/ \E k \in Keys : Get(k) \/ Delete(k)
  BY <1>1, <1>2, <1>8 DEF Cleanup, Get, Delete
<1>9. CASE Validate
  BY <1>1, <1>2, <1>9 DEF Validate, ValidateGet, ValidateDelete, ValidateReturn, NoGhost
<1> QED BY <1>6, <1>7, <1>8, <1>9 DEF Next

\* While no more keys are used than the LRU has room for, the memory count is exact.
THEOREM ExactWithRoom ==
  ASSUME Cardinality(Keys) <= LruCap
  PROVE  Spec => []CountedExactly
<1>1. Init => NoGhost
  BY DEF Init, NoGhost
<1>2. TypeOK /\ Tracked /\ NoGhost /\ [Next]_vars => NoGhost'
  BY NextNoGhost
<1>3. Spec => [](TypeOK /\ Tracked)
  BY AllTracked, TypeCorrect, PTL
<1>4. Spec => []NoGhost
  BY <1>1, <1>2, <1>3, PTL DEF Spec
<1> QED BY <1>4, ExactWithoutGhosts, PTL
-----------------------------------------------------------------------------
(***************************************************************************)
(* Promotions.  The counter of hits is shared by all keys and the counts   *)
(* of the table start over at every Set, so that PromotionsEarned is not   *)
(* inductive: every hit is kept by at most one entry, which spends its     *)
(* hits when it is promoted and loses them when it is replaced or removed. *)
(***************************************************************************)

\* The hits the entry of k has had and not yet spent on a promotion.
Unspent(table, k) ==
  IF k \in DOMAIN table /\ table[k].ttl < LongTTL THEN table[k].count - 1 ELSE 0

UnspentHits(table) == SumFunctionOnSet([k \in Keys |-> Unspent(table, k)], Keys)

\* The hits cover what the promotions took and what the entries still hold.
HitsShared ==
  \/ stats.hits >= MaxStat
  \/ HotCount * stats.promotions + UnspentHits(hotData) <= stats.hits

\* An entry has a natural number of unspent hits.
LEMMA UnspentNat ==
  ASSUME TypeOK, NEW k
  PROVE  Unspent(hotData, k) \in Nat
BY ConstantFacts DEF Unspent, TypeOK, HotEntry, Constants

\* A step that counts no hit and gives none to an entry.
LEMMA NoHit ==
  ASSUME TypeOK, TypeOK', HitsShared, stats'.hits = stats.hits,
         stats'.promotions = stats.promotions,
         \A k \in Keys : Unspent(hotData', k) <= Unspent(hotData, k)
  PROVE  HitsShared'
<1> DEFINE f == [k \in Keys |-> Unspent(hotData, k)]
           g == [k \in Keys |-> Unspent(hotData', k)]
<1>1. \A k \in Keys : Unspent(hotData, k) \in Nat /\ Unspent(hotData', k) \in Nat
  <2>1. \A k : Unspent(hotData, k) \in Nat
    BY UnspentNat
  <2>2. \A k : Unspent(hotData', k) \in Nat
    BY ConstantFacts DEF Unspent, TypeOK, HotEntry, Constants
  <2> QED BY <2>1, <2>2
<1>2. \A k \in Keys : g[k] \in Nat /\ f[k] \in Nat /\ g[k] <= f[k]
  BY <1>1
<1>3. UnspentHits(hotData) = SumFunctionOnSet(f, Keys) /\ UnspentHits(hotData') = SumFunctionOnSet(g, Keys)
  BY DEF UnspentHits
<1> HIDE DEF f, g
<1>4. SumFunctionOnSet(g, Keys) <= SumFunctionOnSet(f, Keys)
  BY <1>2, KeysFinite, SumLess
<1>5. SumFunctionOnSet(g, Keys) \in Nat /\ SumFunctionOnSet(f, Keys) \in Nat
  BY <1>2, KeysFinite, SumNat
<1>6. HotCount * stats.promotions \in Nat /\ stats.hits \in Nat
  BY ConstantFacts DEF TypeOK, Stats, Constants
<1>7. HotCount * stats'.promotions = HotCount * stats.promotions
  OBVIOUS
<1> QED BY <1>3, <1>4, <1>5, <1>6, <1>7, ConstantFacts DEF HitsShared, Constants

\* A hit of k: it is kept by the entry of k, or spent with the others it holds.
LEMMA HitShared ==
  ASSUME TypeOK, TypeOK', HitsShared, NEW k \in Keys, k \in DOMAIN cached, Read(k)
  PROVE  HitsShared'
<1> DEFINE f == [j \in Keys |-> Unspent(hotData, j)]
           g == [j \in Keys |-> Unspent(hotData', j)]
           Rest == Keys \ {k}
<1>1. hotData' = Accessed(k)
  BY DEF Read
<1>2. \A j \in Rest : Unspent(hotData', j) = Unspent(hotData, j)
  BY <1>1 DEF Accessed, Unspent
<1>3. Unspent(hotData, k) \in Nat
  BY UnspentNat
<1>4. Promotes(k) => Unspent(hotData, k) >= HotCount - 1 /\ Unspent(hotData', k) = 0
  BY <1>1, ConstantFacts DEF Promotes, Accessed, Unspent, TTLAfter, TypeOK, HotEntry, Constants
<1>5. ~ Promotes(k) => Unspent(hotData', k) \in 0..(Unspent(hotData, k) + 1)
  <2>1. CASE k \in DOMAIN hotData
    <3>1. hotData[k] \in HotEntry
      BY <2>1 DEF TypeOK
    <3>2. /\ k \in DOMAIN hotData'
          /\ hotData'[k].count = IF hotData[k].count > HotCount THEN hotData[k].count ELSE hotData[k].count + 1
          /\ hotData'[k].ttl = TTLAfter(hotData'[k].count, hotData[k].ttl)
      BY <1>1, <2>1 DEF Accessed
    <3> QED BY <2>1, <3>1, <3>2, ConstantFacts
            DEF Promotes, Unspent, TTLAfter, HotEntry, Constants
  <2>2. CASE k \notin DOMAIN hotData
    BY <1>1, <1>3, <2>2 DEF Accessed, Unspent
  <2> QED BY <2>1, <2>2
<1>6. \A j \in Keys : f[j] \in Nat /\ g[j] \in Nat
  <2>1. \A j \in Keys : Unspent(hotData, j) \in Nat
    BY UnspentNat
  <2>2. Unspent(hotData', k) \in Nat
    BY <1>3, <1>4, <1>5
  <2> QED BY <1>2, <2>1, <2>2
<1>7. IsFiniteSet(Rest) /\ k \notin Rest /\ Keys = Rest \cup {k} /\ Rest \subseteq Keys
  BY KeysFinite, FS_Subset
<1>8. /\ UnspentHits(hotData) = SumFunctionOnSet(f, Keys)
      /\ UnspentHits(hotData') = SumFunctionOnSet(g, Keys)
      /\ f[k] = Unspent(hotData, k) /\ g[k] = Unspent(hotData', k)
  BY DEF UnspentHits
<1>9. \A j \in Rest : f[j] = g[j]
  BY <1>2
<1> HIDE DEF f, g, Rest
<1>10. /\ SumFunctionOnSet(f, Keys) = f[k] + SumFunctionOnSet(f, Rest)
       /\ SumFunctionOnSet(g, Keys) = g[k] + SumFunctionOnSet(g, Rest)
  BY <1>6, <1>7, SumAdd
<1>11. SumFunctionOnSet(f, Rest) = SumFunctionOnSet(g, Rest) /\ SumFunctionOnSet(f, Rest) \in Nat
  BY <1>6, <1>7, <1>9, SumEqual, SumNat
<1> DEFINE p == stats.promotions
           h == stats.hits
<1>12. p \in Nat /\ h \in Nat /\ HotCount \in Nat \ {0} /\ MaxStat \in Nat
  BY ConstantFacts DEF TypeOK, Stats, Constants
<1>13. /\ stats'.hits = Bump(h)
       /\ stats'.promotions = IF Promotes(k) THEN Bump(p) ELSE p
  BY DEF Read, TypeOK, Stats
<1>14. HotCount * (p + 1) = HotCount * p + HotCount /\ HotCount * p \in Nat
  BY <1>12
<1>15. HotCount * stats'.promotions \in {HotCount * p, HotCount * p + HotCount}
  BY <1>13, <1>14 DEF Bump
<1>16. ~ Promotes(k) => HotCount * stats'.promotions = HotCount * p
  BY <1>13
<1>17. h >= MaxStat \/ HotCount * p + f[k] + SumFunctionOnSet(f, Rest) <= h
  BY <1>6, <1>8, <1>10, <1>11, <1>12, <1>14 DEF HitsShared
<1>18. stats'.hits >= MaxStat \/ (stats'.hits = h + 1 /\ h < MaxStat)
  BY <1>12, <1>13 DEF Bump
<1> DEFINE c == HotCount * p
           d == HotCount * stats'.promotions
           r == SumFunctionOnSet(f, Rest)
<1>19. c \in Nat /\ r \in Nat /\ f[k] \in Nat /\ g[k] \in Nat /\ d \in {c, c + HotCount}
  BY <1>6, <1>11, <1>14, <1>15
<1>20. (d = c /\ g[k] <= f[k] + 1) \/ (f[k] >= HotCount - 1 /\ g[k] = 0)
  BY <1>3, <1>4, <1>5, <1>8, <1>16
<1>21. h >= MaxStat \/ c + f[k] + r <= h
  BY <1>17
<1> HIDE DEF c, d, r, p, h
<1>22. stats'.hits >= MaxStat \/ d + (g[k] + r) <= stats'.hits
  BY <1>12, <1>18, <1>19, <1>20, <1>21
<1>23. UnspentHits(hotData') = g[k] + r
  BY <1>8, <1>10, <1>11 DEF r
<1> QED BY <1>22, <1>23 DEF HitsShared, d

\* Every step keeps the hits shared.
LEMMA NextHitsShared == TypeOK /\ HitsShared /\ [Next]_vars => HitsShared'
<1> SUFFICES ASSUME TypeOK, HitsShared, [Next]_vars PROVE HitsShared'
  OBVIOUS
<1>0. TypeOK'
  BY NextTypeOK
<1>1. ASSUME NEW k \in Keys, Read(k) PROVE HitsShared'
  <2>1. CASE k \in DOMAIN cached
    BY <1>0, <1>1, <2>1, HitShared
  <2>2. CASE k \notin DOMAIN cached
    <3>1. stats'.hits = stats.hits /\ stats'.promotions = stats.promotions /\ hotData' = hotData
      BY <1>1, <2>2 DEF Read, TypeOK, Stats
    <3> QED BY <1>0, <3>1, UnspentNat, NoHit
  <2> QED BY <2>1, <2>2
<1>2. ASSUME NEW gone, hotData' = HotWithout(gone), stats'.hits = stats.hits,
             stats'.promotions = stats.promotions
      PROVE  HitsShared'
  <2>1. \A k \in Keys : Unspent(hotData', k) \in {Unspent(hotData, k), 0}
    BY <1>2 DEF HotWithout, Unspent
  <2>2. \A k \in Keys : Unspent(hotData, k) \in Nat
    BY UnspentNat
  <2>3. \A k \in Keys : Unspent(hotData', k) <= Unspent(hotData, k)
    BY <2>1, <2>2
  <2> QED BY <1>0, <1>2, <2>3, NoHit
<1>3. ASSUME NEW k \in Keys, NEW v \in Values, NEW size \in Sizes, SetStores(k, v, size)
      PROVE  HitsShared'
  <2>1. stats'.hits = stats.hits /\ stats'.promotions = stats.promotions
    BY <1>3 DEF SetStores, TypeOK, Stats
  <2>2. PICK gone : Store(k, v, size, gone)
    BY <1>3 DEF SetStores
  <2>3. \A j \in Keys : Unspent(hotData', j) \in {Unspent(hotData, j), 0}
    BY <2>2 DEF Store, Unspent
  <2>4. \A j \in Keys : Unspent(hotData, j) \in Nat
    BY UnspentNat
  <2>5. \A j \in Keys : Unspent(hotData', j) <= Unspent(hotData, j)
    BY <2>3, <2>4
  <2> QED BY <1>0, <2>1, <2>5, NoHit
<1>4. ASSUME NEW size \in Sizes, SetRefused(size) PROVE HitsShared'
  BY <1>2, <1>4 DEF SetRefused, TypeOK, Stats
<1>5. CASE Set
  BY <1>3, <1>4, <1>5 DEF Set
<1>6. CASE Clear
  <2>1. \A k \in Keys : Unspent(hotData', k) = 0
    BY <1>6 DEF Clear, Unspent
  <2>2. \A k \in Keys : Unspent(hotData, k) \in Nat
    BY UnspentNat
  <2> QED BY <1>0, <1>6, <2>1, <2>2, NoHit DEF Clear
<1>7. CASE Tick
  <2>1. \A k \in Keys : Unspent(hotData', k) = Unspent(hotData, k)
    BY <1>7 DEF Tick, Unspent, TypeOK, HotEntry
  <2>2. \A k \in Keys : Unspent(hotData, k) \in Nat
    BY UnspentNat
  <2> QED BY <1>0, <1>7, <2>1, <2>2, NoHit DEF Tick
<1>8. CASE UNCHANGED <<hotData, stats>>
  BY <1>8 DEF HitsShared
<1>9. CASE Cleanup \/ \E k \in Keys : Get(k) \/ Delete(k)
  BY <1>1, <1>2, <1>9 DEF Cleanup, Get, Delete, Drop
<1>10. CASE Validate
  BY <1>1, <1>2, <1>8, <1>10 DEF Validate, ValidateGet, ValidateDelete, ValidateReturn, Drop
<1> QED BY <1>5, <1>6, <1>7, <1>8, <1>9, <1>10 DEF Next, Expire, vars

\* Every promotion counted was earned by HotCount hits counted.
THEOREM PromotionsAreEarned == Spec => []PromotionsEarned
<1>1. Init => HitsShared
  <2> SUFFICES ASSUME Init PROVE HitsShared
    OBVIOUS
  <2> DEFINE f == [k \in Keys |-> Unspent(hotData, k)]
             z == [k \in Keys |-> 0]
  <2>1. \A k \in Keys : f[k] = 0
    BY DEF Init, Unspent
  <2>2. UnspentHits(hotData) = SumFunctionOnSet(f, Keys)
    BY DEF UnspentHits
  <2> HIDE DEF f
  <2>3. SumFunctionOnSet(f, Keys) = 0
    BY <2>1, KeysFinite, SumZero
  <2> QED BY <2>2, <2>3, ConstantFacts DEF Init, HitsShared, Constants
<1>2. TypeOK /\ HitsShared => PromotionsEarned
  <2> SUFFICES ASSUME TypeOK, HitsShared PROVE PromotionsEarned
    OBVIOUS
  <2>1. UnspentHits(hotData) \in Nat
    <3> DEFINE f == [k \in Keys |-> Unspent(hotData, k)]
    <3>1. \A k \in Keys : f[k] \in Nat
      BY UnspentNat
    <3> HIDE DEF f
    <3>2. SumFunctionOnSet(f, Keys) \in Nat
      BY <3>1, KeysFinite, SumNat
    <3> QED BY <3>2 DEF UnspentHits, f
  <2> DEFINE c == HotCount * stats.promotions
  <2>2. c \in Nat /\ stats.promotions * HotCount = c /\ stats.hits \in Nat /\ MaxStat \in Nat
    BY ConstantFacts DEF TypeOK, Stats, Constants
  <2>3. stats.hits >= MaxStat \/ c + UnspentHits(hotData) <= stats.hits
    BY DEF HitsShared
  <2> HIDE DEF c
  <2> QED BY <2>1, <2>2, <2>3 DEF PromotionsEarned
<1> QED BY <1>1, <1>2, InitTypeOK, NextTypeOK, NextHitsShared, PTL DEF Spec
-----------------------------------------------------------------------------
(***************************************************************************)
(* Times to live.  An eviction pass reads the access count and cleanup the *)
(* time to live; that the two agree is the invariant the proof needs.      *)
(***************************************************************************)
PromotedByUse ==
  \A k \in DOMAIN hotData : hotData[k].ttl = LongTTL => hotData[k].count > HotCount

\* Every step keeps long times to live to entries used often: Set starts both over.
LEMMA NextPromotedByUse == TypeOK /\ PromotedByUse /\ [Next]_vars => PromotedByUse'
<1> SUFFICES ASSUME TypeOK, PromotedByUse, [Next]_vars PROVE PromotedByUse'
  OBVIOUS
<1> USE ConstantFacts DEF Constants
<1>1. ASSUME NEW k \in Keys, Read(k) PROVE PromotedByUse'
  <2>1. CASE hotData' = hotData
    BY <2>1 DEF PromotedByUse
  <2>2. CASE hotData' = Accessed(k)
    BY <2>2 DEF PromotedByUse, Accessed, TTLAfter, TypeOK, HotEntry
  <2> QED BY <1>1, <2>1, <2>2 DEF Read
<1>2. ASSUME NEW gone, hotData' = HotWithout(gone) PROVE PromotedByUse'
  BY <1>2 DEF HotWithout, PromotedByUse
<1>3. ASSUME NEW k \in Keys, NEW v \in Values, NEW size, NEW gone, Store(k, v, size, gone)
      PROVE  PromotedByUse'
  BY <1>3 DEF Store, Contents, Replaced, PromotedByUse
<1>4. CASE Set
  BY <1>2, <1>3, <1>4 DEF Set, SetStores, SetRefused
<1>5. CASE Clear \/ Tick \/ (\E v \in Values : Expire(v)) \/ UNCHANGED vars
  <2>1. CASE Clear
    BY <2>1 DEF Clear, PromotedByUse
  <2>2. CASE Tick
    <3>1. \A k \in DOMAIN hotData : hotData[k] \in HotEntry
      BY DEF TypeOK
    <3>2. \A k \in DOMAIN hotData' :
            k \in DOMAIN hotData /\ hotData'[k].ttl = hotData[k].ttl /\ hotData'[k].count = hotData[k].count
      BY <2>2, <3>1 DEF Tick, HotEntry
    <3> QED BY <3>2 DEF PromotedByUse
  <2>3. CASE (\E v \in Values : Expire(v)) \/ UNCHANGED vars
    BY <2>3 DEF Expire, vars, PromotedByUse
  <2> QED BY <1>5, <2>1, <2>2, <2>3
<1>6. CASE Cleanup \/ \E k \in Keys : Get(k) \/ Delete(k)
  BY <1>1, <1>2, <1>6 DEF Cleanup, Get, Delete, Drop
<1>7. CASE Validate
  BY <1>1, <1>2, <1>7
     DEF Validate, ValidateGet, ValidateDelete, ValidateReturn, Drop, PromotedByUse
<1> QED BY <1>4, <1>5, <1>6, <1>7 DEF Next

\* A set the eviction takes holds entries past their time to live only.
LEMMA EvictedLapsed ==
  ASSUME TypeOK, PromotedByUse, NEW need, NEW gone \in Evictions(need), NEW k \in gone
  PROVE  hotData[k].age > hotData[k].ttl
<1>1. k \in Cold \/ k \in Old
  BY DEF Evictions, Pass
<1>2. CASE k \in Cold
  BY <1>2, ConstantFacts DEF Cold, PromotedByUse, TypeOK, HotEntry, Constants
<1>3. CASE k \in Old
  BY <1>3, ConstantFacts DEF Old, TypeOK, HotEntry, Constants, MaxAge
<1> QED BY <1>1, <1>2, <1>3

\* Cleanup and eviction remove an entry only when its time to live is over.
THEOREM TTLKept == Spec => TTLRespected
<1>1. Init => TypeOK /\ PromotedByUse
  BY InitTypeOK DEF Init, PromotedByUse
<1>2. TypeOK /\ PromotedByUse /\ [Next]_vars => TypeOK' /\ PromotedByUse'
  BY NextTypeOK, NextPromotedByUse
<1>3. TypeOK /\ PromotedByUse /\ (Cleanup \/ Set) =>
        \A k \in DOMAIN hotData \ DOMAIN hotData' : hotData[k].age > hotData[k].ttl
  <2> SUFFICES ASSUME TypeOK, PromotedByUse, Cleanup \/ Set,
                      NEW k \in DOMAIN hotData \ DOMAIN hotData'
               PROVE  hotData[k].age > hotData[k].ttl
    OBVIOUS
  <2>1. CASE Cleanup
    BY <2>1 DEF Cleanup, Drop, HotWithout, Lapsed
  <2>2. ASSUME NEW j \in Keys, NEW v \in Values, NEW size \in Sizes, SetStores(j, v, size)
        PROVE  hotData[k].age > hotData[k].ttl
    <3>1. CASE Store(j, v, size, {})
      BY <3>1 DEF Store, Contents, Replaced
    <3>2. ASSUME NEW gone \in Evictions(size), Store(j, v, size, gone)
          PROVE  hotData[k].age > hotData[k].ttl
      BY <3>2, EvictedLapsed DEF Store, Contents, Replaced
    <3> QED BY <2>2, <3>1, <3>2 DEF SetStores, MadeRoom
  <2>3. ASSUME NEW size \in Sizes, SetRefused(size)
        PROVE  hotData[k].age > hotData[k].ttl
    BY <2>3, EvictedLapsed DEF SetRefused, MadeRoom, HotWithout
  <2> QED BY <2>1, <2>2, <2>3 DEF Set
<1> QED BY <1>1, <1>2, <1>3, PTL DEF Spec, TTLRespected
-----------------------------------------------------------------------------
(***************************************************************************)
(* Implementation of LossyMap.  The capacity needs the LRU's order to be a *)
(* strict order, so that a full LRU always has a least recently used key.  *)
(***************************************************************************)
OrdersStrictly(R, D) ==
  /\ \A i, j : <<i, j>> \in R => i \in D /\ j \in D
  /\ \A i \in D : <<i, i>> \notin R
  /\ \A i, j, l \in D : <<i, j>> \in R /\ <<j, l>> \in R => <<i, l>> \in R

StrictOrder == OrdersStrictly(older, DOMAIN cached)

LruInv == TypeOK /\ StrictOrder /\ WithinCapacity

\* A full LRU has a least recently used key to drop, so lru.Add makes room.
LEMMA OverflowNonEmpty ==
  ASSUME LruInv, NEW k, NEW held \in SUBSET DOMAIN cached,
         k \notin held, Cardinality(held) >= LruCap
  PROVE  Overflow(k, held) # {}
<1> DEFINE below(j) == {i \in held : <<i, j>> \in older}
           B == {below(j) : j \in held}
<1>1. IsFiniteSet(held)
  BY KeysFinite, FS_Subset DEF LruInv, TypeOK
<1>2. held # {}
  BY <1>1, FS_EmptySet, ConstantFacts DEF Constants
<1>3. B \subseteq SUBSET held /\ B # {}
  BY <1>2
<1>4. PICK U \in B : \A V \in B : ~(V \subseteq U /\ V # U)
  <2> HIDE DEF B
  <2> QED BY <1>1, <1>3, MinimalSubset
<1>5. PICK j \in held : U = below(j)
  OBVIOUS
<1>6. ASSUME NEW i \in held, <<i, j>> \in older PROVE FALSE
  <2>1. below(i) \subseteq below(j) /\ i \in below(j) /\ i \notin below(i)
    BY <1>6 DEF LruInv, StrictOrder, OrdersStrictly
  <2>2. below(i) \in B
    OBVIOUS
  <2> QED BY <1>4, <1>5, <2>1, <2>2
<1>7. Overflow(k, held) = {l \in held : \A i \in held : <<i, l>> \notin older}
  <2>1. Cardinality(held) \in Nat
    BY <1>1, FS_CardinalityType
  <2> QED BY <2>1, ConstantFacts DEF Overflow, Constants
<1> QED BY <1>6, <1>7

\* What Store keeps fits the LRU.
LEMMA StoreFits ==
  ASSUME LruInv, NEW k, NEW gone
  PROVE  LET held == DOMAIN cached \ gone
         IN  Cardinality((held \ Overflow(k, held)) \cup {k}) <= LruCap
<1> DEFINE held == DOMAIN cached \ gone
           rest == held \ Overflow(k, held)
<1>1. IsFiniteSet(DOMAIN cached)
  BY KeysFinite, FS_Subset DEF LruInv, TypeOK
<1>2. IsFiniteSet(held) /\ Cardinality(held) <= Cardinality(DOMAIN cached)
  BY <1>1, FS_Subset
<1>3. IsFiniteSet(rest) /\ Cardinality(rest) <= Cardinality(held)
  BY <1>2, FS_Subset
<1>4. Cardinality(DOMAIN cached) \in Nat /\ Cardinality(held) \in Nat /\ Cardinality(rest) \in Nat
  BY <1>1, <1>2, <1>3, FS_CardinalityType
<1>5. Cardinality(DOMAIN cached) <= LruCap /\ LruCap \in Nat
  BY ConstantFacts DEF LruInv, WithinCapacity, Constants
<1>6. Cardinality(rest \cup {k}) = IF k \in rest THEN Cardinality(rest) ELSE Cardinality(rest) + 1
  BY <1>3, FS_AddElement
<1>7. k \in held => k \in rest
  BY DEF Overflow
<1>8. k \notin held /\ Cardinality(held) >= LruCap => Cardinality(rest) # Cardinality(held)
  <2> SUFFICES ASSUME k \notin held, Cardinality(held) >= LruCap, Cardinality(rest) = Cardinality(held)
               PROVE  FALSE
    OBVIOUS
  <2>1. Overflow(k, held) # {}
    BY OverflowNonEmpty
  <2>2. rest # held
    BY <2>1 DEF Overflow
  <2> QED BY <1>2, <2>2, FS_Subset
<1>9. Cardinality(rest \cup {k}) <= LruCap
  <2> HIDE DEF held, rest
  <2> QED BY <1>2, <1>3, <1>4, <1>5, <1>6, <1>7, <1>8
<1> QED BY <1>9

\* The order of use stays a strict order when a key moves to the front ...
LEMMA UsedLastOrder ==
  ASSUME LruInv, NEW k, NEW D, D \subseteq DOMAIN cached \cup {k}, k \in D,
         DOMAIN cached' = D, older' = UsedLast(k, D)
  PROVE  StrictOrder'
<1>1. older' \subseteq D \X D
  BY DEF UsedLast
<1>2. \A i \in D : <<i, i>> \notin older'
  BY DEF UsedLast, LruInv, StrictOrder, OrdersStrictly
<1>3. \A i, j \in D : <<i, j>> \in older' <=>
                        i # k /\ (j = k \/ (j # k /\ <<i, j>> \in older))
  BY DEF UsedLast
<1>4. ASSUME NEW i \in D, NEW j \in D, NEW l \in D, <<i, j>> \in older', <<j, l>> \in older'
      PROVE  <<i, l>> \in older'
  <2>1. i # k /\ j # k /\ (l = k \/ <<j, l>> \in older) /\ <<i, j>> \in older
    BY <1>3, <1>4
  <2>2. l # k => /\ i \in DOMAIN cached /\ j \in DOMAIN cached /\ l \in DOMAIN cached
                 /\ <<j, l>> \in older
    BY <2>1
  <2>3. l # k => <<i, l>> \in older
    BY <2>1, <2>2 DEF LruInv, StrictOrder, OrdersStrictly
  <2> QED BY <1>3, <2>1, <2>3
<1>5. OrdersStrictly(older', D)
  BY <1>1, <1>2, <1>4 DEF OrdersStrictly
<1> QED BY <1>5 DEF StrictOrder

\* ... and when keys leave the LRU.
LEMMA LeavingOrder ==
  ASSUME LruInv, NEW gone, cached' = CachedWithout(gone), older' = OlderWithout(gone)
  PROVE  StrictOrder' /\ WithinCapacity'
<1>1. DOMAIN cached' = DOMAIN cached \ gone
  BY DEF CachedWithout
<1>2. StrictOrder'
  <2>1. \A i, j \in DOMAIN cached \ gone : <<i, j>> \in older' <=> <<i, j>> \in older
    BY DEF OlderWithout, LruInv, TypeOK
  <2>2. ASSUME NEW i, NEW j, <<i, j>> \in older'
        PROVE  i \in DOMAIN cached \ gone /\ j \in DOMAIN cached \ gone
    BY <2>2 DEF OlderWithout, LruInv, StrictOrder, OrdersStrictly
  <2>3. /\ \A i \in DOMAIN cached : <<i, i>> \notin older
        /\ \A i, j, l \in DOMAIN cached :
             <<i, j>> \in older /\ <<j, l>> \in older => <<i, l>> \in older
    BY DEF LruInv, StrictOrder, OrdersStrictly
  <2>4. ASSUME NEW i \in DOMAIN cached \ gone, NEW j \in DOMAIN cached \ gone,
               NEW l \in DOMAIN cached \ gone, <<i, j>> \in older', <<j, l>> \in older'
        PROVE  <<i, l>> \in older'
    BY <2>1, <2>3, <2>4
  <2>5. OrdersStrictly(older', DOMAIN cached \ gone)
    BY <2>1, <2>2, <2>3, <2>4 DEF OrdersStrictly
  <2> QED BY <1>1, <2>5 DEF StrictOrder
<1>3. IsFiniteSet(DOMAIN cached)
  BY KeysFinite, FS_Subset DEF LruInv, TypeOK
<1>4. /\ Cardinality(DOMAIN cached') <= Cardinality(DOMAIN cached)
      /\ Cardinality(DOMAIN cached') \in Nat /\ Cardinality(DOMAIN cached) \in Nat
  BY <1>1, <1>3, FS_Subset, FS_CardinalityType
<1>5. LruCap \in Nat /\ Cardinality(DOMAIN cached) <= LruCap
  BY ConstantFacts DEF Constants, LruInv, WithinCapacity
<1>6. Cardinality(DOMAIN cached') <= LruCap
  BY <1>4, <1>5
<1> QED BY <1>2, <1>6 DEF WithinCapacity

\* Set keeps the LRU in order and within its capacity.
LEMMA StoreLru ==
  ASSUME LruInv, NEW k \in Keys, NEW v, NEW size, NEW gone, Store(k, v, size, gone)
  PROVE  StrictOrder' /\ WithinCapacity'
<1> DEFINE held == DOMAIN cached \ gone
           kept == (held \ Overflow(k, held)) \cup {k}
<1>1. DOMAIN cached' = kept /\ older' = UsedLast(k, kept)
  BY DEF Store, Contents, Replaced
<1>2. Cardinality(kept) <= LruCap
  BY StoreFits
<1>3. kept \subseteq DOMAIN cached \cup {k} /\ k \in kept
  OBVIOUS
<1> HIDE DEF kept
<1> QED BY <1>1, <1>2, <1>3, UsedLastOrder DEF WithinCapacity

\* Every step keeps the LRU in order and within its capacity.
LEMMA NextLruInv == LruInv /\ [Next]_vars => LruInv'
<1> SUFFICES ASSUME LruInv, [Next]_vars PROVE StrictOrder' /\ WithinCapacity'
  BY NextTypeOK DEF LruInv
<1>1. ASSUME NEW k \in Keys, Read(k), UNCHANGED cached PROVE StrictOrder' /\ WithinCapacity'
  <2>1. CASE k \in DOMAIN cached
    <3>1. DOMAIN cached \subseteq DOMAIN cached \cup {k}
      OBVIOUS
    <3>2. DOMAIN cached' = DOMAIN cached /\ older' = UsedLast(k, DOMAIN cached)
      BY <1>1, <2>1 DEF Read
    <3> QED BY <2>1, <3>1, <3>2, UsedLastOrder DEF LruInv, WithinCapacity
  <2>2. CASE k \notin DOMAIN cached
    BY <1>1, <2>2 DEF Read, LruInv, StrictOrder, WithinCapacity
  <2> QED BY <2>1, <2>2
<1>2. CASE Set
  BY <1>2, StoreLru, LeavingOrder DEF Set, SetStores, SetRefused
<1>3. CASE Clear
  BY <1>3, FS_EmptySet, ConstantFacts DEF Clear, StrictOrder, OrdersStrictly, WithinCapacity, Constants
<1>4. CASE UNCHANGED <<cached, older>>
  BY <1>4 DEF LruInv, StrictOrder, OrdersStrictly, WithinCapacity
<1>5. CASE Cleanup \/ \E k \in Keys : Get(k) \/ Delete(k)
  BY <1>1, <1>5, LeavingOrder DEF Cleanup, Get, Delete, Drop
<1>6. CASE Validate
  BY <1>1, <1>4, <1>6, LeavingOrder DEF Validate, ValidateGet, ValidateDelete, ValidateReturn, Drop
<1> QED BY <1>2, <1>3, <1>4, <1>5, <1>6 DEF Next, Tick, Expire, vars

\* An empty LRU is in order.
LEMMA InitLruInv == Init => LruInv
<1> SUFFICES ASSUME Init PROVE LruInv
  OBVIOUS
<1>1. DOMAIN cached = {} /\ older = {}
  BY DEF Init
<1>2. Cardinality({}) = 0
  BY FS_EmptySet
<1> QED BY <1>1, <1>2, InitTypeOK, ConstantFacts DEF LruInv, StrictOrder, OrdersStrictly, WithinCapacity, Constants

\* The LRU never holds more keys than its capacity.
THEOREM CapacityKept == Spec => []WithinCapacity
<1>1. LruInv => WithinCapacity
  BY DEF LruInv
<1> QED BY <1>1, InitLruInv, NextLruInv, PTL DEF Spec

\* A step of the cache is a step of the map or leaves it alone.
LEMMA MapStep == LruInv /\ [Next]_vars => [Abstract!Next]_<<cached, accepted>>
<1> SUFFICES ASSUME LruInv, [Next]_vars, ~ UNCHANGED <<cached, accepted>>
             PROVE  Abstract!Next
  OBVIOUS
<1> USE DEF Abstract!Next
<1>0. DOMAIN cached \subseteq Keys
  BY DEF LruInv, TypeOK
<1>1. ASSUME NEW gone, cached' = CachedWithout(gone), UNCHANGED accepted PROVE Abstract!Next
  <2>1. CachedWithout(gone) = CachedWithout(gone \cap Keys)
    BY <1>0 DEF CachedWithout
  <2>2. Abstract!Forget(gone \cap Keys)
    BY <1>1, <2>1 DEF Abstract!Forget, CachedWithout
  <2> QED BY <2>2
<1>2. ASSUME NEW k \in Keys, NEW v \in Values, NEW size,
             NEW gone, Store(k, v, size, gone)
      PROVE  Abstract!Next
  <2> DEFINE held == DOMAIN cached \ gone
             kept == (held \ Overflow(k, held)) \cup {k}
             away == Keys \ kept
  <2>1. (DOMAIN cached \ away) \cup {k} = kept
    BY <1>0
  <2>2. Cardinality(kept) <= LruCap
    BY StoreFits
  <2>3. cached' = [j \in kept |-> IF j = k THEN v ELSE cached[j]] /\ accepted' = [accepted EXCEPT ![k] = v]
    BY <1>2 DEF Store, Contents, Replaced
  <2> HIDE DEF kept
  <2>4. Abstract!Put(k, v, away)
    BY <2>1, <2>2, <2>3 DEF Abstract!Put, Abstract!Cardinality, Cardinality
  <2>5. away \in SUBSET Keys
    OBVIOUS
  <2> QED BY <2>4, <2>5
<1>3. CASE Set
  BY <1>1, <1>2, <1>3 DEF Set, SetStores, SetRefused
<1>4. CASE Clear
  <2>1. Abstract!Remove(Keys)
    BY <1>0, <1>4 DEF Clear, Abstract!Remove
  <2> QED BY <2>1
<1>5. ASSUME NEW k \in Keys, Delete(k) PROVE Abstract!Next
  <2>1. accepted' = [j \in Keys |-> IF j \in {k} THEN None ELSE accepted[j]]
    BY <1>5 DEF Delete, LruInv, TypeOK
  <2>2. Abstract!Remove({k})
    BY <1>5, <2>1 DEF Delete, Drop, CachedWithout, Abstract!Remove
  <2> QED BY <2>2
<1>6. CASE Cleanup
  BY <1>1, <1>6 DEF Cleanup, Drop
<1>7. ASSUME NEW t \in Threads, ValidateDelete(t) PROVE Abstract!Next
  BY <1>1, <1>7 DEF ValidateDelete, Drop
<1> QED BY <1>3, <1>4, <1>5, <1>6, <1>7
        DEF Next, Get, Validate, ValidateGet, ValidateReturn, Tick, Expire, vars

\* The cache implements the lossy map.
THEOREM Refinement == Spec => ImplementsLossyMap
<1>1. Init => Abstract!Init
  BY DEF Init, Abstract!Init
<1>2. LruInv /\ [Next]_vars => [Abstract!Next]_<<cached, accepted>>
  BY MapStep
<1> QED BY <1>1, <1>2, InitLruInv, NextLruInv, PTL DEF Spec, ImplementsLossyMap, Abstract!Spec

\* Every Get returns the value of the last Set of its key that returned true.
THEOREM FaithfulReads == Spec => []ReadsLastAccepted
<1> USE DEF ReadsLastAccepted, Abstract!Faithful
<1>1. Init => ReadsLastAccepted
  BY DEF Init
<1>2. LruInv /\ ReadsLastAccepted /\ [Next]_vars => ReadsLastAccepted'
  <2> SUFFICES ASSUME LruInv, ReadsLastAccepted, [Abstract!Next]_<<cached, accepted>>
               PROVE  ReadsLastAccepted'
    BY MapStep
  <2>0. DOMAIN cached \subseteq Keys /\ DOMAIN accepted = Keys
    BY DEF LruInv, TypeOK
  <2>1. ASSUME NEW gone \in SUBSET Keys, Abstract!Forget(gone) PROVE ReadsLastAccepted'
    BY <2>1 DEF Abstract!Forget
  <2>2. ASSUME NEW gone \in SUBSET Keys, Abstract!Remove(gone) PROVE ReadsLastAccepted'
    BY <2>0, <2>2 DEF Abstract!Remove
  <2>3. ASSUME NEW gone \in SUBSET Keys, NEW k \in Keys, NEW v \in Values, Abstract!Put(k, v, gone)
        PROVE  ReadsLastAccepted'
    BY <2>0, <2>3 DEF Abstract!Put
  <2> QED BY <2>1, <2>2, <2>3 DEF Abstract!Next
<1> QED BY <1>1, <1>2, InitLruInv, NextLruInv, PTL DEF Spec
=============================================================================
