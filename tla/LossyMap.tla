------------------------------ MODULE LossyMap ------------------------------
(***************************************************************************)
(* What a cache promises its callers: a partial map of at most Capacity    *)
(* keys that may forget any key at any time, but holds for a key only the  *)
(* value of the last write of it that was accepted, and nothing once the   *)
(* key has been deleted.                                                   *)
(***************************************************************************)
EXTENDS FiniteSets, Naturals

CONSTANTS Keys,      \* the keys callers use
          Values,    \* the values callers store
          None,      \* no value
          Capacity   \* the most keys the map may hold

VARIABLES store,     \* the map
          accepted   \* for each key its last accepted write, None once deleted

Init == /\ store = [k \in {} |-> {}]
        /\ accepted = [k \in Keys |-> None]

\* An accepted write of k; the keys of gone are forgotten to make room for it.
Put(k, v, gone) ==
  LET held == (DOMAIN store \ gone) \cup {k}
  IN  /\ Cardinality(held) <= Capacity
      /\ store' = [j \in held |-> IF j = k THEN v ELSE store[j]]
      /\ accepted' = [accepted EXCEPT ![k] = v]

\* Expiry and eviction look alike from outside.
Forget(gone) ==
  /\ store' = [j \in DOMAIN store \ gone |-> store[j]]
  /\ UNCHANGED accepted

\* Deletion by a caller.
Remove(gone) ==
  /\ store' = [j \in DOMAIN store \ gone |-> store[j]]
  /\ accepted' = [j \in Keys |-> IF j \in gone THEN None ELSE accepted[j]]

Next ==
  \E gone \in SUBSET Keys :
    \/ Forget(gone)
    \/ Remove(gone)
    \/ \E k \in Keys, v \in Values : Put(k, v, gone)

Spec == Init /\ [][Next]_<<store, accepted>>

\* A key that is present has the value of its last accepted write, and a deleted
\* key is absent: what every Get of the cache returns.
Faithful == \A k \in DOMAIN store : store[k] = accepted[k]
=============================================================================
