---------------------------- MODULE MCSmartCache ----------------------------
(***************************************************************************)
(* Small instances of SmartCache.  The four age thresholds keep the        *)
(* proportions of the code (5, 10, 5 and 15 minutes).                      *)
(***************************************************************************)
EXTENDS SmartCache, TLC

CONSTANTS k1, k2, k3, v1, v2, v3, sumA, sumB, t1, t2

NoChecksum   == [v \in {} |-> {}]

\* v1 and v3 are two versions of one content, v2 is another content.
TwoChecksums == (v1 :> sumA) @@ (v2 :> sumB) @@ (v3 :> sumA)

OneChecksumEach == (v1 :> sumA) @@ (v2 :> sumB)

KeySymmetry == Permutations(Keys)
=============================================================================
