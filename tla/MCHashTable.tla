---------------------------- MODULE MCHashTable -----------------------------
(***************************************************************************)
(* Instances of HashTable for TLC.  With B = 2, the ids 1, 5 and 9 share a *)
(* chain, 3 shares their first-level bucket, and 2 shares none.            *)
(***************************************************************************)
EXTENDS HashTable, TLC

CONSTANTS n1, n2, n3, v1, v2

CollidingIds == {1, 2, 3, 5, 9}

MCNodePtr == {n1, n2, n3}
MCValue == {v1, v2}

Symmetry == Permutations(MCNodePtr) \cup Permutations(MCValue)

=============================================================================
