------------------------------ MODULE MCProxy ------------------------------
(***************************************************************************)
(* Instances of Proxy for TLC.                                             *)
(***************************************************************************)
EXTENDS Proxy, TLC

CONSTANTS m0, m1, m2, p1, p2, p3, w1, w2, a, b

\* One message of plain HTTP, one in two packets, one that cannot be parsed.
MCMsg == {m0, m1, m2}
MCRawMsg == {m0}
MCIdOf == m0 :> 0 @@ m1 :> 7 @@ m2 :> 8
MCChunksOf == m0 :> 1 @@ m1 :> 2 @@ m2 :> 1
MCSourceOf == m0 :> a @@ m1 :> a @@ m2 :> b
MCMalformed == {[msg |-> m2, offset |-> 0]}

\* Two clients that picked the same id, one of which also sends a packet
\* without an id.
ClashMsg == {m0, m1, m2}
ClashIdOf == m0 :> 0 @@ m1 :> 7 @@ m2 :> 7
ClashChunksOf == m0 :> 1 @@ m1 :> 2 @@ m2 :> 2
ClashSourceOf == m0 :> a @@ m1 :> a @@ m2 :> b

MCPtr == {p1, p2, p3}
ClashPtr == {p1, p2}
MCWorker == {w1, w2}

ClashSymmetry == Permutations(ClashPtr) \cup Permutations(MCWorker)

=============================================================================
