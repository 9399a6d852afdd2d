------------------------------ MODULE Assembly ------------------------------
(***************************************************************************)
(* What reassembly promises: bytes of a request are collected and never    *)
(* lost, none lies outside the request, and the request is complete        *)
(* exactly when no byte is missing.  It may be given up at any time.       *)
(***************************************************************************)
EXTENDS Integers

VARIABLES
  have,    \* the bytes collected
  size,    \* how many there are to collect, -1 as long as this is not known
  status   \* "receiving", "complete" or "failed"

vars == <<have, size, status>>

Init == have = {} /\ size = -1 /\ status = "receiving"

\* More bytes arrive, and with the first of them the size of the whole.
Add ==
  /\ status # "failed"
  /\ size' \in Nat /\ size \in {-1, size'}
  /\ have \subseteq have' /\ have' \subseteq 0 .. size' - 1
  /\ status' = IF have' = 0 .. size' - 1 THEN "complete" ELSE "receiving"

Fail ==
  /\ status # "failed"
  /\ status' = "failed"
  /\ size' \in Nat /\ size \in {-1, size'}
  /\ UNCHANGED have

\* A failed request is dropped; the next packet starts anew.
Restart ==
  /\ status = "failed"
  /\ have' = {} /\ size' = -1 /\ status' = "receiving"

Next == Add \/ Fail \/ Restart

Spec == Init /\ [][Next]_vars

=============================================================================
