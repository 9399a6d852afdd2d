----------------------------- MODULE RequestMap -----------------------------
(***************************************************************************)
(* What the hash table promises its callers: a finite map from ids to      *)
(* values, and an iterator that yields the values in the order in which    *)
(* their ids were added, while the map cannot change.                      *)
(***************************************************************************)
EXTENDS Sequences

CONSTANTS Id, Value, NULL

VARIABLES
  entries,    \* the pairs <<id, value>>, oldest first
  result,     \* what the last operation returned, with the id it was asked for;
              \*   NULL for an operation that returns nothing
  iterating,  \* an iterator exists
  todo        \* values it has still to yield

vars == <<entries, result, iterating, todo>>

Init ==
  /\ entries = << >>
  /\ result = NULL
  /\ iterating = FALSE /\ todo = << >>

Has(id) == \E k \in DOMAIN entries : entries[k][1] = id

Position(id) == CHOOSE k \in DOMAIN entries : entries[k][1] = id

Get(id) ==
  /\ ~ iterating
  /\ result' = <<id, IF Has(id) THEN entries[Position(id)][2] ELSE NULL>>
  /\ UNCHANGED <<entries, iterating, todo>>

Put(id, v) ==
  /\ ~ iterating
  /\ entries' = IF Has(id) THEN [entries EXCEPT ![Position(id)] = <<id, v>>]
                ELSE Append(entries, <<id, v>>)
  /\ result' = NULL
  /\ UNCHANGED <<iterating, todo>>

Remove(id) ==
  /\ ~ iterating
  /\ entries' = SelectSeq(entries, LAMBDA e : e[1] # id)
  /\ result' = NULL
  /\ UNCHANGED <<iterating, todo>>

Iterate ==
  /\ ~ iterating
  /\ iterating' = TRUE
  /\ todo' = [k \in DOMAIN entries |-> entries[k][2]]
  /\ result' = NULL
  /\ UNCHANGED entries

Yield ==
  /\ iterating
  /\ result' = <<NULL, IF todo = << >> THEN NULL ELSE Head(todo)>>
  /\ todo' = IF todo = << >> THEN << >> ELSE Tail(todo)
  /\ UNCHANGED <<entries, iterating>>

Finish ==
  /\ iterating
  /\ iterating' = FALSE /\ todo' = << >>
  /\ result' = NULL
  /\ UNCHANGED entries

\* The map ceases to exist.
Destroy ==
  /\ entries' = << >>
  /\ iterating' = FALSE /\ todo' = << >>
  /\ result' = NULL

Next ==
  \/ \E id \in Id : Get(id) \/ Remove(id) \/ \E v \in Value : Put(id, v)
  \/ Iterate \/ Yield \/ Finish \/ Destroy

Spec == Init /\ [][Next]_vars

=============================================================================
