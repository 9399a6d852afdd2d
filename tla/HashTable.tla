----------------------------- MODULE HashTable ------------------------------
(***************************************************************************)
(* The table of partial requests (src/src/hash_table.c): two levels of     *)
(* bucket arrays, chains of nodes with equal hashes, and a doubly linked   *)
(* list of all nodes for iteration.  Every operation holds the one mutex   *)
(* from beginning to end, so that an operation is one action; an iterator  *)
(* holds it from ff_hash_table_iterator_init to .._free.                   *)
(*                                                                         *)
(* The table has bucket_levels = 2, as the proxy creates it (server.c:39). *)
(***************************************************************************)
EXTENDS Integers, Sequences, FiniteSets

CONSTANTS
  Id,        \* item ids
  Value,     \* item values
  NodePtr,   \* heap cells for nodes; their number bounds the table
  B,         \* entries of a bucket array, 2^FF_BUCKET_POOL_BITS
  NULL

ASSUME TableAssumption ==
  /\ Id \subseteq Nat
  /\ B \in Nat \ {0}
  /\ IsFiniteSet(NodePtr)
  /\ NULL \notin Value \cup NodePtr

VARIABLES
  buckets,           \* first-level array; an entry is NULL or a second-level array
  node,              \* the heap of nodes
  linked_list,       \* first and last node of the list
  linked_list_last,
  length,
  locked,            \* an iterator holds the mutex
  current_node,      \* its state
  started,
  result,            \* what the last operation returned: NULL for a void one, else
                     \*   the value, paired with the id it was looked up by
  destroyed          \* ff_hash_table_free has run

table == <<buckets, node, linked_list, linked_list_last, length>>
iterator == <<locked, current_node, started>>
vars == <<table, iterator, result, destroyed>>

Hash == 0 .. B - 1
Ptr == NodePtr \cup {NULL}

NodeRecord ==
  [item_id : Id, value : Value, next : Ptr, prev_in_list : Ptr, next_in_list : Ptr]

\* A cell that is not allocated.
Freed ==
  [item_id |-> NULL, value |-> NULL, next |-> NULL, prev_in_list |-> NULL, next_in_list |-> NULL]

Allocated == {n \in NodePtr : node[n] # Freed}

TypeOK ==
  /\ buckets \in [Hash -> {NULL} \cup [Hash -> Ptr]]
  /\ node \in [NodePtr -> NodeRecord \cup {Freed}]
  /\ linked_list \in Ptr /\ linked_list_last \in Ptr
  /\ length \in Nat
  /\ locked \in BOOLEAN /\ started \in BOOLEAN /\ destroyed \in BOOLEAN
  /\ current_node \in Ptr
  /\ result \in {NULL} \cup (Id \cup {NULL}) \X (Value \cup {NULL})

\* ff_hash_table_init_bucket: calloc
EmptyBuckets == [h \in Hash |-> NULL]

\* ff_hash_table_init
Init ==
  /\ buckets = EmptyBuckets
  /\ node = [n \in NodePtr |-> Freed]
  /\ linked_list = NULL /\ linked_list_last = NULL
  /\ length = 0
  /\ locked = FALSE /\ current_node = NULL /\ started = FALSE
  /\ result = NULL
  /\ destroyed = FALSE

-----------------------------------------------------------------------------

\* FF_HASH_GET_FOR_LEVEL: the bits of the id for a level.
HashForLevel(item_id, level) == (item_id \div B ^ level) % B

\* The nodes reached from `first' through a pointer field, in order.
Walk(first, field) ==
  LET at[i \in 0 .. Cardinality(NodePtr)] ==
        IF i = 0 THEN first
        ELSE IF at[i - 1] = NULL THEN NULL ELSE node[at[i - 1]][field]
      end == CHOOSE i \in DOMAIN at : at[i] = NULL /\ \A j \in 0 .. i - 1 : at[j] # NULL
  IN  [k \in 1 .. end |-> at[k - 1]]

\* ff_hash_table_get_or_create_bucket, with should_create.
WithBucket(item_id) ==
  LET h == HashForLevel(item_id, 0)
  IN  IF buckets[h] = NULL THEN [buckets EXCEPT ![h] = EmptyBuckets] ELSE buckets

\* The chain an item belongs to; empty if its bucket does not exist.
Chain(item_id) ==
  LET second == buckets[HashForLevel(item_id, 0)]
  IN  IF second = NULL THEN << >>
      ELSE Walk(second[HashForLevel(item_id, 1)], "next")

\* The node of an item in its chain, or NULL.
Find(item_id) ==
  LET chain == Chain(item_id)
      found == {k \in DOMAIN chain : node[chain[k]].item_id = item_id}
  IN  IF found = {} THEN NULL ELSE chain[CHOOSE k \in found : \A j \in found : k <= j]

Unlocked == ~ locked /\ ~ destroyed

\* Mutant: the first node of the chain is taken for the item's.
MutantGetItem(item_id) ==
  /\ Unlocked
  /\ result' = <<item_id, IF Chain(item_id) = << >> THEN NULL
                          ELSE node[Head(Chain(item_id))].value>>
  /\ UNCHANGED <<table, iterator, destroyed>>

ff_hash_table_get_item(item_id) ==
  /\ Unlocked
  /\ result' = <<item_id, IF Find(item_id) = NULL THEN NULL ELSE node[Find(item_id)].value>>
  /\ UNCHANGED <<table, iterator, destroyed>>

\* A new node goes to the end of its chain and of the list.
Insert(item_id, v, new) ==
  LET h0 == HashForLevel(item_id, 0)
      h1 == HashForLevel(item_id, 1)
      chain == Chain(item_id)
      last == IF linked_list = NULL THEN NULL ELSE linked_list_last
      record == [item_id |-> item_id, value |-> v, next |-> NULL,
                 prev_in_list |-> last, next_in_list |-> NULL]
  IN  /\ node' = [n \in NodePtr |->
                    IF n = new THEN record
                    ELSE LET r == IF chain # << >> /\ n = chain[Len(chain)]
                                  THEN [node[n] EXCEPT !.next = new] ELSE node[n]
                         IN  IF n = last
                             THEN [r EXCEPT !.next_in_list = new] ELSE r]
      /\ buckets' = IF chain = << >>
                    THEN [WithBucket(item_id) EXCEPT ![h0][h1] = new]
                    ELSE WithBucket(item_id)
      /\ linked_list' = IF linked_list = NULL THEN new ELSE linked_list
      /\ linked_list_last' = new
      /\ length' = length + 1

ff_hash_table_put_item(item_id, v) ==
  /\ Unlocked
  /\ \/ /\ Find(item_id) # NULL
        /\ node' = [node EXCEPT ![Find(item_id)].value = v]
        /\ UNCHANGED <<buckets, linked_list, linked_list_last, length>>
     \/ /\ Find(item_id) = NULL
        /\ \E new \in NodePtr \ Allocated : Insert(item_id, v, new)
  /\ result' = NULL
  /\ UNCHANGED <<iterator, destroyed>>

\* Mutant: the backward pointer of the next node is not updated.
MutantUnlinked(n, chain) ==
  [m \in NodePtr |->
     IF m = n THEN Freed
     ELSE IF node[m] = Freed THEN Freed
     ELSE [node[m] EXCEPT
             !.next = IF @ = n THEN node[n].next ELSE @,
             !.next_in_list = IF m = node[n].prev_in_list THEN node[n].next_in_list ELSE @]]

\* The node heap after unlinking n: from its chain, from the list, and freed.
Unlinked(n, chain) ==
  [m \in NodePtr |->
     IF m = n THEN Freed
     ELSE IF node[m] = Freed THEN Freed
     ELSE [node[m] EXCEPT
             !.next = IF m \in {chain[k] : k \in DOMAIN chain} /\ @ = n THEN node[n].next ELSE @,
             !.next_in_list = IF m = node[n].prev_in_list THEN node[n].next_in_list ELSE @,
             !.prev_in_list = IF m = node[n].next_in_list THEN node[n].prev_in_list ELSE @]]

\* Mutant: the second-level array is freed with nodes in its other chains.
MutantWalkUp(item_id, b) == [b EXCEPT ![HashForLevel(item_id, 0)] = NULL]

\* Walking back up the tree: with two levels, the second-level array is freed
\* when it has become empty.
WalkUp(item_id, b) ==
  LET h0 == HashForLevel(item_id, 0)
  IN  IF b[h0] = EmptyBuckets THEN [b EXCEPT ![h0] = NULL] ELSE b

\* An absent item still creates the buckets on its path.
ff_hash_table_remove_item(item_id) ==
  LET n == Find(item_id)
      h0 == HashForLevel(item_id, 0)
      h1 == HashForLevel(item_id, 1)
  IN  /\ Unlocked
      /\ \/ /\ n = NULL
            /\ buckets' = WithBucket(item_id)
            /\ UNCHANGED <<node, linked_list, linked_list_last, length>>
         \/ /\ n # NULL
            /\ node' = Unlinked(n, Chain(item_id))
            /\ LET b == IF buckets[h0][h1] = n
                        THEN [buckets EXCEPT ![h0][h1] = node[n].next] ELSE buckets
               IN  buckets' = IF b[h0][h1] = NULL THEN WalkUp(item_id, b) ELSE b
            /\ linked_list' = IF linked_list = n THEN node[n].next_in_list ELSE linked_list
            /\ linked_list_last' =
                 IF linked_list_last = n THEN node[n].prev_in_list ELSE linked_list_last
            /\ length' = length - 1
      /\ result' = NULL
      /\ UNCHANGED <<iterator, destroyed>>

ff_hash_table_iterator_init ==
  /\ Unlocked
  /\ locked' = TRUE
  /\ current_node' = NULL /\ started' = FALSE
  /\ result' = NULL
  /\ UNCHANGED <<table, destroyed>>

\* Mutant: the iterator returns its node instead of the item.
MutantIteratorNext ==
  /\ locked /\ ~ destroyed
  /\ started' = TRUE
  /\ current_node' = IF started THEN NULL ELSE linked_list
  /\ result' = <<NULL, current_node'>>
  /\ UNCHANGED <<table, locked, destroyed>>

ff_hash_table_iterator_next ==
  /\ locked /\ ~ destroyed
  /\ started' = TRUE
  /\ current_node' = IF ~ started THEN linked_list
                     ELSE IF current_node # NULL THEN node[current_node].next_in_list
                     ELSE NULL
  /\ result' = <<NULL, IF current_node' = NULL THEN NULL ELSE node[current_node'].value>>
  /\ UNCHANGED <<table, locked, destroyed>>

ff_hash_table_iterator_free ==
  /\ locked /\ ~ destroyed
  /\ locked' = FALSE /\ current_node' = NULL /\ started' = FALSE
  /\ result' = NULL
  /\ UNCHANGED <<table, destroyed>>

\* The nodes of all chains.
Chained ==
  UNION {LET s == Walk(buckets[h][g], "next") IN {s[k] : k \in DOMAIN s} :
           <<h, g>> \in {p \in Hash \X Hash : buckets[p[1]] # NULL}}

\* Frees the nodes of every chain and every bucket array, without the lock.
ff_hash_table_free ==
  /\ ~ destroyed
  /\ destroyed' = TRUE
  /\ node' = [n \in NodePtr |-> IF n \in Chained THEN Freed ELSE node[n]]
  /\ buckets' = EmptyBuckets
  /\ result' = NULL
  /\ UNCHANGED <<linked_list, linked_list_last, length, iterator>>

Next ==
  \/ \E id \in Id : \/ ff_hash_table_get_item(id)
                    \/ ff_hash_table_remove_item(id)
                    \/ \E v \in Value : ff_hash_table_put_item(id, v)
  \/ ff_hash_table_iterator_init
  \/ ff_hash_table_iterator_next
  \/ ff_hash_table_iterator_free
  \/ ff_hash_table_free

Spec == Init /\ [][Next]_vars

-----------------------------------------------------------------------------
(***************************************************************************)
(* Properties.                                                             *)
(***************************************************************************)

List == Walk(linked_list, "next_in_list")

\* The list of all nodes can be walked in both directions: removal keeps the
\* backward pointers in step with the forward ones (hash_table.c:195-214).
DoublyLinked ==
  ~ destroyed =>
    LET back == Walk(linked_list_last, "prev_in_list")
    IN  /\ Len(back) = Len(List)
        /\ \A k \in DOMAIN List : back[Len(List) + 1 - k] = List[k]

\* Bucket chains, list, length and heap agree: what is in one is in all, so
\* that nothing leaks and ff_hash_table_free, which follows the chains, leaves
\* no node behind (hash_table.c:109-271).
Accounted ==
  IF destroyed THEN Allocated = {}
  ELSE /\ Chained = Allocated
       /\ {List[k] : k \in DOMAIN List} = Allocated
       /\ length = Cardinality(Allocated)

M == INSTANCE RequestMap WITH
       entries <- IF destroyed THEN << >>
                  ELSE [k \in DOMAIN List |-> <<node[List[k]].item_id, node[List[k]].value>>],
       iterating <- locked /\ ~ destroyed,
       todo <- IF ~ locked \/ destroyed THEN << >>
               ELSE LET rest == IF ~ started THEN List
                                ELSE IF current_node = NULL THEN << >>
                                ELSE Walk(node[current_node].next_in_list, "next_in_list")
                    IN  [k \in DOMAIN rest |-> node[rest[k]].value]

\* The table behaves as a map that remembers the order of insertion: a look-up
\* through the buckets finds what was put and not removed, whatever collides
\* with it, and an iteration yields every value once (hash_table.c:80-304).
ImplementsMap == M!Spec

=============================================================================
