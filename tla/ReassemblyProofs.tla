-------------------------- MODULE ReassemblyProofs --------------------------
(***************************************************************************)
(* Proofs about Reassembly, for any set of packets and any word sizes.     *)
(***************************************************************************)
EXTENDS Reassembly, FiniteSetTheorems, TLAPS

\* No packet belongs to a request of 2^16 bytes or more, and in none does the
\* end of the chunk exceed 32 bits: offsets are stored as they were sent.
Fits ==
  \A c \in Chunk : c.total_length < U16 /\ c.chunk_offset + c.chunk_length < U32

\* The node of an accepted chunk lies within the request and keeps its place.
Placed ==
  \A k \in 1 .. Len(payload) :
    /\ payload[k].from = payload[k].offset
    /\ payload[k].offset + payload[k].length <= payload_length

Disjoint ==
  \A j, k \in 1 .. Len(payload) : j # k => Bytes(payload[j]) \cap Bytes(payload[k]) = {}

\* The count of received bytes is the number of bytes covered.
Counted == IsFiniteSet(Covered) /\ Cardinality(Covered) = received_length

Status ==
  /\ version = FALSE => payload = << >> /\ received_length = 0 /\ state = "RECEIVING"
  /\ state # "RECEIVING_FAIL" =>
       (state = "RECEIVED" <=> version /\ received_length = payload_length)
  /\ state = "RECEIVED" => payload # << >>
  /\ vectorised => state = "RECEIVED"

IInv ==
  /\ TypeOK
  /\ payload_length < U16
  /\ Placed /\ Disjoint /\ Counted /\ Status /\ Delivered

-----------------------------------------------------------------------------

\* The node made for a chunk fits its C types.
LEMMA NodeType ==
  ASSUME NEW c \in Chunk
  PROVE  NodeOf(c) \in Node
<1>1. c \in Header
  BY ChunkAssumption
<1>2. c.chunk_offset \in Nat /\ c.chunk_offset < U32 /\ c.chunk_length \in 0 .. U16 - 1
  BY <1>1, ChunkAssumption DEF Header
<1>3. c.chunk_offset % U16 \in 0 .. U16 - 1
  BY <1>2, ChunkAssumption
<1> QED
  BY <1>1, <1>2, <1>3, ChunkAssumption DEF NodeOf, Node, Header

\* The fields of a packet have their types.
LEMMA ChunkType ==
  ASSUME NEW c \in Chunk
  PROVE  /\ c.total_length \in Nat /\ c.total_length <= U32 - 1
         /\ c.chunk_offset \in Nat /\ c.chunk_offset <= U32 - 1
         /\ c.chunk_length \in Nat /\ c.chunk_length <= U16 - 1
BY ChunkAssumption DEF Header

\* A byte range has as many elements as its length.
LEMMA RangeSize ==
  ASSUME NEW l \in Nat
  PROVE  IsFiniteSet(0 .. l - 1) /\ Cardinality(0 .. l - 1) = l
<1> DEFINE a == 0
           b == l - 1
<1>1. a \in Int /\ b \in Int
  OBVIOUS
<1> HIDE DEF a, b
<1>2. IsFiniteSet(a .. b) /\ Cardinality(a .. b) = IF a > b THEN 0 ELSE b - a + 1
  BY <1>1, FS_Interval
<1> QED
  BY <1>2 DEF a, b

\* The types hold for a fresh request.
LEMMA TypeInit == Init => TypeOK
<1> SUFFICES ASSUME Init PROVE TypeOK
  OBVIOUS
<1>1. 0 \in 0 .. U32 - 1 /\ 0 \in 0 .. MaxPackets
  BY ChunkAssumption
<1>2. << >> \in Seq(Node)
  OBVIOUS
<1>3. version \in BOOLEAN /\ vectorised \in BOOLEAN
  BY Zenon DEF Init
<1> QED
  BY <1>1, <1>2, <1>3 DEF Init, TypeOK

\* Every step keeps the types.
LEMMA TypeNext == TypeOK /\ [Next]_vars => TypeOK'
<1> SUFFICES ASSUME TypeOK, [Next]_vars PROVE TypeOK'
  OBVIOUS
<1>1. ASSUME NEW c \in Chunk, Receive(c) PROVE TypeOK'
  <2>1. NodeOf(c) \in Node
    BY NodeType
  <2>2. Expected(c) \in 0 .. U32 - 1
    BY ChunkType, ChunkAssumption DEF Expected, TypeOK
  <2>3. payload' \in Seq(Node)
    BY <1>1, <2>1 DEF Receive, ff_request_parse_chunk, TypeOK
  <2>4. received_length' \in Nat
    BY <1>1, ChunkType DEF Receive, ff_request_parse_chunk, TypeOK
  <2>5. count' \in 0 .. MaxPackets /\ arrived' \subseteq Chunk
    BY <1>1, ChunkAssumption DEF Receive, TypeOK
  <2> QED
    BY <1>1, <2>2, <2>3, <2>4, <2>5 DEF Receive, ff_request_parse_chunk, TypeOK
<1>2. CASE Drop
  <2>1. 0 \in 0 .. U32 - 1
    BY ChunkAssumption
  <2>2. version' \in BOOLEAN /\ vectorised' \in BOOLEAN
    BY <1>2, Zenon DEF Drop, TypeOK
  <2>3. payload' \in Seq(Node)
    BY <1>2 DEF Drop
  <2> QED
    BY <1>2, <2>1, <2>2, <2>3 DEF Drop, TypeOK
<1>3. CASE ff_request_vectorise_payload
  BY <1>3 DEF ff_request_vectorise_payload, TypeOK
<1>4. CASE UNCHANGED vars
  BY <1>4 DEF vars, TypeOK
<1> QED
  BY <1>1, <1>2, <1>3, <1>4 DEF Next

\* Every field of the request keeps the type the C code gives it, whatever
\* packets arrive (request.h: struct ff_request).
THEOREM TypeCorrect == Spec => []TypeOK
BY TypeInit, TypeNext, PTL DEF Spec

-----------------------------------------------------------------------------

\* A fresh request satisfies the invariant.
LEMMA InvInit ==
  ASSUME Init
  PROVE  IInv
<1>1. TypeOK
  BY TypeInit
<1>2. Covered = {}
  BY DEF Init, Covered
<1>3. Counted
  BY <1>2, FS_EmptySet DEF Init, Counted
<1>4. 0 < U16
  BY ChunkAssumption
<1> QED
  BY <1>1, <1>3, <1>4 DEF Init, IInv, Placed, Disjoint, Status, Delivered

\* What an accepted chunk does to the list of nodes.
LEMMA AcceptedNode ==
  ASSUME Fits, IInv, NEW c \in Chunk, Accepts(c)
  PROVE  LET n == NodeOf(c)
         IN  /\ n.offset = c.chunk_offset /\ n.from = c.chunk_offset
             /\ n.length = c.chunk_length
             /\ n.offset + n.length <= Expected(c)
             /\ \A k \in 1 .. Len(payload) : Bytes(n) \cap Bytes(payload[k]) = {}
             /\ IsFiniteSet(Bytes(n)) /\ Cardinality(Bytes(n)) = n.length
             /\ Expected(c) \in Nat /\ Expected(c) < U16
<1> DEFINE n == NodeOf(c)
<1>0. TypeOK /\ payload_length < U16
  BY DEF IInv
<1>1. Expected(c) \in Nat /\ Expected(c) < U16
  BY <1>0, ChunkType DEF Expected, Fits, TypeOK
<1>2. c.chunk_offset + c.chunk_length <= Expected(c)
  <2>1. c.chunk_offset + c.chunk_length \in 0 .. U32 - 1
    BY ChunkType, ChunkAssumption DEF Fits
  <2>2. (c.chunk_offset + c.chunk_length) % U32 = c.chunk_offset + c.chunk_length
    BY <2>1, ChunkAssumption
  <2> QED
    BY <2>2 DEF Accepts
<1>3. c.chunk_offset % U16 = c.chunk_offset
  <2>1. c.chunk_offset \in 0 .. U16 - 1
    BY <1>1, <1>2, ChunkType, ChunkAssumption
  <2> QED
    BY <2>1, ChunkAssumption
<1>4. /\ n.offset = c.chunk_offset /\ n.from = c.chunk_offset /\ n.length = c.chunk_length
  BY <1>3 DEF NodeOf
<1>5. n \in Node
  BY NodeType
<1>6. ASSUME NEW k \in 1 .. Len(payload)
      PROVE  Bytes(n) \cap Bytes(payload[k]) = {}
  <2>1. payload[k] \in Node
    BY <1>0 DEF TypeOK
  <2>2. ~ Overlaps(n, payload[k])
    BY DEF Accepts
  <2>3. /\ n.offset \in Int /\ n.length \in Int
        /\ payload[k].offset \in Int /\ payload[k].length \in Int
    BY <1>5, <2>1 DEF Node
  <2> HIDE DEF n
  <2> QED
    BY <2>2, <2>3, SMTT(60) DEF Overlaps, Bytes
<1>7. IsFiniteSet(Bytes(n)) /\ Cardinality(Bytes(n)) = n.length
  <2>1. n.offset \in Int /\ n.length \in Nat /\ n.offset + n.length - 1 \in Int
    BY <1>5, ChunkAssumption DEF Node
  <2> HIDE DEF n
  <2> DEFINE a == n.offset
             b == n.offset + n.length - 1
  <2>2. a \in Int /\ b \in Int
    BY <2>1
  <2> HIDE DEF a, b
  <2>3. /\ IsFiniteSet(a .. b)
        /\ Cardinality(a .. b) = IF a > b THEN 0 ELSE b - a + 1
    BY <2>2, FS_Interval
  <2> QED
    BY <2>1, <2>3 DEF Bytes, a, b
<1> QED
  BY <1>1, <1>2, <1>4, <1>6, <1>7

\* Appending the node of an accepted chunk.
LEMMA AcceptedCovered ==
  ASSUME Fits, IInv, NEW c \in Chunk, Accepts(c), payload' = Append(payload, NodeOf(c))
  PROVE  /\ Len(payload') = Len(payload) + 1
         /\ payload'[Len(payload) + 1] = NodeOf(c)
         /\ \A k \in 1 .. Len(payload) : payload'[k] = payload[k]
         /\ Covered' = Covered \cup Bytes(NodeOf(c))
         /\ Covered \cap Bytes(NodeOf(c)) = {}
<1>1. payload \in Seq(Node) /\ NodeOf(c) \in Node
  BY NodeType DEF IInv, TypeOK
<1>2. /\ Len(payload) \in Nat
      /\ Len(payload') = Len(payload) + 1
      /\ payload'[Len(payload) + 1] = NodeOf(c)
      /\ \A k \in 1 .. Len(payload) : payload'[k] = payload[k]
  BY <1>1
<1>3. Covered' = UNION {Bytes(payload'[k]) : k \in 1 .. Len(payload')}
  BY DEF Covered, Bytes
<1>4. Covered' = Covered \cup Bytes(NodeOf(c))
  <2>1. ASSUME NEW b \in Covered' PROVE b \in Covered \cup Bytes(NodeOf(c))
    <3>1. PICK k \in 1 .. Len(payload) + 1 : b \in Bytes(payload'[k])
      BY <1>2, <1>3, <2>1
    <3>2. k \in 1 .. Len(payload) \/ k = Len(payload) + 1
      BY <1>2
    <3> QED
      BY <1>2, <3>1, <3>2 DEF Covered
  <2>2. ASSUME NEW b \in Covered PROVE b \in Covered'
    <3>1. PICK k \in 1 .. Len(payload) : b \in Bytes(payload[k])
      BY <2>2 DEF Covered
    <3>2. k \in 1 .. Len(payload') /\ b \in Bytes(payload'[k])
      BY <1>2, <3>1
    <3> QED
      BY <1>3, <3>2
  <2>3. ASSUME NEW b \in Bytes(NodeOf(c)) PROVE b \in Covered'
    <3>1. Len(payload) + 1 \in 1 .. Len(payload')
      BY <1>2
    <3> QED
      BY <1>2, <1>3, <2>3, <3>1
  <2> QED
    BY <2>1, <2>2, <2>3
<1>5. Covered \cap Bytes(NodeOf(c)) = {}
  BY AcceptedNode DEF Covered
<1> QED
  BY <1>2, <1>4, <1>5

\* Adding a chunk that passes all checks keeps the nodes disjoint and the
\* count of bytes right.
LEMMA InvAccept ==
  ASSUME Fits, IInv, NEW c \in Chunk, Receive(c), Accepts(c)
  PROVE  IInv'
<1> DEFINE n == NodeOf(c)
           m == Len(payload) + 1
<1>0. TypeOK /\ TypeOK'
  BY TypeNext DEF IInv, Next
<1>1. /\ payload' = Append(payload, n)
      /\ received_length' = received_length + c.chunk_length
      /\ payload_length' = Expected(c)
      /\ version' = TRUE
      /\ state' = IF received_length' = payload_length' THEN "RECEIVED" ELSE state
      /\ state # "RECEIVING_FAIL" /\ vectorised' = FALSE
  BY DEF Receive, ff_request_parse_chunk, IInv, TypeOK
<1>2. /\ n.offset = c.chunk_offset /\ n.from = c.chunk_offset
      /\ n.length = c.chunk_length
      /\ n.offset + n.length <= Expected(c)
      /\ \A k \in 1 .. Len(payload) : Bytes(n) \cap Bytes(payload[k]) = {}
      /\ IsFiniteSet(Bytes(n)) /\ Cardinality(Bytes(n)) = n.length
      /\ Expected(c) \in Nat /\ Expected(c) < U16
  BY AcceptedNode
<1>3. /\ Len(payload') = m /\ payload'[m] = n
      /\ \A k \in 1 .. Len(payload) : payload'[k] = payload[k]
      /\ Covered' = Covered \cup Bytes(n)
      /\ Covered \cap Bytes(n) = {}
  BY <1>1, AcceptedCovered
<1>4. Len(payload) \in Nat
  BY <1>0 DEF TypeOK
<1>5. payload # << >> => payload_length' = payload_length
  BY <1>1 DEF Expected, IInv, Status
<1> HIDE DEF n
<1>6. Placed'
  <2> SUFFICES ASSUME NEW k \in 1 .. Len(payload')
               PROVE  /\ payload'[k].from = payload'[k].offset
                      /\ payload'[k].offset + payload'[k].length <= payload_length'
    BY DEF Placed
  <2>1. CASE k = m
    BY <1>1, <1>2, <1>3, <2>1
  <2>2. CASE k # m
    <3>1. k \in 1 .. Len(payload) /\ payload'[k] = payload[k]
      BY <1>3, <1>4, <2>2
    <3>2. payload # << >>
      BY <3>1
    <3> QED
      BY <1>5, <3>1, <3>2 DEF IInv, Placed
  <2> QED
    BY <2>1, <2>2
<1>7. Disjoint'
  <2> SUFFICES ASSUME NEW j \in 1 .. m, NEW k \in 1 .. m, j # k
               PROVE  Bytes(payload'[j]) \cap Bytes(payload'[k]) = {}
    BY <1>3 DEF Disjoint, Bytes
  <2>1. CASE j = m
    <3>1. k \in 1 .. Len(payload)
      BY <1>4, <2>1
    <3> QED
      BY <1>2, <1>3, <2>1, <3>1
  <2>2. CASE k = m
    <3>1. j \in 1 .. Len(payload)
      BY <1>4, <2>2
    <3> QED
      BY <1>2, <1>3, <2>2, <3>1
  <2>3. CASE j # m /\ k # m
    <3>1. j \in 1 .. Len(payload) /\ k \in 1 .. Len(payload)
      BY <1>4, <2>3
    <3> QED
      BY <1>3, <3>1 DEF IInv, Disjoint
  <2> QED
    BY <2>1, <2>2, <2>3
<1>8. Counted'
  <2>1. IsFiniteSet(Covered) /\ Cardinality(Covered) = received_length
    BY DEF IInv, Counted
  <2>2. /\ IsFiniteSet(Covered \cup Bytes(n))
        /\ Cardinality(Covered \cup Bytes(n)) =
             Cardinality(Covered) + Cardinality(Bytes(n)) - Cardinality(Covered \cap Bytes(n))
    BY <1>2, <2>1, FS_Union
  <2>3. Cardinality(Covered \cap Bytes(n)) = 0
    BY <1>3, FS_EmptySet, Zenon
  <2>4. received_length \in Nat /\ c.chunk_length \in Nat
    BY <1>0, ChunkType DEF TypeOK
  <2>5. received_length' = Cardinality(Covered \cup Bytes(n))
    BY <1>1, <1>2, <2>1, <2>2, <2>3, <2>4
  <2> QED
    BY <1>3, <2>2, <2>5 DEF Counted
<1>9. Status'
  <2>1. payload' # << >>
    BY <1>3, <1>4
  <2>2. state = "RECEIVED" => received_length' = payload_length'
    <3> SUFFICES ASSUME state = "RECEIVED" PROVE received_length' = payload_length'
      OBVIOUS
    <3>1. version = TRUE /\ received_length = payload_length /\ payload # << >>
      BY <1>0, <1>1 DEF IInv, Status, TypeOK
    <3>2. payload_length' = payload_length
      BY <1>5, <3>1
    <3>3. Covered' \subseteq 0 .. payload_length' - 1
      <4> SUFFICES ASSUME NEW k \in 1 .. m
                   PROVE  Bytes(payload'[k]) \subseteq 0 .. payload_length' - 1
        BY <1>3 DEF Covered, Bytes
      <4>1. payload'[k] \in Node
        BY <1>0, <1>3 DEF TypeOK
      <4>2. payload'[k].offset + payload'[k].length <= payload_length'
        BY <1>3, <1>6 DEF Placed
      <4>3. payload_length' \in Nat
        BY <1>1, <1>2
      <4> QED
        BY <4>1, <4>2, <4>3, SMTT(60) DEF Bytes, Node
    <3>4. /\ IsFiniteSet(0 .. payload_length' - 1)
          /\ Cardinality(0 .. payload_length' - 1) = payload_length'
      <4>1. payload_length' \in Nat
        BY <1>1, <1>2
      <4> QED
        BY <4>1, RangeSize
    <3>5. Cardinality(Covered') <= payload_length'
      BY <3>3, <3>4, FS_Subset, Zenon
    <3>6. received_length' = Cardinality(Covered')
      BY <1>8 DEF Counted
    <3>7. received_length \in Nat /\ c.chunk_length \in Nat
      BY <1>0, ChunkType DEF TypeOK
    <3> QED
      BY <1>1, <3>1, <3>2, <3>5, <3>6, <3>7
  <2> QED
    BY <1>0, <1>1, <2>1, <2>2 DEF Status, TypeOK
<1> QED
  BY <1>0, <1>1, <1>2, <1>6, <1>7, <1>8, <1>9 DEF IInv, Delivered

\* A chunk that fails a check fails the request and keeps the invariant.
LEMMA InvReject ==
  ASSUME Fits, IInv, NEW c \in Chunk, Receive(c), ~ Accepts(c)
  PROVE  IInv'
<1>0. TypeOK /\ TypeOK'
  BY TypeNext DEF IInv, Next
<1>1. /\ UNCHANGED <<payload, received_length>>
      /\ payload_length' = Expected(c)
      /\ version' = TRUE /\ state' = "RECEIVING_FAIL" /\ vectorised' = FALSE
  BY <1>0 DEF Receive, ff_request_parse_chunk, TypeOK
<1>2. payload_length' < U16
  BY <1>1, ChunkType DEF Expected, IInv, Fits
<1>3. payload # << >> => payload_length' = payload_length
  BY <1>1 DEF Expected, IInv, Status
<1>4. Placed'
  <2>1. CASE payload = << >>
    BY <1>1, <2>1 DEF Placed
  <2>2. CASE payload # << >>
    BY <1>1, <1>3, <2>2 DEF Placed, IInv
  <2> QED
    BY <2>1, <2>2
<1>5. Disjoint' /\ Counted'
  BY <1>1 DEF IInv, Disjoint, Counted, Covered, Bytes
<1>6. Status' /\ Delivered'
  BY <1>1 DEF Status, Delivered
<1> QED
  BY <1>0, <1>2, <1>4, <1>5, <1>6 DEF IInv

\* Freeing a failed request leads back to the state of a fresh one.
LEMMA InvDrop ==
  ASSUME IInv, Drop
  PROVE  IInv'
<1>0. TypeOK /\ TypeOK'
  BY TypeNext DEF IInv, Next
<1>1. Covered' = {}
  BY DEF Drop, Covered
<1>2. Counted'
  BY <1>1, FS_EmptySet DEF Drop, Counted
<1>3. vectorised' = FALSE
  BY <1>0 DEF Drop, IInv, Status, TypeOK
<1>4. 0 < U16
  BY ChunkAssumption
<1> QED
  BY <1>0, <1>2, <1>3, <1>4 DEF Drop, IInv, Placed, Disjoint, Status, Delivered

\* The nodes of a complete request cover it.
LEMMA AllCovered ==
  ASSUME IInv, state = "RECEIVED"
  PROVE  Covered = 0 .. payload_length - 1
<1>1. payload_length \in Nat
  BY DEF IInv, TypeOK
<1>2. Covered \subseteq 0 .. payload_length - 1
  <2> SUFFICES ASSUME NEW k \in 1 .. Len(payload)
               PROVE  Bytes(payload[k]) \subseteq 0 .. payload_length - 1
    BY DEF Covered
  <2>1. payload[k] \in Node /\ payload[k].offset + payload[k].length <= payload_length
    BY DEF IInv, TypeOK, Placed
  <2> QED
    BY <1>1, <2>1, SMTT(60) DEF Bytes, Node
<1>3. Cardinality(Covered) = payload_length
  BY DEF IInv, Counted, Status
<1>4. IsFiniteSet(0 .. payload_length - 1) /\ Cardinality(0 .. payload_length - 1) = payload_length
  BY <1>1, RangeSize
<1> DEFINE All == 0 .. payload_length - 1
<1> HIDE DEF All
<1>5. Covered \in SUBSET All /\ IsFiniteSet(All) /\ Cardinality(All) = Cardinality(Covered)
  BY <1>2, <1>3, <1>4 DEF All
<1>6. Covered = All
  BY <1>5, FS_Subset
<1> QED
  BY <1>6 DEF All

\* Joining the nodes of a complete request yields the message.
LEMMA InvVectorise ==
  ASSUME Fits, IInv, ff_request_vectorise_payload
  PROVE  IInv'
<1>0. TypeOK /\ TypeOK'
  BY TypeNext DEF IInv, Next
<1>1. /\ UNCHANGED <<version, state, payload_length, received_length, payload>>
      /\ state = "RECEIVED"
  BY DEF ff_request_vectorise_payload
<1>2. Covered = 0 .. payload_length - 1
  BY <1>1, AllCovered
<1>3. payload_length \in Nat /\ payload_length < U16 /\ payload \in Seq(Node)
  BY <1>0 DEF IInv, TypeOK
<1>4. buffer' = [b \in 0 .. payload_length - 1 |-> b]
  <2>1. CASE Len(payload) = 1
    <3>0. 1 \in 1 .. Len(payload) /\ 1 .. Len(payload) = {1}
      BY <2>1
    <3>1. /\ payload[1] \in Node /\ payload[1].from = payload[1].offset
          /\ payload[1].offset + payload[1].length <= payload_length
      BY <1>3, <3>0 DEF IInv, Placed
    <3>2. Bytes(payload[1]) = 0 .. payload_length - 1
      BY <1>2, <3>0, Zenon DEF Covered
    <3>3. payload[1].offset + payload[1].length = payload_length
      <4>1. CASE payload_length = 0
        BY <3>1, <4>1 DEF Node
      <4>2. CASE payload_length # 0
        <5>1. payload_length - 1 \in Bytes(payload[1])
          BY <1>3, <3>2, <4>2
        <5>2. payload[1].offset \in Nat /\ payload[1].length \in Nat
          BY <3>1, ChunkAssumption DEF Node
        <5>3. payload_length - 1 <= payload[1].offset + payload[1].length - 1
          BY <5>1, <5>2 DEF Bytes
        <5> QED
          BY <1>3, <3>1, <5>2, <5>3, SMTT(60)
      <4> QED
        BY <4>1, <4>2
    <3>4. payload[1].offset = 0
      <4>1. CASE payload_length = 0
        BY <3>1, <4>1 DEF Node
      <4>2. CASE payload_length # 0
        <5>1. 0 \in Bytes(payload[1])
          BY <1>3, <3>2, <4>2
        <5> QED
          BY <3>1, <5>1 DEF Bytes, Node
      <4> QED
        BY <4>1, <4>2
    <3>5. payload[1].length = payload_length /\ payload[1].from = 0
      BY <1>3, <3>1, <3>3, <3>4 DEF Node
    <3>6. buffer' = [b \in 0 .. payload_length - 1 |-> 0 + b]
      BY <2>1, <3>5 DEF ff_request_vectorise_payload
    <3> QED
      BY <3>6
  <2>2. CASE Len(payload) # 1
    <3>1. payload_length % U16 = payload_length
      <4>1. payload_length \in 0 .. U16 - 1
        BY <1>3, ChunkAssumption
      <4> QED
        BY <4>1, ChunkAssumption
    <3>2. ASSUME NEW b \in 0 .. payload_length - 1
          PROVE  CopyAll[b] = b
      <4> DEFINE Last(i) == /\ b \in Bytes(payload[i])
                            /\ \A j \in i + 1 .. Len(payload) : b \notin Bytes(payload[j])
                 k == CHOOSE i \in 1 .. Len(payload) : Last(i)
      <4>1. PICK i \in 1 .. Len(payload) : b \in Bytes(payload[i])
        BY <1>2, <3>2 DEF Covered
      <4>2. Last(i)
        <5> SUFFICES ASSUME NEW j \in i + 1 .. Len(payload) PROVE b \notin Bytes(payload[j])
          BY <4>1
        <5>1. j \in 1 .. Len(payload) /\ j # i
          BY <1>3
        <5> QED
          BY <4>1, <5>1, SMTT(60) DEF IInv, Disjoint
      <4>3. k \in 1 .. Len(payload) /\ Last(k)
        BY <4>2
      <4>4. payload[k] \in Node /\ payload[k].from = payload[k].offset
        BY <1>3, <4>3 DEF IInv, Placed
      <4>5. CopyAll[b] = payload[k].from + (b - payload[k].offset)
        BY <1>2, <3>1 DEF CopyAll
      <4> HIDE DEF k
      <4> QED
        BY <4>4, <4>5 DEF Node
    <3>3. buffer' = CopyAll
      BY <2>2 DEF ff_request_vectorise_payload
    <3>4. CopyAll = [b \in 0 .. payload_length - 1 |-> CopyAll[b]]
      BY <3>1 DEF CopyAll
    <3> HIDE DEF CopyAll
    <3> QED
      BY <3>2, <3>3, <3>4
  <2> QED
    BY <2>1, <2>2
<1>5. Placed' /\ Disjoint' /\ Counted'
  BY <1>1 DEF IInv, Placed, Disjoint, Counted, Covered, Bytes
<1>6. Status' /\ Delivered'
  BY <1>1, <1>4 DEF IInv, Status, Delivered
<1> QED
  BY <1>0, <1>1, <1>3, <1>5, <1>6 DEF IInv

\* Every step keeps the invariant.
LEMMA InvNext ==
  ASSUME Fits, IInv, [Next]_vars
  PROVE  IInv'
<1>1. ASSUME NEW c \in Chunk, Receive(c) PROVE IInv'
  BY <1>1, InvAccept, InvReject
<1>2. CASE UNCHANGED vars
  BY <1>2, SMTT(60) DEF vars, IInv, TypeOK, Placed, Disjoint, Counted, Covered, Bytes, Status, Delivered
<1> QED
  BY <1>1, <1>2, InvDrop, InvVectorise DEF Next

\* The nodes of a request are in place and disjoint, and received_length
\* counts the bytes they cover, if 16 and 32 bits are enough (Fits).
THEOREM Invariance ==
  ASSUME Fits
  PROVE  Spec => []IInv
<1>1. Init => IInv
  BY InvInit
<1>2. IInv /\ [Next]_vars => IInv'
  BY InvNext
<1> QED
  BY <1>1, <1>2, PTL DEF Spec

\* For every message of fewer than 2^16 bytes and every slicing of it, the
\* payload that ff_request_vectorise_payload hands on is the message.
THEOREM Delivery ==
  ASSUME Fits
  PROVE  Spec => []Delivered
<1>1. IInv => Delivered
  BY DEF IInv
<1> QED
  BY <1>1, Invariance, PTL

-----------------------------------------------------------------------------
(***************************************************************************)
(* Reassembly implements Assembly.                                         *)
(***************************************************************************)

Size == IF version THEN payload_length ELSE -1

\* A received packet is a step of Assembly: it adds new bytes or fails.
LEMMA RefineReceive ==
  ASSUME Fits, IInv, IInv', NEW c \in Chunk, Receive(c)
  PROVE  A!Add \/ A!Fail
<1>0. TypeOK /\ TypeOK'
  BY DEF IInv
<1>1. /\ version' = TRUE /\ payload_length' = Expected(c)
      /\ state # "RECEIVING_FAIL"
  BY DEF Receive, ff_request_parse_chunk
<1>2. Size' = payload_length' /\ Size' \in Nat
  BY <1>0, <1>1 DEF Size, TypeOK
<1>3. Size \in {-1, Size'}
  BY <1>0, <1>1, <1>2 DEF Size, Expected, TypeOK
<1>4. AbstractStatus # "failed"
  BY <1>0, <1>1 DEF AbstractStatus, TypeOK
<1>5. CASE Accepts(c)
  <2>1. payload' = Append(payload, NodeOf(c)) /\ state' # "RECEIVING_FAIL"
    BY <1>1, <1>5 DEF Receive, ff_request_parse_chunk
  <2>2. Covered \subseteq Covered'
    BY <1>5, <2>1, AcceptedCovered
  <2>3. Covered' \subseteq 0 .. Size' - 1
    <3> SUFFICES ASSUME NEW k \in 1 .. Len(payload')
                 PROVE  Bytes(payload'[k]) \subseteq 0 .. Size' - 1
      BY DEF Covered, Bytes
    <3>1. payload'[k] \in Node /\ payload'[k].offset + payload'[k].length <= payload_length'
      BY <1>0 DEF IInv, TypeOK, Placed
    <3>2. Size' \in Nat /\ payload'[k].offset + payload'[k].length <= Size'
      BY <1>2, <3>1
    <3> HIDE DEF Size
    <3> QED
      BY <3>1, <3>2, SMTT(60) DEF Bytes, Node
  <2>4. state' = "RECEIVED" <=> Covered' = 0 .. Size' - 1
    <3>1. state' = "RECEIVED" => Covered' = 0 .. payload_length' - 1
      <4> SUFFICES ASSUME state' = "RECEIVED" PROVE Covered' = 0 .. payload_length' - 1
        OBVIOUS
      <4> DEFINE All == 0 .. payload_length' - 1
                 Have == Covered'
      <4>1. payload_length' \in Nat
        BY <1>2
      <4>2. IsFiniteSet(All) /\ Cardinality(All) = payload_length'
        BY <4>1, RangeSize
      <4>3. Cardinality(Have) = payload_length' /\ Have \in SUBSET All
        BY <1>2, <2>3, Zenon DEF IInv, Counted, Status
      <4> HIDE DEF All, Have
      <4>4. Have = All
        BY <4>2, <4>3, FS_Subset
      <4> QED
        BY <4>4 DEF All, Have
    <3>2. Covered' = 0 .. payload_length' - 1 => received_length' = payload_length'
      <4>1. payload_length' \in Nat
        BY <1>2
      <4>2. Cardinality(0 .. payload_length' - 1) = payload_length'
        BY <4>1, RangeSize
      <4> QED
        BY <4>2 DEF IInv, Counted
    <3>3. received_length' = payload_length' => state' = "RECEIVED"
      BY <1>1, <2>1 DEF IInv, Status
    <3> QED
      BY <1>2, <3>1, <3>2, <3>3
  <2>5. AbstractStatus' = IF Covered' = 0 .. Size' - 1 THEN "complete" ELSE "receiving"
    BY <1>0, <2>1, <2>4 DEF AbstractStatus, TypeOK
  <2>6. A!Add
    BY <1>2, <1>3, <1>4, <2>2, <2>3, <2>5 DEF A!Add, Size
  <2> QED
    BY <2>6
<1>6. CASE ~ Accepts(c)
  <2>1. state' = "RECEIVING_FAIL" /\ payload' = payload
    BY <1>6 DEF Receive, ff_request_parse_chunk
  <2>2. Covered' = Covered
    BY <2>1 DEF Covered, Bytes
  <2>3. AbstractStatus' = "failed"
    BY <2>1 DEF AbstractStatus
  <2>4. A!Fail
    BY <1>2, <1>3, <1>4, <2>2, <2>3 DEF A!Fail, Size
  <2> QED
    BY <2>4
<1> QED
  BY <1>5, <1>6

\* The overlap test and the count of received bytes (parser.c:222, 245)
\* implement collecting the bytes of the request until none is missing.
THEOREM Refinement ==
  ASSUME Fits
  PROVE  Spec => Assembles
<1>1. Init => A!Init
  <2> SUFFICES ASSUME Init PROVE A!Init
    OBVIOUS
  <2>1. Covered = {} /\ AbstractStatus = "receiving"
    BY DEF Init, Covered, AbstractStatus
  <2> QED
    BY <2>1 DEF A!Init, Init
<1>2. IInv /\ IInv' /\ [Next]_vars => [A!Next]_(A!vars)
  <2> SUFFICES ASSUME IInv, IInv', [Next]_vars PROVE [A!Next]_(A!vars)
    OBVIOUS
  <2>1. ASSUME NEW c \in Chunk, Receive(c) PROVE A!Next
    BY <2>1, RefineReceive DEF A!Next
  <2>2. CASE Drop
    <3>1. Covered' = {} /\ AbstractStatus' = "receiving" /\ AbstractStatus = "failed"
      BY <2>2 DEF Drop, Covered, AbstractStatus
    <3>2. A!Restart
      BY <2>2, <3>1 DEF Drop, A!Restart
    <3> QED
      BY <3>2 DEF A!Next
  <2>3. CASE ff_request_vectorise_payload \/ UNCHANGED vars
    <3>1. UNCHANGED <<version, state, payload_length, payload>>
      BY <2>3 DEF ff_request_vectorise_payload, vars
    <3>2. Covered' = Covered /\ AbstractStatus' = AbstractStatus
      BY <3>1 DEF Covered, Bytes, AbstractStatus
    <3>3. UNCHANGED A!vars
      BY <3>1, <3>2 DEF A!vars
    <3> QED
      BY <3>3
  <2> QED
    BY <2>1, <2>2, <2>3 DEF Next
<1> QED
  BY <1>1, <1>2, Invariance, PTL DEF Spec, Assembles, A!Spec

-----------------------------------------------------------------------------
(***************************************************************************)
(* Packets that arrive in order are never refused.                         *)
(***************************************************************************)

\* As many nodes as packets, in the same places.
InSequence ==
  inOrder =>
    /\ state # "RECEIVING_FAIL"
    /\ version <=> arrived # {}
    /\ \A d \in arrived : d.total_length = payload_length
    /\ Covered = UNION {Carried(d) : d \in arrived}
    /\ \A k \in 1 .. Len(payload) : \E d \in arrived :
         payload[k].offset = d.chunk_offset /\ payload[k].length = d.chunk_length

\* A packet that arrives in order extends the bytes covered without a gap.
LEMMA InOrderReceive ==
  ASSUME Fits, IInv, InSequence, NEW c \in Chunk, Receive(c)
  PROVE  InSequence'
<1> SUFFICES ASSUME inOrder'
             PROVE  (state # "RECEIVING_FAIL"
                     /\ (version <=> arrived # {})
                     /\ (\A d \in arrived : d.total_length = payload_length)
                     /\ Covered = UNION {Carried(d) : d \in arrived}
                     /\ \A k \in 1 .. Len(payload) : \E d \in arrived :
                          payload[k].offset = d.chunk_offset
                          /\ payload[k].length = d.chunk_length)'
  BY DEF InSequence
<1>0. TypeOK /\ inOrder /\ NextInOrder(c)
  BY Zenon DEF IInv, Receive
<1>1. /\ version' = TRUE /\ payload_length' = Expected(c)
      /\ arrived' = arrived \cup {c}
      /\ \A d \in arrived : d.chunk_offset + d.chunk_length <= c.chunk_offset
  BY <1>0 DEF Receive, NextInOrder, ff_request_parse_chunk
<1>2. Expected(c) = c.total_length
  BY <1>0 DEF Expected, InSequence, NextInOrder
<1>3. NodeOf(c).offset = c.chunk_offset /\ NodeOf(c).length = c.chunk_length
  <2>1. c.chunk_offset \in 0 .. U16 - 1
    BY <1>0, ChunkType, ChunkAssumption DEF NextInOrder, Fits
  <2>2. c.chunk_offset % U16 = c.chunk_offset
    BY <2>1, ChunkAssumption
  <2> QED
    BY <2>2 DEF NodeOf
<1>4. Accepts(c)
  <2>1. (c.chunk_offset + c.chunk_length) % U32 = c.chunk_offset + c.chunk_length
    <3>1. c.chunk_offset + c.chunk_length \in 0 .. U32 - 1
      BY ChunkType, ChunkAssumption DEF Fits
    <3> QED
      BY <3>1, ChunkAssumption
  <2>2. ASSUME NEW k \in 1 .. Len(payload) PROVE ~ Overlaps(NodeOf(c), payload[k])
    <3>1. PICK d \in arrived :
            payload[k].offset = d.chunk_offset /\ payload[k].length = d.chunk_length
      BY <1>0 DEF InSequence
    <3>2. /\ d.chunk_offset \in Nat /\ d.chunk_length \in Nat
          /\ c.chunk_offset \in Nat /\ c.chunk_length \in Nat
      BY <1>0, ChunkType DEF TypeOK
    <3>3. d.chunk_offset + d.chunk_length <= c.chunk_offset
      BY <1>1
    <3> QED
      BY <1>3, <3>1, <3>2, <3>3 DEF Overlaps
  <2> QED
    BY <1>0, <1>2, <2>1, <2>2 DEF Accepts, NextInOrder
<1>5. payload' = Append(payload, NodeOf(c)) /\ state' # "RECEIVING_FAIL"
  BY <1>0, <1>4 DEF Receive, ff_request_parse_chunk, InSequence
<1>6. /\ Len(payload') = Len(payload) + 1
      /\ payload'[Len(payload) + 1] = NodeOf(c)
      /\ \A k \in 1 .. Len(payload) : payload'[k] = payload[k]
      /\ Covered' = Covered \cup Bytes(NodeOf(c))
  BY <1>4, <1>5, AcceptedCovered
<1>7. Covered' = UNION {Carried(d) : d \in arrived'}
  <2>1. Bytes(NodeOf(c)) = Carried(c)
    BY <1>3 DEF Bytes, Carried
  <2>2. Covered = UNION {Carried(d) : d \in arrived}
    BY <1>0 DEF InSequence
  <2>3. Covered' = Covered \cup Carried(c)
    BY <1>6, <2>1
  <2> HIDE DEF Covered
  <2> QED
    BY <1>1, <2>2, <2>3
<1>8. ASSUME NEW k \in 1 .. Len(payload')
      PROVE  \E d \in arrived' :
               payload'[k].offset = d.chunk_offset /\ payload'[k].length = d.chunk_length
  <2>1. Len(payload) \in Nat
    BY <1>0 DEF TypeOK
  <2>2. k \in 1 .. Len(payload) \/ k = Len(payload) + 1
    BY <1>6, <2>1
  <2>3. CASE k \in 1 .. Len(payload)
    BY <1>0, <1>1, <1>6, <2>3 DEF InSequence
  <2>4. CASE k = Len(payload) + 1
    BY <1>1, <1>3, <1>6, <2>4
  <2> QED
    BY <2>2, <2>3, <2>4
<1>9. \A d \in arrived' : d.total_length = payload_length'
  BY <1>0, <1>1, <1>2 DEF NextInOrder
<1> QED
  BY <1>1, <1>5, <1>7, <1>8, <1>9 DEF Carried

\* Packets of a message of fewer than 2^16 bytes that arrive in order complete
\* the request as soon as they carry all of it (parser.c:104-254).
THEOREM CompletesInOrder ==
  ASSUME Fits
  PROVE  Spec => []InOrderCompletes
<1>1. Init => InSequence
  BY DEF Init, InSequence, Covered
<1>2. IInv /\ InSequence /\ [Next]_vars => InSequence'
  <2> SUFFICES ASSUME IInv, InSequence, [Next]_vars PROVE InSequence'
    OBVIOUS
  <2>1. ASSUME NEW c \in Chunk, Receive(c) PROVE InSequence'
    BY <2>1, InOrderReceive
  <2>2. CASE Drop
    <3>1. ~ inOrder /\ inOrder' = inOrder
      BY <2>2 DEF Drop, InSequence
    <3> QED
      BY <3>1 DEF InSequence
  <2>3. CASE ff_request_vectorise_payload \/ UNCHANGED vars
    <3>1. UNCHANGED <<arrived, inOrder, version, state, payload_length, payload>>
      BY <2>3 DEF ff_request_vectorise_payload, vars
    <3> QED
      BY <3>1 DEF InSequence, Covered, Bytes, Carried
  <2> QED
    BY <2>1, <2>2, <2>3 DEF Next
<1>3. IInv /\ InSequence => InOrderCompletes
  <2> SUFFICES ASSUME IInv, InSequence, inOrder, NEW c \in arrived,
                      UNION {Carried(d) : d \in arrived} = 0 .. c.total_length - 1
               PROVE  state = "RECEIVED"
    BY DEF InOrderCompletes, CompletesWhenAllArrived
  <2>1. version /\ c.total_length = payload_length
    BY DEF InSequence
  <2>2. Covered = 0 .. payload_length - 1
    BY <2>1, Zenon DEF InSequence
  <2>3. payload_length \in Nat
    BY DEF IInv, TypeOK
  <2>4. received_length = payload_length
    BY <2>2, <2>3, RangeSize DEF IInv, Counted
  <2> QED
    BY <2>1, <2>4 DEF IInv, Status, InSequence
<1> QED
  BY <1>1, <1>2, <1>3, Invariance, PTL DEF Spec

=============================================================================
