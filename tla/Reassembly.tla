----------------------------- MODULE Reassembly -----------------------------
(***************************************************************************)
(* Reassembly of one request from its packets, byte by byte:               *)
(* ff_request_parse_chunk and what it calls (src/src/parser.c), and        *)
(* ff_request_vectorise_payload (src/src/request.c).  The integer types of *)
(* the C code are kept: U16 and U32 stand for 2^16 and 2^32.               *)
(***************************************************************************)
EXTENDS Integers, Sequences, FiniteSets

CONSTANTS
  Chunk,      \* the packets that may arrive
  U16,        \* 2^16
  U32,        \* 2^32
  MaxPackets  \* bound on the packets that arrive

(***************************************************************************)
(* A packet's header fields, as far as they can differ between packets     *)
(* with the same request id; `ok` says whether its version is 1, its       *)
(* options are well formed and its buffer holds chunk_length bytes.        *)
(***************************************************************************)
Header ==
  [total_length : 0 .. U32 - 1, chunk_offset : 0 .. U32 - 1,
   chunk_length : 0 .. U16 - 1, ok : BOOLEAN]

ASSUME ChunkAssumption ==
  /\ U16 \in Nat \ {0} /\ U32 \in Nat \ {0} /\ U16 <= U32
  /\ Chunk \subseteq Header
  /\ MaxPackets \in Nat

\* A payload node: its place in the request and, for reference, the place in
\* the sender's message its bytes come from.
Node == [offset : 0 .. U16 - 1, length : 0 .. U16 - 1, from : 0 .. U32 - 1]

VARIABLES
  arrived,          \* the packets received so far
  count,            \* how many they were, repeated ones included
  inOrder,          \* and whether they came in order, see NextInOrder
  version,          \* request->version is set: some packet was parsed
  state,            \* request->state
  payload_length,   \* total length from the first packet
  received_length,  \* sum of the lengths of the nodes
  payload,          \* the list of payload nodes
  vectorised,       \* a worker has joined the nodes
  buffer            \* the joined payload: at each position a byte of the message

vars == <<arrived, count, inOrder, version, state, payload_length, received_length,
          payload, vectorised, buffer>>

TypeOK ==
  /\ arrived \subseteq Chunk /\ count \in 0 .. MaxPackets
  /\ version \in BOOLEAN /\ inOrder \in BOOLEAN
  /\ state \in {"RECEIVING", "RECEIVED", "RECEIVING_FAIL"}
  /\ payload_length \in 0 .. U32 - 1
  /\ received_length \in Nat
  /\ payload \in Seq(Node)
  /\ vectorised \in BOOLEAN

Init ==
  /\ arrived = {} /\ count = 0 /\ inOrder = TRUE
  /\ version = FALSE
  /\ state = "RECEIVING"
  /\ payload_length = 0 /\ received_length = 0
  /\ payload = << >>
  /\ vectorised = FALSE /\ buffer = << >>

-----------------------------------------------------------------------------

\* Mutant: only equal offsets count as overlapping.
MutantOverlaps(node, current) == node.offset = current.offset

\* Mutant: both ranges are taken as closed.
MutantOverlapsClosed(node, current) ==
  /\ node.offset <= current.offset + current.length
  /\ current.offset <= node.offset + node.length

\* The test for overlap of byte ranges.  It takes the new range as closed on
\* the right.
Overlaps(node, current) ==
  /\ node.offset < current.offset + current.length
  /\ current.offset <= node.offset + node.length

\* The node for a chunk: its offset is stored in 16 bits.
NodeOf(c) ==
  [offset |-> c.chunk_offset % U16, length |-> c.chunk_length, from |-> c.chunk_offset]

\* Mutant: the request expects what follows its first packet.
MutantExpected(c) ==
  IF version THEN payload_length ELSE c.total_length - c.chunk_offset - c.chunk_length

\* The length the request is compared with: the packet's own for the first.
Expected(c) == IF version THEN payload_length ELSE c.total_length

\* Mutant: chunks may reach beyond the end of the request.
MutantAccepts(c) ==
  /\ c.ok
  /\ c.total_length = Expected(c)
  /\ \A k \in 1 .. Len(payload) : ~ Overlaps(NodeOf(c), payload[k])

\* The checks of ff_request_parse_data_chunk.
Accepts(c) ==
  /\ c.ok
  /\ c.total_length = Expected(c)
  /\ (c.chunk_offset + c.chunk_length) % U32 <= Expected(c)
  /\ \A k \in 1 .. Len(payload) : ~ Overlaps(NodeOf(c), payload[k])

\* ff_request_parse_chunk.  It does not look at the state of the request: a
\* packet may also arrive for a request that is already complete.
ff_request_parse_chunk(c) ==
  /\ version' = TRUE
  /\ payload_length' = Expected(c)
  /\ IF Accepts(c)
     THEN /\ payload' = Append(payload, NodeOf(c))
          /\ received_length' = received_length + c.chunk_length
          /\ state' = IF received_length' = payload_length' THEN "RECEIVED" ELSE state
     ELSE /\ state' = "RECEIVING_FAIL"
          /\ UNCHANGED <<payload, received_length>>

\* The bytes of the sender's message that a packet carries.
Carried(c) == c.chunk_offset .. c.chunk_offset + c.chunk_length - 1

\* The packet is a good one of the same message as those before it and its
\* bytes follow theirs.
NextInOrder(c) ==
  /\ c.ok /\ c.chunk_offset + c.chunk_length <= c.total_length
  /\ \A d \in arrived : /\ d # c /\ d.total_length = c.total_length
                        /\ d.chunk_offset + d.chunk_length <= c.chunk_offset

\* The network may lose, repeat and reorder packets.
Receive(c) ==
  /\ state # "RECEIVING_FAIL"
  /\ ~ vectorised
  /\ count < MaxPackets
  /\ arrived' = arrived \cup {c} /\ count' = count + 1
  /\ inOrder' = (inOrder /\ NextInOrder(c))
  /\ ff_request_parse_chunk(c)
  /\ UNCHANGED <<vectorised, buffer>>

\* A failed request is removed and freed (server.c): the next packet with the
\* same id starts a new one.
Drop ==
  /\ state = "RECEIVING_FAIL"
  /\ version' = FALSE /\ state' = "RECEIVING"
  /\ payload_length' = 0 /\ received_length' = 0
  /\ payload' = << >>
  /\ UNCHANGED <<arrived, count, inOrder, vectorised, buffer>>

Bytes(node) == node.offset .. node.offset + node.length - 1

\* The bytes of the request that some node covers.
Covered == UNION {Bytes(payload[k]) : k \in 1 .. Len(payload)}

\* The memcpy of every node in list order; a byte no node covers holds
\* whatever malloc returned.  The length of the result is stored in 16 bits.
Garbage == -1

CopyAll ==
  [b \in 0 .. (payload_length % U16) - 1 |->
     IF b \notin Covered THEN Garbage
     ELSE LET k == CHOOSE i \in 1 .. Len(payload) :
                     /\ b \in Bytes(payload[i])
                     /\ \A j \in i + 1 .. Len(payload) : b \notin Bytes(payload[j])
          IN  payload[k].from + (b - payload[k].offset)]

\* ff_request_vectorise_payload, run by the worker.  A single node is left as
\* it is: its bytes are the payload, whatever its offset says.
ff_request_vectorise_payload ==
  /\ state = "RECEIVED"
  /\ ~ vectorised
  /\ vectorised' = TRUE
  /\ buffer' = IF Len(payload) = 1
               THEN [b \in 0 .. payload[1].length - 1 |-> payload[1].from + b]
               ELSE CopyAll
  /\ UNCHANGED <<arrived, count, inOrder, version, state, payload_length, received_length, payload>>

Next ==
  \/ \E c \in Chunk : Receive(c)
  \/ Drop
  \/ ff_request_vectorise_payload

Spec == Init /\ [][Next]_vars

-----------------------------------------------------------------------------
(***************************************************************************)
(* Properties.                                                             *)
(***************************************************************************)

\* The payload handed on is the sender's message: every byte in its place, no
\* byte missing, none twice, whatever was lost, repeated or reordered.
Delivered ==
  vectorised => buffer = [b \in 0 .. payload_length - 1 |-> b]

\* The overlap test and the count of received bytes together implement
\* collecting every byte once.
AbstractStatus ==
  CASE state = "RECEIVING" -> "receiving"
    [] state = "RECEIVED" -> "complete"
    [] OTHER -> "failed"

A == INSTANCE Assembly WITH
       have <- Covered,
       size <- IF version THEN payload_length ELSE -1,
       status <- AbstractStatus

\* Reassembly implements Assembly: a request is complete exactly when every
\* byte of it has been received once (parser.c:222, 245).
Assembles == A!Spec

\* Once packets carrying all of the sender's message have been received, the
\* request is complete and goes to a worker (src/README.md: packets "are then
\* reassembled as they are received"; parser.c:222, 202, 245).
CompletesWhenAllArrived ==
  \A c \in arrived :
    UNION {Carried(d) : d \in arrived} = 0 .. c.total_length - 1 => state = "RECEIVED"

\* It is, at any rate, when the packets arrive once and in order, however the
\* sender has cut the message (parser.c:104-254).
InOrderCompletes == inOrder => CompletesWhenAllArrived

=============================================================================
