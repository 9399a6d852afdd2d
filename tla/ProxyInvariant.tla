--------------------------- MODULE ProxyInvariant ---------------------------
(***************************************************************************)
(* The inductive invariant of Proxy, for any messages, heap and workers, and *)
(* the facts about types, packets and parsing that its proof rests on.     *)
(***************************************************************************)
EXTENDS Proxy, FiniteSetTheorems, TLAPS

\* What the environment must not do for the proxy's threads to stay out of
\* each other's way: no datagram comes twice, none comes for a request the
\* cleanup thread may be removing, none is empty, no id is used twice, and
\* threads can be created.
Benign ==
  /\ MaxDuplicates = 0
  /\ Faults = {}
  /\ \A m, n \in Msg : IdOf[m] = IdOf[n] /\ IdOf[m] # 0 => m = n

Busy == rpc \in {"put", "parse", "switch", "remove", "free"}

Whole(p) ==
  \E m \in Msg : obj[p].payload = PacketsOf(m) /\ obj[p].request_id = IdOf[m]

\* The receiver's request is allocated, young, and, from the lookup to the
\* parse, does not hold the packet yet.
ReceiverInv ==
  /\ rpc \notin {"freetable", "return"}
  /\ rpc \in {"start", "recv"} => rptr = NULL
  /\ Busy => /\ rptr \in Ptr /\ rpkt \in Packet /\ rpkt \notin net
             /\ live[rptr] /\ obj[rptr].age < Threshold
  /\ rpc \in {"put", "parse"} =>
       /\ rpkt.msg \notin RawMsg /\ IdOf[rpkt.msg] # 0
       /\ \A p \in Ptr : live[p] => rpkt \notin obj[p].payload
       /\ obj[rptr].version = 0 => obj[rptr].source = SourceOf[rpkt.msg]
  /\ rpc = "put" => table[IdOf[rpkt.msg]] = NULL /\ obj[rptr].version = 0
  /\ rpc = "parse" => table[IdOf[rpkt.msg]] = rptr
  /\ rpc = "switch" =>
       /\ obj[rptr].version # 0 /\ obj[rptr].state \in ReceivingStates
       /\ rpkt.msg \in RawMsg =>
            obj[rptr].state = "RECEIVED" /\ obj[rptr].request_id = 0
       /\ rpkt.msg \notin RawMsg => table[IdOf[rpkt.msg]] = rptr /\ IdOf[rpkt.msg] # 0
  /\ rpc \in {"remove", "free"} =>
       /\ obj[rptr].state = "RECEIVING_FAIL"
       /\ rpkt.msg \notin RawMsg /\ IdOf[rpkt.msg] # 0
  /\ rpc = "remove" => table[IdOf[rpkt.msg]] = rptr
  /\ rpc = "free" => ~ InTable(rptr)

\* An allocated request holds packets of one message, none of them still in
\* flight; it is past RECEIVING only when it holds them all.
ObjInv ==
  \A p \in Ptr : live[p] =>
    /\ obj[p].payload \cap net = {}
    /\ obj[p].version = 0 =>
         /\ obj[p].payload = {} /\ obj[p].request_id = 0
         /\ obj[p].state = "RECEIVING"
         /\ p = rptr /\ rpc \in {"put", "parse"}
    /\ obj[p].version = FF_VERSION_1 =>
         /\ obj[p].request_id # 0
         /\ \E m \in Msg : /\ IdOf[m] = obj[p].request_id
                           /\ obj[p].payload_length = ChunksOf[m]
                           /\ obj[p].payload \subseteq PacketsOf(m)
    /\ obj[p].version = FF_VERSION_RAW =>
         obj[p].request_id = 0 /\ obj[p].state \notin {"RECEIVING", "RECEIVING_FAIL"}
    /\ obj[p].state \notin {"RECEIVING", "RECEIVING_FAIL"} => Whole(p)
    /\ obj[p].state = "RECEIVING_FAIL" =>
         p = rptr /\ rpc \in {"switch", "remove", "free"}

Disjoint ==
  \A p, q \in Ptr : live[p] /\ live[q] /\ p # q =>
    obj[p].payload \cap obj[q].payload = {}

\* The table never points to freed memory and files a request under its id.
TableInv ==
  \A i \in Id : table[i] # NULL =>
    /\ live[table[i]]
    /\ \/ obj[table[i]].request_id = i
       \/ /\ rpc = "parse" /\ table[i] = rptr
          /\ IdOf[rpkt.msg] = i /\ obj[rptr].version = 0

\* A worker alone holds an allocated, complete request.
WorkerInv ==
  \A w \in Worker : wpc[w] # "idle" =>
    /\ wptr[w] \in Ptr /\ live[wptr[w]] /\ wptr[w] # rptr
    /\ obj[wptr[w]].state \notin {"RECEIVING", "RECEIVING_FAIL"}
    /\ \A v \in Worker : v # w /\ wpc[v] # "idle" => wptr[v] # wptr[w]
    /\ wpc[w] # "free" /\ obj[wptr[w]].request_id # 0 =>
         table[obj[wptr[w]].request_id] = wptr[w]
    /\ wpc[w] = "free" => ~ InTable(wptr[w])

\* The requests the cleanup thread has collected stay as they were, in the
\* table, until it has removed them.
CleanerInv ==
  /\ \A p \in cptrs :
       /\ live[p] /\ Expired(p) /\ obj[p].version = FF_VERSION_1
       /\ obj[p].request_id \in Id /\ table[obj[p].request_id] = p
  /\ cpc = "remove" =>
       cid \in Id /\ table[cid] \in Ptr \ cptrs /\ Expired(table[cid])

\* Once a message was sent none of its packets is anywhere but in the request
\* its worker is about to free.
CountInv ==
  \A m \in Msg : forwarded[m] # 0 =>
    /\ forwarded[m] = 1
    /\ PacketsOf(m) \cap net = {}
    /\ rpc \in {"put", "parse"} => rpkt.msg # m
    /\ \A p \in Ptr : live[p] /\ (\E pkt \in obj[p].payload : pkt.msg = m) =>
         \E w \in Worker : wpc[w] \in {"remove", "free"} /\ wptr[w] = p

\* A request that is not in a thread's hands is partial, and in the table
\* unless it has expired.
ServedInv ==
  \A p \in Ptr : live[p] =>
    \/ rptr = p
    \/ \E w \in Worker : WorksOn(w, p)
    \/ obj[p].state = "RECEIVING" /\ (InTable(p) \/ Expired(p))

IInv ==
  /\ TypeOK
  /\ dups = 0 /\ ~ misuse
  /\ ReceiverInv
  /\ ObjInv
  /\ Disjoint
  /\ TableInv
  /\ WorkerInv
  /\ CleanerInv
  /\ CountInv
  /\ ServedInv

-----------------------------------------------------------------------------
(***************************************************************************)
(* Packets and ids.                                                        *)
(***************************************************************************)

\* A packet belongs to the message it names.
LEMMA PacketMsg ==
  /\ \A pkt \in Packet : pkt.msg \in Msg /\ pkt \in PacketsOf(pkt.msg)
  /\ \A m \in Msg : /\ PacketsOf(m) \subseteq Packet
                    /\ PacketsOf(m) # {}
                    /\ \A pkt \in PacketsOf(m) : pkt.msg = m
<1>1. ASSUME NEW m \in Msg
      PROVE  /\ PacketsOf(m) \subseteq Packet
             /\ PacketsOf(m) # {}
             /\ \A pkt \in PacketsOf(m) : pkt.msg = m
  <2>1. 0 \in 0 .. ChunksOf[m] - 1
    BY MsgAssumption
  <2>2. PacketsOf(m) # {}
    BY <2>1, Zenon DEF PacketsOf
  <2>3. \A pkt \in PacketsOf(m) : pkt.msg = m
    BY DEF PacketsOf
  <2>. QED  BY <2>2, <2>3, Zenon DEF Packet
<1>2. ASSUME NEW pkt \in Packet
      PROVE  pkt.msg \in Msg /\ pkt \in PacketsOf(pkt.msg)
  <2>1. PICK m \in Msg : pkt \in PacketsOf(m)
    BY Zenon DEF Packet
  <2>. QED  BY <1>1, <2>1, Zenon
<1>. QED  BY <1>1, <1>2, Zenon

\* The table has a slot for the id of every message that has one.
LEMMA IdNonZero ==
  /\ \A m \in Msg : IdOf[m] # 0 => IdOf[m] \in Id
  /\ \A i \in Id : i \in Nat /\ i # 0
  /\ \A m \in Msg : IdOf[m] \in Id \cup {0}
BY MsgAssumption, Zenon DEF Id

\* A message has as many packets as chunks.
LEMMA PacketCount ==
  ASSUME NEW m \in Msg
  PROVE  IsFiniteSet(PacketsOf(m)) /\ Cardinality(PacketsOf(m)) = ChunksOf[m]
<1> DEFINE n == ChunksOf[m]
           f == [k \in 0 .. n - 1 |-> [msg |-> m, offset |-> k]]
<1>1. n \in Nat \ {0}
  BY MsgAssumption, Zenon
<1>2. IsFiniteSet(0 .. n - 1) /\ Cardinality(0 .. n - 1) = n
  <2>1. 0 \in Int /\ n - 1 \in Int
    BY <1>1
  <2>2. IsFiniteSet(0 .. n - 1) /\ Cardinality(0 .. n - 1) = IF 0 > n - 1 THEN 0 ELSE n - 1 - 0 + 1
    BY <2>1, FS_Interval, Zenon
  <2>. QED  BY <1>1, <2>2
<1>3. f \in Bijection(0 .. n - 1, PacketsOf(m))
  BY Zenon DEF PacketsOf, Bijection, Injection, Surjection, IsInjective
<1>4. ExistsBijection(0 .. n - 1, PacketsOf(m))
  BY <1>3, Zenon DEF ExistsBijection
<1>. QED  BY <1>2, <1>4, FS_Bijection, Zenon

\* A set of packets of a message that is as large as the message is all of it.
LEMMA AllPackets ==
  ASSUME NEW m \in Msg, NEW S, S \subseteq PacketsOf(m), Cardinality(S) = ChunksOf[m]
  PROVE  S = PacketsOf(m)
BY PacketCount, FS_Subset, Zenon

-----------------------------------------------------------------------------
(***************************************************************************)
(* What parsing a packet does to a request.                                *)
(***************************************************************************)

\* ff_request_parse_chunk returns a request.
LEMMA ParseType ==
  ASSUME NEW r \in Request, NEW pkt \in Packet
  PROVE  ff_request_parse_chunk(r, pkt) \in Request
<1>1. /\ pkt.msg \in Msg
      /\ IdOf[pkt.msg] \in Id \cup {0}
      /\ ChunksOf[pkt.msg] \in Nat
  BY PacketMsg, IdNonZero, MsgAssumption, Zenon
<1>2. LoadHeader(r, pkt) \in Request
  BY <1>1, Zenon DEF LoadHeader, Request, FF_VERSION_1, FF_VERSION_RAW
<1>3. \A q \in Request : ff_request_parse_data_chunk(q, pkt) \in Request
  BY ZenonT(60) DEF ff_request_parse_data_chunk, Request, ReceivingStates
<1>4. ff_request_parse_raw_http(r, pkt) \in Request
  BY Zenon DEF ff_request_parse_raw_http, Request, ReceivingStates, FF_VERSION_RAW
<1>. QED  BY <1>2, <1>3, <1>4, Zenon DEF ff_request_parse_chunk

\* A datagram of plain HTTP completes its request.
LEMMA ParseRaw ==
  ASSUME NEW pkt \in Packet, pkt.msg \in RawMsg
  PROVE  LET q == ff_request_parse_chunk(ff_request_alloc, pkt)
         IN  /\ q \in Request
             /\ q.version = FF_VERSION_RAW
             /\ q.request_id = 0
             /\ q.state = "RECEIVED"
             /\ q.payload = {pkt}
             /\ q.age = 0
<1>1. ff_request_alloc \in Request
  BY IdNonZero, SystemAssumption DEF ff_request_alloc, Request, ReceivingStates, FF_VERSION_RAW, FF_VERSION_1
<1>. QED  BY <1>1, ParseType, Zenon
          DEF ff_request_parse_chunk, ff_request_parse_raw_http, ff_request_alloc, Request

\* A packet of a message that is parsed into a request of that message (or
\* into a fresh one) is added or fails the request; the request is complete
\* only when it holds all packets of the message.
LEMMA ParseData ==
  ASSUME NEW r \in Request, NEW pkt \in Packet, pkt.msg \notin RawMsg, IdOf[pkt.msg] # 0,
         r.state = "RECEIVING",
         \/ r.version = 0 /\ r.payload = {}
         \/ /\ r.version = FF_VERSION_1
            /\ r.request_id = IdOf[pkt.msg]
            /\ r.payload_length = ChunksOf[pkt.msg]
            /\ r.payload \subseteq PacketsOf(pkt.msg)
  PROVE  LET q == ff_request_parse_chunk(r, pkt)
         IN  /\ q.version = FF_VERSION_1
             /\ q.request_id = IdOf[pkt.msg]
             /\ q.payload_length = ChunksOf[pkt.msg]
             /\ q.payload \in {r.payload, r.payload \cup {pkt}}
             /\ q.payload \subseteq PacketsOf(pkt.msg)
             /\ q.source = r.source /\ q.age = r.age
             /\ q.state \in ReceivingStates
             /\ q.state = "RECEIVED" => q.payload = PacketsOf(pkt.msg)
<1> DEFINE h == LoadHeader(r, pkt)
           q == ff_request_parse_data_chunk(h, pkt)
<1>1. pkt.msg \in Msg /\ pkt \in PacketsOf(pkt.msg)
  BY PacketMsg, Zenon
<1>2. /\ h.version = FF_VERSION_1 /\ h.request_id = IdOf[pkt.msg]
      /\ h.payload_length = ChunksOf[pkt.msg] /\ h.payload = r.payload
      /\ h.source = r.source /\ h.age = r.age /\ h.state = "RECEIVING"
      /\ h \in Request
  <2>1. CASE r.version = 0
    BY <1>1, <2>1, IdNonZero, MsgAssumption, Zenon DEF LoadHeader, Request, FF_VERSION_1
  <2>2. CASE r.version # 0
    BY <2>2, Zenon DEF LoadHeader
  <2>. QED  BY <2>1, <2>2, Zenon
<1>3. h.payload \subseteq PacketsOf(pkt.msg)
  BY <1>2, Zenon
<1> HIDE DEF h
<1>4. /\ q.version = h.version /\ q.request_id = h.request_id
      /\ q.payload_length = h.payload_length
      /\ q.source = h.source /\ q.age = h.age
      /\ q.payload \in {h.payload, h.payload \cup {pkt}}
      /\ q.state \in ReceivingStates
  BY <1>2, Zenon DEF ff_request_parse_data_chunk, Request, ReceivingStates
<1>5. q.state = "RECEIVED" => /\ q.payload = h.payload \cup {pkt}
                              /\ Cardinality(h.payload \cup {pkt}) = h.payload_length
  BY <1>2, Zenon DEF ff_request_parse_data_chunk, Request
<1>6. q.state = "RECEIVED" => q.payload = PacketsOf(pkt.msg)
  <2>1. h.payload \cup {pkt} \subseteq PacketsOf(pkt.msg)
    BY <1>1, <1>3, Zenon
  <2>. QED  BY <1>1, <1>2, <1>5, <2>1, AllPackets, Zenon
<1>7. ff_request_parse_chunk(r, pkt) = q
  BY Zenon DEF ff_request_parse_chunk, h
<1>8. q.payload \subseteq PacketsOf(pkt.msg)
  BY <1>1, <1>3, <1>4, Zenon
<1> HIDE DEF q
<1>. QED  BY <1>2, <1>4, <1>6, <1>7, <1>8, Zenon

-----------------------------------------------------------------------------
(***************************************************************************)
(* Type correctness.                                                       *)
(***************************************************************************)

\* A fresh request is a request.
LEMMA AllocType == ff_request_alloc \in Request
BY IdNonZero, SystemAssumption DEF ff_request_alloc, Request, ReceivingStates, FF_VERSION_RAW, FF_VERSION_1

\* TypeOK is inductive once the receiver is known to hold a packet when it
\* parses one.
TypeInv == TypeOK /\ (rpc \in {"put", "parse"} => rpkt \in Packet)

\* The types hold when the proxy starts.
LEMMA TypeInit == Init => TypeInv
<1> SUFFICES ASSUME Init PROVE TypeInv
  OBVIOUS
<1>1. dups \in 0 .. MaxDuplicates
  BY SystemAssumption DEF Init
<1>2. obj \in [Ptr -> Request]
  BY AllocType, Zenon DEF Init
<1>3. forwarded \in [Msg -> 0 .. MaxForwards]
  BY DEF Init, MaxForwards
<1>. QED  BY <1>1, <1>2, <1>3, Zenon DEF Init, TypeOK, TypeInv

\* Receiving a datagram keeps the types.
LEMMA TypeReceive ==
  ASSUME TypeInv, NEW pkt \in Packet,
         ReceiveRaw(pkt) \/ ReceiveNoId(pkt) \/ ReceiveFirst(pkt) \/ ReceiveNext(pkt)
  PROVE  TypeInv'
<1> USE DEF TypeInv
<1>1. pkt.msg \in Msg /\ SourceOf[pkt.msg] \in Source
  BY PacketMsg, Zenon DEF Source
<1>2. ASSUME RecvFrom(pkt)
      PROVE  net' \subseteq Packet /\ dups' \in 0 .. MaxDuplicates
  BY <1>2, SystemAssumption DEF RecvFrom, TypeOK
<1>3. CASE ReceiveRaw(pkt)
  <2>1. PICK p \in Ptr : Alloc(p, ff_request_parse_chunk(ff_request_alloc, pkt)) /\ rptr' = p
    BY <1>3, Zenon DEF ReceiveRaw
  <2>2. ff_request_parse_chunk(ff_request_alloc, pkt) \in Request
    BY AllocType, ParseType, Zenon
  <2>3. live' \in [Ptr -> BOOLEAN] /\ obj' \in [Ptr -> Request]
    BY <2>1, <2>2, Zenon DEF Alloc, TypeOK
  <2>. QED  BY <1>2, <1>3, <2>1, <2>3, Zenon
            DEF ReceiveRaw, RecvFrom, Alive, TypeOK, workerVars, cleanerVars
<1>4. CASE ReceiveNoId(pkt)
  BY <1>2, <1>4, Zenon
  DEF ReceiveNoId, RecvFrom, Alive, TypeOK, workerVars, cleanerVars, heapVars, receiverVars
<1>5. CASE ReceiveFirst(pkt)
  <2> DEFINE r == [ff_request_alloc EXCEPT !.source = SourceOf[pkt.msg]]
  <2>1. PICK p \in Ptr : Alloc(p, r) /\ rptr' = p
    BY <1>5, Zenon DEF ReceiveFirst
  <2>2. r \in Request
    BY <1>1, AllocType, Zenon DEF Request
  <2>3. live' \in [Ptr -> BOOLEAN] /\ obj' \in [Ptr -> Request]
    BY <2>1, <2>2, Zenon DEF Alloc, TypeOK
  <2>. QED  BY <1>2, <1>5, <2>1, <2>3, Zenon
            DEF ReceiveFirst, RecvFrom, Alive, TypeOK, workerVars, cleanerVars
<1>6. CASE ReceiveNext(pkt)
  BY <1>1, <1>2, <1>6, IdNonZero, Zenon
  DEF ReceiveNext, RecvFrom, Alive, TypeOK, workerVars, cleanerVars, heapVars
<1>. QED  BY <1>3, <1>4, <1>5, <1>6, Zenon

\* The other steps of the receiver keep the types.
LEMMA TypeReceiver ==
  ASSUME TypeInv, Start \/ ReceiverStep \/ ReceiveEmpty
  PROVE  TypeInv'
<1> USE DEF TypeInv
<1>1. CASE Start
  BY <1>1, Zenon DEF Start, TypeOK, netVars, heapVars, workerVars, cleanerVars
<1>2. CASE Put
  BY <1>2, Zenon DEF Put, Alive, TypeOK, netVars, heapVars, workerVars, cleanerVars
<1>3. CASE Parse
  <2>1. obj' \in [Ptr -> Request]
    BY <1>3, ParseType DEF Parse, TypeOK
  <2>. QED  BY <1>3, <2>1, Zenon
            DEF Parse, Alive, Touch, ReceiverDone, TypeOK, netVars, workerVars, cleanerVars
<1>4. CASE Switch
  <2>1. wpc' \in [Worker -> {"idle", "decrypt", "options", "timestamp", "send", "remove", "free"}]
    BY <1>4, Zenon DEF Switch, TypeOK, workerVars
  <2>2. wptr' \in [Worker -> Ptr \cup {NULL}]
    BY <1>4, Zenon DEF Switch, TypeOK, workerVars
  <2>. QED  BY <1>4, <2>1, <2>2, Zenon
            DEF Switch, Alive, Touch, ReceiverDone, TypeOK, netVars, heapVars, cleanerVars
<1>5. CASE RemoveFailed
  BY <1>5, Zenon DEF RemoveFailed, Alive, TypeOK, netVars, heapVars, workerVars, cleanerVars
<1>6. CASE FreeFailed
  BY <1>6, Zenon DEF FreeFailed, Free, Touch, ReceiverDone, Alive, TypeOK, netVars, workerVars, cleanerVars
<1>7. CASE FreeTable \/ ReceiveEmpty
  BY <1>7, Zenon DEF FreeTable, ReceiveEmpty, Alive, TypeOK, netVars, heapVars, workerVars, cleanerVars
<1>. QED  BY <1>1, <1>2, <1>3, <1>4, <1>5, <1>6, <1>7, Zenon DEF ReceiverStep

\* The steps of a worker keep the types.
LEMMA TypeWorker ==
  ASSUME TypeInv, NEW w \in Worker, WorkerNext(w)
  PROVE  TypeInv'
<1> USE DEF TypeInv
<1>1. ASSUME NEW st \in WorkerStates, SetState(wptr[w], st)
      PROVE  obj' \in [Ptr -> Request]
  <2>1. \A r \in Request : [r EXCEPT !.state = st] \in Request
    BY Zenon DEF Request
  <2>2. obj' = [obj EXCEPT ![wptr[w]] = [obj[wptr[w]] EXCEPT !.state = st]]
    BY <1>1, Zenon DEF SetState
  <2>. QED  BY <2>1, <2>2, Zenon DEF TypeOK
<1>2. ASSUME NEW from, NEW to \in {"idle", "options", "timestamp", "send", "remove", "free"},
             WorkerStep(w, from, to)
      PROVE  /\ wpc' \in [Worker -> {"idle", "decrypt", "options", "timestamp", "send", "remove", "free"}]
             /\ UNCHANGED <<net, dups, rpc, rpkt, rptr, cpc, cptrs, cid, running>>
  BY <1>2, Zenon DEF WorkerStep, Alive, TypeOK, netVars, receiverVars, cleanerVars
<1>3. CASE Decrypt(w)
  BY <1>1, <1>2, <1>3, Zenon DEF Decrypt, Touch, TypeOK, WorkerStates
<1>4. CASE ParseOptions(w)
  BY <1>1, <1>2, <1>4, Zenon DEF ParseOptions, Touch, TypeOK, WorkerStates
<1>5. CASE CheckTimestamp(w)
  BY <1>2, <1>5, Zenon DEF CheckTimestamp, Touch, TypeOK, heapVars
<1>6. CASE Send(w)
  <2>1. forwarded' \in [Msg -> 0 .. MaxForwards]
    BY <1>6 DEF Send, TypeOK, MaxForwards
  <2>. QED  BY <1>1, <1>2, <1>6, <2>1, Zenon DEF Send, Touch, TypeOK, WorkerStates
<1>7. CASE GiveUp(w)
  BY <1>2, <1>7, Zenon DEF GiveUp, Touch, TypeOK, heapVars
<1>8. CASE RemoveProcessed(w)
  BY <1>2, <1>8, Zenon DEF RemoveProcessed, TypeOK, heapVars
<1>9. CASE FreeProcessed(w)
  BY <1>2, <1>9, Zenon DEF FreeProcessed, Free, Touch, TypeOK
<1>. QED  BY <1>3, <1>4, <1>5, <1>6, <1>7, <1>8, <1>9, Zenon DEF WorkerNext

\* The steps of the cleanup thread keep the types.
LEMMA TypeCleaner ==
  ASSUME TypeInv, CleanerStep
  PROVE  TypeInv'
<1> USE DEF TypeInv
<1>1. CASE Collect
  BY <1>1, Zenon DEF Collect, Alive, TypeOK, netVars, heapVars, receiverVars, workerVars
<1>2. CASE ReadExpiredId
  <2>1. PICK p \in cptrs : Touch(p) /\ cid' = obj[p].request_id /\ cptrs' = cptrs \ {p}
    BY <1>2, Zenon DEF ReadExpiredId
  <2>2. cid' \in Id \cup {0}
    BY <2>1, Zenon DEF TypeOK, Request
  <2>. QED  BY <1>2, <2>1, <2>2, Zenon
            DEF ReadExpiredId, Touch, Alive, TypeOK, netVars, heapVars, receiverVars, workerVars
<1>3. CASE RemoveExpired
  BY <1>3, Zenon DEF RemoveExpired, TouchTable, Alive, TypeOK, netVars, heapVars, receiverVars, workerVars
<1>4. CASE Sleep
  BY <1>4, Zenon DEF Sleep, Alive, TypeOK, netVars, heapVars, receiverVars, workerVars
<1>. QED  BY <1>1, <1>2, <1>3, <1>4, Zenon DEF CleanerStep

\* Every step keeps the types.
LEMMA TypeNext == TypeInv /\ [Next]_vars => TypeInv'
<1> SUFFICES ASSUME TypeInv, [Next]_vars PROVE TypeInv'
  OBVIOUS
<1>1. CASE Tick
  <2>1. \A r \in Request : r.age < Threshold => [r EXCEPT !.age = @ + 1] \in Request
    BY SystemAssumption DEF Request
  <2>2. obj' \in [Ptr -> Request]
    BY <1>1, <2>1, Zenon DEF Tick, TypeInv, TypeOK
  <2>. QED  BY <1>1, <2>2, Zenon
            DEF Tick, Alive, TypeInv, TypeOK, netVars, receiverVars, workerVars, cleanerVars
<1>2. CASE Exit \/ Crash
  BY <1>2, Zenon DEF Exit, Crash, TypeInv, TypeOK, netVars, heapVars, receiverVars, workerVars, cleanerVars
<1>3. CASE UNCHANGED vars
  BY <1>3, Zenon DEF vars, TypeInv, TypeOK, netVars, heapVars, receiverVars, workerVars, cleanerVars
<1>. QED  BY <1>1, <1>2, <1>3, TypeReceive, TypeReceiver, TypeWorker, TypeCleaner, Zenon
          DEF Next, Terminated

\* Every variable keeps its type, whatever the network and the threads do.
THEOREM TypeCorrect == Spec => []TypeOK
<1>1. TypeInv => TypeOK
  BY Zenon DEF TypeInv
<1>. QED  BY <1>1, TypeInit, TypeNext, PTL DEF Spec

=============================================================================
