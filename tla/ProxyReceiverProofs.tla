------------------------ MODULE ProxyReceiverProofs -------------------------
(***************************************************************************)
(* The steps of the receiver preserve the invariant.                       *)
(***************************************************************************)
EXTENDS ProxyInvariant

\* Nobody refers to an object that is not allocated.
LEMMA Fresh ==
  ASSUME IInv, NEW p \in Ptr, ~ live[p]
  PROVE  /\ ~ InTable(p)
         /\ \A w \in Worker : wpc[w] # "idle" => wptr[w] # p
         /\ p \notin cptrs
         /\ cpc = "remove" => table[cid] # p
BY SystemAssumption DEF IInv, InTable, TableInv, WorkerInv, CleanerInv

\* A datagram leaves the network and a request is allocated for it.
LEMMA InvAlloc ==
  ASSUME IInv, TypeOK', NEW pkt \in net, rpc = "recv",
         net' = net \ {pkt}, dups' = dups,
         NEW p \in Ptr, NEW r, Alloc(p, r), r.payload \subseteq {pkt},
         rptr' = p, rpkt' = pkt,
         UNCHANGED <<table, misuse, workerVars, cleanerVars, forwarded>>
  PROVE  /\ dups' = 0 /\ ~ misuse'
         /\ obj'[p] = r /\ live'[p]
         /\ \A q \in Ptr : q # p => live'[q] = live[q] /\ obj'[q] = obj[q]
         /\ ~ InTable(p)'
         /\ Disjoint' /\ TableInv' /\ WorkerInv' /\ CleanerInv' /\ CountInv' /\ ServedInv'
<1> USE DEF IInv
<1>1. UNCHANGED <<wpc, wptr, cpc, cptrs, cid>>
  BY Zenon DEF workerVars, cleanerVars
<1>2. /\ ~ live[p] /\ obj'[p] = r /\ live'[p]
      /\ \A q \in Ptr : q # p => live'[q] = live[q] /\ obj'[q] = obj[q]
  BY Zenon DEF Alloc, TypeOK
<1>3. /\ ~ InTable(p)
      /\ \A w \in Worker : wpc[w] # "idle" => wptr[w] # p
      /\ p \notin cptrs
      /\ cpc = "remove" => table[cid] # p
  BY <1>2, Fresh, Zenon
<1>4. \A q \in Ptr : InTable(q)' <=> InTable(q)
  BY Zenon DEF InTable
<1>5. \A i \in Id : table[i] # p
  BY <1>3, Zenon DEF InTable
<1>6. Disjoint'
  BY <1>2 DEF Disjoint, ObjInv
<1>7. TableInv'
  BY <1>1, <1>2, <1>5 DEF TableInv, TypeOK
<1>8. WorkerInv'
  BY <1>1, <1>2, <1>3, <1>4 DEF WorkerInv
<1>9. CleanerInv'
  BY <1>1, <1>2, <1>3 DEF CleanerInv, Expired, TypeOK
<1>10. CountInv'
  <2>1. pkt \in PacketsOf(pkt.msg)
    BY PacketMsg, Zenon DEF TypeOK
  <2>2. \A m \in Msg : forwarded[m] # 0 => pkt.msg # m
    BY <2>1, Zenon DEF CountInv
  <2>. QED  BY <1>1, <1>2, <2>2 DEF CountInv
<1>11. ServedInv'
  BY <1>1, <1>2, <1>4, SystemAssumption DEF ServedInv, WorksOn, Expired, ReceiverInv
<1>. QED  BY <1>2, <1>3, <1>4, <1>6, <1>7, <1>8, <1>9, <1>10, <1>11, Zenon

\* A datagram of plain HTTP gets a request of its own.
LEMMA InvReceiveRaw ==
  ASSUME IInv, TypeOK', NEW pkt \in Packet, ReceiveRaw(pkt)
  PROVE  IInv'
<1> USE DEF IInv
<1> DEFINE r == ff_request_parse_chunk(ff_request_alloc, pkt)
<1>1. PICK p \in Ptr : Alloc(p, r) /\ rptr' = p
  BY Zenon DEF ReceiveRaw
<1>2. /\ rpc = "recv" /\ pkt \in net /\ net' = net \ {pkt} /\ dups' = dups
      /\ rpkt' = pkt /\ rpc' = "switch" /\ pkt.msg \in RawMsg
      /\ UNCHANGED <<table, misuse, workerVars, cleanerVars, forwarded>>
  BY DEF ReceiveRaw, RecvFrom
<1>3. /\ r.version = FF_VERSION_RAW /\ r.request_id = 0 /\ r.state = "RECEIVED"
      /\ r.payload = {pkt} /\ r.age = 0
  BY <1>2, ParseRaw, Zenon
<1> HIDE DEF r
<1>4. /\ dups' = 0 /\ ~ misuse'
      /\ obj'[p] = r /\ live'[p]
      /\ \A q \in Ptr : q # p => live'[q] = live[q] /\ obj'[q] = obj[q]
      /\ Disjoint' /\ TableInv' /\ WorkerInv' /\ CleanerInv' /\ CountInv' /\ ServedInv'
  BY <1>1, <1>2, <1>3, InvAlloc
<1>5. r.payload = PacketsOf(pkt.msg) /\ IdOf[pkt.msg] = 0 /\ pkt.msg \in Msg
  <2>1. pkt.msg \in Msg /\ pkt \in PacketsOf(pkt.msg)
        /\ ChunksOf[pkt.msg] = 1 /\ IdOf[pkt.msg] = 0
    BY <1>2, PacketMsg, MsgAssumption, Zenon
  <2>2. Cardinality({pkt}) = 1
    BY FS_Singleton, Zenon
  <2>. QED  BY <1>3, <2>1, <2>2, AllPackets, ZenonT(60)
<1>6. ReceiverInv'
  <2>1. 0 < Threshold
    BY SystemAssumption
  <2>. QED  BY <1>1, <1>2, <1>3, <1>4, <2>1 DEF ReceiverInv, Busy, FF_VERSION_RAW, ReceivingStates
<1>7. ObjInv'
  <2>1. Whole(p)'
    BY <1>3, <1>4, <1>5, Zenon DEF Whole
  <2>2. ASSUME NEW q \in Ptr, live'[q], q # p
        PROVE  /\ live[q] /\ obj'[q] = obj[q] /\ (Whole(q) => Whole(q)')
               /\ q # rptr
    BY <1>2, <1>4, <2>2, SystemAssumption DEF Whole, ReceiverInv, TypeOK
  <2>. QED  BY <1>1, <1>2, <1>3, <1>4, <2>1, <2>2 DEF ObjInv, FF_VERSION_RAW, FF_VERSION_1
<1>. QED  BY <1>4, <1>6, <1>7, Zenon

\* The first packet of a message gets a fresh request.
LEMMA InvReceiveFirst ==
  ASSUME IInv, TypeOK', NEW pkt \in Packet, ReceiveFirst(pkt)
  PROVE  IInv'
<1> USE DEF IInv
<1> DEFINE r == [ff_request_alloc EXCEPT !.source = SourceOf[pkt.msg]]
<1>1. PICK p \in Ptr : Alloc(p, r) /\ rptr' = p
  BY Zenon DEF ReceiveFirst
<1>2. /\ rpc = "recv" /\ pkt \in net /\ net' = net \ {pkt} /\ dups' = dups
      /\ rpkt' = pkt /\ rpc' = "put"
      /\ IdOf[pkt.msg] # 0 /\ table[IdOf[pkt.msg]] = NULL
      /\ UNCHANGED <<table, misuse, workerVars, cleanerVars, forwarded>>
  BY DEF ReceiveFirst, RecvFrom
<1>3. /\ r.version = 0 /\ r.request_id = 0 /\ r.state = "RECEIVING"
      /\ r.payload = {} /\ r.age = 0 /\ r.source = SourceOf[pkt.msg]
  BY Zenon DEF ff_request_alloc
<1> HIDE DEF r
<1>4. /\ dups' = 0 /\ ~ misuse'
      /\ obj'[p] = r /\ live'[p]
      /\ \A q \in Ptr : q # p => live'[q] = live[q] /\ obj'[q] = obj[q]
      /\ Disjoint' /\ TableInv' /\ WorkerInv' /\ CleanerInv' /\ CountInv' /\ ServedInv'
  BY <1>1, <1>2, <1>3, InvAlloc
<1>5. pkt.msg \in Msg /\ pkt.msg \notin RawMsg
  BY <1>2, PacketMsg, MsgAssumption, Zenon
<1>6. ReceiverInv'
  <2>1. 0 < Threshold
    BY SystemAssumption
  <2>2. \A q \in Ptr : live'[q] => pkt \notin obj'[q].payload
    BY <1>2, <1>3, <1>4, Zenon DEF ObjInv
  <2>. QED  BY <1>1, <1>2, <1>3, <1>4, <1>5, <2>1, <2>2, Zenon DEF ReceiverInv, Busy
<1>7. ObjInv'
  <2>1. ASSUME NEW q \in Ptr, live'[q], q # p
        PROVE  /\ live[q] /\ obj'[q] = obj[q] /\ (Whole(q) => Whole(q)')
               /\ q # rptr
    BY <1>2, <1>4, <2>1, SystemAssumption DEF Whole, ReceiverInv, TypeOK
  <2>. QED  BY <1>1, <1>2, <1>3, <1>4, <2>1 DEF ObjInv, FF_VERSION_RAW, FF_VERSION_1
<1>. QED  BY <1>4, <1>6, <1>7, Zenon

\* No worker has the request the next packet belongs to: it would be complete
\* and hold this packet already.
LEMMA InvReceiveNext ==
  ASSUME Benign, IInv, TypeOK', NEW pkt \in Packet, ReceiveNext(pkt)
  PROVE  IInv'
<1> USE DEF IInv
<1> DEFINE i == IdOf[pkt.msg]
           p == table[i]
<1>1. /\ rpc = "recv" /\ pkt \in net /\ net' = net \ {pkt} /\ dups' = dups
      /\ rpkt' = pkt /\ rpc' = "parse" /\ rptr' = p /\ p # NULL /\ i # 0
      /\ UNCHANGED <<live, obj, table, misuse, wpc, wptr, cpc, cptrs, cid, forwarded>>
  BY DEF ReceiveNext, RecvFrom, heapVars, workerVars, cleanerVars
<1>2. /\ pkt.msg \in Msg /\ pkt \in PacketsOf(pkt.msg) /\ i \in Id /\ pkt.msg \notin RawMsg
  BY <1>1, PacketMsg, IdNonZero, MsgAssumption, Zenon
<1>3. /\ p \in Ptr /\ live[p] /\ obj[p].request_id = i /\ obj[p].age < Threshold
  BY <1>1, <1>2 DEF TableInv, TypeOK, Benign, ReceiveNext, Timely
<1>4. obj[p].version # 0 /\ \A q \in Ptr : live[q] => pkt \notin obj[q].payload
  BY <1>1, <1>3, Zenon DEF ObjInv
<1>5. \A w \in Worker : wpc[w] # "idle" => wptr[w] # p
  <2> SUFFICES ASSUME obj[p].state \notin {"RECEIVING", "RECEIVING_FAIL"} PROVE FALSE
    BY Zenon DEF WorkerInv
  <2>1. PICK m \in Msg : obj[p].payload = PacketsOf(m) /\ obj[p].request_id = IdOf[m]
    BY <1>3, Zenon DEF ObjInv, Whole
  <2>2. m = pkt.msg
    BY <1>1, <1>2, <1>3, <2>1, Zenon DEF Benign
  <2>. QED  BY <1>2, <1>3, <1>4, <2>1, <2>2, Zenon
<1> HIDE DEF i, p
<1>6. ReceiverInv'
  BY <1>1, <1>2, <1>3, <1>4, Zenon DEF ReceiverInv, Busy, i, p
<1>7. ObjInv' /\ Disjoint'
  BY <1>1, Zenon DEF ObjInv, Whole, Disjoint
<1>8. TableInv' /\ CleanerInv'
  BY <1>1, Zenon DEF TableInv, CleanerInv, Expired
<1>9. WorkerInv'
  BY <1>1, <1>5, Zenon DEF WorkerInv, InTable
<1>10. CountInv'
  BY <1>1, <1>2, Zenon DEF CountInv
<1>11. ServedInv'
  BY <1>1, SystemAssumption, Zenon DEF ServedInv, WorksOn, Expired, InTable, ReceiverInv
<1>. QED  BY <1>1, <1>6, <1>7, <1>8, <1>9, <1>10, <1>11, Zenon

\* A packet without an id is dropped.
LEMMA InvReceiveNoId ==
  ASSUME IInv, TypeOK', NEW pkt \in Packet, ReceiveNoId(pkt)
  PROVE  IInv'
<1> USE DEF IInv
<1>1. /\ net' \subseteq net /\ dups' = 0 /\ rpc = "recv"
      /\ UNCHANGED <<live, obj, table, rpc, rpkt, rptr, misuse, wpc, wptr, cpc, cptrs, cid, forwarded>>
  BY DEF ReceiveNoId, RecvFrom, heapVars, receiverVars, workerVars, cleanerVars
<1>2. ReceiverInv' /\ ObjInv' /\ CountInv'
  BY <1>1 DEF ReceiverInv, Busy, ObjInv, Whole, CountInv
<1>3. Disjoint' /\ TableInv' /\ WorkerInv' /\ CleanerInv' /\ ServedInv'
  BY <1>1 DEF Disjoint, TableInv, WorkerInv, CleanerInv, ServedInv, InTable, Expired, WorksOn
<1>. QED  BY <1>1, <1>2, <1>3, Zenon

\* A fresh request enters the table under an id that is not in it.
LEMMA InvPut ==
  ASSUME IInv, TypeOK', Put
  PROVE  IInv'
<1> USE DEF IInv
<1> DEFINE i == IdOf[rpkt.msg]
<1>1. /\ rpc = "put" /\ rpc' = "parse"
      /\ table' = [table EXCEPT ![i] = rptr]
      /\ UNCHANGED <<net, dups, live, obj, rpkt, rptr, misuse, wpc, wptr, cpc, cptrs, cid, forwarded>>
  BY Zenon DEF Put, netVars, heapVars, workerVars, cleanerVars
<1>2. /\ rptr \in Ptr /\ live[rptr] /\ obj[rptr].version = 0 /\ rpkt \in Packet
      /\ i # 0 /\ table[i] = NULL
  BY <1>1, Zenon DEF ReceiverInv, Busy
<1>3. i \in Id
  BY <1>2, PacketMsg, IdNonZero, Zenon
<1>4. table'[i] = rptr /\ \A j \in Id : j # i => table'[j] = table[j]
  BY <1>1, <1>3, Zenon DEF TypeOK
<1>5. \A q \in Ptr : /\ InTable(q) => InTable(q)'
                     /\ InTable(q)' => InTable(q) \/ q = rptr
  BY <1>2, <1>3, <1>4, SystemAssumption, Zenon DEF InTable
<1> HIDE DEF i
<1>6. ReceiverInv'
  BY <1>1, <1>4, Zenon DEF ReceiverInv, Busy, i
<1>7. ObjInv' /\ Disjoint' /\ CountInv'
  BY <1>1 DEF ObjInv, Whole, Disjoint, CountInv
<1>8. TableInv'
  BY <1>1, <1>2, <1>4, Zenon DEF TableInv, i
<1>9. WorkerInv'
  <2>1. \A q \in Ptr : obj[q].request_id \in Id \cup {0}
    BY Zenon DEF TypeOK, Request
  <2>. QED  BY <1>1, <1>2, <1>4, <1>5, <2>1, SystemAssumption DEF WorkerInv
<1>10. CleanerInv'
  BY <1>1, <1>2, <1>4, SystemAssumption DEF CleanerInv, Expired, TypeOK
<1>11. ServedInv'
  BY <1>1, <1>5, Zenon DEF ServedInv, WorksOn, Expired
<1>. QED  BY <1>1, <1>6, <1>7, <1>8, <1>9, <1>10, <1>11, Zenon

\* At the parse the request is still being received, and is fresh or of the
\* packet's own message.
LEMMA AtParse ==
  ASSUME Benign, IInv, rpc = "parse"
  PROVE  LET r == obj[rptr]
         IN  /\ r.state = "RECEIVING"
             /\ \/ r.version = 0 /\ r.payload = {} /\ r.request_id = 0
                \/ /\ r.version = FF_VERSION_1
                   /\ r.request_id = IdOf[rpkt.msg]
                   /\ r.payload_length = ChunksOf[rpkt.msg]
                   /\ r.payload \subseteq PacketsOf(rpkt.msg)
<1> USE DEF IInv
<1> DEFINE r == obj[rptr]
<1>1. /\ rptr \in Ptr /\ live[rptr] /\ rpkt \in Packet /\ rpkt \notin r.payload
      /\ IdOf[rpkt.msg] # 0 /\ table[IdOf[rpkt.msg]] = rptr
  BY Zenon DEF ReceiverInv, Busy
<1>2. /\ rpkt.msg \in Msg /\ rpkt \in PacketsOf(rpkt.msg) /\ IdOf[rpkt.msg] \in Id
  BY <1>1, PacketMsg, IdNonZero, Zenon
<1>3. r.version # 0 => r.request_id = IdOf[rpkt.msg]
  BY <1>1, <1>2, SystemAssumption, Zenon DEF TableInv
<1>4. r.state = "RECEIVING"
  <2>1. r.state # "RECEIVING_FAIL"
    BY <1>1, Zenon DEF ObjInv
  <2> SUFFICES ASSUME r.state \notin {"RECEIVING", "RECEIVING_FAIL"} PROVE FALSE
    BY <2>1, Zenon
  <2>2. PICK m \in Msg : r.payload = PacketsOf(m) /\ r.request_id = IdOf[m]
    BY <1>1, Zenon DEF ObjInv, Whole
  <2>3. r.version # 0
    BY <1>1, Zenon DEF ObjInv
  <2>. QED  BY <1>1, <1>2, <1>3, <2>2, <2>3, Zenon DEF Benign
<1>5. r.version \in {0, FF_VERSION_RAW, FF_VERSION_1}
  BY <1>1, Zenon DEF TypeOK, Request
<1>6. CASE r.version = 0
  BY <1>1, <1>4, <1>6, Zenon DEF ObjInv
<1>7. CASE r.version = FF_VERSION_RAW
  BY <1>1, <1>4, <1>7, Zenon DEF ObjInv
<1>8. CASE r.version = FF_VERSION_1
  <2>1. PICK m \in Msg : /\ IdOf[m] = r.request_id /\ r.payload_length = ChunksOf[m]
                         /\ r.payload \subseteq PacketsOf(m)
    BY <1>1, <1>8, Zenon DEF ObjInv
  <2>2. r.request_id = IdOf[rpkt.msg]
    BY <1>3, <1>8 DEF FF_VERSION_1
  <2>3. m = rpkt.msg
    BY <1>1, <1>2, <2>1, <2>2, Zenon DEF Benign
  <2>. QED  BY <1>4, <1>8, <2>1, <2>2, <2>3, Zenon
<1>. QED  BY <1>5, <1>6, <1>7, <1>8, Zenon

\* A packet of another source leaves the request as it is.
LEMMA InvParseDiscard ==
  ASSUME Benign, IInv, TypeOK', Parse, obj[rptr].source # SourceOf[rpkt.msg]
  PROVE  IInv'
<1> USE DEF IInv
<1>1. /\ rpc = "parse" /\ rpc' = "recv" /\ rptr' = NULL /\ Touch(rptr)
      /\ UNCHANGED <<net, dups, live, obj, table, wpc, wptr, cpc, cptrs, cid, forwarded>>
  BY Zenon DEF Parse, ReceiverDone, netVars, workerVars, cleanerVars
<1>2. /\ rptr \in Ptr /\ live[rptr] /\ rpkt \in Packet /\ InTable(rptr)
      /\ obj[rptr].version # 0
  BY <1>1, PacketMsg, IdNonZero, Zenon DEF ReceiverInv, Busy, InTable
<1>3. obj[rptr].state = "RECEIVING"
  BY <1>1, AtParse, Zenon
<1>4. ~ misuse' /\ ReceiverInv'
  BY <1>1, <1>2, Zenon DEF Touch, ReceiverInv, Busy
<1>5. ObjInv' /\ Disjoint' /\ CountInv'
  BY <1>1, <1>2 DEF ObjInv, Whole, Disjoint, CountInv
<1>6. TableInv' /\ CleanerInv'
  BY <1>1, <1>2, Zenon DEF TableInv, CleanerInv, Expired
<1>7. WorkerInv'
  BY <1>1, SystemAssumption, Zenon DEF WorkerInv, InTable
<1>8. ServedInv'
  BY <1>1, <1>2, <1>3, Zenon DEF ServedInv, WorksOn, Expired, InTable
<1>. QED  BY <1>1, <1>4, <1>5, <1>6, <1>7, <1>8, Zenon

\* Parsing a packet into its request keeps the invariant.
LEMMA InvParse ==
  ASSUME Benign, IInv, TypeOK', Parse, obj[rptr].source = SourceOf[rpkt.msg]
  PROVE  IInv'
<1> USE DEF IInv
<1> DEFINE r == obj[rptr]
           q == ff_request_parse_chunk(r, rpkt)
           i == IdOf[rpkt.msg]
<1>1. /\ rpc = "parse" /\ rpc' = "switch" /\ Touch(rptr)
      /\ obj' = [obj EXCEPT ![rptr] = q]
      /\ UNCHANGED <<net, dups, live, table, rpkt, rptr, wpc, wptr, cpc, cptrs, cid, forwarded>>
  BY Zenon DEF Parse, netVars, workerVars, cleanerVars
<1>2. /\ rptr \in Ptr /\ live[rptr] /\ rpkt \in Packet /\ rpkt \notin net
      /\ r.age < Threshold /\ rpkt.msg \notin RawMsg /\ i # 0 /\ table[i] = rptr
      /\ \A p \in Ptr : live[p] => rpkt \notin obj[p].payload
  BY <1>1, Zenon DEF ReceiverInv, Busy
<1>3. /\ rpkt.msg \in Msg /\ i \in Id
  BY <1>2, PacketMsg, IdNonZero, Zenon
<1>4. /\ r.state = "RECEIVING"
      /\ \/ r.version = 0 /\ r.payload = {} /\ r.request_id = 0
         \/ /\ r.version = FF_VERSION_1
            /\ r.request_id = i
            /\ r.payload_length = ChunksOf[rpkt.msg]
            /\ r.payload \subseteq PacketsOf(rpkt.msg)
  BY <1>1, AtParse, Zenon
<1>5. /\ q.version = FF_VERSION_1 /\ q.request_id = i
      /\ q.payload_length = ChunksOf[rpkt.msg]
      /\ q.payload \in {r.payload, r.payload \cup {rpkt}}
      /\ q.payload \subseteq PacketsOf(rpkt.msg)
      /\ q.age = r.age /\ q.state \in ReceivingStates
      /\ q.state = "RECEIVED" => q.payload = PacketsOf(rpkt.msg)
  <2>1. r \in Request
    BY <1>2, Zenon DEF TypeOK
  <2> HIDE DEF r
  <2>. QED  BY <1>2, <1>4, <2>1, ParseData, Zenon
<1> HIDE DEF q
<1>6. obj'[rptr] = q /\ \A p \in Ptr : p # rptr => obj'[p] = obj[p]
  BY <1>1, <1>2, Zenon DEF TypeOK
<1>7. rptr \notin cptrs /\ (cpc = "remove" => table[cid] # rptr)
  <2>1. r.age \in Int /\ Threshold \in Int
    BY <1>2, SystemAssumption DEF TypeOK, Request
  <2>. QED  BY <1>2, <2>1 DEF CleanerInv, Expired
<1>8. \A p \in Ptr : InTable(p)' <=> InTable(p)
  BY <1>1, Zenon DEF InTable
<1> HIDE DEF r, i
<1>9. ~ misuse'
  BY <1>1, <1>2, Zenon DEF Touch
<1>10. ReceiverInv'
  BY <1>1, <1>2, <1>5, <1>6 DEF ReceiverInv, Busy, FF_VERSION_1, i
<1>11. ObjInv'
  <2>1. ASSUME NEW p \in Ptr, live'[p], p # rptr
        PROVE  live[p] /\ obj'[p] = obj[p] /\ (Whole(p) => Whole(p)')
    BY <1>1, <1>6, <2>1, Zenon DEF Whole
  <2>2. q.state \notin {"RECEIVING", "RECEIVING_FAIL"} => Whole(rptr)'
    BY <1>1, <1>3, <1>5, <1>6, Zenon DEF Whole, ReceivingStates, i
  <2>3. q.payload \cap net = {}
    BY <1>2, <1>5, Zenon DEF ObjInv, r
  <2>4. \E m \in Msg : /\ IdOf[m] = q.request_id /\ q.payload_length = ChunksOf[m]
                       /\ q.payload \subseteq PacketsOf(m)
    BY <1>3, <1>5, Zenon DEF i
  <2>. QED  BY <1>1, <1>2, <1>5, <1>6, <2>1, <2>2, <2>3, <2>4
            DEF ObjInv, FF_VERSION_1, FF_VERSION_RAW
<1>12. Disjoint'
  BY <1>1, <1>2, <1>5, <1>6 DEF Disjoint, r
<1>13. TableInv'
  <2>1. \A j \in Id : table[j] = rptr => j = i
    <3>1. ASSUME NEW j \in Id, table[j] = rptr
          PROVE  r.request_id = j \/ i = j
      BY <1>2, <3>1, SystemAssumption, Zenon DEF TableInv, r, i
    <3>. QED  BY <1>4, <3>1, IdNonZero, Zenon
  <2>. QED  BY <1>1, <1>2, <1>5, <1>6, <2>1 DEF TableInv, TypeOK
<1>14. WorkerInv'
  BY <1>1, <1>6, <1>8 DEF WorkerInv
<1>15. CleanerInv'
  BY <1>1, <1>6, <1>7 DEF CleanerInv, Expired, TypeOK
<1>16. CountInv'
  BY <1>1, <1>2, <1>3, <1>5, <1>6, PacketMsg DEF CountInv
<1>17. ServedInv'
  BY <1>1, <1>6, <1>8, Zenon DEF ServedInv, WorksOn, Expired
<1>. QED  BY <1>1, <1>9, <1>10, <1>11, <1>12, <1>13, <1>14, <1>15, <1>16, <1>17, Zenon

\* The receiver hands a complete request to an idle worker and forgets it.
LEMMA InvSwitchReceived ==
  ASSUME Benign, IInv, TypeOK', Switch, obj[rptr].state = "RECEIVED"
  PROVE  IInv'
<1> USE DEF IInv
<1> DEFINE p == rptr
<1>1. /\ rpc = "switch" /\ rpc' = "recv" /\ rptr' = NULL /\ Touch(p)
      /\ UNCHANGED <<net, dups, live, obj, table, cpc, cptrs, cid, forwarded>>
  BY Zenon DEF Switch, ReceiverDone, netVars, heapVars, cleanerVars
<1>2. PICK w \in Worker : /\ wpc[w] = "idle"
                          /\ wpc' = [wpc EXCEPT ![w] = "decrypt"]
                          /\ wptr' = [wptr EXCEPT ![w] = p]
  BY Zenon DEF Switch, Benign
<1>3. /\ p \in Ptr /\ live[p] /\ obj[p].version # 0 /\ rpkt \in Packet
      /\ rpkt.msg \in RawMsg => obj[p].request_id = 0
      /\ rpkt.msg \notin RawMsg => table[IdOf[rpkt.msg]] = p /\ IdOf[rpkt.msg] # 0
  BY <1>1, Zenon DEF ReceiverInv, Busy
<1>4. obj[p].request_id # 0 => table[obj[p].request_id] = p
  BY <1>1, <1>3, PacketMsg, IdNonZero, SystemAssumption DEF TableInv
<1>5. /\ wpc'[w] = "decrypt" /\ wptr'[w] = p
      /\ \A v \in Worker : v # w => wpc'[v] = wpc[v] /\ wptr'[v] = wptr[v]
  BY <1>2, Zenon DEF TypeOK
<1>6. ~ misuse' /\ ReceiverInv'
  BY <1>1, <1>3, Zenon DEF Touch, ReceiverInv, Busy
<1>7. ObjInv' /\ Disjoint'
  BY <1>1, <1>3 DEF ObjInv, Whole, Disjoint
<1>8. TableInv' /\ CleanerInv'
  BY <1>1, Zenon DEF TableInv, CleanerInv, Expired
<1>9. \A v \in Worker : wpc[v] # "idle" => wptr[v] # p
  BY Zenon DEF WorkerInv
<1> HIDE DEF p
<1>10. WorkerInv'
  <2>1. UNCHANGED <<live, obj, table>> /\ \A q \in Ptr : q # NULL /\ q # rptr'
    BY <1>1, SystemAssumption, Zenon
  <2>2. \A q \in Ptr : InTable(q)' <=> InTable(q)
    BY <1>1, Zenon DEF InTable
  <2>. QED  BY <1>3, <1>4, <1>5, <1>9, <2>1, <2>2 DEF WorkerInv, p
<1>11. CountInv'
  BY <1>1, <1>2, <1>5 DEF CountInv
<1>12. ServedInv'
  BY <1>1, <1>2, <1>5 DEF ServedInv, WorksOn, Expired, InTable, p
<1>. QED  BY <1>1, <1>6, <1>7, <1>8, <1>10, <1>11, <1>12, Zenon

\* Going on to the next packet, or to the removal of a failed request, keeps
\* the invariant.
LEMMA InvSwitchOther ==
  ASSUME IInv, TypeOK', Switch, obj[rptr].state # "RECEIVED"
  PROVE  IInv'
<1> USE DEF IInv
<1>1. /\ rpc = "switch" /\ Touch(rptr)
      /\ UNCHANGED <<net, dups, live, obj, table, wpc, wptr, cpc, cptrs, cid, forwarded>>
  BY Zenon DEF Switch, netVars, heapVars, workerVars, cleanerVars
<1>2. /\ rptr \in Ptr /\ live[rptr] /\ rpkt \in Packet /\ obj[rptr].version # 0
      /\ rpkt.msg \notin RawMsg /\ table[IdOf[rpkt.msg]] = rptr /\ IdOf[rpkt.msg] # 0
      /\ obj[rptr].state \in ReceivingStates
  BY <1>1, Zenon DEF ReceiverInv, Busy
<1>3. InTable(rptr)
  BY <1>2, PacketMsg, IdNonZero, Zenon DEF InTable
<1>4. ~ misuse'
  BY <1>1, <1>2, Zenon DEF Touch
<1>5. Disjoint' /\ TableInv' /\ CleanerInv' /\ CountInv'
  <2>1. rpc' \notin {"put", "parse"}
    BY Zenon DEF Switch, ReceiverDone
  <2>2. Disjoint' /\ CountInv'
    BY <1>1, <2>1 DEF Disjoint, CountInv
  <2>3. TableInv' /\ CleanerInv'
    BY <1>1, <2>1 DEF TableInv, CleanerInv, Expired
  <2>. QED  BY <2>2, <2>3, Zenon
<1>6. CASE obj[rptr].state = "RECEIVING_FAIL"
  <2>1. rpc' = "remove" /\ UNCHANGED <<rpkt, rptr>>
    BY <1>2, <1>6, Zenon DEF Switch
  <2>2. ReceiverInv'
    BY <1>1, <1>2, <1>6, <2>1, Zenon DEF ReceiverInv, Busy
  <2>3. ObjInv'
    BY <1>1, <1>2, <2>1, Zenon DEF ObjInv, Whole
  <2>4. WorkerInv' /\ ServedInv'
    BY <1>1, <2>1, Zenon DEF WorkerInv, ServedInv, WorksOn, Expired, InTable
  <2>. QED  BY <1>1, <1>4, <1>5, <2>2, <2>3, <2>4, Zenon
<1>7. CASE obj[rptr].state = "RECEIVING"
  <2>1. rpc' = "recv" /\ rptr' = NULL
    BY <1>7, Zenon DEF Switch, ReceiverDone
  <2>2. ReceiverInv'
    BY <2>1, Zenon DEF ReceiverInv, Busy
  <2>3. ObjInv'
    BY <1>1, <1>2, <1>7, <2>1, Zenon DEF ObjInv, Whole
  <2>4. WorkerInv' /\ ServedInv'
    <3>1. \A q \in Ptr : InTable(q)' <=> InTable(q)
      BY <1>1, Zenon DEF InTable
    <3>2. WorkerInv'
      BY <1>1, <2>1, <3>1, SystemAssumption DEF WorkerInv
    <3>3. ServedInv'
      BY <1>1, <1>3, <1>7, <2>1, <3>1 DEF ServedInv, WorksOn, Expired
    <3>. QED  BY <3>2, <3>3, Zenon
  <2>. QED  BY <1>1, <1>4, <1>5, <2>2, <2>3, <2>4, Zenon
<1>. QED  BY <1>2, <1>6, <1>7, Zenon DEF ReceivingStates

\* A failed request leaves the table.
LEMMA InvRemoveFailed ==
  ASSUME IInv, TypeOK', RemoveFailed
  PROVE  IInv'
<1> USE DEF IInv
<1> DEFINE i == IdOf[rpkt.msg]
<1>1. /\ rpc = "remove" /\ rpc' = "free" /\ table' = [table EXCEPT ![i] = NULL]
      /\ UNCHANGED <<net, dups, live, obj, rpkt, rptr, misuse, wpc, wptr, cpc, cptrs, cid, forwarded>>
  BY Zenon DEF RemoveFailed, netVars, heapVars, workerVars, cleanerVars
<1>2. /\ rptr \in Ptr /\ live[rptr] /\ rpkt \in Packet /\ i # 0 /\ table[i] = rptr
      /\ obj[rptr].state = "RECEIVING_FAIL"
  BY <1>1, Zenon DEF ReceiverInv, Busy
<1>3. i \in Id
  BY <1>2, PacketMsg, IdNonZero, Zenon
<1>4. \A j \in Id : table'[j] = IF table[j] = rptr THEN NULL ELSE table[j]
  <2>1. \A j \in Id : table[j] = rptr => j = i
    BY <1>1, <1>2, <1>3, SystemAssumption, Zenon DEF TableInv
  <2>. QED  BY <1>1, <1>2, <1>3, <2>1, Zenon DEF TypeOK
<1>5. ~ InTable(rptr)' /\ \A q \in Ptr : q # rptr => (InTable(q)' <=> InTable(q))
  BY <1>1, <1>2, <1>4, SystemAssumption, Zenon DEF InTable
<1>6. rptr \notin cptrs /\ (cpc = "remove" => table[cid] # rptr)
  BY <1>2, Zenon DEF CleanerInv, Expired
<1> HIDE DEF i
<1>7. ReceiverInv'
  BY <1>1, <1>5, Zenon DEF ReceiverInv, Busy
<1>8. ObjInv' /\ Disjoint' /\ CountInv'
  BY <1>1 DEF ObjInv, Whole, Disjoint, CountInv
<1>9. TableInv'
  BY <1>1, <1>4 DEF TableInv
<1>10. WorkerInv'
  <2>1. \A q \in Ptr : obj[q].request_id \in Id \cup {0}
    BY Zenon DEF TypeOK, Request
  <2>. QED  BY <1>1, <1>4, <1>5, <2>1, Zenon DEF WorkerInv
<1>11. CleanerInv'
  BY <1>1, <1>4, <1>6 DEF CleanerInv, Expired, TypeOK
<1>12. ServedInv'
  BY <1>1, <1>5, Zenon DEF ServedInv, WorksOn, Expired
<1>. QED  BY <1>1, <1>7, <1>8, <1>9, <1>10, <1>11, <1>12, Zenon

\* When the receiver frees a failed request nobody else refers to it.
LEMMA InvFreeFailed ==
  ASSUME IInv, TypeOK', FreeFailed
  PROVE  IInv'
<1> USE DEF IInv
<1> DEFINE p == rptr
<1>1. /\ rpc = "free" /\ rpc' = "recv" /\ rptr' = NULL
      /\ live' = [live EXCEPT ![p] = FALSE] /\ Touch(p)
      /\ UNCHANGED <<net, dups, obj, table, wpc, wptr, cpc, cptrs, cid, forwarded>>
  BY Zenon DEF FreeFailed, Free, ReceiverDone, netVars, workerVars, cleanerVars
<1>2. /\ p \in Ptr /\ live[p] /\ obj[p].state = "RECEIVING_FAIL" /\ ~ InTable(p)
  BY <1>1, Zenon DEF ReceiverInv, Busy
<1>3. ~ live'[p] /\ \A q \in Ptr : q # p => live'[q] = live[q]
  BY <1>1, <1>2, Zenon DEF TypeOK
<1>4. p \notin cptrs /\ (cpc = "remove" => table[cid] # p)
  BY <1>2, Zenon DEF CleanerInv, Expired
<1>5. \A j \in Id : table[j] # p
  BY <1>2, Zenon DEF InTable
<1> HIDE DEF p
<1>6. ~ misuse' /\ ReceiverInv'
  BY <1>1, <1>2, Zenon DEF Touch, ReceiverInv, Busy
<1>7. ObjInv' /\ Disjoint' /\ CountInv'
  BY <1>1, <1>3 DEF ObjInv, Whole, Disjoint, CountInv, p
<1>8. TableInv' /\ CleanerInv'
  BY <1>1, <1>3, <1>4, <1>5 DEF TableInv, CleanerInv, Expired, TypeOK
<1>9. WorkerInv'
  BY <1>1, <1>3, SystemAssumption DEF WorkerInv, InTable, p
<1>10. ServedInv'
  BY <1>1, <1>3, Zenon DEF ServedInv, WorksOn, Expired, InTable, p
<1>. QED  BY <1>1, <1>6, <1>7, <1>8, <1>9, <1>10, Zenon

=============================================================================
