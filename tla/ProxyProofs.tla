---------------------------- MODULE ProxyProofs -----------------------------
(***************************************************************************)
(* What the proxy guarantees, for any messages, heap and workers.          *)
(***************************************************************************)
EXTENDS ProxyWorkerProofs, ProxyReceiverProofs

-----------------------------------------------------------------------------
(***************************************************************************)
(* Time and the process as a whole.                                        *)
(***************************************************************************)

\* Time passing keeps the invariant: the receiver's request is not made old.
LEMMA InvTick ==
  ASSUME Benign, IInv, TypeOK', Tick
  PROVE  IInv'
<1> USE DEF IInv
<1>1. /\ rptr = NULL
      /\ UNCHANGED <<net, dups, live, table, rpc, rpkt, rptr, misuse, wpc, wptr, cpc, cptrs, cid, forwarded>>
  BY Zenon DEF Tick, Benign, netVars, receiverVars, workerVars, cleanerVars
<1>2. ~ Busy
  BY <1>1, SystemAssumption, Zenon DEF ReceiverInv
<1>3. \A p \in Ptr : /\ obj'[p].version = obj[p].version /\ obj'[p].request_id = obj[p].request_id
                     /\ obj'[p].payload = obj[p].payload /\ obj'[p].state = obj[p].state
                     /\ obj'[p].payload_length = obj[p].payload_length
                     /\ obj[p].age >= Threshold => obj'[p].age = obj[p].age
  BY SystemAssumption DEF Tick, TypeOK, Request
<1>4. \A p \in Ptr : Expired(p) => Expired(p)'
  BY <1>3, Zenon DEF Expired
<1>5. \A p \in Ptr : InTable(p)' <=> InTable(p)
  BY <1>1, Zenon DEF InTable
<1>6. ReceiverInv'
  BY <1>1, <1>2, Zenon DEF ReceiverInv, Busy
<1>7. ObjInv'
  <2>1. \A p \in Ptr : Whole(p) => Whole(p)'
    BY <1>3, Zenon DEF Whole
  <2>. QED  BY <1>1, <1>3, <2>1 DEF ObjInv
<1>8. Disjoint' /\ CountInv'
  BY <1>1, <1>3 DEF Disjoint, CountInv
<1>9. TableInv'
  BY <1>1, <1>2, <1>3 DEF TableInv, TypeOK, Busy
<1>10. WorkerInv'
  BY <1>1, <1>3, <1>5 DEF WorkerInv
<1>11. CleanerInv'
  <2>1. \A p \in cptrs : p \in Ptr
    BY Zenon DEF TypeOK
  <2>2. cpc = "remove" => Expired(table[cid])'
    BY <1>1, <1>4, Zenon DEF CleanerInv
  <2>. QED  BY <1>1, <1>3, <1>4, <2>1, <2>2 DEF CleanerInv
<1>12. ServedInv'
  BY <1>1, <1>3, <1>4, <1>5, Zenon DEF ServedInv, WorksOn
<1>. QED  BY <1>1, <1>6, <1>7, <1>8, <1>9, <1>10, <1>11, <1>12, Zenon

\* A step of none of the threads.
LEMMA InvFrame ==
  ASSUME IInv, TypeOK', Start \/ Exit \/ UNCHANGED vars
  PROVE  IInv'
<1> USE DEF IInv
<1>1. UNCHANGED <<net, dups, live, obj, table, rptr, wpc, wptr, cpc, cptrs, cid, misuse, forwarded>>
  BY Zenon DEF Start, Exit, vars, netVars, heapVars, receiverVars, workerVars, cleanerVars
<1>2. (rpc = "start" /\ rpc' = "recv") \/ UNCHANGED <<rpc, rpkt>>
  BY Zenon DEF Start, Exit, vars, receiverVars
<1>3. \A p \in Ptr : InTable(p)' <=> InTable(p)
  BY <1>1, Zenon DEF InTable
<1>4. ReceiverInv'
  BY <1>1, <1>2, <1>3 DEF ReceiverInv, Busy
<1>5. ObjInv' /\ Disjoint'
  BY <1>1, <1>2 DEF ObjInv, Whole, Disjoint
<1>6. TableInv' /\ CleanerInv'
  BY <1>1, <1>2 DEF TableInv, CleanerInv, Expired
<1>7. WorkerInv'
  BY <1>1, <1>3 DEF WorkerInv
<1>8. CountInv'
  BY <1>1, <1>2 DEF CountInv
<1>9. ServedInv'
  BY <1>1, <1>3 DEF ServedInv, WorksOn, Expired
<1>. QED  BY <1>1, <1>4, <1>5, <1>6, <1>7, <1>8, <1>9

\* Nothing that a thread is about to touch has been freed.
LEMMA NoCrash ==
  ASSUME Benign, IInv
  PROVE  ~ (Crash \/ ReceiveEmpty \/ FreeTable)
<1> USE DEF IInv
<1>1. ~ TableFreed /\ ~ FreeTable /\ ~ ReceiveEmpty
  BY Zenon DEF TableFreed, FreeTable, ReceiveEmpty, Benign, ReceiverInv
<1>2. \A p \in Ptr : AboutToTouch(p) => live[p]
  BY SystemAssumption DEF AboutToTouch, ReceiverInv, Busy, WorkerInv, CleanerInv, TableInv, InTable
<1>. QED  BY <1>1, <1>2, Zenon DEF Crash

\* The invariant is inductive.
LEMMA InvNext == Benign /\ IInv /\ [Next]_vars => IInv'
<1> SUFFICES ASSUME Benign, IInv, [Next]_vars PROVE IInv'
  OBVIOUS
<1>1. TypeOK'
  BY TypeNext, Zenon DEF IInv, TypeInv, ReceiverInv, Busy
<1>2. CASE \E pkt \in Packet :
             ReceiveRaw(pkt) \/ ReceiveNoId(pkt) \/ ReceiveFirst(pkt) \/ ReceiveNext(pkt)
  BY <1>1, <1>2, InvReceiveRaw, InvReceiveNoId, InvReceiveFirst, InvReceiveNext, Zenon
<1>3. CASE ReceiverStep \/ ReceiveEmpty
  BY Zenon, <1>1, <1>3, InvPut, InvParse, InvParseDiscard, InvSwitchReceived, InvSwitchOther,
     InvRemoveFailed, InvFreeFailed, NoCrash DEF ReceiverStep
<1>4. CASE \E w \in Worker : WorkerNext(w)
  BY <1>1, <1>4, InvWorkerEarly, InvSend, InvRemoveProcessed, InvFreeProcessed, Zenon DEF WorkerNext
<1>5. CASE CleanerStep
  BY <1>1, <1>5, InvCollect, InvReadExpiredId, InvRemoveExpired, Zenon DEF CleanerStep
<1>6. CASE Tick
  BY <1>1, <1>6, InvTick, Zenon
<1>7. CASE Start \/ Exit \/ Crash \/ Terminated \/ UNCHANGED vars
  BY <1>1, <1>7, InvFrame, NoCrash, Zenon DEF Terminated
<1>. QED  BY <1>2, <1>3, <1>4, <1>5, <1>6, <1>7, Zenon DEF Next

\* The invariant holds when the proxy starts.
LEMMA InvInit == Benign /\ Init => IInv
<1> SUFFICES ASSUME Benign, Init PROVE IInv
  OBVIOUS
<1>1. TypeOK
  BY TypeInit, Zenon DEF TypeInv
<1>2. /\ dups = 0 /\ ~ misuse /\ rpc = "start" /\ rptr = NULL /\ cpc = "sleep" /\ cptrs = {}
      /\ \A p \in Ptr : ~ live[p]
      /\ \A i \in Id : table[i] = NULL
      /\ \A w \in Worker : wpc[w] = "idle"
      /\ \A m \in Msg : forwarded[m] = 0
  BY Zenon DEF Init, Benign
<1>. QED  BY <1>1, <1>2, Zenon
          DEF IInv, ReceiverInv, Busy, ObjInv, Disjoint, TableInv, WorkerInv, CleanerInv, CountInv, ServedInv

-----------------------------------------------------------------------------
(***************************************************************************)
(* The theorems.                                                           *)
(***************************************************************************)

\* In a benign environment the inductive invariant always holds.
THEOREM Invariance ==
  ASSUME Benign
  PROVE  Spec => []IInv
<1>1. Init => IInv
  BY InvInit, Zenon
<1>2. IInv /\ [Next]_vars => IInv'
  BY InvNext, Zenon
<1>. QED  BY <1>1, <1>2, PTL DEF Spec

\* In a benign environment no thread uses memory after it was freed: the
\* pointers that leave the mutex of the table (server.c:151, 188, 313) always
\* point to allocated requests.
THEOREM MemorySafety ==
  ASSUME Benign
  PROVE  Spec => []MemorySafe
<1>1. IInv => MemorySafe
  BY Zenon DEF IInv, MemorySafe
<1>. QED  BY <1>1, Invariance, PTL

\* In a benign environment the only requests lost without being freed are the
\* expired ones that the cleanup thread removes (server.c:319-322).
THEOREM LeakBound ==
  ASSUME Benign
  PROVE  Spec => []OnlyExpiredLeak
<1>1. IInv => OnlyExpiredLeak
  BY Zenon DEF IInv, OnlyExpiredLeak, ServedInv, Reachable
<1>. QED  BY <1>1, Invariance, PTL

\* In a benign environment a worker shares its request with no thread, and
\* what it takes out of the table at server.c:255 is its own request.
THEOREM Ownership ==
  ASSUME Benign
  PROVE  Spec => []SoleOwner
<1>1. ASSUME IInv PROVE SoleOwner
  <2> SUFFICES ASSUME NEW w \in Worker, wpc[w] # "idle"
               PROVE  /\ rptr # wptr[w]
                      /\ \A v \in Worker : WorksOn(v, wptr[w]) => v = w
                      /\ \A i \in Id : wpc[w] # "free" =>
                           (table[i] = wptr[w] <=> i = obj[wptr[w]].request_id)
    BY Zenon DEF SoleOwner
  <2>1. /\ rptr # wptr[w] /\ wptr[w] \in Ptr
        /\ \A v \in Worker : WorksOn(v, wptr[w]) => v = w
        /\ wpc[w] # "free" /\ obj[wptr[w]].request_id # 0 =>
             table[obj[wptr[w]].request_id] = wptr[w]
    BY <1>1, Zenon DEF IInv, WorkerInv, WorksOn
  <2>2. \A i \in Id : table[i] = wptr[w] => obj[wptr[w]].request_id = i
    BY <1>1, <2>1, SystemAssumption, ZenonT(60) DEF IInv, TableInv
  <2>3. \A i \in Id : i # 0
    BY IdNonZero, Zenon
  <2>. QED  BY <2>1, <2>2, <2>3, Zenon
<1>. QED  BY <1>1, Invariance, PTL

\* In a benign environment a worker processes exactly the packets of one
\* message, in spite of loss and reordering.
THEOREM Reassembly ==
  ASSUME Benign
  PROVE  Spec => []WholeMessage
<1>1. IInv => WholeMessage
  BY DEF IInv, WholeMessage, WorkerInv, ObjInv, Whole
<1>. QED  BY <1>1, Invariance, PTL

\* In a benign environment no message is forwarded twice.
THEOREM ForwardedOnce ==
  ASSUME Benign
  PROVE  Spec => []AtMostOnce
<1>1. ASSUME IInv PROVE AtMostOnce
  <2>1. \A m \in Msg : forwarded[m] = 0 \/ forwarded[m] = 1
    BY <1>1, Zenon DEF IInv, CountInv
  <2>. QED  BY <2>1 DEF AtMostOnce
<1>. QED  BY <1>1, Invariance, PTL

\* In a benign environment a request in the table that is past RECEIVING, and
\* which the cleanup thread therefore skips, is in the hands of a thread that
\* removes it.
THEOREM Served ==
  ASSUME Benign
  PROVE  Spec => []CompletedIsServed
<1>1. ASSUME IInv PROVE CompletedIsServed
  <2>1. \A i \in Id : table[i] # NULL => table[i] \in Ptr /\ live[table[i]]
    BY <1>1 DEF IInv, TypeOK, TableInv
  <2>. QED  BY <1>1, <2>1, Zenon DEF IInv, ServedInv, CompletedIsServed
<1>. QED  BY <1>1, Invariance, PTL

\* In a benign environment the cleanup thread removes only partial requests
\* from the table, although it removes them after releasing the mutex under
\* which it selected them.
THEOREM CleanupIsSafe ==
  ASSUME Benign
  PROVE  Spec => CleanerRemovesOnlyPartial
<1>1. ASSUME IInv, RemoveExpired, NEW i \in Id, table[i] # NULL, table'[i] = NULL
      PROVE  obj[table[i]].state = "RECEIVING"
  BY <1>1, Zenon DEF RemoveExpired, IInv, CleanerInv, Expired
<1>2. IInv /\ [Next]_vars =>
        [RemoveExpired => \A i \in Id :
           table[i] # NULL /\ table'[i] = NULL => obj[table[i]].state = "RECEIVING"]_vars
  BY <1>1, Zenon
<1>. QED  BY <1>2, Invariance, PTL DEF Spec, CleanerRemovesOnlyPartial

-----------------------------------------------------------------------------
(***************************************************************************)
(* Isolation of clients, in any environment.                               *)
(***************************************************************************)

\* Parsing adds at most the packet, and leaves the source alone.
LEMMA ParsePayload ==
  ASSUME NEW r \in Request, NEW pkt \in Packet
  PROVE  LET q == ff_request_parse_chunk(r, pkt)
         IN  q.source = r.source /\ q.payload \subseteq r.payload \cup {pkt}
<1>1. /\ LoadHeader(r, pkt).source = r.source
      /\ LoadHeader(r, pkt).payload = r.payload
      /\ LoadHeader(r, pkt) \in Request
  <2>1. pkt.msg \in Msg
    BY PacketMsg, Zenon
  <2>. QED  BY <2>1, IdNonZero, MsgAssumption, Zenon DEF LoadHeader, Request, FF_VERSION_1
<1>2. ASSUME NEW h \in Request
      PROVE  /\ ff_request_parse_data_chunk(h, pkt).source = h.source
             /\ ff_request_parse_data_chunk(h, pkt).payload \subseteq h.payload \cup {pkt}
  BY Zenon DEF ff_request_parse_data_chunk, Request
<1>3. /\ ff_request_parse_raw_http(r, pkt).source = r.source
      /\ ff_request_parse_raw_http(r, pkt).payload \subseteq {pkt}
  BY Zenon DEF ff_request_parse_raw_http, Request
<1>. QED  BY <1>1, <1>2, <1>3, Zenon DEF ff_request_parse_chunk

\* Whatever the environment does, duplicates, clashing ids and memory used
\* after it was freed included, the source check of server.c:161 keeps the
\* packets of two sources out of each other's requests.
THEOREM Isolation == Spec => []SourceIsolation
<1> DEFINE Clean(r) == r.source # NULL => \A pkt \in r.payload : SourceOf[pkt.msg] = r.source
<1>1. Init => SourceIsolation
  BY DEF Init, SourceIsolation, ff_request_alloc
<1>2. TypeInv /\ SourceIsolation /\ [Next]_vars => SourceIsolation'
  <2> SUFFICES ASSUME TypeInv, SourceIsolation, [Next]_vars PROVE SourceIsolation'
    OBVIOUS
  <2>1. \A p \in Ptr : Clean(obj[p])
    BY Zenon DEF SourceIsolation
  <2> SUFFICES \A p \in Ptr : Clean(obj'[p])
    BY Zenon DEF SourceIsolation
  <2>2. ASSUME NEW pkt \in Packet, ReceiveRaw(pkt)
        PROVE  \A p \in Ptr : Clean(obj'[p])
    <3>1. PICK p \in Ptr : Alloc(p, ff_request_parse_chunk(ff_request_alloc, pkt))
      BY <2>2, Zenon DEF ReceiveRaw
    <3>2. ff_request_parse_chunk(ff_request_alloc, pkt).source = NULL
      BY AllocType, ParsePayload, Zenon DEF ff_request_alloc
    <3>. QED  BY <2>1, <3>1, <3>2, Zenon DEF Alloc, TypeInv, TypeOK
  <2>3. ASSUME NEW pkt \in Packet, ReceiveFirst(pkt)
        PROVE  \A p \in Ptr : Clean(obj'[p])
    <3>1. PICK p \in Ptr : Alloc(p, [ff_request_alloc EXCEPT !.source = SourceOf[pkt.msg]])
      BY <2>3, Zenon DEF ReceiveFirst
    <3>. QED  BY <2>1, <3>1, Zenon DEF Alloc, TypeInv, TypeOK, ff_request_alloc
  <2>4. ASSUME Parse
        PROVE  \A p \in Ptr : Clean(obj'[p])
    <3>1. CASE obj' = obj
      BY <2>1, <3>1, Zenon
    <3>2. CASE /\ obj' = [obj EXCEPT ![rptr] = ff_request_parse_chunk(obj[rptr], rpkt)]
               /\ rptr \in Ptr /\ rpkt \in Packet /\ obj[rptr].source = SourceOf[rpkt.msg]
      <4>1. Clean(ff_request_parse_chunk(obj[rptr], rpkt))
        BY <2>1, <3>2, ParsePayload DEF TypeInv, TypeOK
      <4>. QED  BY <2>1, <3>2, <4>1, Zenon DEF TypeInv, TypeOK
    <3>. QED  BY <2>4, <3>1, <3>2 DEF Parse, TypeInv, TypeOK
  <2>5. ASSUME \A p \in Ptr : obj'[p].source = obj[p].source /\ obj'[p].payload = obj[p].payload
        PROVE  \A p \in Ptr : Clean(obj'[p])
    BY <2>1, <2>5, Zenon
  <2>6. ASSUME NEW w \in Worker, WorkerNext(w)
        PROVE  \A p \in Ptr : obj'[p].source = obj[p].source /\ obj'[p].payload = obj[p].payload
    <3>1. ASSUME NEW st, SetState(wptr[w], st)
          PROVE  \A p \in Ptr : obj'[p].source = obj[p].source /\ obj'[p].payload = obj[p].payload
      BY <3>1, Zenon DEF SetState, TypeInv, TypeOK, Request
    <3>. QED  BY <2>6, <3>1, Zenon DEF WorkerNext, Decrypt, ParseOptions, CheckTimestamp, Send, GiveUp,
                                RemoveProcessed, FreeProcessed, Free, heapVars
  <2>7. ASSUME Tick
        PROVE  \A p \in Ptr : obj'[p].source = obj[p].source /\ obj'[p].payload = obj[p].payload
    BY <2>7 DEF Tick, TypeInv, TypeOK, Request
  <2>8. CASE obj' = obj
    BY <2>1, <2>8, Zenon
  <2>9. \/ \E pkt \in Packet : ReceiveRaw(pkt) \/ ReceiveFirst(pkt)
        \/ Parse \/ Tick \/ (\E w \in Worker : WorkerNext(w)) \/ obj' = obj
    BY Zenon DEF Next, ReceiveNoId, ReceiveNext, ReceiverStep, Put, Switch, RemoveFailed, FreeFailed, Free,
           FreeTable, ReceiveEmpty, CleanerStep, Collect, ReadExpiredId, RemoveExpired, Sleep, Start,
           Exit, Crash, Terminated, heapVars, vars
  <2> HIDE DEF Clean
  <2>. QED  BY <2>2, <2>3, <2>4, <2>5, <2>6, <2>7, <2>8, <2>9, Zenon
<1>. QED  BY <1>1, <1>2, TypeInit, TypeNext, PTL DEF Spec

=============================================================================
