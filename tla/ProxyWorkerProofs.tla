------------------------- MODULE ProxyWorkerProofs --------------------------
(***************************************************************************)
(* The steps of the workers and of the cleanup thread preserve the invariant. *)
(***************************************************************************)
EXTENDS ProxyInvariant

-----------------------------------------------------------------------------
(***************************************************************************)
(* The steps of a worker preserve the invariant.  Up to its cleanup it     *)
(* only advances and writes the state of its own request.                  *)
(***************************************************************************)

\* A worker that only writes the state of its request keeps the invariant.
LEMMA InvWorkerState ==
  ASSUME IInv, TypeOK', NEW w \in Worker,
         wpc[w] \in {"decrypt", "options", "timestamp", "send"},
         NEW to \in {"options", "timestamp", "send", "remove"},
         wpc' = [wpc EXCEPT ![w] = to],
         obj' = obj \/ \E st \in WorkerStates : SetState(wptr[w], st),
         Touch(wptr[w]),
         UNCHANGED <<netVars, live, table, receiverVars, wptr, cleanerVars>>
  PROVE  /\ dups' = 0 /\ ~ misuse'
         /\ ReceiverInv' /\ ObjInv' /\ Disjoint' /\ TableInv'
         /\ WorkerInv' /\ CleanerInv' /\ ServedInv'
         /\ forwarded' = forwarded => CountInv'
<1> DEFINE p == wptr[w]
<1> USE DEF IInv
<1>1. /\ p \in Ptr /\ live[p] /\ p # rptr
      /\ obj[p].state \notin {"RECEIVING", "RECEIVING_FAIL"}
  BY Zenon DEF WorkerInv
<1>2. UNCHANGED <<net, dups, live, table, rpc, rpkt, rptr, wptr, cpc, cptrs, cid>>
  BY Zenon DEF netVars, receiverVars, cleanerVars
<1>3. dups' = 0 /\ ~ misuse'
  BY <1>1, <1>2, Zenon DEF Touch
<1>4. /\ \A q \in Ptr : q # p => obj'[q] = obj[q]
      /\ obj'[p].state \notin {"RECEIVING", "RECEIVING_FAIL"}
      /\ obj'[p].version = obj[p].version /\ obj'[p].request_id = obj[p].request_id
      /\ obj'[p].payload = obj[p].payload /\ obj'[p].payload_length = obj[p].payload_length
      /\ obj'[p].age = obj[p].age
  BY <1>1 DEF SetState, TypeOK, Request, WorkerStates
<1>5. /\ \A v \in Worker : v # w => wpc'[v] = wpc[v]
      /\ wpc'[w] = to
  BY Zenon DEF TypeOK
<1>6. \A q \in Ptr : InTable(q)' <=> InTable(q)
  BY <1>2, Zenon DEF InTable
<1>7. \A q \in Ptr : q # p => (Expired(q)' <=> Expired(q))
  BY <1>4, Zenon DEF Expired
<1> HIDE DEF p
<1>8. ReceiverInv'
  BY <1>1, <1>2, <1>4, <1>6, Zenon DEF ReceiverInv, Busy
<1>9. ObjInv'
  BY <1>1, <1>2, <1>4 DEF ObjInv, Whole
<1>10. Disjoint'
  BY <1>2, <1>4, Zenon DEF Disjoint
<1>11. TableInv'
  BY <1>1, <1>2, <1>4 DEF TableInv, TypeOK
<1>12. WorkerInv'
  BY <1>1, <1>2, <1>4, <1>5, <1>6 DEF WorkerInv, p
<1>13. CleanerInv'
  <2>1. p \notin cptrs /\ (cpc = "remove" => table[cid] # p)
    BY <1>1, Zenon DEF CleanerInv, Expired
  <2>. QED  BY <1>2, <1>4, <1>7, <2>1 DEF CleanerInv, TypeOK
<1>14. ServedInv'
  BY <1>1, <1>2, <1>4, <1>5, <1>6, <1>7 DEF ServedInv, WorksOn, p
<1>15. forwarded' = forwarded => CountInv'
  BY <1>1, <1>2, <1>4, <1>5 DEF CountInv
<1>. QED  BY <1>3, <1>8, <1>9, <1>10, <1>11, <1>12, <1>13, <1>14, <1>15, Zenon

\* Decryption, options, timestamp check and giving up are such steps.
LEMMA InvWorkerEarly ==
  ASSUME IInv, TypeOK', NEW w \in Worker,
         Decrypt(w) \/ ParseOptions(w) \/ CheckTimestamp(w) \/ GiveUp(w)
  PROVE  IInv'
<1>1. /\ wpc[w] \in {"decrypt", "options", "timestamp", "send"}
      /\ \E to \in {"options", "timestamp", "send", "remove"} : wpc' = [wpc EXCEPT ![w] = to]
      /\ Touch(wptr[w])
      /\ UNCHANGED <<netVars, live, table, receiverVars, wptr, cleanerVars, forwarded>>
  BY Zenon DEF Decrypt, ParseOptions, CheckTimestamp, GiveUp, WorkerStep, heapVars
<1>2. obj' = obj \/ \E st \in WorkerStates : SetState(wptr[w], st)
  BY Zenon DEF Decrypt, ParseOptions, CheckTimestamp, GiveUp, heapVars, WorkerStates
<1>. QED  BY <1>1, <1>2, InvWorkerState, Zenon DEF IInv

\* The message is sent for the first time, and nothing of it is left that
\* could make up a second request.
LEMMA InvSend ==
  ASSUME IInv, TypeOK', NEW w \in Worker, Send(w)
  PROVE  IInv'
<1> DEFINE p == wptr[w]
<1> USE DEF IInv
<1>1. /\ wpc[w] = "send"
      /\ wpc' = [wpc EXCEPT ![w] = "remove"]
      /\ SetState(p, "SENT") /\ Touch(p)
      /\ UNCHANGED <<netVars, live, table, receiverVars, wptr, cleanerVars>>
  BY Zenon DEF Send, WorkerStep
<1>2. /\ dups' = 0 /\ ~ misuse'
      /\ ReceiverInv' /\ ObjInv' /\ Disjoint' /\ TableInv'
      /\ WorkerInv' /\ CleanerInv' /\ ServedInv'
      /\ forwarded' = forwarded => CountInv'
  <2>1. \E st \in WorkerStates : SetState(wptr[w], st)
    BY <1>1, Zenon DEF WorkerStates
  <2>. QED  BY <1>1, <2>1, InvWorkerState, Zenon
<1>3. /\ p \in Ptr /\ live[p]
      /\ obj[p].state \notin {"RECEIVING", "RECEIVING_FAIL"}
      /\ \A v \in Worker : v # w /\ wpc[v] # "idle" => wptr[v] # p
  BY <1>1, Zenon DEF WorkerInv
<1>4. PICK n \in Msg : obj[p].payload = PacketsOf(n)
  BY <1>3, Zenon DEF ObjInv, Whole
<1>5. forwarded[n] = 0
  <2>1. \E pkt \in obj[p].payload : pkt.msg = n
    BY <1>4, PacketMsg
  <2>2. ~ \E v \in Worker : wpc[v] \in {"remove", "free"} /\ wptr[v] = p
    BY <1>1, <1>3, Zenon
  <2>. QED  BY <1>3, <2>1, <2>2, Zenon DEF CountInv
<1>6. forwarded' = [forwarded EXCEPT ![n] = 1]
  <2>1. \A m \in Msg : (\E pkt \in obj[p].payload : pkt.msg = m) <=> m = n
    BY <1>4, PacketMsg
  <2>2. forwarded' = [m \in Msg |-> IF forwarded[m] < MaxForwards
                                      /\ (\E pkt \in obj[p].payload : pkt.msg = m)
                                   THEN forwarded[m] + 1 ELSE forwarded[m]]
    BY Zenon DEF Send
  <2> HIDE DEF p
  <2>3. \A m \in Msg : forwarded'[m] = IF m = n THEN 1 ELSE forwarded[m]
    BY <1>5, <2>1, <2>2 DEF MaxForwards
  <2>. QED  BY <2>2, <2>3, Zenon DEF TypeOK
<1>7. /\ PacketsOf(n) \cap net = {}
      /\ rpc \in {"put", "parse"} => rpkt.msg # n
      /\ \A q \in Ptr : live[q] /\ (\E pkt \in obj[q].payload : pkt.msg = n) => q = p
  <2>1. PacketsOf(n) \cap net = {}
    BY <1>3, <1>4, Zenon DEF ObjInv
  <2>2. rpc \in {"put", "parse"} => rpkt.msg # n
    BY <1>3, <1>4, PacketMsg DEF ReceiverInv, Busy
  <2>3. \A q \in Ptr : \A pkt \in obj[q].payload : pkt \in PacketsOf(pkt.msg)
    BY PacketMsg, Zenon DEF TypeOK, Request
  <2>. QED  BY <1>3, <1>4, <2>1, <2>2, <2>3, Zenon DEF Disjoint
<1>8. CountInv'
  <2>1. \A q \in Ptr : obj'[q].payload = obj[q].payload
    BY <1>1, Zenon DEF SetState, TypeOK, Request
  <2>2. /\ wpc'[w] = "remove" /\ \A v \in Worker : v # w => wpc'[v] = wpc[v]
        /\ UNCHANGED <<net, live, rpc, rpkt, wptr>>
    BY <1>1, Zenon DEF TypeOK, netVars, receiverVars
  <2>3. /\ forwarded'[n] = 1 /\ \A m \in Msg : m # n => forwarded'[m] = forwarded[m]
    BY <1>6, Zenon DEF TypeOK
  <2>4. \A m \in Msg : m # n => (forwarded'[m] # 0 =>
          \A q \in Ptr : live[q] /\ (\E pkt \in obj[q].payload : pkt.msg = m) =>
            \E v \in Worker : wpc[v] \in {"remove", "free"} /\ wptr[v] = q /\ v # w)
    BY <1>1, <2>3 DEF CountInv
  <2> HIDE DEF p
  <2>5. ASSUME NEW m \in Msg, m # n, forwarded'[m] # 0
        PROVE  /\ forwarded'[m] = 1
               /\ PacketsOf(m) \cap net = {}
               /\ rpc \in {"put", "parse"} => rpkt.msg # m
    BY <2>3, <2>5, Zenon DEF CountInv
  <2>. QED  BY <1>7, <2>1, <2>2, <2>3, <2>4, <2>5 DEF CountInv, p
<1>. QED  BY <1>2, <1>8, Zenon

\* The worker's removal takes out its own request.
LEMMA InvRemoveProcessed ==
  ASSUME IInv, TypeOK', NEW w \in Worker, RemoveProcessed(w)
  PROVE  IInv'
<1> DEFINE p == wptr[w]
<1> USE DEF IInv
<1>1. /\ wpc[w] = "remove" /\ wpc' = [wpc EXCEPT ![w] = "free"]
      /\ UNCHANGED <<net, dups, live, obj, rpc, rpkt, rptr, wptr, cpc, cptrs, cid, forwarded>>
      /\ table' = [i \in Id |-> IF i = obj[p].request_id THEN NULL ELSE table[i]]
  BY Zenon DEF RemoveProcessed, WorkerStep, netVars, receiverVars, cleanerVars, heapVars
<1>2. /\ p \in Ptr /\ live[p] /\ p # rptr
      /\ obj[p].state \notin {"RECEIVING", "RECEIVING_FAIL"}
      /\ \A v \in Worker : v # w /\ wpc[v] # "idle" => wptr[v] # p
      /\ obj[p].request_id # 0 => table[obj[p].request_id] = p
  BY <1>1, Zenon DEF WorkerInv
<1>3. ~ misuse'
  BY <1>2, Zenon DEF RemoveProcessed, TableFreed, ReceiverInv
<1>4. /\ wpc'[w] = "free" /\ \A v \in Worker : v # w => wpc'[v] = wpc[v]
  BY <1>1, Zenon DEF TypeOK
<1>5. \A i \in Id : table'[i] = IF table[i] = p THEN NULL ELSE table[i]
  <2>1. \A i \in Id : i # 0
    BY IdNonZero, Zenon
  <2>2. \A i \in Id : table[i] = p => i = obj[p].request_id
    BY <1>2, SystemAssumption, Zenon DEF TableInv
  <2> HIDE DEF p
  <2>. QED  BY <1>1, <1>2, <2>1, <2>2, Zenon
<1>6. p # NULL
  BY <1>2, SystemAssumption, Zenon
<1>7. ~ InTable(p)' /\ \A q \in Ptr : q # p => (InTable(q)' <=> InTable(q))
  BY <1>1, <1>5, <1>6, SystemAssumption, Zenon DEF InTable
<1>8. p \notin cptrs /\ (cpc = "remove" => table[cid] # p)
  BY <1>2, Zenon DEF CleanerInv, Expired
<1> HIDE DEF p
<1>9. \A m \in Msg : IdOf[m] # 0 => IdOf[m] \in Id
  BY IdNonZero, Zenon
<1>10. ReceiverInv'
  BY <1>1, <1>2, <1>5, <1>7, <1>9, PacketMsg, Zenon DEF ReceiverInv, Busy
<1>11. ObjInv' /\ Disjoint'
  BY <1>1, Zenon DEF ObjInv, Whole, Disjoint
<1>12. TableInv'
  BY <1>1, <1>5, Zenon DEF TableInv
<1>13. WorkerInv'
  <2>1. \A q \in Ptr : obj[q].request_id \in Id \cup {0}
    BY Zenon DEF TypeOK, Request
  <2>. QED  BY <1>1, <1>2, <1>4, <1>5, <1>7, <2>1 DEF WorkerInv, p
<1>14. CleanerInv'
  BY <1>1, <1>5, <1>8 DEF CleanerInv, Expired, TypeOK
<1>15. CountInv'
  BY <1>1, <1>4 DEF CountInv
<1>16. ServedInv'
  BY <1>1, <1>4, <1>7, Zenon DEF ServedInv, WorksOn, Expired, p
<1>. QED  BY <1>1, <1>3, <1>10, <1>11, <1>12, <1>13, <1>14, <1>15, <1>16, Zenon

\* When a worker frees its request nobody else refers to it.
LEMMA InvFreeProcessed ==
  ASSUME IInv, TypeOK', NEW w \in Worker, FreeProcessed(w)
  PROVE  IInv'
<1> DEFINE p == wptr[w]
<1> USE DEF IInv
<1>1. /\ wpc[w] = "free" /\ wpc' = [wpc EXCEPT ![w] = "idle"]
      /\ wptr' = [wptr EXCEPT ![w] = NULL]
      /\ UNCHANGED <<net, dups, obj, table, rpc, rpkt, rptr, cpc, cptrs, cid, forwarded>>
      /\ live' = [live EXCEPT ![p] = FALSE]
      /\ Touch(p)
  BY Zenon DEF FreeProcessed, Free, WorkerStep, netVars, receiverVars, cleanerVars
<1>2. /\ p \in Ptr /\ live[p] /\ p # rptr /\ ~ InTable(p)
      /\ obj[p].state \notin {"RECEIVING", "RECEIVING_FAIL"}
      /\ \A v \in Worker : v # w /\ wpc[v] # "idle" => wptr[v] # p
  BY <1>1, Zenon DEF WorkerInv
<1>3. ~ misuse'
  BY <1>1, <1>2, Zenon DEF Touch
<1>4. /\ wpc'[w] = "idle"
      /\ \A v \in Worker : v # w => wpc'[v] = wpc[v] /\ wptr'[v] = wptr[v]
      /\ ~ live'[p] /\ \A q \in Ptr : q # p => live'[q] = live[q]
  BY <1>1, <1>2, Zenon DEF TypeOK
<1>5. \A q \in Ptr : InTable(q)' <=> InTable(q)
  BY <1>1, Zenon DEF InTable
<1>6. p \notin cptrs /\ (cpc = "remove" => table[cid] # p)
  BY <1>2, Zenon DEF CleanerInv, Expired
<1>7. \A i \in Id : table[i] # p
  BY <1>2, Zenon DEF InTable
<1> HIDE DEF p
<1>8. ReceiverInv'
  BY <1>1, <1>2, <1>4, <1>5, ZenonT(60) DEF ReceiverInv, Busy
<1>9. ObjInv' /\ Disjoint'
  BY <1>1, <1>4, ZenonT(60) DEF ObjInv, Whole, Disjoint
<1>10. TableInv'
  BY <1>1, <1>4, <1>7 DEF TableInv, TypeOK
<1>11. WorkerInv'
  BY <1>1, <1>2, <1>4, <1>5 DEF WorkerInv
<1>12. CleanerInv'
  BY <1>1, <1>4, <1>6 DEF CleanerInv, Expired, TypeOK
<1>13. CountInv'
  BY <1>1, <1>4 DEF CountInv, p
<1>14. ServedInv'
  BY <1>1, <1>4, <1>5 DEF ServedInv, WorksOn, Expired, p
<1>. QED  BY <1>1, <1>3, <1>8, <1>9, <1>10, <1>11, <1>12, <1>13, <1>14, Zenon

-----------------------------------------------------------------------------
(***************************************************************************)
(* The steps of the cleanup thread preserve the invariant.                 *)
(***************************************************************************)

\* A step that changes the cleanup thread's own variables only keeps what the
\* invariant says about the others.
LEMMA CleanerFrame ==
  ASSUME IInv,
         UNCHANGED <<net, live, obj, table, rpc, rpkt, rptr, wpc, wptr, forwarded>>
  PROVE  /\ ReceiverInv' /\ ObjInv' /\ Disjoint' /\ TableInv' /\ WorkerInv'
         /\ CountInv' /\ ServedInv'
<1> USE DEF IInv
<1>1. \A p \in Ptr : InTable(p)' <=> InTable(p)
  BY Zenon DEF InTable
<1>2. ReceiverInv'
  BY <1>1 DEF ReceiverInv, Busy
<1>3. ObjInv'
  BY DEF ObjInv, Whole
<1>4. Disjoint' /\ TableInv'
  BY DEF Disjoint, TableInv
<1>5. WorkerInv'
  BY <1>1 DEF WorkerInv
<1>6. CountInv'
  BY DEF CountInv
<1>7. ServedInv'
  BY <1>1 DEF ServedInv, WorksOn, Expired
<1>. QED  BY <1>2, <1>3, <1>4, <1>5, <1>6, <1>7, Zenon

\* The requests collected are in nobody's hands: the receiver's is too young
\* and a worker's is complete.
LEMMA InvCollect ==
  ASSUME IInv, TypeOK', Collect
  PROVE  IInv'
<1> USE DEF IInv
<1>1. /\ UNCHANGED <<net, dups, live, obj, table, rpc, rpkt, rptr, wpc, wptr, cid, forwarded>>
      /\ cptrs' = {p \in Ptr : InTable(p) /\ Expired(p)} /\ cpc' = "next"
  BY Zenon DEF Collect, netVars, heapVars, receiverVars, workerVars
<1>2. ~ misuse'
  <2>1. \A p \in Ptr : InTable(p) => live[p]
    BY SystemAssumption, Zenon DEF InTable, TableInv
  <2>. QED  BY <2>1, Zenon DEF Collect, TableFreed, ReceiverInv
<1>3. ASSUME NEW p \in Ptr, InTable(p), Expired(p)
      PROVE  /\ live[p] /\ obj[p].version = FF_VERSION_1
             /\ obj[p].request_id \in Id /\ table[obj[p].request_id] = p
  <2>1. PICK i \in Id : table[i] = p
    BY <1>3, Zenon DEF InTable
  <2>2. ~ (Busy /\ p = rptr)
    <3>1. obj[p].age \in Int /\ Threshold \in Int
      BY SystemAssumption DEF TypeOK, Request
    <3>. QED  BY <1>3, <3>1 DEF ReceiverInv, Expired
  <2>3. live[p] /\ obj[p].request_id = i
    BY <2>1, <2>2, SystemAssumption, Zenon DEF TableInv, Busy
  <2>4. obj[p].version \in {0, FF_VERSION_RAW, FF_VERSION_1}
    BY Zenon DEF TypeOK, Request
  <2>5. obj[p].version = FF_VERSION_1
    BY <1>3, <2>2, <2>3, <2>4, Zenon DEF ObjInv, Expired, Busy
  <2>. QED  BY <2>1, <2>3, <2>5, Zenon
<1>4. CleanerInv'
  BY <1>1, <1>3, Zenon DEF CleanerInv, Expired
<1>5. /\ ReceiverInv' /\ ObjInv' /\ Disjoint' /\ TableInv' /\ WorkerInv' /\ CountInv' /\ ServedInv'
  BY <1>1, CleanerFrame, Zenon
<1>. QED  BY <1>1, <1>2, <1>4, <1>5, Zenon

\* The cleanup thread reads the id of a request nobody has freed.
LEMMA InvReadExpiredId ==
  ASSUME IInv, TypeOK', ReadExpiredId \/ Sleep
  PROVE  IInv'
<1> USE DEF IInv
<1>1. UNCHANGED <<net, dups, live, obj, table, rpc, rpkt, rptr, wpc, wptr, forwarded>>
  BY Zenon DEF ReadExpiredId, Sleep, netVars, heapVars, receiverVars, workerVars
<1>2. ~ misuse' /\ CleanerInv'
  <2>1. CASE Sleep
    BY <1>1, <2>1, Zenon DEF Sleep, CleanerInv, Expired
  <2>2. CASE ReadExpiredId
    <3>1. PICK p \in cptrs : Touch(p) /\ cid' = obj[p].request_id /\ cptrs' = cptrs \ {p}
      BY <2>2, Zenon DEF ReadExpiredId
    <3>. QED  BY <1>1, <3>1 DEF CleanerInv, Expired, Touch, TypeOK
  <2>. QED  BY <2>1, <2>2, Zenon
<1>3. /\ ReceiverInv' /\ ObjInv' /\ Disjoint' /\ TableInv' /\ WorkerInv' /\ CountInv' /\ ServedInv'
  BY <1>1, CleanerFrame, Zenon
<1>. QED  BY <1>1, <1>2, <1>3, Zenon

\* The entry the cleanup thread removes is the one it collected.
LEMMA InvRemoveExpired ==
  ASSUME IInv, TypeOK', RemoveExpired
  PROVE  IInv'
<1> DEFINE q == table[cid]
<1> USE DEF IInv
<1>1. /\ UNCHANGED <<net, dups, live, obj, rpc, rpkt, rptr, wpc, wptr, cptrs, forwarded>>
      /\ cpc = "remove" /\ cpc' = "next"
      /\ table' = [i \in Id |-> IF i = cid THEN NULL ELSE table[i]]
  BY Zenon DEF RemoveExpired, netVars, heapVars, receiverVars, workerVars
<1>2. ~ misuse'
  BY Zenon DEF RemoveExpired, TouchTable, TableFreed, ReceiverInv
<1>3. cid \in Id /\ q \in Ptr /\ q \notin cptrs /\ Expired(q)
  BY <1>1, Zenon DEF CleanerInv
<1>4. ~ (Busy /\ q = rptr)
  <2>1. obj[q].age \in Int /\ Threshold \in Int
    BY <1>3, SystemAssumption DEF TypeOK, Request
  <2>. QED  BY <1>3, <2>1 DEF ReceiverInv, Expired
<1>5. \A w \in Worker : wpc[w] # "idle" => wptr[w] # q
  BY <1>3, Zenon DEF WorkerInv, Expired
<1>6. \A i \in Id : table'[i] = IF i = cid THEN NULL ELSE table[i]
  BY <1>1, Zenon
<1>7. \A p \in Ptr : InTable(p)' => InTable(p)
  BY <1>6, SystemAssumption, Zenon DEF InTable
<1>8. \A p \in Ptr : InTable(p) => InTable(p)' \/ p = q
  BY <1>1, <1>6, Zenon DEF InTable
<1> HIDE DEF q
<1>9. \A m \in Msg : IdOf[m] # 0 => IdOf[m] \in Id
  BY IdNonZero, Zenon
<1>10. ReceiverInv'
  BY <1>1, <1>4, <1>6, <1>7, <1>9, PacketMsg, Zenon DEF ReceiverInv, Busy, q
<1>11. ObjInv' /\ Disjoint' /\ CountInv'
  BY <1>1 DEF ObjInv, Whole, Disjoint, CountInv
<1>12. TableInv'
  BY <1>1, <1>6, Zenon DEF TableInv
<1>13. WorkerInv'
  <2>1. \A p \in Ptr : obj[p].request_id \in Id \cup {0}
    BY Zenon DEF TypeOK, Request
  <2>. QED  BY <1>1, <1>5, <1>6, <1>7, <2>1 DEF WorkerInv, q
<1>14. CleanerInv'
  BY <1>1, <1>3, <1>6, Zenon DEF CleanerInv, Expired, q
<1>15. ServedInv'
  BY <1>1, <1>3, <1>8, Zenon DEF ServedInv, WorksOn, Expired
<1>. QED  BY <1>1, <1>2, <1>10, <1>11, <1>12, <1>13, <1>14, <1>15, Zenon

=============================================================================
