------------------------------- MODULE Proxy -------------------------------
(***************************************************************************)
(* The threads of the proxy (src/src/server.c): one receiver, one worker   *)
(* thread per completed request and one cleanup thread.  They share the    *)
(* heap of request objects and the table `requests` from request id to     *)
(* request object.  Every table operation holds the one mutex of           *)
(* hash_table.c and is atomic here (module HashTable shows that the data   *)
(* structure behaves as a map).  The request objects have no lock: every   *)
(* step that dereferences one is an action of its own.                     *)
(*                                                                         *)
(* Payload is counted in chunks: the packet with offset k of a message     *)
(* holds its k-th chunk, so its byte range is [k, k + 1).                  *)
(***************************************************************************)
EXTENDS Integers, FiniteSets

CONSTANTS
  Msg,        \* the requests clients send
  RawMsg,     \* those sent as one datagram of plain HTTP
  IdOf,       \* request id in the header of a message's packets
  SourceOf,   \* source address of a message's packets
  ChunksOf,   \* number of packets of a message
  Malformed,  \* packets that parse_data_chunk rejects for their contents
  Ptr,        \* addresses of request objects (bounds the heap)
  NULL,       \* the null pointer
  Worker,     \* worker threads (bounds how many run at once)
  MaxDuplicates, \* how many datagrams the network may deliver twice
  Threshold,  \* FF_PROXY_OLD_REQUEST_THRESHOLD_SECS, in ticks
  Faults      \* what the environment may do, see FaultKinds

(***************************************************************************)
(* "late":      a packet arrives, or is processed, when its request is     *)
(*              already old enough for the cleanup thread.                 *)
(* "empty":     a datagram of length 0 arrives.                            *)
(* "nothread":  pthread_create fails.                                      *)
(* Loss and reordering are always possible; MaxDuplicates bounds           *)
(* duplication.                                                            *)
(***************************************************************************)
FaultKinds == {"late", "empty", "nothread"}

ASSUME MsgAssumption ==
  /\ RawMsg \subseteq Msg
  /\ IdOf \in [Msg -> Nat]
  /\ ChunksOf \in [Msg -> Nat \ {0}]
  /\ \A m \in RawMsg : IdOf[m] = 0 /\ ChunksOf[m] = 1

ASSUME SystemAssumption ==
  /\ NULL \notin Ptr
  /\ MaxDuplicates \in Nat
  /\ Threshold \in Nat \ {0}
  /\ Faults \subseteq FaultKinds

PacketsOf(m) == {[msg |-> m, offset |-> k] : k \in 0 .. ChunksOf[m] - 1}

Packet == UNION {PacketsOf(m) : m \in Msg}

Source == {SourceOf[m] : m \in Msg}

\* The ids under which the table can hold a request.
Id == {IdOf[m] : m \in Msg} \ {0}

(***************************************************************************)
(* SENT and SENDING_FAILED are one value of the C enum (both are 10).      *)
(***************************************************************************)
ReceivingStates == {"RECEIVING", "RECEIVED", "RECEIVING_FAIL"}

WorkerStates ==
  {"DECRYPTED", "DECRYPTING_FAILED", "PARSED_OPTIONS",
   "PARSING_OPTIONS_FAILED", "SENT"}

(***************************************************************************)
(* struct ff_request.  `payload` is the list of payload nodes as the set   *)
(* of packets they came from, received_length its cardinality; `age` is    *)
(* now - received_at, which only matters up to Threshold.                  *)
(***************************************************************************)
FF_VERSION_RAW == -1

FF_VERSION_1 == 1

Request ==
  [version : {0, FF_VERSION_RAW, FF_VERSION_1}, request_id : Id \cup {0},
   source : Source \cup {NULL}, payload_length : Nat,
   payload : SUBSET Packet, state : ReceivingStates \cup WorkerStates,
   age : 0 .. Threshold]

ff_request_alloc ==
  [version |-> 0, request_id |-> 0, source |-> NULL, payload_length |-> 0,
   payload |-> {}, state |-> "RECEIVING", age |-> 0]

\* Forwards are counted as none, one, or more than one.
MaxForwards == 2

VARIABLES
  net,        \* datagrams in flight
  dups,       \* how many of them may still be delivered twice
  live,       \* which addresses hold an allocated request
  obj,        \* contents of the heap; a freed object keeps its old contents
  table,      \* the hash table: request id -> request or NULL
  rpc,        \* receiver thread: control point,
  rpkt,       \*   the datagram it is processing,
  rptr,       \*   and its local `request`
  wpc,        \* worker threads: control points
  wptr,       \*   and their `request`
  cpc,        \* cleanup thread: control point,
  cptrs,      \*   requests_to_remove still to be handled,
  cid,        \*   and the id read from the current one
  running,    \* the process exists
  misuse,     \* some thread has used memory after it was freed
  forwarded   \* how often each message was handed to ff_http_send_request,
              \*   counted up to MaxForwards

netVars == <<net, dups>>
receiverVars == <<rpc, rpkt, rptr>>
workerVars == <<wpc, wptr>>
cleanerVars == <<cpc, cptrs, cid>>
heapVars == <<live, obj>>
vars == <<netVars, heapVars, table, receiverVars, workerVars, cleanerVars,
          running, misuse, forwarded>>

TypeOK ==
  /\ net \subseteq Packet
  /\ dups \in 0 .. MaxDuplicates
  /\ live \in [Ptr -> BOOLEAN]
  /\ obj \in [Ptr -> Request]
  /\ table \in [Id -> Ptr \cup {NULL}]
  /\ rpc \in {"start", "recv", "put", "parse", "switch", "remove", "free",
              "freetable", "return"}
  /\ rpkt \in Packet \cup {NULL}
  /\ rptr \in Ptr \cup {NULL}
  /\ wpc \in [Worker -> {"idle", "decrypt", "options", "timestamp", "send",
                         "remove", "free"}]
  /\ wptr \in [Worker -> Ptr \cup {NULL}]
  /\ cpc \in {"sleep", "next", "remove"}
  /\ cptrs \subseteq Ptr
  /\ cid \in Id \cup {0}
  /\ running \in BOOLEAN
  /\ misuse \in BOOLEAN
  /\ forwarded \in [Msg -> 0 .. MaxForwards]

Init ==
  /\ net = Packet
  /\ dups = MaxDuplicates
  /\ live = [p \in Ptr |-> FALSE]
  /\ obj = [p \in Ptr |-> ff_request_alloc]
  /\ table = [i \in Id |-> NULL]
  /\ rpc = "start" /\ rpkt = NULL /\ rptr = NULL
  /\ wpc = [w \in Worker |-> "idle"]
  /\ wptr = [w \in Worker |-> NULL]
  /\ cpc = "sleep" /\ cptrs = {} /\ cid = 0
  /\ running = TRUE
  /\ misuse = FALSE
  /\ forwarded = [m \in Msg |-> 0]

-----------------------------------------------------------------------------
(***************************************************************************)
(* Parsing (src/src/parser.c) for packets counted in chunks.               *)
(***************************************************************************)

\* parse_data_chunk's test on byte ranges: it takes the new range as closed
\* on the right, so a chunk that ends where a stored one starts overlaps too.
Overlaps(new, stored) ==
  /\ new.offset < stored.offset + 1
  /\ stored.offset <= new.offset + 1

\* The header fields copied by ff_request_parse_first_chunk.
LoadHeader(r, pkt) ==
  IF r.version = 0
  THEN [r EXCEPT !.version = FF_VERSION_1, !.request_id = IdOf[pkt.msg],
                 !.payload_length = ChunksOf[pkt.msg]]
  ELSE r

Accepts(r, pkt) ==
  /\ pkt \notin Malformed
  /\ r.version = FF_VERSION_1
  /\ IdOf[pkt.msg] = r.request_id
  /\ ChunksOf[pkt.msg] = r.payload_length
  /\ \A stored \in r.payload : ~ Overlaps(pkt, stored)

\* Mutant: the comparison of lengths is off by one.
MutantParseDataChunk(r, pkt) ==
  IF Accepts(r, pkt)
  THEN [r EXCEPT !.payload = @ \cup {pkt},
                 !.state = IF Cardinality(r.payload \cup {pkt}) + 1 >= r.payload_length
                           THEN "RECEIVED" ELSE @]
  ELSE [r EXCEPT !.state = "RECEIVING_FAIL"]

ff_request_parse_data_chunk(r, pkt) ==
  IF Accepts(r, pkt)
  THEN [r EXCEPT !.payload = @ \cup {pkt},
                 !.state = IF Cardinality(r.payload \cup {pkt}) = r.payload_length
                           THEN "RECEIVED" ELSE @]
  ELSE [r EXCEPT !.state = "RECEIVING_FAIL"]

ff_request_parse_raw_http(r, pkt) ==
  [r EXCEPT !.version = FF_VERSION_RAW, !.state = "RECEIVED",
            !.payload_length = 1, !.payload = {pkt}]

ff_request_parse_chunk(r, pkt) ==
  IF r.version = 0 /\ pkt.msg \in RawMsg
  THEN ff_request_parse_raw_http(r, pkt)
  ELSE ff_request_parse_data_chunk(LoadHeader(r, pkt), pkt)

-----------------------------------------------------------------------------
(***************************************************************************)
(* Memory.  A thread that dereferences a freed object (or uses the table   *)
(* after ff_hash_table_free) reads whatever the memory still holds, or     *)
(* brings the process down: action Crash.                                  *)
(***************************************************************************)

\* The process exists, before and after the step.
Alive == running /\ UNCHANGED running

TableFreed == rpc = "return"

Touch(p) == misuse' = (misuse \/ ~ live[p])

TouchTable == misuse' = (misuse \/ TableFreed)

\* ff_request_free
Free(p) ==
  /\ live' = [live EXCEPT ![p] = FALSE]
  /\ Touch(p)
  /\ UNCHANGED obj

\* A fresh object: the allocator may reuse the address of a freed one.
Alloc(p, r) ==
  /\ ~ live[p]
  /\ live' = [live EXCEPT ![p] = TRUE]
  /\ obj' = [obj EXCEPT ![p] = r]

-----------------------------------------------------------------------------
(***************************************************************************)
(* The receiver thread: ff_proxy_start and                                 *)
(* ff_proxy_process_incoming_packet.                                       *)
(***************************************************************************)

\* Creating and binding the socket fails, or the receive loop starts.
Start ==
  /\ running
  /\ rpc = "start"
  /\ \/ rpc' = "recv" /\ UNCHANGED running
     \/ running' = FALSE /\ UNCHANGED rpc
  /\ UNCHANGED <<netVars, heapVars, table, rpkt, rptr, workerVars, cleanerVars,
                 misuse, forwarded>>

\* recvfrom returns a datagram.  Without the fault "late" no packet arrives
\* for a request that the cleanup thread may already consider old.
RecvFrom(pkt) ==
  /\ Alive
  /\ rpc = "recv"
  /\ pkt \in net
  /\ \/ net' = net \ {pkt} /\ dups' = dups
     \/ dups > 0 /\ net' = net /\ dups' = dups - 1
  /\ UNCHANGED <<workerVars, cleanerVars, forwarded>>

Timely(p) == "late" \in Faults \/ obj[p].age < Threshold

ReceiveRaw(pkt) ==
  /\ pkt.msg \in RawMsg
  /\ RecvFrom(pkt)
  /\ \E p \in Ptr :
       /\ Alloc(p, ff_request_parse_chunk(ff_request_alloc, pkt))
       /\ rptr' = p
  /\ rpkt' = pkt
  /\ rpc' = "switch"
  /\ UNCHANGED <<table, misuse>>

\* An id of 0 cannot be told from a missing one: the packet is dropped.
ReceiveNoId(pkt) ==
  /\ pkt.msg \notin RawMsg /\ IdOf[pkt.msg] = 0
  /\ RecvFrom(pkt)
  /\ UNCHANGED <<heapVars, table, receiverVars, misuse>>

\* ff_hash_table_get_item finds nothing: a request is allocated, still
\* unknown to the other threads.
ReceiveFirst(pkt) ==
  /\ IdOf[pkt.msg] # 0 /\ table[IdOf[pkt.msg]] = NULL
  /\ RecvFrom(pkt)
  /\ \E p \in Ptr :
       /\ Alloc(p, [ff_request_alloc EXCEPT !.source = SourceOf[pkt.msg]])
       /\ rptr' = p
  /\ rpkt' = pkt
  /\ rpc' = "put"
  /\ UNCHANGED <<table, misuse>>

\* ff_hash_table_get_item returns a pointer and releases the mutex.
ReceiveNext(pkt) ==
  /\ IdOf[pkt.msg] # 0 /\ table[IdOf[pkt.msg]] # NULL
  /\ Timely(table[IdOf[pkt.msg]])
  /\ RecvFrom(pkt)
  /\ rptr' = table[IdOf[pkt.msg]]
  /\ rpkt' = pkt
  /\ rpc' = "parse"
  /\ UNCHANGED <<heapVars, table, misuse>>

Put ==
  /\ Alive
  /\ rpc = "put"
  /\ table' = [table EXCEPT ![IdOf[rpkt.msg]] = rptr]
  /\ rpc' = "parse"
  /\ UNCHANGED <<netVars, heapVars, rpkt, rptr, workerVars, cleanerVars, misuse,
                 forwarded>>

ReceiverDone == rpc' = "recv" /\ rpkt' = NULL /\ rptr' = NULL

\* Mutant: no source check.
MutantParse ==
  /\ Alive
  /\ rpc = "parse"
  /\ Touch(rptr)
  /\ obj' = [obj EXCEPT ![rptr] = ff_request_parse_chunk(@, rpkt)]
  /\ rpc' = "switch"
  /\ UNCHANGED <<netVars, rpkt, rptr, live, table, workerVars, cleanerVars, forwarded>>

\* The source check and ff_request_parse_chunk.
Parse ==
  /\ Alive
  /\ rpc = "parse"
  /\ Touch(rptr)
  /\ IF obj[rptr].source = SourceOf[rpkt.msg]
     THEN /\ obj' = [obj EXCEPT ![rptr] = ff_request_parse_chunk(@, rpkt)]
          /\ rpc' = "switch"
          /\ UNCHANGED <<rpkt, rptr>>
     ELSE ReceiverDone /\ UNCHANGED obj
  /\ UNCHANGED <<netVars, live, table, workerVars, cleanerVars, forwarded>>

\* The switch on request->state.  The state is read again here: it need not be
\* the one Parse has just written.
Switch ==
  /\ Alive
  /\ rpc = "switch"
  /\ Touch(rptr)
  /\ \/ /\ obj[rptr].state = "RECEIVED"
        /\ \/ \E w \in Worker :
                /\ wpc[w] = "idle"
                /\ wpc' = [wpc EXCEPT ![w] = "decrypt"]
                /\ wptr' = [wptr EXCEPT ![w] = rptr]
           \/ "nothread" \in Faults /\ UNCHANGED workerVars
        /\ ReceiverDone
     \/ /\ obj[rptr].state = "RECEIVING_FAIL"
        /\ rpc' = IF rpkt.msg \in RawMsg THEN "free" ELSE "remove"
        /\ UNCHANGED <<rpkt, rptr, workerVars>>
     \/ /\ obj[rptr].state \notin {"RECEIVED", "RECEIVING_FAIL"}
        /\ ReceiverDone
        /\ UNCHANGED workerVars
  /\ UNCHANGED <<netVars, heapVars, table, cleanerVars, forwarded>>

\* Mutant: a failed request is freed and stays in the table.
MutantRemoveFailed ==
  /\ Alive
  /\ rpc = "remove"
  /\ rpc' = "free"
  /\ UNCHANGED <<netVars, heapVars, table, rpkt, rptr, workerVars, cleanerVars, misuse,
                 forwarded>>

RemoveFailed ==
  /\ Alive
  /\ rpc = "remove"
  /\ table' = [table EXCEPT ![IdOf[rpkt.msg]] = NULL]
  /\ rpc' = "free"
  /\ UNCHANGED <<netVars, heapVars, rpkt, rptr, workerVars, cleanerVars, misuse,
                 forwarded>>

\* Mutant: a failed request is removed and not freed.
MutantFreeFailed ==
  /\ Alive
  /\ rpc = "free"
  /\ ReceiverDone
  /\ UNCHANGED <<netVars, heapVars, table, workerVars, cleanerVars, misuse, forwarded>>

FreeFailed ==
  /\ Alive
  /\ rpc = "free"
  /\ Free(rptr)
  /\ ReceiverDone
  /\ UNCHANGED <<netVars, table, workerVars, cleanerVars, forwarded>>

\* An empty datagram makes recvfrom return 0, which ends the receive loop:
\* the table is freed without the mutex and main returns.
ReceiveEmpty ==
  /\ "empty" \in Faults
  /\ Alive
  /\ rpc = "recv"
  /\ rpc' = "freetable"
  /\ UNCHANGED <<netVars, heapVars, table, rpkt, rptr, workerVars, cleanerVars,
                 misuse, forwarded>>

FreeTable ==
  /\ Alive
  /\ rpc = "freetable"
  /\ rpc' = "return"
  /\ UNCHANGED <<netVars, heapVars, table, rpkt, rptr, workerVars, cleanerVars,
                 misuse, forwarded>>

\* main returns, recvfrom fails, or SIGINT arrives: every thread is gone.
Exit ==
  /\ running
  /\ running' = FALSE
  /\ UNCHANGED <<netVars, heapVars, table, receiverVars, workerVars, cleanerVars,
                 misuse, forwarded>>

-----------------------------------------------------------------------------
(***************************************************************************)
(* A worker thread: ff_proxy_process_request.  Each test of request->state *)
(* is made at the start of the step after the one that wrote it.           *)
(***************************************************************************)

SetState(p, st) == obj' = [obj EXCEPT ![p].state = st]

WorkerStep(w, from, to) ==
  /\ Alive
  /\ wpc[w] = from
  /\ wpc' = [wpc EXCEPT ![w] = to]
  /\ UNCHANGED <<netVars, receiverVars, cleanerVars>>

\* ff_request_vectorise_payload and ff_decrypt_request
Decrypt(w) ==
  /\ WorkerStep(w, "decrypt", "options")
  /\ Touch(wptr[w])
  /\ \E st \in {"DECRYPTED", "DECRYPTING_FAILED"} : SetState(wptr[w], st)
  /\ UNCHANGED <<live, table, wptr, forwarded>>

ParseOptions(w) ==
  /\ WorkerStep(w, "options", "timestamp")
  /\ Touch(wptr[w])
  /\ obj[wptr[w]].state = "DECRYPTED"
  /\ \E st \in {"PARSED_OPTIONS", "PARSING_OPTIONS_FAILED"} : SetState(wptr[w], st)
  /\ UNCHANGED <<live, table, wptr, forwarded>>

\* ff_proxy_validate_request_timestamp accepts the request.
CheckTimestamp(w) ==
  /\ WorkerStep(w, "timestamp", "send")
  /\ Touch(wptr[w])
  /\ obj[wptr[w]].state = "PARSED_OPTIONS"
  /\ UNCHANGED <<heapVars, table, wptr, forwarded>>

\* Mutant: a failed send is tried again.
MutantSend(w) ==
  /\ \E to \in {"send", "remove"} : WorkerStep(w, "send", to)
  /\ Touch(wptr[w])
  /\ SetState(wptr[w], "SENT")
  /\ forwarded' = [m \in Msg |->
       IF forwarded[m] < MaxForwards /\ \E pkt \in obj[wptr[w]].payload : pkt.msg = m
       THEN forwarded[m] + 1 ELSE forwarded[m]]
  /\ UNCHANGED <<live, table, wptr>>

\* ff_http_send_request; it ends in SENT or in SENDING_FAILED, the same value.
Send(w) ==
  /\ WorkerStep(w, "send", "remove")
  /\ Touch(wptr[w])
  /\ SetState(wptr[w], "SENT")
  /\ forwarded' = [m \in Msg |->
       IF forwarded[m] < MaxForwards /\ \E pkt \in obj[wptr[w]].payload : pkt.msg = m
       THEN forwarded[m] + 1 ELSE forwarded[m]]
  /\ UNCHANGED <<live, table, wptr>>

\* Mutant: the error path returns without the cleanup.
MutantGiveUp(w) ==
  /\ \/ WorkerStep(w, "options", "idle") /\ obj[wptr[w]].state # "DECRYPTED"
     \/ WorkerStep(w, "timestamp", "idle")
  /\ Touch(wptr[w])
  /\ UNCHANGED <<heapVars, table, wptr, forwarded>>

\* goto error: decryption or the options failed, or the timestamp is outside
\* the window.
GiveUp(w) ==
  /\ \/ WorkerStep(w, "options", "remove") /\ obj[wptr[w]].state # "DECRYPTED"
     \/ WorkerStep(w, "timestamp", "remove")
  /\ Touch(wptr[w])
  /\ UNCHANGED <<heapVars, table, wptr, forwarded>>

\* cleanup: the entry under the request's id goes, whatever request it holds.
RemoveProcessed(w) ==
  /\ WorkerStep(w, "remove", "free")
  /\ misuse' = (misuse \/ ~ live[wptr[w]] \/ (TableFreed /\ obj[wptr[w]].request_id # 0))
  /\ table' = [i \in Id |-> IF i = obj[wptr[w]].request_id THEN NULL ELSE table[i]]
  /\ UNCHANGED <<heapVars, wptr, forwarded>>

FreeProcessed(w) ==
  /\ WorkerStep(w, "free", "idle")
  /\ Free(wptr[w])
  /\ wptr' = [wptr EXCEPT ![w] = NULL]
  /\ UNCHANGED <<table, forwarded>>

-----------------------------------------------------------------------------
(***************************************************************************)
(* The cleanup thread: ff_proxy_clean_up_old_requests_loop.  sleep() may   *)
(* end at any time.  The iterator holds the mutex from its creation to its *)
(* release, so the whole collection is one step; the requests collected    *)
(* are dereferenced after the mutex is released.  They are not freed.      *)
(***************************************************************************)

InTable(p) == \E i \in Id : table[i] = p

\* Mutant: only the age of a request counts.
MutantExpired(p) == obj[p].age >= Threshold

Expired(p) == obj[p].state = "RECEIVING" /\ obj[p].age >= Threshold

Collect ==
  /\ Alive
  /\ cpc = "sleep"
  /\ cptrs' = {p \in Ptr : InTable(p) /\ Expired(p)}
  /\ cpc' = "next"
  /\ misuse' = (misuse \/ TableFreed \/ \E p \in Ptr : InTable(p) /\ ~ live[p])
  /\ UNCHANGED <<netVars, heapVars, table, receiverVars, workerVars, cid, forwarded>>

\* requests_to_remove[i]->request_id
ReadExpiredId ==
  /\ Alive
  /\ cpc = "next"
  /\ \E p \in cptrs :
       /\ Touch(p)
       /\ cid' = obj[p].request_id
       /\ cptrs' = cptrs \ {p}
  /\ cpc' = "remove"
  /\ UNCHANGED <<netVars, heapVars, table, receiverVars, workerVars, forwarded>>

RemoveExpired ==
  /\ Alive
  /\ cpc = "remove"
  /\ TouchTable
  /\ table' = [i \in Id |-> IF i = cid THEN NULL ELSE table[i]]
  /\ cpc' = "next"
  /\ cid' = 0
  /\ UNCHANGED <<netVars, heapVars, receiverVars, workerVars, cptrs, forwarded>>

Sleep ==
  /\ Alive
  /\ cpc = "next" /\ cptrs = {}
  /\ cpc' = "sleep"
  /\ UNCHANGED <<netVars, heapVars, table, receiverVars, workerVars, cptrs, cid,
                 misuse, forwarded>>

-----------------------------------------------------------------------------
\* Time passes.  The processing of one packet is short: it never spans a tick,
\* except that with the fault "late" it may straddle the tick at which an
\* earlier request grows old.
Tick ==
  /\ Alive
  /\ rptr # NULL => "late" \in Faults /\ obj[rptr].age > 0
  /\ obj' = [p \in Ptr |->
       IF live[p] /\ obj[p].age < Threshold
       THEN [obj[p] EXCEPT !.age = @ + 1] ELSE obj[p]]
  /\ UNCHANGED <<netVars, live, table, receiverVars, workerVars, cleanerVars,
                 misuse, forwarded>>

\* What the next step of some thread dereferences.
AboutToTouch(p) ==
  \/ rpc \in {"parse", "switch", "free"} /\ rptr = p
  \/ \E w \in Worker : wpc[w] # "idle" /\ wptr[w] = p
  \/ cpc = "next" /\ p \in cptrs
  \/ cpc = "sleep" /\ InTable(p)

AboutToTouchTable ==
  \/ \E w \in Worker : wpc[w] = "remove" /\ obj[wptr[w]].request_id # 0
  \/ cpc \in {"sleep", "remove"}

Crash ==
  /\ running
  /\ \/ \E p \in Ptr : AboutToTouch(p) /\ ~ live[p]
     \/ TableFreed /\ AboutToTouchTable
  /\ misuse' = TRUE
  /\ running' = FALSE
  /\ UNCHANGED <<netVars, heapVars, table, receiverVars, workerVars, cleanerVars,
                 forwarded>>

\* The process is gone.
Terminated == ~ running /\ UNCHANGED vars

ReceiverStep ==
  Put \/ Parse \/ Switch \/ RemoveFailed \/ FreeFailed \/ FreeTable

WorkerNext(w) ==
  \/ Decrypt(w) \/ ParseOptions(w) \/ CheckTimestamp(w) \/ Send(w)
  \/ GiveUp(w) \/ RemoveProcessed(w) \/ FreeProcessed(w)

CleanerStep == Collect \/ ReadExpiredId \/ RemoveExpired \/ Sleep

Next ==
  \/ Start
  \/ \E pkt \in Packet :
       ReceiveRaw(pkt) \/ ReceiveNoId(pkt) \/ ReceiveFirst(pkt) \/ ReceiveNext(pkt)
  \/ ReceiverStep
  \/ ReceiveEmpty
  \/ \E w \in Worker : WorkerNext(w)
  \/ CleanerStep
  \/ Tick
  \/ Exit \/ Crash \/ Terminated

Spec == Init /\ [][Next]_vars

(***************************************************************************)
(* Each thread is scheduled and time passes; arrivals, interrupts and      *)
(* faults are never forced.  That Send ends rests on the upstream server:  *)
(* a plain HTTP response is awaited with a timeout (SO_RCVTIMEO, http.c),  *)
(* but over TLS the worker waits until the server answers or hangs up.     *)
(***************************************************************************)
FairSpec ==
  /\ Spec
  /\ WF_vars(Start)
  /\ WF_vars(ReceiverStep)
  /\ \A w \in Worker : WF_vars(WorkerNext(w))
  /\ WF_vars(CleanerStep)
  /\ WF_vars(Tick)

-----------------------------------------------------------------------------
(***************************************************************************)
(* Properties.                                                             *)
(***************************************************************************)

WorksOn(w, p) == wpc[w] # "idle" /\ wptr[w] = p

Reachable(p) == InTable(p) \/ rptr = p \/ \E w \in Worker : WorksOn(w, p)

\* No thread dereferences or frees a request object after it was freed, nor
\* uses the hash table after ff_hash_table_free, although pointers to requests
\* leave the table's mutex (server.c:151, 188, 313).
MemorySafe == ~ misuse

\* A request that neither the table nor a thread can reach any more, and so is
\* never freed, is one the cleanup thread took out of the table as an expired
\* partial request: no other path of server.c loses a request.
OnlyExpiredLeak == \A p \in Ptr : live[p] => Reachable(p) \/ Expired(p)

\* A request handed to a worker belongs to that worker alone: no second worker
\* and not the receiver hold it, and until the worker removes it the table
\* still has it under its id (a raw request has none), so that the removal at
\* server.c:255 takes out this request and no other.
SoleOwner ==
  \A w \in Worker : wpc[w] # "idle" =>
    /\ rptr # wptr[w]
    /\ \A v \in Worker : WorksOn(v, wptr[w]) => v = w
    /\ \A i \in Id : wpc[w] # "free" =>
         (table[i] = wptr[w] <=> i = obj[wptr[w]].request_id)

\* What a worker processes is one whole message: all of its packets and none
\* of another's, whatever was lost or reordered on the way.
WholeMessage ==
  \A w \in Worker : wpc[w] # "idle" =>
    \E m \in Msg : obj[wptr[w]].payload = PacketsOf(m)

\* A message is handed to ff_http_send_request at most once.
AtMostOnce == \A m \in Msg : forwarded[m] <= 1

\* A completed request stays in the table only with a worker, or the receiver
\* about to start one, that will take it out: the cleanup thread never does.
CompletedIsServed ==
  \A i \in Id : table[i] # NULL /\ obj[table[i]].state # "RECEIVING" =>
    rptr = table[i] \/ \E w \in Worker : WorksOn(w, table[i])

\* The payload of a request holds packets of the request's own source address
\* only (server.c:161), also when two clients pick the same request id.
SourceIsolation ==
  \A p \in Ptr : obj[p].source # NULL =>
    \A pkt \in obj[p].payload : SourceOf[pkt.msg] = obj[p].source

\* The cleanup thread takes only partially received requests out of the table
\* (its log message: "Cleaned up %u expired partial requests", server.c:324).
CleanerRemovesOnlyPartial ==
  [][RemoveExpired => \A i \in Id :
       table[i] # NULL /\ table'[i] = NULL => obj[table[i]].state = "RECEIVING"]_vars

\* When the receiver looks at a request's state, the request is still being
\* received (server.c:199 logs anything else as "Encountered invalid request
\* state").
OnlyReceptionStates == rpc = "switch" => obj[rptr].state \in ReceivingStates

\* No entry stays in the table for ever: a completed request is processed and
\* removed, a partial one expires.
TableDrains == \A i \in Id : table[i] # NULL ~> (table[i] = NULL \/ ~ running)

=============================================================================
