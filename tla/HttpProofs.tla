----------------------------- MODULE HttpProofs -----------------------------
(***************************************************************************)
(* Proofs about Http, for any length of payload and response buffer and    *)
(* any outcome of the library calls.                                       *)
(***************************************************************************)
EXTENDS Http, TLAPS

PlainCalls == {"resolve", "socket", "connect", "write", "recv"}

TlsCalls ==
  {"context", "bio", "configure", "handshake", "certificate", "tlsWrite", "tlsRead"}

\* Both functions count what the connection took exactly, as long as they write.
Counting ==
  /\ taken \in 0 .. Length
  /\ pc \in {"write", "tlsWrite"} => sent = taken
  /\ pc \in {"host"} \cup ((PlainCalls \cup TlsCalls) \ {"write", "recv", "tlsWrite", "tlsRead"})
       => sent = 0 /\ taken = 0

\* Where control is says what has been established.
Progress ==
  /\ pc \in PlainCalls => ~ https
  /\ pc \in TlsCalls => https
  /\ pc \in {"tlsWrite", "tlsRead"} => checked
  /\ pc = "recv" => taken = Length
  /\ pc = "done" => https \/ taken = Length
  /\ pc # "end" => state = "PARSED_OPTIONS"

IInv ==
  /\ TypeOK /\ Counting /\ Progress
  /\ PrefixWritten /\ OnlyToVerified /\ PlainSentIsWhole /\ ResponseTerminated /\ AllReleased

\* A payload has a length.
LEMMA LengthType ==
  ASSUME payload \in Payload
  PROVE  Length \in Nat
<1>1. payload \in Seq(Symbol)
  BY HttpAssumption
<1> QED
  BY <1>1 DEF Length

\* No step changes what ff_http_send_request is given.
LEMMA InputsKept ==
  ASSUME TypeOK, UNCHANGED inputs
  PROVE  /\ UNCHANGED <<payload, beyond, https, isHttp>>
         /\ Length \in Nat /\ Length' = Length
<1>1. UNCHANGED <<payload, beyond, https, isHttp>>
  BY DEF inputs
<1> QED
  BY <1>1, LengthType DEF TypeOK, Length

\* The invariant holds when ff_http_send_request is called.
LEMMA InvInit == Init => IInv
<1> SUFFICES ASSUME Init PROVE IInv
  OBVIOUS
<1>1. https \in BOOLEAN /\ isHttp \in BOOLEAN /\ checked \in BOOLEAN /\ intact \in BOOLEAN
  BY Zenon DEF Init
<1>0. Length \in Nat
  BY LengthType DEF Init
<1>2. TypeOK
  BY <1>1, HttpAssumption DEF Init, TypeOK, Resource
<1>3. Counting /\ ResponseTerminated
  BY <1>0, HttpAssumption DEF Init, Counting, ResponseTerminated
<1>4. Progress /\ PlainSentIsWhole /\ AllReleased
  BY DEF Init, Progress, PlainSentIsWhole, AllReleased, PlainCalls, TlsCalls
<1>5. PrefixWritten /\ OnlyToVerified
  <2>1. taken = 0 /\ taken <= Length
    BY <1>0 DEF Init
  <2>2. intact
    BY DEF Init
  <2> QED
    BY <2>1, <2>2 DEF PrefixWritten, OnlyToVerified
<1> QED
  BY <1>2, <1>3, <1>4, <1>5 DEF IInv

\* The search for the host and the calls that acquire resources keep the
\* invariant: they write nothing.
LEMMA InvSetup ==
  ASSUME IInv,
         \/ ff_http_get_destination_host \/ Resolve \/ Socket \/ Connect
         \/ Context \/ Bio \/ Configure \/ Handshake \/ Certificate
  PROVE  IInv'
<1>1. /\ UNCHANGED <<inputs, counters, state>>
      /\ pc \in {"host", "resolve", "socket", "connect", "context", "bio", "configure",
                 "handshake", "certificate"}
      /\ pc' \in {"resolve", "socket", "connect", "write", "context", "bio", "configure",
                  "handshake", "certificate", "tlsWrite", "error"}
      /\ pc' \in PlainCalls => ~ https
      /\ pc' \in TlsCalls => https
  BY DEF ff_http_get_destination_host, Resolve, Socket, Connect, Context, Bio, Configure,
         Handshake, Certificate, Step, IInv, Progress, PlainCalls, TlsCalls, counters
<1>0. /\ UNCHANGED <<payload, beyond, https, isHttp>>
      /\ Length \in Nat /\ Length' = Length
  BY <1>1, InputsKept DEF IInv
<1>2. /\ host_name' \in Resource /\ res' \in Resource /\ sockfd' \in Resource
      /\ ctx' \in Resource /\ web' \in Resource
  BY DEF ff_http_get_destination_host, Resolve, Socket, Connect, Context, Bio, Configure,
         Handshake, Certificate, Step, IInv, TypeOK, Resource, resources
<1>3. checked' \in BOOLEAN /\ (pc' = "tlsWrite" => checked')
  BY Zenon DEF ff_http_get_destination_host, Resolve, Socket, Connect, Context, Bio, Configure,
         Handshake, Certificate, Step, IInv, TypeOK
<1>4. sent = 0 /\ taken = 0
  BY <1>1 DEF IInv, Counting, PlainCalls, TlsCalls
<1>5. TypeOK'
  BY <1>0, <1>1, <1>2, <1>3 DEF IInv, TypeOK, counters
<1>6. Counting' /\ PrefixWritten' /\ OnlyToVerified' /\ ResponseTerminated'
  BY <1>0, <1>1, <1>4 DEF IInv, Counting, PrefixWritten, OnlyToVerified, ResponseTerminated, counters
<1>7. Progress' /\ PlainSentIsWhole' /\ AllReleased'
  BY <1>0, <1>1, <1>3 DEF IInv, Progress, PlainSentIsWhole, AllReleased, counters
<1> QED
  BY <1>5, <1>6, <1>7 DEF IInv

\* Both write loops keep the invariant: a write continues where the one before
\* it ended.
LEMMA InvWrite ==
  ASSUME IInv, Write \/ TlsWrite
  PROVE  IInv'
<1>1. /\ UNCHANGED <<inputs, resources, received, retries, checked, state>>
      /\ pc \in {"write", "tlsWrite"}
      /\ sent = taken /\ taken \in 0 .. Length /\ intact
      /\ state = "PARSED_OPTIONS"
  BY Zenon DEF Write, TlsWrite, IInv, Counting, PrefixWritten, Progress
<1>0. /\ UNCHANGED <<payload, beyond, https, isHttp>>
      /\ Length \in Nat /\ Length' = Length
  BY <1>1, InputsKept DEF IInv
<1>2. /\ taken' \in 0 .. Length /\ sent' \in Int
      /\ pc' \in {"write", "tlsWrite"} => sent' = taken'
      /\ pc' \in {"write", "recv", "tlsWrite", "tlsRead", "error"}
      /\ pc' \in {"write", "recv"} => pc = "write"
      /\ pc' \in {"tlsWrite", "tlsRead"} => pc = "tlsWrite"
      /\ pc' = "recv" => taken' = Length
  <2>1. CASE Write /\ pc' = "error"
    <3>1. UNCHANGED <<sent, taken>>
      BY <1>0, <2>1 DEF Write, Take
    <3> QED
      BY <1>0, <1>1, <2>1, <3>1
  <2>2. ASSUME Write, NEW n \in 0 .. Length - sent, n = 0 => sent = Length,
               taken' = taken + n, sent' = sent + n,
               pc' = IF n > 0 /\ sent' < Length THEN "write" ELSE "recv"
        PROVE  /\ taken' \in 0 .. Length /\ sent' \in Int /\ sent' = taken'
               /\ pc' \in {"write", "recv"} /\ pc = "write"
               /\ pc' = "recv" => taken' = Length
    BY <1>0, <1>1, <2>2 DEF Write
  <2>3. ASSUME TlsWrite, NEW n \in -1 .. Length - sent,
               taken' = taken + (IF n < 0 THEN 0 ELSE n), sent' = sent + n,
               pc' = IF n > 0 THEN "tlsWrite" ELSE "tlsRead"
        PROVE  /\ taken' \in 0 .. Length /\ sent' \in Int
               /\ pc' = "tlsWrite" => sent' = taken'
               /\ pc' \in {"tlsWrite", "tlsRead"} /\ pc = "tlsWrite"
    BY <1>0, <1>1, <2>3 DEF TlsWrite
  <2> QED
    BY <2>1, <2>2, <2>3 DEF Write, TlsWrite, Take
<1>3. intact' /\ intact' \in BOOLEAN
  BY <1>1, Zenon DEF Write, TlsWrite, Take
<1>4. TypeOK'
  BY <1>0, <1>1, <1>2, <1>3 DEF IInv, TypeOK, resources
<1>5. Progress' /\ OnlyToVerified'
  BY <1>0, <1>1, <1>2 DEF IInv, Progress, OnlyToVerified, PlainCalls, TlsCalls
<1>6. Counting' /\ PrefixWritten'
  <2>1. Counting' /\ taken' <= Length'
    BY <1>0, <1>2 DEF Counting, PlainCalls, TlsCalls
  <2> QED
    BY <1>3, <2>1 DEF PrefixWritten
<1>7. PlainSentIsWhole' /\ ResponseTerminated' /\ AllReleased'
  BY <1>0, <1>1, <1>2 DEF IInv, PlainSentIsWhole, ResponseTerminated, AllReleased
<1> QED
  BY <1>4, <1>5, <1>6, <1>7 DEF IInv

\* Both read loops keep the invariant.
LEMMA InvRead ==
  ASSUME IInv, Recv \/ TlsRead
  PROVE  IInv'
<1>1. /\ UNCHANGED <<inputs, resources, sent, taken, intact, checked, state>>
      /\ pc \in {"recv", "tlsRead"}
      /\ pc' \in {"recv", "tlsRead", "done", "error"}
      /\ pc' \in {"recv", "tlsRead"} => pc' = pc
      /\ pc' = "error" => pc = "recv"
  BY DEF Recv, TlsRead
<1>0. /\ UNCHANGED <<payload, beyond, https, isHttp>>
      /\ Length \in Nat /\ Length' = Length
  BY <1>1, InputsKept DEF IInv
<1>2. /\ received' \in Int /\ received' <= BuffSize
      /\ pc = "recv" => received' \in 0 .. BuffSize - 1
  <2>1. /\ received \in Int /\ received <= BuffSize
        /\ pc = "recv" => received \in 0 .. BuffSize - 1
    BY HttpAssumption DEF IInv, TypeOK, ResponseTerminated, Progress, PlainCalls
  <2> QED
    BY <2>1, HttpAssumption DEF Recv, TlsRead
<1>3. retries' \in 0 .. MaxRetries
  BY HttpAssumption DEF Recv, TlsRead, IInv, TypeOK
<1>4. TypeOK'
  BY <1>0, <1>1, <1>2, <1>3 DEF IInv, TypeOK, resources
<1>5. Progress' /\ OnlyToVerified'
  BY <1>0, <1>1 DEF IInv, Progress, OnlyToVerified, PlainCalls, TlsCalls
<1>6. Counting' /\ PrefixWritten'
  <2>1. Counting'
    BY <1>0, <1>1 DEF IInv, Counting, PlainCalls, TlsCalls
  <2>2. PrefixWritten'
    BY <1>0, <1>1 DEF IInv, PrefixWritten
  <2> QED
    BY <2>1, <2>2
<1>7. ResponseTerminated'
  BY <1>0, <1>1, <1>2 DEF IInv, Progress, ResponseTerminated, TlsCalls
<1>8. PlainSentIsWhole' /\ AllReleased'
  BY <1>0, <1>1 DEF IInv, PlainSentIsWhole, AllReleased
<1> QED
  BY <1>4, <1>5, <1>6, <1>7, <1>8 DEF IInv

\* The cleanup keeps the invariant, and releases what is held.
LEMMA InvCleanup ==
  ASSUME IInv, Cleanup
  PROVE  IInv'
<1>1. /\ UNCHANGED <<inputs, counters, checked>>
      /\ pc \in {"done", "error"} /\ pc' = "end"
      /\ state' = IF pc = "done" THEN "SENT" ELSE "SENDING_FAILED"
  BY DEF Cleanup
<1>0. /\ UNCHANGED <<payload, beyond, https, isHttp>>
      /\ Length \in Nat /\ Length' = Length
  BY <1>1, InputsKept DEF IInv
<1>2. /\ host_name' \in {"none", "freed"} /\ res' \in {"none", "freed"}
      /\ sockfd' \in {"none", "freed"} /\ ctx' \in {"none", "freed"}
      /\ web' \in {"none", "freed"}
  BY DEF Cleanup, Release, IInv, TypeOK, Resource
<1>3. TypeOK' /\ AllReleased'
  BY <1>0, <1>1, <1>2 DEF IInv, TypeOK, Resource, AllReleased, counters
<1>4. Counting' /\ PrefixWritten' /\ OnlyToVerified' /\ ResponseTerminated'
  BY <1>0, <1>1 DEF IInv, Counting, PrefixWritten, OnlyToVerified, ResponseTerminated, counters,
              PlainCalls, TlsCalls
<1>5. Progress' /\ PlainSentIsWhole'
  BY <1>0, <1>1 DEF IInv, Progress, PlainSentIsWhole, counters, PlainCalls, TlsCalls
<1> QED
  BY <1>3, <1>4, <1>5 DEF IInv

\* A step that changes nothing keeps the invariant.
LEMMA InvStutter ==
  ASSUME IInv, UNCHANGED vars
  PROVE  IInv'
<1>1. UNCHANGED inputs
  BY DEF vars
<1>0. /\ UNCHANGED <<payload, beyond, https, isHttp>>
      /\ Length \in Nat /\ Length' = Length
  BY <1>1, InputsKept DEF IInv
<1> QED
  BY <1>0 DEF IInv, TypeOK, Counting, Progress, PrefixWritten, OnlyToVerified,
              PlainSentIsWhole, ResponseTerminated, AllReleased, vars, resources, counters

\* The invariant holds throughout ff_http_send_request.
THEOREM Invariance == Spec => []IInv
<1>1. IInv /\ [Next]_vars => IInv'
  BY InvSetup, InvWrite, InvRead, InvCleanup, InvStutter DEF Next, Unencrypted, TlsSetup
<1> QED
  BY InvInit, <1>1, PTL DEF Spec

\* Whatever the library calls of http.c return, all variables keep their types.
THEOREM TypeCorrect == Spec => []TypeOK
<1>1. IInv => TypeOK
  BY DEF IInv
<1> QED
  BY <1>1, Invariance, PTL

\* However writes are divided, over either kind of connection, the destination
\* receives a prefix of the payload (http.c:142-158, 331-335).
THEOREM Prefixes == Spec => []PrefixWritten
<1>1. IInv => PrefixWritten
  BY DEF IInv
<1> QED
  BY <1>1, Invariance, PTL

\* No byte goes to a TLS server whose certificate is not valid
\* (http.c:297-329).
THEOREM Verified == Spec => []OnlyToVerified
<1>1. IInv => OnlyToVerified
  BY DEF IInv
<1> QED
  BY <1>1, Invariance, PTL

\* A request reported as sent over plain HTTP was written in full
\* (http.c:140-158).
THEOREM SentInFull == Spec => []PlainSentIsWhole
<1>1. IInv => PlainSentIsWhole
  BY DEF IInv
<1> QED
  BY <1>1, Invariance, PTL

\* A plain response never fills its buffer, and one over TLS never exceeds it
\* (http.c:162-183, 340-361).
THEOREM Terminated == Spec => []ResponseTerminated
<1>1. IInv => ResponseTerminated
  BY DEF IInv
<1> QED
  BY <1>1, Invariance, PTL

\* Every path releases what it acquired (http.c:197-209, 364-375).
THEOREM Released == Spec => []AllReleased
<1>1. IInv => AllReleased
  BY DEF IInv
<1> QED
  BY <1>1, Invariance, PTL

=============================================================================
