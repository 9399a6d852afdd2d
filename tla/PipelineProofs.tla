--------------------------- MODULE PipelineProofs ---------------------------
(***************************************************************************)
(* Proofs about Pipeline, for any requests and any configuration.          *)
(***************************************************************************)
EXTENDS Pipeline, SequenceTheorems, TLAPS

\* Where the request is in the pipeline says what has been established.
Progress ==
  /\ pc = "header" => options = << >> /\ payload = "asSent"
  /\ pc = "decrypt" => /\ options = request.header
                       /\ payload_contains_options = (request.header_end = "BREAK")
                       /\ payload = "asSent"
  /\ pc = "options" => /\ options = request.header
                       /\ payload_contains_options = (request.header_end = "BREAK")
                       /\ payload \in {"asSent", "decrypted"}
                       /\ HasKey => request.encrypted /\ payload = "decrypted"
  /\ pc \in {"timestamp", "send"} =>
       /\ HasKey => request.encrypted /\ payload # "asSent"
       /\ (request.encrypted => HasKey) => options = Carried
  /\ pc \notin {"cleanup", "end"} => sent = NULL

IInv == TypeOK /\ OptionsBounded /\ Progress /\ KeyRequired /\ OptionsKept

\* A request that was sent has options and flags of the right types.
LEMMA InputType ==
  ASSUME NEW r \in Input
  PROVE  /\ r.header \in Seq(Option) /\ r.inner \in Seq(Option)
         /\ r.encrypted \in BOOLEAN
BY PipelineAssumption DEF Request

\* ff_request_parse_options keeps the list of options below its limit.
LEMMA ParseBounded ==
  ASSUME TypeOK, OptionsBounded, NEW list \in Seq(Option), NEW end,
         ff_request_parse_options(list, end)
  PROVE  /\ options' \in Seq(Option)
         /\ Len(options') < MAX_OPTIONS
         /\ payload_contains_options' \in BOOLEAN
<1>1. options \in Seq(Option) /\ payload_contains_options \in BOOLEAN
  BY DEF TypeOK
<1>2. CASE Parses(list, end)
  <2>1. options' = options \o list /\ payload_contains_options' = (end = "BREAK")
    BY <1>2 DEF ff_request_parse_options
  <2>2. options \o list \in Seq(Option) /\ Len(options \o list) = Len(options) + Len(list)
    BY <1>1, ConcatProperties
  <2> QED
    BY <1>2, <2>1, <2>2 DEF Parses
<1>3. CASE ~ Parses(list, end)
  BY <1>1, <1>3 DEF ff_request_parse_options, OptionsBounded
<1> QED
  BY <1>2, <1>3

\* A request that has just been allocated satisfies the invariant.
LEMMA InvInit == Init => IInv
<1> SUFFICES ASSUME Init PROVE IInv
  OBVIOUS
<1>1. TypeOK
  <2>1. options \in Seq(Option)
    BY DEF Init
  <2>2. payload_contains_options \in BOOLEAN
    BY Zenon DEF Init
  <2> QED
    BY <2>1, <2>2 DEF Init, TypeOK, State
<1>2. OptionsBounded
  BY PipelineAssumption DEF Init, OptionsBounded
<1> QED
  BY <1>1, <1>2 DEF Init, IInv, Progress, KeyRequired, OptionsKept

\* Reading the options of the header keeps the invariant.
LEMMA InvHeader ==
  ASSUME IInv, ParseHeader
  PROVE  IInv'
<1>1. request.header \in Seq(Option) /\ options = << >> /\ sent = NULL
  BY InputType DEF IInv, TypeOK, ParseHeader, Progress
<1>2. /\ options' \in Seq(Option) /\ Len(options') < MAX_OPTIONS
      /\ payload_contains_options' \in BOOLEAN
  BY <1>1, ParseBounded DEF IInv, ParseHeader
<1>3. TypeOK'
  BY <1>2 DEF IInv, TypeOK, State, ParseHeader
<1>4. << >> \o request.header = request.header
  BY <1>1
<1>5. Progress'
  <2>1. CASE Parses(request.header, request.header_end)
    <3>1. options' = request.header
      BY <1>1, <1>4, <2>1 DEF ParseHeader, ff_request_parse_options
    <3>2. payload_contains_options' = (request.header_end = "BREAK")
      BY <2>1 DEF ParseHeader, ff_request_parse_options
    <3>3. pc' = "decrypt" /\ payload' = payload /\ sent' = NULL /\ request' = request
      BY <1>1, <2>1 DEF ParseHeader
    <3>4. payload = "asSent"
      BY DEF IInv, Progress, ParseHeader
    <3> QED
      BY <3>1, <3>2, <3>3, <3>4 DEF Progress
  <2>2. CASE ~ Parses(request.header, request.header_end)
    BY <1>1, <2>2 DEF ParseHeader, Progress
  <2> QED
    BY <2>1, <2>2
<1>6. sent' = NULL
  BY <1>1 DEF ParseHeader
<1> QED
  BY <1>2, <1>3, <1>5, <1>6 DEF IInv, OptionsBounded, KeyRequired, OptionsKept

\* ff_decrypt_request keeps the invariant: with a key it lets only
\* authentic requests pass.
LEMMA InvDecrypt ==
  ASSUME IInv, ff_decrypt_request
  PROVE  IInv'
<1>1. /\ UNCHANGED <<request, options, payload_contains_options, sent>>
      /\ sent = NULL /\ payload = "asSent" /\ options = request.header
      /\ payload_contains_options = (request.header_end = "BREAK")
      /\ request \in Input
  BY DEF ff_decrypt_request, IInv, Progress, TypeOK
<1>2. TypeOK'
  BY <1>1 DEF IInv, TypeOK, State, ff_decrypt_request
<1>3. Decrypts /\ HasKey => request.encrypted /\ LastMode("MODE") # "none"
  BY DEF Decrypts, Authentic
<1>4. Progress'
  <2>1. CASE Decrypts
    BY <1>1, <1>3, <2>1 DEF ff_decrypt_request, Progress
  <2>2. CASE ~ Decrypts
    BY <1>1, <2>2 DEF ff_decrypt_request, Progress
  <2> QED
    BY <2>1, <2>2
<1> QED
  BY <1>1, <1>2, <1>4 DEF IInv, OptionsBounded, KeyRequired, OptionsKept

\* Reading the options of the payload keeps the invariant: they are appended
\* to those of the header.
LEMMA InvOptions ==
  ASSUME IInv, ff_request_parse_options_from_payload
  PROVE  IInv'
<1>1. /\ UNCHANGED <<request, sent>>
      /\ sent = NULL /\ payload \in {"asSent", "decrypted"} /\ options = request.header
      /\ payload_contains_options = (request.header_end = "BREAK")
      /\ HasKey => request.encrypted /\ payload = "decrypted"
      /\ request \in Input
  BY DEF ff_request_parse_options_from_payload, IInv, Progress, TypeOK
<1>2. CASE ~ payload_contains_options
  <2>1. /\ state' = "PARSED_OPTIONS" /\ pc' = "timestamp"
        /\ UNCHANGED <<options, payload_contains_options, payload>>
    BY <1>2 DEF ff_request_parse_options_from_payload
  <2>2. request.header \o << >> = request.header
    BY <1>1, InputType
  <2>3. Carried' = request.header
    BY <1>1, <1>2, <2>2, Zenon DEF Carried
  <2>4. TypeOK' /\ OptionsBounded'
    BY <1>1, <2>1 DEF IInv, TypeOK, State, OptionsBounded
  <2>5. Progress'
    BY <1>1, <2>1, <2>3 DEF Progress
  <2> QED
    BY <1>1, <2>4, <2>5 DEF IInv, KeyRequired, OptionsKept
<1>3. CASE payload_contains_options
  <2>1. PICK r \in Readings :
          /\ ff_request_parse_options(r.inner, r.inner_end)
          /\ IF ~ Parses(r.inner, r.inner_end)
             THEN state' = "PARSING_OPTIONS_FAILED" /\ pc' = "cleanup" /\ UNCHANGED payload
             ELSE IF ~ r.body \/ r.inner_end = "BREAK"
             THEN state' = "PARSING_OPTIONS_FAILED" /\ pc' = "cleanup" /\ payload' = "freed"
             ELSE state' = "PARSED_OPTIONS" /\ pc' = "timestamp" /\ payload' = "stripped"
    BY <1>3 DEF ff_request_parse_options_from_payload
  <2>2. r.inner \in Seq(Option)
    <3>1. r.inner = << >> \/ r.inner = request.inner
      BY DEF Readings
    <3>2. << >> \in Seq(Option) /\ request.inner \in Seq(Option)
      BY <1>1, InputType
    <3> QED
      BY <3>1, <3>2, Zenon
  <2>3. (request.encrypted => HasKey) => r.inner = request.inner
    BY <1>1 DEF Readings
  <2>4. /\ options' \in Seq(Option) /\ Len(options') < MAX_OPTIONS
        /\ payload_contains_options' \in BOOLEAN
    BY <2>1, <2>2, ParseBounded DEF IInv
  <2>5. /\ state' \in {"PARSED_OPTIONS", "PARSING_OPTIONS_FAILED"}
        /\ pc' \in {"cleanup", "timestamp"}
        /\ payload' \in {"asSent", "decrypted", "freed", "stripped"}
    BY <1>1, <2>1
  <2>6. TypeOK' /\ OptionsBounded'
    BY <1>1, <2>4, <2>5 DEF IInv, TypeOK, State, OptionsBounded
  <2>7. pc' = "timestamp" => payload' = "stripped" /\ options' = request.header \o r.inner
    BY <1>1, <2>1, Zenon DEF ff_request_parse_options
  <2>8. request.header_end = "BREAK"
    BY <1>1, <1>3, Zenon
  <2>9. Carried' = request.header \o request.inner
    BY <1>1, <2>8 DEF Carried
  <2>10. Progress'
    BY <1>1, <2>3, <2>5, <2>7, <2>9, Zenon DEF Progress
  <2> QED
    BY <1>1, <2>6, <2>10 DEF IInv, KeyRequired, OptionsKept
<1> QED
  BY <1>2, <1>3

\* The timestamp check, sending and the cleanup keep the invariant.
LEMMA InvRest ==
  ASSUME IInv,
         \/ ff_proxy_validate_request_timestamp
         \/ ff_http_send_request
         \/ Cleanup
  PROVE  IInv'
<1>1. UNCHANGED <<request, options, payload_contains_options>>
  BY DEF ff_proxy_validate_request_timestamp, ff_http_send_request, Cleanup
<1>2. Carried' = Carried /\ OptionsBounded'
  BY <1>1 DEF Carried, IInv, OptionsBounded
<1>3. CASE ff_proxy_validate_request_timestamp
  <2>1. TypeOK'
    BY <1>3 DEF IInv, TypeOK, ff_proxy_validate_request_timestamp
  <2>2. pc = "timestamp" /\ pc' \in {"send", "cleanup"} /\ UNCHANGED <<payload, sent, request>>
    BY <1>3 DEF ff_proxy_validate_request_timestamp
  <2>3. Progress'
    BY <1>1, <1>2, <2>2 DEF IInv, Progress
  <2> QED
    BY <1>1, <1>2, <2>1, <2>2, <2>3 DEF IInv, KeyRequired, OptionsKept
<1>4. CASE ff_http_send_request
  <2>1. /\ pc = "send" /\ pc' = "cleanup" /\ UNCHANGED <<payload, request>>
        /\ sent' \in {NULL, "plain", "tls"} /\ state' = "SENT"
    BY <1>4 DEF ff_http_send_request, SENDING_FAILED
  <2>2. TypeOK'
    BY <1>1, <2>1 DEF IInv, TypeOK, State
  <2>3. /\ HasKey => request.encrypted /\ payload # "asSent"
        /\ (request.encrypted => HasKey) => options = Carried
    BY <2>1 DEF IInv, Progress
  <2>4. Progress'
    BY <2>1 DEF Progress
  <2> QED
    BY <1>1, <1>2, <2>1, <2>2, <2>3, <2>4 DEF IInv, KeyRequired, OptionsKept
<1>5. CASE Cleanup
  <2>1. /\ pc' = "end" /\ payload' \in {"freed", "freedTwice"}
        /\ UNCHANGED <<state, sent>>
    BY <1>5 DEF Cleanup
  <2>2. TypeOK'
    BY <1>1, <2>1 DEF IInv, TypeOK
  <2>3. Progress'
    BY <2>1 DEF Progress
  <2> QED
    BY <1>1, <1>2, <2>1, <2>2, <2>3 DEF IInv, KeyRequired, OptionsKept
<1> QED
  BY <1>3, <1>4, <1>5

\* Every step of the worker keeps the invariant.
LEMMA InvNext == IInv /\ [Next]_vars => IInv'
<1> SUFFICES ASSUME IInv, [Next]_vars PROVE IInv'
  OBVIOUS
<1>1. CASE UNCHANGED vars
  BY <1>1, Zenon DEF vars, IInv, TypeOK, OptionsBounded, Progress, KeyRequired, OptionsKept, Carried
<1> QED
  BY <1>1, InvHeader, InvDecrypt, InvOptions, InvRest DEF Next

\* What the place in the pipeline says about a request (Progress) holds
\* throughout ff_proxy_process_request.
THEOREM Invariance == Spec => []IInv
BY InvInit, InvNext, PTL DEF Spec

\* Whatever options a request carries, all variables keep their types through
\* ff_proxy_process_request.
THEOREM TypeCorrect == Spec => []TypeOK
<1>1. IInv => TypeOK
  BY DEF IInv
<1> QED
  BY <1>1, Invariance, PTL

\* A proxy with a pre-shared key forwards no request that was not encrypted
\* and authenticated, whatever options the request carries.
THEOREM KeyIsRequired == Spec => []KeyRequired
<1>1. IInv => KeyRequired
  BY DEF IInv
<1> QED
  BY <1>1, Invariance, PTL

\* However many options header and payload have, the list of options stays
\* below its limit.
THEOREM OptionsFit == Spec => []OptionsBounded
<1>1. IInv => OptionsBounded
  BY DEF IInv
<1> QED
  BY <1>1, Invariance, PTL

\* A forwarded request has been judged by all of its options, in their order.
THEOREM NoOptionLost == Spec => []OptionsKept
<1>1. IInv => OptionsKept
  BY DEF IInv
<1> QED
  BY <1>1, Invariance, PTL

=============================================================================
