------------------------------ MODULE Pipeline ------------------------------
(***************************************************************************)
(* What a worker does with one complete request: it reads the options      *)
(* (src/src/parser.c), decrypts the payload (src/src/crypto.c), reads the  *)
(* options inside the payload, checks the timestamp (src/src/server.c) and *)
(* sends the request on (src/src/http.c).                                  *)
(*                                                                         *)
(* Bytes are abstracted: an option is its type and what the code tells     *)
(* apart about its value, and a payload is the options it starts with and  *)
(* whether anything follows them.                                          *)
(***************************************************************************)
EXTENDS Integers, Sequences

CONSTANTS
  Input,        \* the requests a client may send
  MAX_OPTIONS,  \* FF_REQUEST_MAX_OPTIONS
  HasKey,       \* --pre-shared-key is given
  Now,          \* time(NULL)
  FudgeFactor,  \* --timestamp-fudge-factor
  NULL

(***************************************************************************)
(* Options.  `value' of ENCRYPTION_MODE and KEY_DERIVE_MODE: "none" (0),   *)
(* "known" or "unknown"; of IV, TAG and SALT: "empty", or "right" if it is *)
(* the one the payload was encrypted with, or "wrong"; of HTTPS: "on" or   *)
(* "off"; of any of them "badlen" for a length the code ignores.           *)
(***************************************************************************)
OptionType == {"MODE", "IV", "TAG", "KDF", "SALT", "HTTPS", "TIMESTAMP"}
Option ==
  [type : OptionType, time : Nat,
   value : {"none", "known", "unknown", "empty", "right", "wrong", "on", "off",
            "set", "badlen"}]

\* A list of options ends with EOL, with BREAK when more options follow in
\* the payload, or the buffer ends before ("NONE").
End == {"EOL", "BREAK", "NONE"}

Request ==
  [header : Seq(Option), header_end : End,
   encrypted : BOOLEAN,                      \* the payload is AES-GCM ciphertext
   inner : Seq(Option), inner_end : End,     \* what the plain payload starts with
   body : BOOLEAN]                           \* bytes follow those options

ASSUME PipelineAssumption ==
  /\ Input \subseteq Request
  /\ MAX_OPTIONS \in Nat \ {0}
  /\ HasKey \in BOOLEAN
  /\ Now \in Nat /\ FudgeFactor \in Nat

VARIABLES
  request,   \* what was sent
  pc,        \* next step of the worker
  state,     \* request->state
  options,   \* request->options
  payload_contains_options,
  payload,   \* request->payload: "asSent", "decrypted", "stripped" of options or "freed"
  sent       \* how the request was written upstream: NULL, "plain" or "tls"

vars == <<request, pc, state, options, payload_contains_options, payload, sent>>

State ==
  {"RECEIVING", "RECEIVED", "RECEIVING_FAIL", "DECRYPTED", "DECRYPTING_FAILED",
   "PARSED_OPTIONS", "PARSING_OPTIONS_FAILED", "SENT"}

\* FF_REQUEST_STATE_SENDING_FAILED has the same number as FF_REQUEST_STATE_SENT.
SENDING_FAILED == "SENT"

TypeOK ==
  /\ request \in Input
  /\ pc \in {"header", "decrypt", "options", "timestamp", "send", "cleanup", "end"}
  /\ state \in State
  /\ options \in Seq(Option)
  /\ payload_contains_options \in BOOLEAN
  /\ payload \in {"asSent", "decrypted", "stripped", "freed", "freedTwice"}
  /\ sent \in {NULL, "plain", "tls"}

Init ==
  /\ request \in Input
  /\ pc = "header"
  /\ state = "RECEIVING"
  /\ options = << >>
  /\ payload_contains_options = FALSE
  /\ payload = "asSent"
  /\ sent = NULL

-----------------------------------------------------------------------------

\* Mutant: the limit counts only the options being read.
MutantParses(list, end) == Len(list) < MAX_OPTIONS /\ end # "NONE"

\* ff_request_parse_options: the limit is tested before every option and
\* before the end of the list.
Parses(list, end) == Len(options) + Len(list) < MAX_OPTIONS /\ end # "NONE"

\* Mutant: later options replace earlier ones.
MutantParseOptions(list, end) ==
  /\ options' = IF Parses(list, end) THEN list ELSE options
  /\ payload_contains_options' =
       IF Parses(list, end) THEN end = "BREAK" ELSE payload_contains_options

ff_request_parse_options(list, end) ==
  /\ options' = IF Parses(list, end) THEN options \o list ELSE options
  /\ payload_contains_options' =
       IF Parses(list, end) THEN end = "BREAK" ELSE payload_contains_options

\* Options in the packet with offset 0, read while it is received.
ParseHeader ==
  /\ pc = "header"
  /\ ff_request_parse_options(request.header, request.header_end)
  /\ IF Parses(request.header, request.header_end)
     THEN state' = "RECEIVED" /\ pc' = "decrypt" /\ UNCHANGED payload
     ELSE state' = "RECEIVING_FAIL" /\ pc' = "end" /\ payload' = "freed"
  /\ UNCHANGED <<request, sent>>

\* The options of a type, in order.
OfType(t) == SelectSeq(options, LAMBDA o : o.type = t)

\* The last option of a type wins when they are read forwards ...
LastValue(t, none) ==
  LET s == OfType(t) IN IF s = << >> THEN none ELSE s[Len(s)].value

\* ... those of a wrong length skipped, for the modes.
LastMode(t) ==
  LET s == SelectSeq(options, LAMBDA o : o.type = t /\ o.value # "badlen")
  IN  IF s = << >> THEN "none" ELSE s[Len(s)].value

\* ff_derive_key
DerivesKey == LastMode("KDF") = "known" /\ LastValue("SALT", "empty") # "empty"

\* ff_decrypt_request_aes_256_gcm: authentication succeeds for a payload that
\* was encrypted under the key that is derived, with this IV and tag.
Authentic ==
  /\ DerivesKey
  /\ request.encrypted
  /\ \A t \in {"IV", "TAG", "SALT"} : LastValue(t, "empty") = "right"

\* Mutant: a request may ask for no encryption although there is a key.
MutantDecrypts ==
  \/ LastMode("MODE") = "none"
  \/ HasKey /\ LastMode("MODE") = "known" /\ Authentic

Decrypts ==
  IF LastMode("MODE") = "none" THEN ~ HasKey
  ELSE /\ HasKey
       /\ LastValue("IV", "empty") # "empty" /\ LastValue("TAG", "empty") # "empty"
       /\ LastMode("MODE") = "known"
       /\ Authentic

ff_decrypt_request ==
  /\ pc = "decrypt"
  /\ IF Decrypts
     THEN /\ state' = "DECRYPTED" /\ pc' = "options"
          /\ payload' = IF LastMode("MODE") = "none" THEN payload ELSE "decrypted"
     ELSE state' = "DECRYPTING_FAILED" /\ pc' = "cleanup" /\ UNCHANGED payload
  /\ UNCHANGED <<request, options, payload_contains_options, sent>>

\* What the payload looks like to the parser: ciphertext that was not
\* decrypted may look like anything.
Readings ==
  IF request.encrypted /\ payload # "decrypted"
  THEN {[inner |-> << >>, inner_end |-> e, body |-> TRUE] : e \in End}
  ELSE {[inner |-> request.inner, inner_end |-> request.inner_end, body |-> request.body]}

\* After the payload's options were read it must not be exhausted and must not
\* announce further ones; then the payload is replaced by what follows them.
\* If one of these tests fails the payload is freed, and stays in the request.
ff_request_parse_options_from_payload ==
  /\ pc = "options"
  /\ IF ~ payload_contains_options
     THEN /\ state' = "PARSED_OPTIONS" /\ pc' = "timestamp"
          /\ UNCHANGED <<options, payload_contains_options, payload>>
     ELSE \E r \in Readings :
            /\ ff_request_parse_options(r.inner, r.inner_end)
            /\ IF ~ Parses(r.inner, r.inner_end)
               THEN state' = "PARSING_OPTIONS_FAILED" /\ pc' = "cleanup" /\ UNCHANGED payload
               ELSE IF ~ r.body \/ r.inner_end = "BREAK"
               THEN state' = "PARSING_OPTIONS_FAILED" /\ pc' = "cleanup" /\ payload' = "freed"
               ELSE state' = "PARSED_OPTIONS" /\ pc' = "timestamp" /\ payload' = "stripped"
  /\ UNCHANGED <<request, sent>>

\* Read backwards without stopping: the first one in the list wins.
Timestamp ==
  LET s == SelectSeq(options, LAMBDA o : o.type = "TIMESTAMP" /\ o.value # "badlen")
  IN  IF s = << >> THEN 0 ELSE s[1].time

\* Mutant: the difference is not absolute.
MutantDistance(a, b) == a - b

Distance(a, b) == IF a > b THEN a - b ELSE b - a

ff_proxy_validate_request_timestamp ==
  /\ pc = "timestamp"
  /\ pc' = IF Timestamp = 0 \/ Distance(Now, Timestamp) <= FudgeFactor THEN "send" ELSE "cleanup"
  /\ UNCHANGED <<request, state, options, payload_contains_options, payload, sent>>

\* As for the timestamp, the first option in the list decides.
Https == OfType("HTTPS") # << >> /\ OfType("HTTPS")[1].value = "on"

\* The host header may be missing or the connection may fail, before anything
\* is written or later (module Http).
ff_http_send_request ==
  /\ pc = "send"
  /\ sent' \in {NULL, IF Https THEN "tls" ELSE "plain"}
  /\ state' \in {"SENT", SENDING_FAILED}
  /\ pc' = "cleanup"
  /\ UNCHANGED <<request, options, payload_contains_options, payload>>

\* The end of ff_proxy_process_request: the request is freed, with its payload.
Cleanup ==
  /\ pc = "cleanup"
  /\ pc' = "end"
  /\ payload' = IF payload = "freed" THEN "freedTwice" ELSE "freed"
  /\ UNCHANGED <<request, state, options, payload_contains_options, sent>>

Next ==
  \/ ParseHeader
  \/ ff_decrypt_request
  \/ ff_request_parse_options_from_payload
  \/ ff_proxy_validate_request_timestamp
  \/ ff_http_send_request
  \/ Cleanup

Spec == Init /\ [][Next]_vars

-----------------------------------------------------------------------------
(***************************************************************************)
(* Properties.                                                             *)
(***************************************************************************)

\* The options a request carries, those in its payload only if announced.
Carried ==
  request.header \o (IF request.header_end = "BREAK" THEN request.inner ELSE << >>)

InWindow(o) == Now <= o.time + FudgeFactor /\ o.time <= Now + FudgeFactor

Timestamps(list) == SelectSeq(list, LAMBDA o : o.type = "TIMESTAMP" /\ o.value # "badlen")

\* With a pre-shared key, only a request that was encrypted and authenticated
\* under it is forwarded (crypto.c:55-58; the options that are read later, from
\* the payload, cannot change this).
KeyRequired ==
  sent # NULL /\ HasKey => request.encrypted /\ payload # "asSent"

\* The list of options never reaches FF_REQUEST_MAX_OPTIONS entries, though it
\* is built in two places (parser.c:267, 333).
OptionsBounded == Len(options) < MAX_OPTIONS

\* No option is lost or reordered on the way to the decisions based on them:
\* those of the header come first, then those of the payload (parser.c:344).
OptionsKept ==
  sent # NULL /\ (request.encrypted => HasKey) => options = Carried

\* A request none of whose timestamps is within the window is not forwarded,
\* whether they lie in the past or in the future (server.c:285-287).
StaleNotSent ==
  sent # NULL /\ (request.encrypted => HasKey) =>
    \/ Timestamps(Carried) = << >>
    \/ \E k \in DOMAIN Timestamps(Carried) :
         Timestamps(Carried)[k].time = 0 \/ InWindow(Timestamps(Carried)[k])

\* "the encrypted options take precedence" (server.c:268, http.c:25).  If the
\* encrypted options of a forwarded request have timestamps (0 stands for none),
\* one of them is within the window; if they have HTTPS options and all are on, it is sent
\* over TLS.
EncryptedOptionsFirst ==
  LET https == SelectSeq(request.inner, LAMBDA o : o.type = "HTTPS")
      times == SelectSeq(Timestamps(request.inner), LAMBDA o : o.time # 0)
  IN  sent # NULL /\ HasKey /\ request.header_end = "BREAK" =>
        /\ times # << >> => \E k \in DOMAIN times : InWindow(times[k])
        /\ https # << >> /\ (\A k \in DOMAIN https : https[k].value = "on") => sent = "tls"

\* A request can be freed after its options were parsed, whatever the outcome
\* (as tests/fuzzing/fuzzer.c does): its payload is freed once.
PayloadFreedOnce == payload # "freedTwice"

=============================================================================
