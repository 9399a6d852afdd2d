-------------------------------- MODULE Http --------------------------------
(***************************************************************************)
(* How a worker hands one request to its destination (src/src/http.c):     *)
(* over a plain TCP connection (ff_http_send_request_unencrypted) or over  *)
(* TLS (ff_http_send_request_tls).  Every library call may fail, write and *)
(* read calls may transfer any part of what they were given.               *)
(***************************************************************************)
EXTENDS HostHeader

CONSTANTS
  Payload,     \* the payloads a request may have
  Beyond,      \* what memory may hold after the payload
  BuffSize,    \* FF_HTTP_RESPONSE_BUFF_SIZE
  Prefix,      \* length of "HTTP/"
  MaxRetries   \* bound on reads over TLS that ask to be tried again

ASSUME HttpAssumption ==
  /\ Payload \subseteq Seq(Symbol) /\ Beyond \subseteq Symbol
  /\ BuffSize \in Nat \ {0} /\ Prefix \in Nat \ {0}
  /\ MaxRetries \in Nat

VARIABLES
  pc,         \* the next call
  payload,    \* request->payload->value, of request->payload_length symbols
  beyond,     \* the byte after it
  name,       \* the name in host_name
  https,      \* the request is to go over TLS
  isHttp,     \* what the server answers, if it does, starts with "HTTP/"
  host_name, res, sockfd, ctx, web,   \* resources: "none", "held" or "freed"
  sent,       \* bytes written, as the code counts them
  received,   \* bytes read, as the code counts them
  taken,      \* bytes the connection has really taken,
  intact,     \*   each write continuing where the one before it ended
  checked,    \* handshake done and certificate valid
  retries,    \* reads over TLS that were tried again
  state       \* request->state, with the two values of the outcome told apart

inputs == <<payload, beyond, https, isHttp>>
resources == <<host_name, res, sockfd, ctx, web>>
counters == <<sent, received, taken, intact, retries>>
vars == <<pc, inputs, name, resources, counters, checked, state>>

\* request->payload_length
Length == Len(payload)

Resource == {"none", "held", "freed"}

TypeOK ==
  /\ pc \in {"host", "resolve", "socket", "connect", "write", "recv", "context", "bio",
             "configure", "handshake", "certificate", "tlsWrite", "tlsRead",
             "done", "error", "end"}
  /\ payload \in Payload /\ beyond \in Beyond
  /\ https \in BOOLEAN /\ isHttp \in BOOLEAN /\ checked \in BOOLEAN
  /\ host_name \in Resource /\ res \in Resource /\ sockfd \in Resource
  /\ ctx \in Resource /\ web \in Resource
  /\ sent \in Int /\ received \in Int
  /\ taken \in Nat /\ intact \in BOOLEAN
  /\ retries \in 0 .. MaxRetries
  /\ state \in {"PARSED_OPTIONS", "SENT", "SENDING_FAILED"}

Init ==
  /\ pc = "host"
  /\ payload \in Payload /\ beyond \in Beyond /\ name = << >>
  /\ https \in BOOLEAN /\ isHttp \in BOOLEAN
  /\ host_name = "none" /\ res = "none" /\ sockfd = "none" /\ ctx = "none" /\ web = "none"
  /\ sent = 0 /\ received = 0 /\ taken = 0 /\ intact = TRUE /\ retries = 0
  /\ checked = FALSE
  /\ state = "PARSED_OPTIONS"

\* A call at `from' succeeds and control goes on at `to', or it fails.
Step(from, to) ==
  /\ pc = from
  /\ pc' \in {to, "error"}
  /\ UNCHANGED <<inputs, name, state>>

-----------------------------------------------------------------------------

\* The search for the Host header.
ff_http_get_destination_host ==
  /\ pc = "host"
  /\ LET host == DestinationHost(payload, beyond)
     IN  /\ name' = host.name
         /\ host_name' = IF host.found THEN "held" ELSE host_name
         /\ pc' = IF ~ host.found THEN "error" ELSE IF https THEN "context" ELSE "resolve"
  /\ UNCHANGED <<inputs, res, sockfd, ctx, web, counters, checked, state>>

\* getaddrinfo
Resolve ==
  /\ Step("resolve", "socket")
  /\ res' = IF pc' = "error" THEN res ELSE "held"
  /\ UNCHANGED <<host_name, sockfd, ctx, web, counters, checked>>

\* socket and setsockopt
Socket ==
  /\ Step("socket", "connect")
  /\ sockfd' = IF pc' = "error" THEN sockfd ELSE "held"
  /\ UNCHANGED <<host_name, res, ctx, web, counters, checked>>

Connect ==
  /\ Step("connect", "write")
  /\ UNCHANGED <<resources, counters, checked>>

\* The connection takes n bytes from offset `from' of the payload.
Take(from, n) ==
  /\ taken' = taken + n
  /\ intact' = (intact /\ (n > 0 => from = taken))

\* Mutant: the loop ends after the first write.
MutantWrite ==
  /\ pc = "write"
  /\ \/ /\ pc' = "error"
        /\ UNCHANGED <<sent, taken, intact>>
     \/ \E n \in 0 .. Length - sent :
          /\ n = 0 => sent = Length
          /\ Take(sent, n)
          /\ sent' = sent + n
          /\ pc' = "recv"
  /\ UNCHANGED <<inputs, name, resources, received, retries, checked, state>>

\* write fails or takes some of what is left, nothing only if nothing is left.
Write ==
  /\ pc = "write"
  /\ \/ /\ pc' = "error"
        /\ UNCHANGED <<sent, taken, intact>>
     \/ \E n \in 0 .. Length - sent :
          /\ n = 0 => sent = Length
          /\ Take(sent, n)
          /\ sent' = sent + n
          /\ pc' = IF n > 0 /\ sent' < Length THEN "write" ELSE "recv"
  /\ UNCHANGED <<inputs, name, resources, received, retries, checked, state>>

\* Mutant: the buffer is filled to the last byte.
MutantRecvAll ==
  /\ pc = "recv"
  /\ \/ pc' = "error" /\ UNCHANGED received
     \/ \E n \in 0 .. BuffSize - received :
          /\ received' = received + n
          /\ pc' = IF n = 0 \/ (isHttp /\ received' >= Prefix) \/ received' >= BuffSize - 1
                   THEN "done" ELSE "recv"
  /\ UNCHANGED <<inputs, name, resources, sent, taken, intact, retries, checked, state>>

\* Mutant: each read starts at the beginning of the buffer again.
MutantRecv ==
  /\ pc = "recv"
  /\ \/ pc' = "error" /\ UNCHANGED received
     \/ \E n \in 0 .. BuffSize - received - 1 :
          /\ received' = n
          /\ pc' = IF n = 0 \/ (isHttp /\ received' >= Prefix) \/ received' >= BuffSize - 1
                   THEN "done" ELSE "recv"
  /\ UNCHANGED <<inputs, name, resources, sent, taken, intact, retries, checked, state>>

\* recv fails (a timeout included), finds the end of the stream, or returns
\* some bytes; one byte of the buffer is kept for the terminating 0.
Recv ==
  /\ pc = "recv"
  /\ \/ pc' = "error" /\ UNCHANGED received
     \/ \E n \in 0 .. BuffSize - received - 1 :
          /\ received' = received + n
          /\ pc' = IF n = 0 \/ (isHttp /\ received' >= Prefix) \/ received' >= BuffSize - 1
                   THEN "done" ELSE "recv"
  /\ UNCHANGED <<inputs, name, resources, sent, taken, intact, retries, checked, state>>

-----------------------------------------------------------------------------

\* SSL_CTX_new
Context ==
  /\ Step("context", "bio")
  /\ ctx' = IF pc' = "error" THEN ctx ELSE "held"
  /\ UNCHANGED <<host_name, res, sockfd, web, counters, checked>>

\* BIO_new_ssl_connect
Bio ==
  /\ Step("bio", "configure")
  /\ web' = IF pc' = "error" THEN web ELSE "held"
  /\ UNCHANGED <<host_name, res, sockfd, ctx, counters, checked>>

\* Host name, port, ciphers and verification of the connection.
Configure ==
  /\ Step("configure", "handshake")
  /\ UNCHANGED <<resources, counters, checked>>

\* BIO_do_connect and BIO_do_handshake
Handshake ==
  /\ Step("handshake", "certificate")
  /\ UNCHANGED <<resources, counters, checked>>

\* Mutant: an invalid certificate is only logged.
MutantCertificate ==
  /\ pc = "certificate"
  /\ pc' = "tlsWrite"
  /\ checked' \in BOOLEAN
  /\ UNCHANGED <<inputs, name, resources, counters, state>>

\* The server has presented a certificate, and it is valid.
Certificate ==
  /\ Step("certificate", "tlsWrite")
  /\ checked' = (pc' = "tlsWrite")
  /\ UNCHANGED <<resources, counters>>

\* Mutant: every write starts at the beginning of the payload.
MutantTlsWrite ==
  /\ pc = "tlsWrite"
  /\ \E n \in -1 .. Length - sent :
       /\ Take(0, IF n < 0 THEN 0 ELSE n)
       /\ sent' = sent + n
       /\ pc' = IF n > 0 THEN "tlsWrite" ELSE "tlsRead"
  /\ UNCHANGED <<inputs, name, resources, received, retries, checked, state>>

\* BIO_write, until it returns 0 or fails: what it returns is added to the
\* count in either case.
TlsWrite ==
  /\ pc = "tlsWrite"
  /\ \E n \in -1 .. Length - sent :
       /\ Take(sent, IF n < 0 THEN 0 ELSE n)
       /\ sent' = sent + n
       /\ pc' = IF n > 0 THEN "tlsWrite" ELSE "tlsRead"
  /\ UNCHANGED <<inputs, name, resources, received, retries, checked, state>>

\* BIO_read, without a timeout.  Its result is added to the count even if it
\* is -1; when nothing was read BIO_should_retry may ask for another attempt.
TlsRead ==
  /\ pc = "tlsRead"
  /\ \E n \in -1 .. BuffSize - received :
       /\ received' = received + n
       /\ IF received' > Prefix /\ isHttp THEN pc' = "done" /\ UNCHANGED retries
          ELSE \/ n > 0 /\ UNCHANGED <<pc, retries>>
               \/ n <= 0 /\ retries < MaxRetries /\ pc' = pc /\ retries' = retries + 1
               \/ n <= 0 /\ pc' = "done" /\ UNCHANGED retries
  /\ UNCHANGED <<inputs, name, resources, sent, taken, intact, checked, state>>

-----------------------------------------------------------------------------

Release(r) == IF r = "held" THEN "freed" ELSE r

\* Mutant: the error path of a failed connection does not close the socket.
MutantCleanup ==
  /\ pc \in {"done", "error"}
  /\ pc' = "end"
  /\ state' = IF pc = "done" THEN "SENT" ELSE "SENDING_FAILED"
  /\ host_name' = Release(host_name) /\ res' = Release(res)
  /\ sockfd' = IF pc = "done" THEN Release(sockfd) ELSE sockfd
  /\ ctx' = Release(ctx) /\ web' = Release(web)
  /\ UNCHANGED <<inputs, name, counters, checked>>

\* The ends of the function that sends and of ff_http_send_request.
Cleanup ==
  /\ pc \in {"done", "error"}
  /\ pc' = "end"
  /\ state' = IF pc = "done" THEN "SENT" ELSE "SENDING_FAILED"
  /\ host_name' = Release(host_name) /\ res' = Release(res) /\ sockfd' = Release(sockfd)
  /\ ctx' = Release(ctx) /\ web' = Release(web)
  /\ UNCHANGED <<inputs, name, counters, checked>>

Unencrypted == Resolve \/ Socket \/ Connect \/ Write \/ Recv

TlsSetup == Context \/ Bio \/ Configure \/ Handshake \/ Certificate

Next ==
  \/ ff_http_get_destination_host
  \/ Unencrypted
  \/ TlsSetup \/ TlsWrite \/ TlsRead
  \/ Cleanup

Spec == Init /\ [][Next]_vars

(***************************************************************************)
(* Every call returns, recv because of SO_RCVTIMEO, connecting and writing *)
(* because of the time-outs of TCP.  A read over TLS need not return.      *)
(***************************************************************************)
FairSpec ==
  /\ Spec
  /\ WF_vars(ff_http_get_destination_host \/ Unencrypted \/ TlsSetup \/ TlsWrite \/ Cleanup)

-----------------------------------------------------------------------------
(***************************************************************************)
(* Properties.                                                             *)
(***************************************************************************)

\* The destination receives a prefix of the payload, no byte twice and none
\* out of place, however the writes are divided (http.c:142-158, 331-335).
PrefixWritten == intact /\ taken <= Length

\* Over TLS not one byte of the request leaves before the server's certificate
\* was found valid (http.c:297-329).
OnlyToVerified == https /\ taken > 0 => checked

\* A request sent over plain HTTP is reported as sent only if all of it was
\* written (http.c:140-158).
PlainSentIsWhole == state = "SENT" /\ ~ https => taken = Length

\* A plain response leaves room for the 0 that ends it, which strchr at
\* http.c:186 relies on, and one over TLS ends with the buffer at the latest,
\* although failed reads are counted too (http.c:341).
ResponseTerminated ==
  IF https THEN received <= BuffSize ELSE received \in 0 .. BuffSize - 1

\* In a request that is complete, holds no 0 and is not too long to search, the
\* name found is the one in the first Host line of the head, and one is found
\* only there: the byte that is read after the payload makes no difference
\* (http.c:378-455).
HostAsWritten ==
  /\ payload # << >> /\ payload[Length] = "lf"
  /\ Length < MaxSearch /\ \A i \in 1 .. Length : payload[i] # "nul"
  /\ pc # "host"
  => [found |-> host_name # "none", name |-> name] = FirstHost(payload)

\* Whatever fails, and wherever, everything acquired on the way is released
\* (http.c:197-209, 364-375, 74-80).
AllReleased ==
  pc = "end" => "held" \notin {host_name, res, sockfd, ctx, web}

\* Sending ends, unless the worker waits for the response over TLS: neither
\* loop over a plain connection goes on for ever.
SendEnds == <>(pc \in {"end", "tlsRead"})

=============================================================================
