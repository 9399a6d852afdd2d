------------------------------- MODULE Client -------------------------------
(***************************************************************************)
(* The C client (src/client/c/client.c, crypto.c): one run of the program, *)
(* from the body on its standard input to the datagrams it sends.  Lengths *)
(* keep their C types: a payload node holds at most U16 - 1 bytes.  A byte *)
(* of the body is its place in the body, from 1 on.                        *)
(***************************************************************************)
EXTENDS Integers, Sequences

CONSTANTS
  Config,           \* the configurations main may pass on
  Input,            \* the lengths the body may have
  NULL,
  U16,              \* 2^16
  ReadBuffer,       \* size of the buffer for reading the body
  MaxPacketLength,  \* FF_CLIENT_MAX_PACKET_LENGTH
  HeaderSize,       \* sizeof(struct __raw_ff_request_header)
  OptionHeader,     \* sizeof(struct __raw_ff_request_option_header)
  TimestampSize,    \* length of the value of the timestamp option
  CipherValues,     \* total length of the values of the five encryption options
  Capacity          \* how many packets the array of packets has room for

\* What the header and the options of a first packet take at most.
FirstOverhead == HeaderSize + 6 * OptionHeader + CipherValues

ASSUME ClientAssumption ==
  /\ Input \subseteq Nat
  /\ U16 \in Nat \ {0} /\ ReadBuffer \in Nat \ {0} /\ Capacity \in Nat \ {0}
  /\ HeaderSize \in Nat /\ OptionHeader \in Nat \ {0}
  /\ TimestampSize \in Nat /\ CipherValues \in Nat
  /\ MaxPacketLength \in Nat /\ MaxPacketLength < U16
  /\ FirstOverhead < MaxPacketLength
  /\ Capacity * (MaxPacketLength - FirstOverhead) >= U16
  /\ \E q \in 1 .. U16 : U16 = q * ReadBuffer

VARIABLES
  pc,              \* the next step of ff_client_make_request
  config,          \* its configuration: https and encryption.key
  input,           \* length of the body on the standard input
  consumed,        \* how much of it has been read
  body,            \* payload->value of the node for the body
  bytes,           \* request->payload->value, the rest of the payload in `body'
  node_length,     \* request->payload->length
  payload_length,  \* request->payload_length
  sealed,          \* the payload is ciphertext
  options_size,    \* what request->options take when written
  bytes_left, chunk_offset, packets,  \* of ff_client_packetise_request
  sent,            \* how many packets were given to sendto successfully
  ret_val          \* exit status, NULL while the program runs

payloadVars == <<consumed, body, bytes, node_length, payload_length, sealed, options_size>>
packetVars == <<bytes_left, chunk_offset, packets>>
clientVars == <<pc, config, input, payloadVars, packetVars, sent, ret_val>>

Garbage == -1
OptionByte == 0
Byte == Nat \cup {Garbage}

Packet ==
  [total_length : Nat, chunk_offset : Nat, chunk_length : 0 .. U16 - 1,
   length : 0 .. U16 - 1, data : Seq(Byte)]

TypeOK ==
  /\ pc \in {"main", "options", "read", "vectorise", "encrypt", "break", "packetise",
             "connect", "send", "done", "error", "end"}
  /\ config \in Config \cup {NULL}
  /\ input \in Nat /\ consumed \in 0 .. input
  /\ body \in Seq(Byte) /\ bytes \in Seq(Byte)
  /\ node_length \in 0 .. U16 - 1 /\ payload_length \in Nat
  /\ sealed \in BOOLEAN /\ options_size \in Nat
  /\ bytes_left \in 0 .. U16 - 1 /\ chunk_offset \in Nat
  /\ packets \in Seq(Packet) /\ sent \in 0 .. Len(packets)
  /\ ret_val \in {NULL, 0, 1}

Init ==
  /\ pc = "main" /\ config = NULL
  /\ input = 0 /\ consumed = 0
  /\ body = << >> /\ bytes = << >> /\ node_length = 0 /\ payload_length = 0
  /\ sealed = FALSE /\ options_size = 0
  /\ bytes_left = 0 /\ chunk_offset = 0 /\ packets = << >>
  /\ sent = 0 /\ ret_val = NULL

\* The smaller of two numbers.
Least(m, n) == IF m < n THEN m ELSE n

-----------------------------------------------------------------------------

\* main calls ff_client_make_request with whatever is on the standard input.
MakeRequest(c) ==
  /\ pc = "main"
  /\ config' = c /\ input' \in Input
  /\ pc' = "options"
  /\ UNCHANGED <<payloadVars, packetVars, sent, ret_val>>

\* main prints the usage or the version and returns.
PrintAndExit(status) ==
  /\ pc = "main"
  /\ pc' = "end" /\ ret_val' = status
  /\ UNCHANGED <<config, input, payloadVars, packetVars, sent>>

\* HTTPS if it is asked for, the timestamp and EOL.
PayloadOptions(https) ==
  (IF https THEN OptionHeader + 1 ELSE 0) + OptionHeader + TimestampSize + OptionHeader

\* The options go into a payload node of their own.
ff_client_create_payload_options ==
  /\ pc = "options"
  /\ node_length' = PayloadOptions(config.https) % U16
  /\ bytes' = [k \in 1 .. node_length' |-> OptionByte]
  /\ payload_length' = node_length'
  /\ pc' = "read"
  /\ UNCHANGED <<config, input, consumed, body, sealed, options_size, packetVars, sent, ret_val>>

\* Mutant: no byte of the last read is kept.
MutantReadChunk(n, length) ==
  [k \in 1 .. length |-> IF k <= Len(body) THEN body[k] ELSE Garbage]

\* realloc keeps what fits, memcpy puts the bytes read at the beginning.
ReadChunk(n, length) ==
  [k \in 1 .. length |-> IF k <= n THEN consumed + k
                         ELSE IF k <= Len(body) THEN body[k] ELSE Garbage]

\* Mutant: the result of realloc is not tested.
MutantRead ==
  /\ pc = "read" /\ consumed < input
  /\ LET n == Least(ReadBuffer, input - consumed)
     IN  /\ consumed' = consumed + n
         /\ body' = ReadChunk(n, (Len(body) + n) % U16)
  /\ UNCHANGED <<pc, config, input, bytes, node_length, payload_length, sealed, options_size,
                 packetVars, sent, ret_val>>

\* One turn of the loop of ff_client_read_payload_from_file.  When the length
\* comes to 0 again, realloc returns NULL and the program exits.
Read ==
  /\ pc = "read" /\ consumed < input
  /\ LET n == Least(ReadBuffer, input - consumed)
         length == (Len(body) + n) % U16
     IN  /\ consumed' = consumed + n
         /\ IF length = 0
            THEN pc' = "end" /\ ret_val' = 1 /\ UNCHANGED body
            ELSE body' = ReadChunk(n, length) /\ UNCHANGED <<pc, ret_val>>
  /\ UNCHANGED <<config, input, bytes, node_length, payload_length, sealed, options_size,
                 packetVars, sent>>

\* The loop ends, and ff_client_request_add_payload appends the node.
ReadEnd ==
  /\ pc = "read" /\ consumed = input
  /\ payload_length' = payload_length + Len(body)
  /\ pc' = "vectorise"
  /\ UNCHANGED <<config, input, consumed, body, bytes, node_length, sealed, options_size,
                 packetVars, sent, ret_val>>

\* The two nodes are joined; the length of the result is stored in 16 bits.
ff_request_vectorise_payload ==
  /\ pc = "vectorise"
  /\ bytes' = bytes \o body
  /\ node_length' = payload_length % U16
  /\ pc' = IF config.key = NULL THEN "break" ELSE "encrypt"
  /\ UNCHANGED <<config, input, consumed, body, payload_length, sealed, options_size,
                 packetVars, sent, ret_val>>

\* The ciphertext of the node replaces the payload.
ff_client_encrypt_request_aes_256_gcm_pbkdf2 ==
  /\ bytes' = SubSeq(bytes, 1, node_length)
  /\ payload_length' = node_length
  /\ sealed' = TRUE

\* The random numbers, the derivation of the key or the cipher may fail.
\* Otherwise five options describe the ciphertext.
ff_client_encrypt_request ==
  /\ pc = "encrypt"
  /\ \/ /\ pc' = "error"
        /\ UNCHANGED <<bytes, payload_length, sealed, options_size>>
     \/ /\ ff_client_encrypt_request_aes_256_gcm_pbkdf2
        /\ options_size' = options_size + 5 * OptionHeader + CipherValues
        /\ pc' = "break"
  /\ UNCHANGED <<config, input, consumed, body, node_length, packetVars, sent, ret_val>>

\* The BREAK option, and the beginning of ff_client_packetise_request: without
\* a request id the program exits.
Break ==
  /\ pc = "break"
  /\ options_size' = options_size + OptionHeader
  /\ \/ /\ pc' = "end" /\ ret_val' = 1
        /\ UNCHANGED bytes_left
     \/ /\ pc' = "packetise"
        /\ bytes_left' = payload_length % U16
        /\ UNCHANGED ret_val
  /\ UNCHANGED <<config, input, consumed, body, bytes, node_length, payload_length, sealed,
                 chunk_offset, packets, sent>>

\* Header and options: all of them in the first packet, only EOL in the others.
Overhead == HeaderSize + (IF packets = << >> THEN options_size ELSE OptionHeader)

\* Mutant: the options of the first packet are not counted.
MutantRoom == MaxPacketLength - HeaderSize - OptionHeader

Room == MaxPacketLength - Overhead

\* Mutant: every packet is filled from the beginning of the payload.
MutantPacketise ==
  /\ pc = "packetise" /\ bytes_left > 0
  /\ LET chunk == Least(bytes_left, Room)
     IN  /\ packets' = Append(packets,
              [total_length |-> payload_length, chunk_offset |-> chunk_offset,
               chunk_length |-> chunk, length |-> Overhead + chunk,
               data |-> SubSeq(bytes, 1, chunk)])
         /\ bytes_left' = bytes_left - chunk
         /\ chunk_offset' = chunk_offset + chunk
  /\ UNCHANGED <<pc, config, input, payloadVars, sent, ret_val>>

\* One turn of the loop of ff_client_packetise_request.
Packetise ==
  /\ pc = "packetise" /\ bytes_left > 0
  /\ LET chunk == Least(bytes_left, Room)
     IN  /\ packets' = Append(packets,
              [total_length |-> payload_length, chunk_offset |-> chunk_offset,
               chunk_length |-> chunk, length |-> Overhead + chunk,
               data |-> SubSeq(bytes, chunk_offset + 1, chunk_offset + chunk)])
         /\ bytes_left' = bytes_left - chunk
         /\ chunk_offset' = chunk_offset + chunk
  /\ UNCHANGED <<pc, config, input, payloadVars, sent, ret_val>>

\* Mutant: the loop ends when the offset has reached the length of the payload.
MutantPacketiseEnd ==
  /\ pc = "packetise" /\ chunk_offset = payload_length
  /\ pc' = "connect"
  /\ UNCHANGED <<config, input, payloadVars, packetVars, sent, ret_val>>

PacketiseEnd ==
  /\ pc = "packetise" /\ bytes_left = 0
  /\ pc' = "connect"
  /\ UNCHANGED <<config, input, payloadVars, packetVars, sent, ret_val>>

\* getaddrinfo and socket.
Connect ==
  /\ pc = "connect"
  /\ pc' \in {"send", "error"}
  /\ UNCHANGED <<config, input, payloadVars, packetVars, sent, ret_val>>

\* Mutant: a failure ends the loop and is not reported.
MutantSend ==
  /\ pc = "send" /\ sent < Len(packets)
  /\ \/ sent' = sent + 1 /\ UNCHANGED pc
     \/ pc' = "done" /\ UNCHANGED sent
  /\ UNCHANGED <<config, input, payloadVars, packetVars, ret_val>>

\* sendto, for the packets in their order.
Send ==
  /\ pc = "send" /\ sent < Len(packets)
  /\ \/ sent' = sent + 1 /\ UNCHANGED pc
     \/ pc' = "error" /\ UNCHANGED sent
  /\ UNCHANGED <<config, input, payloadVars, packetVars, ret_val>>

SendEnd ==
  /\ pc = "send" /\ sent = Len(packets)
  /\ pc' = "done"
  /\ UNCHANGED <<config, input, payloadVars, packetVars, sent, ret_val>>

\* Mutant: the number of packets becomes the exit status.
MutantReturn ==
  /\ pc \in {"done", "error"}
  /\ ret_val' = IF pc = "done" THEN sent ELSE 1
  /\ pc' = "end"
  /\ UNCHANGED <<config, input, payloadVars, packetVars, sent>>

\* The end of ff_client_make_request.
Return ==
  /\ pc \in {"done", "error"}
  /\ ret_val' = IF pc = "done" THEN 0 ELSE 1
  /\ pc' = "end"
  /\ UNCHANGED <<config, input, payloadVars, packetVars, sent>>

ff_client_make_request ==
  \/ ff_client_create_payload_options \/ Read \/ ReadEnd \/ ff_request_vectorise_payload
  \/ ff_client_encrypt_request \/ Break \/ Packetise \/ PacketiseEnd
  \/ Connect \/ Send \/ SendEnd \/ Return

Next ==
  \/ \E c \in Config : MakeRequest(c)
  \/ \E status \in {0, 1} : PrintAndExit(status)
  \/ ff_client_make_request

Spec == Init /\ [][Next]_clientVars

\* Nothing in the program waits for another: reading, resolving and sending
\* return.
FairSpec == Spec /\ WF_clientVars(ff_client_make_request)

-----------------------------------------------------------------------------
(***************************************************************************)
(* Properties.                                                             *)
(***************************************************************************)

\* The control points at which the payload is final.
Prepared == pc \in {"break", "packetise", "connect", "send", "done"}

\* No packet is longer than its buffer, and the array of packets, allocated
\* for pointers and filled with structures, is long enough (client.c:191, 224,
\* 234).
PacketsFit ==
  /\ Len(packets) <= Capacity
  /\ \A i \in 1 .. Len(packets) : packets[i].length <= MaxPacketLength

\* The packets cut the payload into consecutive pieces, none empty, that begin
\* with its first byte (client.c:198-237).
Tiles ==
  \A i \in 1 .. Len(packets) :
    /\ packets[i].chunk_length > 0
    /\ packets[i].chunk_offset =
         IF i = 1 THEN 0 ELSE packets[i - 1].chunk_offset + packets[i - 1].chunk_length
    /\ packets[i].data = SubSeq(bytes, packets[i].chunk_offset + 1,
                                packets[i].chunk_offset + packets[i].chunk_length)

\* The body and the options before it can be counted in 16 bits.
Fits == PayloadOptions(config.https) + input < U16

\* The exit status 0 means that packets with every byte of the payload were
\* sent, if it can be counted in 16 bits (client.c:194, 340-363).
SentWhole ==
  pc = "end" /\ config # NULL /\ ret_val = 0 /\ Fits =>
    /\ sent = Len(packets) /\ sent > 0
    /\ packets[sent].chunk_offset + packets[sent].chunk_length = packets[sent].total_length
    /\ packets[sent].total_length = Len(bytes)

\* A body that no 16-bit length can describe is never sent: the length comes
\* to exactly 0 on the way (client.c:171-178).
TooLongRefused == Prepared => input < U16

\* The payload: the options and then the whole body.
Intended(options) ==
  [k \in 1 .. options + input |-> IF k <= options THEN OptionByte ELSE k - options]

\* A body that is read at once is what the payload holds after the options
\* (client.c:160-187, 229).
ShortBodyIntact ==
  Prepared /\ input <= ReadBuffer /\ Fits => bytes = Intended(PayloadOptions(config.https))

\* The body of the request is what is on the standard input
\* (client/c/config.c: "Request body is read from STDIN").
BodyIntact == Prepared /\ Fits => bytes = Intended(PayloadOptions(config.https))

\* The program ends, whatever is on its standard input.
ClientEnds == <>(pc # "main") => <>(pc = "end")

=============================================================================
