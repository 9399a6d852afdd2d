----------------------------- MODULE NodeClient -----------------------------
(***************************************************************************)
(* The Node client as an agent of Node's http module (src/client/node):    *)
(* the application writes a request to a TcpToFfSocket, a stream whose     *)
(* first write FfClient.sendRequest sends.  The program has one thread:    *)
(* the application runs while sendRequest awaits something.                *)
(*                                                                         *)
(* A call of sendRequest keeps its state in the variables of Client, `pc'  *)
(* "main" standing for no call.  Here ret_val is what the stream's         *)
(* callback was called with, NULL if it was not.  JavaScript's numbers do  *)
(* not wrap, and node_length is not used.                                  *)
(***************************************************************************)
EXTENDS Client, SequencesExt

CONSTANTS
  NodeConfig,  \* what an FfClient may be constructed with
  Piece,       \* how much may be written at once, or between cork and uncork
  MaxWritten   \* bound on what the application writes

VARIABLES
  hasSent,       \* of TcpToFfSocket
  buffered,      \* held back by the stream while a write is in progress
  written,       \* bytes the application has written
  acknowledged,  \* those of them whose callback was called without an error
  refused        \* and those whose callback was called with one

nodeVars == <<hasSent, buffered, written, acknowledged, refused>>

NodeTypeOK ==
  /\ hasSent \in BOOLEAN
  /\ written \in 0 .. MaxWritten
  /\ buffered \in 0 .. written /\ acknowledged \in 0 .. written /\ refused \in 0 .. written

NodeInit ==
  /\ hasSent = FALSE
  /\ buffered = 0 /\ written = 0 /\ acknowledged = 0 /\ refused = 0

-----------------------------------------------------------------------------

\* A call of sendRequest with n bytes, those after the first `start' ones.
CallSendRequest(c, start, n) ==
  /\ config' = c /\ input' = n /\ consumed' = n
  /\ body' = [k \in 1 .. n |-> start + k]
  /\ sealed' = FALSE /\ options_size' = 0
  /\ chunk_offset' = 0 /\ packets' = << >> /\ sent' = 0 /\ ret_val' = NULL
  /\ pc' = "options"
  /\ UNCHANGED <<bytes, node_length, payload_length, bytes_left>>

\* Mutant: the socket sends whatever it is given.
MutantWritev(c, start, n) == hasSent' = TRUE /\ CallSendRequest(c, start, n) /\ UNCHANGED refused

\* TcpToFfSocket._writev: only the first write is sent.
writev(c, start, n) ==
  IF hasSent
  THEN /\ refused' = refused + n
       /\ pc' = "end" /\ ret_val' = 0
       /\ UNCHANGED <<config, input, payloadVars, packetVars, sent, hasSent>>
  ELSE hasSent' = TRUE /\ CallSendRequest(c, start, n) /\ UNCHANGED refused

\* The application runs: sendRequest is not called, or is waiting.
Awaiting == pc \in {"encrypt", "connect", "send", "done", "error"}

\* The application writes.  The stream holds the bytes back while an earlier
\* write is in progress, and takes no more once one has failed.
Write(c, n) ==
  /\ written + n <= MaxWritten
  /\ written' = written + n
  /\ \/ /\ pc = "main" \/ (pc = "end" /\ ret_val = 0)
        /\ writev(c, written, n)
        /\ UNCHANGED buffered
     \/ /\ Awaiting
        /\ buffered' = buffered + n
        /\ UNCHANGED <<clientVars, hasSent, refused>>
     \/ /\ pc = "end" /\ ret_val = 1
        /\ refused' = refused + n
        /\ UNCHANGED <<clientVars, hasSent, buffered>>
  /\ UNCHANGED acknowledged

-----------------------------------------------------------------------------

\* The lengths of the values of HTTPS, the timestamp and EOL.
createSecureOptions(https) == (IF https THEN <<1>> ELSE << >>) \o <<TimestampSize, 0>>

\* How long options are when written.
serializeRequestOptions(lengths) ==
  FoldLeft(LAMBDA size, length : OptionHeader + length + size, 0, lengths)

\* _createRequestPackets: a request id, and the options before the request.
createRequestPackets ==
  /\ pc = "options"
  /\ \/ /\ pc' = "error"
        /\ UNCHANGED <<bytes, payload_length>>
     \/ /\ bytes' = [k \in 1 .. serializeRequestOptions(createSecureOptions(config.https))
                        |-> OptionByte] \o body
        /\ payload_length' = Len(bytes')
        /\ pc' = IF config.key = NULL THEN "break" ELSE "encrypt"
  /\ UNCHANGED <<config, input, consumed, body, node_length, sealed, options_size,
                 packetVars, sent, ret_val>>

\* The derivation of the key is awaited, and may fail.
encryptPayload ==
  \/ pc' = "error" /\ UNCHANGED sealed
  \/ pc' = "break" /\ sealed' = TRUE

\* The ciphertext replaces the payload, and five options describe it.
Encrypt ==
  /\ pc = "encrypt"
  /\ encryptPayload
  /\ options_size' = IF pc' = "error" THEN options_size
                     ELSE options_size + 5 * OptionHeader + CipherValues
  /\ UNCHANGED <<config, input, consumed, body, bytes, node_length, payload_length,
                 packetVars, sent, ret_val>>

\* The BREAK option, and _packetiseRequest is called.
PushBreak ==
  /\ pc = "break"
  /\ options_size' = options_size + OptionHeader
  /\ bytes_left' = payload_length
  /\ pc' = "packetise"
  /\ UNCHANGED <<config, input, consumed, body, bytes, node_length, payload_length, sealed,
                 chunk_offset, packets, sent, ret_val>>

\* One turn of its loop.
packetiseRequest ==
  /\ pc = "packetise" /\ bytes_left > 0
  /\ LET ptr == HeaderSize + (IF chunk_offset = 0 THEN options_size ELSE OptionHeader)
         chunk == Least(bytes_left, MaxPacketLength - ptr)
     IN  /\ packets' = Append(packets,
              [total_length |-> payload_length, chunk_offset |-> chunk_offset,
               chunk_length |-> chunk, length |-> ptr + chunk,
               data |-> SubSeq(bytes, chunk_offset + 1, chunk_offset + chunk)])
         /\ bytes_left' = bytes_left - chunk
         /\ chunk_offset' = chunk_offset + chunk
  /\ UNCHANGED <<pc, config, input, payloadVars, sent, ret_val>>

Packetised ==
  /\ pc = "packetise" /\ bytes_left = 0
  /\ pc' = "connect"
  /\ UNCHANGED <<config, input, payloadVars, packetVars, sent, ret_val>>

\* The socket is bound.  An error would be an event nobody listens to, which
\* ends the process.
Bind ==
  /\ pc = "connect"
  /\ pc' \in {"send", "end"}
  /\ UNCHANGED <<config, input, payloadVars, packetVars, sent, ret_val>>

\* Each datagram is sent when the one before it has been.
SendPacket ==
  /\ pc = "send" /\ sent < Len(packets)
  /\ \/ sent' = sent + 1 /\ UNCHANGED pc
     \/ pc' = "error" /\ UNCHANGED sent
  /\ UNCHANGED <<config, input, payloadVars, packetVars, ret_val>>

Close ==
  /\ pc = "send" /\ sent = Len(packets)
  /\ pc' = "done"
  /\ UNCHANGED <<config, input, payloadVars, packetVars, sent, ret_val>>

\* A step of sendRequest that only concerns its own variables.
sendRequest ==
  /\ \/ createRequestPackets \/ Encrypt \/ PushBreak \/ packetiseRequest
     \/ Packetised \/ Bind \/ SendPacket \/ Close
  /\ UNCHANGED nodeVars

\* The request was sent: the response is emitted and the write acknowledged.
\* The stream goes on with what it has held back.
Then ==
  /\ pc = "done"
  /\ acknowledged' = acknowledged + input
  /\ buffered' = 0
  /\ IF buffered > 0 THEN writev(config, written - buffered, buffered)
     ELSE /\ pc' = "end" /\ ret_val' = 0
          /\ UNCHANGED <<config, input, payloadVars, packetVars, sent, hasSent, refused>>
  /\ UNCHANGED written

\* sendRequest has failed, or a listener to the response has.  So has the
\* write, and with it the stream and what it has held back.
Catch ==
  /\ pc \in {"done", "error"}
  /\ refused' = refused + input + buffered
  /\ buffered' = 0
  /\ pc' = "end" /\ ret_val' = 1
  /\ UNCHANGED <<config, input, payloadVars, packetVars, sent, hasSent, written, acknowledged>>

NodeStep == sendRequest \/ Then \/ Catch

NodeNext == (\E c \in NodeConfig, n \in Piece : Write(c, n)) \/ NodeStep

-----------------------------------------------------------------------------

\* The application is told of every byte whether it was sent: what has been
\* acknowledged was all sent as one whole request, and nothing is acknowledged
\* that was not part of it (tcp-to-ff-socket.ts:62-101, client.ts:52-84).
AcknowledgedIsSent ==
  /\ acknowledged > 0 =>
       /\ acknowledged = input
       /\ bytes = Intended(PayloadOptions(config.https))
       /\ sent = Len(packets)
       /\ packets[sent].chunk_offset + packets[sent].chunk_length = Len(bytes)
  /\ pc = "end" /\ ret_val # NULL /\ hasSent => acknowledged + refused = written

=============================================================================
