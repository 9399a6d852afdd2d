---------------------------- MODULE ClientProofs ----------------------------
(***************************************************************************)
(* Proofs about Client, for any body, any configuration and any sizes of   *)
(* buffers and headers that satisfy ClientAssumption.                      *)
(***************************************************************************)
EXTENDS Client, SequenceTheorems, TLAPS

\* The least room for a chunk in any packet.
LeastRoom == MaxPacketLength - FirstOverhead

\* What the options and the body take together, as ReadEnd adds them up.
Total == (PayloadOptions(config.https) % U16) + input

\* Before the packets are made.
Early == pc \in {"main", "options", "read", "vectorise", "encrypt", "break"}

\* The request has been sent.
Sent == pc = "done" \/ (pc = "end" /\ ret_val = 0 /\ config # NULL)

\* The payload is complete.
Final == Prepared \/ Sent

\* The body is read in whole buffers, up to the last one, and its length has
\* not wrapped as long as the program goes on.
ReadInv ==
  /\ pc \in {"main", "options"} => consumed = 0 /\ body = << >>
  /\ pc \in {"main", "options", "read"} => Len(body) = consumed /\ consumed < U16
  /\ pc \in {"main", "options", "read"} /\ consumed < input =>
       \E k \in 0 .. consumed : consumed = k * ReadBuffer
  /\ pc \in {"vectorise", "encrypt"} \/ Final => Len(body) = input /\ input < U16

\* The lengths kept with the payload are those of its bytes.
LengthInv ==
  /\ pc \in {"read", "vectorise"} => Len(bytes) = PayloadOptions(config.https) % U16
  /\ pc = "read" => payload_length = Len(bytes)
  /\ pc \in {"vectorise", "encrypt"} => payload_length = Total
  /\ pc = "encrypt" => Len(bytes) = payload_length /\ node_length = payload_length % U16
  /\ Final => Len(bytes) = payload_length /\ payload_length \in {Total, Total % U16}

\* The options leave room in the first packet.
OptionsInv ==
  /\ pc \in {"main", "options", "read", "vectorise", "encrypt"} => options_size = 0
  /\ pc = "break" => options_size <= 5 * OptionHeader + CipherValues
  /\ options_size <= 6 * OptionHeader + CipherValues

\* What was cut so far and what is left are the payload, and every packet but
\* the last has at least LeastRoom bytes of it.
CutInv ==
  /\ Early => packets = << >> /\ chunk_offset = 0 /\ bytes_left = 0 /\ sent = 0
  /\ Final /\ pc # "break" => chunk_offset + bytes_left = payload_length % U16
  /\ chunk_offset + bytes_left < U16
  /\ bytes_left > 0 => Len(packets) * LeastRoom <= chunk_offset
  /\ packets = << >> => chunk_offset = 0
  /\ \A i \in 1 .. Len(packets) : packets[i].total_length = payload_length
  /\ packets # << >> =>
       packets[Len(packets)].chunk_offset + packets[Len(packets)].chunk_length = chunk_offset

\* Nothing is left to cut when sending starts, nor to send when it ends.
SendInv ==
  /\ pc \in {"connect", "send"} \/ Sent => bytes_left = 0
  /\ Sent => sent = Len(packets)
  /\ pc = "main" => config = NULL

IInv ==
  TypeOK /\ ReadInv /\ LengthInv /\ OptionsInv /\ CutInv /\ SendInv /\ PacketsFit /\ Tiles

-----------------------------------------------------------------------------

\* What % does to a length.
LEMMA ModU16 ==
  ASSUME NEW n \in Nat
  PROVE  /\ n % U16 \in 0 .. U16 - 1
         /\ n % U16 <= n
         /\ n < U16 => n % U16 = n
<1>1. U16 \in Nat \ {0}
  BY ClientAssumption
<1>2. n % U16 \in 0 .. U16 - 1
  BY <1>1
<1>3. n < U16 => n % U16 = n
  BY <1>1
<1> QED
  BY <1>1, <1>2, <1>3

\* A multiple of the buffer's size below U16 leaves room for a whole buffer.
LEMMA WholeBuffers ==
  ASSUME NEW k \in Nat, k * ReadBuffer < U16
  PROVE  k * ReadBuffer + ReadBuffer <= U16
<1>1. PICK q \in 1 .. U16 : U16 = q * ReadBuffer
  BY ClientAssumption
<1>2. U16 \in Nat /\ ReadBuffer \in Nat \ {0}
  BY ClientAssumption
<1>3. q \in Nat /\ k * ReadBuffer < q * ReadBuffer
  BY <1>1, <1>2
<1>4. ASSUME k >= q PROVE FALSE
  BY <1>2, <1>3, <1>4
<1>5. k + 1 <= q
  BY <1>3, <1>4
<1>6. (k + 1) * ReadBuffer <= q * ReadBuffer
  BY <1>2, <1>3, <1>5
<1>7. (k + 1) * ReadBuffer = k * ReadBuffer + ReadBuffer
  BY <1>2
<1> QED
  BY <1>1, <1>6, <1>7

\* So many packets that each took LeastRoom bytes of a payload below U16 leave
\* an element of the array free.
LEMMA RoomInArray ==
  ASSUME NEW n \in Nat, n * LeastRoom < U16
  PROVE  n + 1 <= Capacity
<1>1. /\ LeastRoom \in Nat \ {0} /\ Capacity \in Nat /\ U16 \in Nat
      /\ Capacity * LeastRoom >= U16
  BY ClientAssumption DEF LeastRoom, FirstOverhead
<1>2. ASSUME n >= Capacity PROVE FALSE
  <2>1. n * LeastRoom >= Capacity * LeastRoom
    BY <1>1, <1>2
  <2> QED
    BY <1>1, <2>1
<1> QED
  BY <1>1, <1>2

\* The sizes of the options are numbers.
LEMMA OptionSizes ==
  ASSUME NEW https
  PROVE  PayloadOptions(https) \in Nat /\ PayloadOptions(https) > 0
BY ClientAssumption DEF PayloadOptions

\* The invariant holds when the program starts.
LEMMA InvInit == Init => IInv
<1> SUFFICES ASSUME Init PROVE IInv
  OBVIOUS
<1>1. U16 \in Nat \ {0} /\ OptionHeader \in Nat /\ CipherValues \in Nat /\ ReadBuffer \in Nat
  BY ClientAssumption
<1>2. TypeOK
  <2>1. sealed \in BOOLEAN
    BY Zenon DEF Init
  <2>2. /\ body \in Seq(Byte) /\ bytes \in Seq(Byte) /\ packets \in Seq(Packet)
        /\ sent \in 0 .. Len(packets)
    BY DEF Init
  <2> QED
    BY <1>1, <2>1, <2>2 DEF Init, TypeOK
<1>3. ReadInv
  BY <1>1 DEF Init, ReadInv, Final, Sent, Prepared
<1>4. LengthInv /\ OptionsInv /\ SendInv
  BY <1>1 DEF Init, LengthInv, OptionsInv, SendInv, Final, Sent, Prepared
<1>5. CutInv
  BY <1>1 DEF Init, CutInv, Final, Sent, Prepared, Early
<1>6. PacketsFit /\ Tiles
  BY ClientAssumption DEF Init, PacketsFit, Tiles
<1> QED
  BY <1>2, <1>3, <1>4, <1>5, <1>6 DEF IInv

\* No packet, no claim about packets.
LEMMA NoPackets ==
  ASSUME packets = << >>, UNCHANGED packets
  PROVE  PacketsFit' /\ Tiles'
BY ClientAssumption DEF PacketsFit, Tiles

\* main keeps the invariant.
LEMMA InvMain ==
  ASSUME IInv,
         (\E c \in Config : MakeRequest(c)) \/ (\E status \in {0, 1} : PrintAndExit(status))
  PROVE  IInv'
<1> USE DEF IInv
<1>1. /\ pc = "main" /\ config = NULL
      /\ UNCHANGED <<consumed, body, bytes, node_length, payload_length, sealed, options_size,
                     bytes_left, chunk_offset, packets, sent>>
      /\ \/ pc' = "options" /\ config' \in Config /\ input' \in Input /\ UNCHANGED ret_val
         \/ pc' = "end" /\ ret_val' \in {0, 1} /\ UNCHANGED <<config, input>>
  BY DEF MakeRequest, PrintAndExit, payloadVars, packetVars, SendInv
<1>2. /\ consumed = 0 /\ body = << >> /\ options_size = 0
      /\ packets = << >> /\ chunk_offset = 0 /\ bytes_left = 0 /\ sent = 0
      /\ Input \subseteq Nat /\ U16 \in Nat \ {0} /\ ReadBuffer \in Nat
      /\ OptionHeader \in Nat /\ CipherValues \in Nat
  BY <1>1, ClientAssumption DEF ReadInv, OptionsInv, CutInv, Early
<1>3. TypeOK'
  <2>1. /\ pc' \in {"options", "end"} /\ config' \in Config \cup {NULL}
        /\ input' \in Nat /\ consumed' \in 0 .. input' /\ ret_val' \in {NULL, 0, 1}
    <3>1. CASE pc' = "options"
      <4>1. config' \in Config /\ input' \in Input /\ UNCHANGED <<ret_val, consumed>>
        BY <1>1, <3>1
      <4>2. input' \in Nat /\ consumed' = 0
        BY <1>2, <4>1
      <4>3. ret_val \in {NULL, 0, 1}
        BY DEF TypeOK
      <4> QED
        BY <3>1, <4>1, <4>2, <4>3
    <3>2. CASE pc' = "end"
      BY <1>1, <1>2, <3>2 DEF TypeOK
    <3> QED
      BY <1>1, <3>1, <3>2
  <2> QED
    BY <1>1, <2>1 DEF TypeOK
<1>4. ReadInv'
  BY <1>1, <1>2 DEF ReadInv, Final, Sent, Prepared
<1>5. LengthInv' /\ OptionsInv' /\ SendInv'
  BY <1>1, <1>2 DEF LengthInv, OptionsInv, SendInv, Final, Sent, Prepared
<1>6. CutInv'
  BY <1>1, <1>2 DEF CutInv, Final, Sent, Prepared, Early
<1> QED
  BY <1>1, <1>2, <1>3, <1>4, <1>5, <1>6, NoPackets

\* The payload options keep the invariant.
LEMMA InvOptions ==
  ASSUME IInv, ff_client_create_payload_options
  PROVE  IInv'
<1> USE DEF IInv
<1>1. /\ pc = "options" /\ pc' = "read"
      /\ UNCHANGED <<config, input, consumed, body, sealed, options_size,
                     bytes_left, chunk_offset, packets, sent, ret_val>>
      /\ node_length' = PayloadOptions(config.https) % U16
      /\ bytes' = [k \in 1 .. node_length' |-> OptionByte]
      /\ payload_length' = node_length'
  BY DEF ff_client_create_payload_options, packetVars
<1>2. /\ consumed = 0 /\ body = << >> /\ options_size = 0
      /\ packets = << >> /\ chunk_offset = 0 /\ bytes_left = 0 /\ sent = 0
      /\ U16 \in Nat \ {0} /\ ReadBuffer \in Nat
      /\ OptionHeader \in Nat /\ CipherValues \in Nat
  BY <1>1, ClientAssumption DEF ReadInv, OptionsInv, CutInv, Early
<1>3. node_length' \in 0 .. U16 - 1
  BY <1>1, OptionSizes, ModU16
<1>4. bytes' \in Seq(Byte) /\ Len(bytes') = node_length'
  BY <1>1, <1>2, <1>3 DEF OptionByte, Byte
<1>5. TypeOK'
  BY <1>1, <1>2, <1>3, <1>4 DEF TypeOK
<1>6. ReadInv'
  BY <1>1, <1>2 DEF ReadInv, Final, Sent, Prepared, TypeOK
<1>7. LengthInv' /\ OptionsInv' /\ SendInv'
  BY <1>1, <1>2, <1>4 DEF LengthInv, OptionsInv, SendInv, Final, Sent, Prepared
<1>8. CutInv'
  BY <1>1, <1>2 DEF CutInv, Final, Sent, Prepared, Early
<1> QED
  BY <1>1, <1>2, <1>5, <1>6, <1>7, <1>8, NoPackets

\* Reading keeps the invariant: the length wraps only at U16 itself, where the
\* program exits.
LEMMA InvRead ==
  ASSUME IInv, Read
  PROVE  IInv'
<1> USE DEF IInv
<1> DEFINE n == Least(ReadBuffer, input - consumed)
           length == (Len(body) + n) % U16
<1>1. /\ pc = "read" /\ consumed < input /\ consumed' = consumed + n
      /\ \/ length = 0 /\ pc' = "end" /\ ret_val' = 1 /\ UNCHANGED body
         \/ length # 0 /\ body' = ReadChunk(n, length) /\ UNCHANGED <<pc, ret_val>>
      /\ UNCHANGED <<config, input, bytes, node_length, payload_length, sealed, options_size,
                     bytes_left, chunk_offset, packets, sent>>
  BY DEF Read, packetVars
<1>2. /\ options_size = 0
      /\ packets = << >> /\ chunk_offset = 0 /\ bytes_left = 0 /\ sent = 0
      /\ U16 \in Nat \ {0} /\ ReadBuffer \in Nat \ {0}
      /\ OptionHeader \in Nat /\ CipherValues \in Nat
      /\ input \in Nat /\ consumed \in 0 .. input /\ body \in Seq(Byte)
      /\ Len(body) = consumed /\ consumed < U16
  BY <1>1, ClientAssumption DEF ReadInv, OptionsInv, CutInv, Early, TypeOK
<1>3. /\ n \in 1 .. ReadBuffer /\ consumed + n <= input
      /\ consumed + n < input => n = ReadBuffer
  BY <1>1, <1>2 DEF Least
<1>4. PICK k \in 0 .. consumed : consumed = k * ReadBuffer
  BY <1>1 DEF ReadInv
<1>5. consumed + n <= U16
  BY <1>2, <1>3, <1>4, WholeBuffers
<1>6. consumed + n = U16 => length = 0
  BY <1>2, <1>3
<1>7. length # 0 => length = consumed + n /\ consumed + n < U16
  <2>1. consumed + n \in Nat
    BY <1>2, <1>3
  <2>2. consumed + n < U16 => (consumed + n) % U16 = consumed + n
    BY <2>1, ModU16
  <2> QED
    BY <1>2, <1>5, <1>6, <2>1, <2>2
<1> HIDE DEF n, length
<1>8. length # 0 => body' \in Seq(Byte) /\ Len(body') = consumed'
  <2>1. ASSUME length # 0, NEW j \in 1 .. length
        PROVE  (IF j <= n THEN consumed + j
                ELSE IF j <= Len(body) THEN body[j] ELSE Garbage) \in Byte
    BY <1>2, <1>3, <1>7, <2>1 DEF Byte, Garbage
  <2>2. length # 0 => body' \in [1 .. length -> Byte] /\ length \in Nat
    BY <1>1, <1>2, <1>3, <1>7, <2>1 DEF ReadChunk
  <2> QED
    BY <1>1, <1>7, <2>2
<1>9. TypeOK'
  BY <1>1, <1>2, <1>3, <1>8 DEF TypeOK
<1>10. ReadInv'
  <2>1. consumed' < input => \E j \in 0 .. consumed' : consumed' = j * ReadBuffer
    <3> SUFFICES ASSUME consumed' < input
                 PROVE  \E j \in 0 .. consumed' : consumed' = j * ReadBuffer
      OBVIOUS
    <3>1. consumed' = (k + 1) * ReadBuffer
      BY <1>1, <1>2, <1>3, <1>4
    <3>2. k + 1 \in 0 .. consumed'
      BY <1>1, <1>2, <1>3
    <3> QED
      BY <3>1, <3>2
  <2> QED
    BY <1>1, <1>2, <1>7, <1>8, <2>1 DEF ReadInv, Final, Sent, Prepared
<1>11. LengthInv' /\ OptionsInv' /\ SendInv'
  BY <1>1, <1>2 DEF LengthInv, OptionsInv, SendInv, Final, Sent, Prepared
<1>12. CutInv'
  BY <1>1, <1>2 DEF CutInv, Final, Sent, Prepared, Early
<1> QED
  BY <1>1, <1>2, <1>9, <1>10, <1>11, <1>12, NoPackets

\* The end of the body keeps the invariant.
LEMMA InvReadEnd ==
  ASSUME IInv, ReadEnd
  PROVE  IInv'
<1> USE DEF IInv
<1>1. /\ pc = "read" /\ pc' = "vectorise" /\ consumed = input
      /\ payload_length' = payload_length + Len(body)
      /\ UNCHANGED <<config, input, consumed, body, bytes, node_length, sealed, options_size,
                     bytes_left, chunk_offset, packets, sent, ret_val>>
  BY DEF ReadEnd, packetVars
<1>2. /\ options_size = 0
      /\ packets = << >> /\ chunk_offset = 0 /\ bytes_left = 0 /\ sent = 0
      /\ U16 \in Nat \ {0} /\ OptionHeader \in Nat /\ CipherValues \in Nat
      /\ input \in Nat /\ Len(body) = input /\ input < U16
      /\ Len(bytes) = PayloadOptions(config.https) % U16 /\ payload_length = Len(bytes)
  BY <1>1, ClientAssumption DEF ReadInv, LengthInv, OptionsInv, CutInv, Early, TypeOK
<1>3. Total' = Total /\ payload_length' = Total
  BY <1>1, <1>2 DEF Total
<1>4. TypeOK'
  BY <1>1, <1>2 DEF TypeOK
<1>5. ReadInv' /\ OptionsInv' /\ SendInv'
  BY <1>1, <1>2 DEF ReadInv, OptionsInv, SendInv, Final, Sent, Prepared
<1>6. LengthInv'
  BY <1>1, <1>2, <1>3 DEF LengthInv, Final, Sent, Prepared
<1>7. CutInv'
  BY <1>1, <1>2 DEF CutInv, Final, Sent, Prepared, Early
<1> QED
  BY <1>1, <1>2, <1>4, <1>5, <1>6, <1>7, NoPackets

\* Joining the options and the body keeps the invariant.
LEMMA InvVectorise ==
  ASSUME IInv, ff_request_vectorise_payload
  PROVE  IInv'
<1> USE DEF IInv
<1>1. /\ pc = "vectorise" /\ pc' \in {"break", "encrypt"}
      /\ bytes' = bytes \o body /\ node_length' = payload_length % U16
      /\ UNCHANGED <<config, input, consumed, body, payload_length, sealed, options_size,
                     bytes_left, chunk_offset, packets, sent, ret_val>>
  BY DEF ff_request_vectorise_payload, packetVars
<1>2. /\ options_size = 0
      /\ packets = << >> /\ chunk_offset = 0 /\ bytes_left = 0 /\ sent = 0
      /\ U16 \in Nat \ {0} /\ OptionHeader \in Nat /\ CipherValues \in Nat
      /\ input \in Nat /\ Len(body) = input /\ input < U16
      /\ Len(bytes) = PayloadOptions(config.https) % U16 /\ payload_length = Total
      /\ bytes \in Seq(Byte) /\ body \in Seq(Byte) /\ payload_length \in Nat
  BY <1>1, ClientAssumption DEF ReadInv, LengthInv, OptionsInv, CutInv, Early, TypeOK
<1>3. /\ bytes' \in Seq(Byte) /\ Len(bytes') = payload_length
      /\ node_length' \in 0 .. U16 - 1 /\ Total' = Total
  <2>1. bytes' \in Seq(Byte) /\ Len(bytes') = Len(bytes) + Len(body)
    BY <1>1, <1>2, ConcatProperties
  <2>2. Total = Len(bytes) + Len(body) /\ Total' = Total
    BY <1>1, <1>2 DEF Total
  <2>3. node_length' \in 0 .. U16 - 1
    BY <1>1, <1>2, ModU16
  <2> QED
    BY <1>2, <2>1, <2>2, <2>3
<1>4. TypeOK'
  BY <1>1, <1>3 DEF TypeOK
<1>5. ReadInv' /\ OptionsInv' /\ SendInv'
  BY <1>1, <1>2 DEF ReadInv, OptionsInv, SendInv, Final, Sent, Prepared
<1>6. LengthInv'
  BY <1>1, <1>2, <1>3 DEF LengthInv, Final, Sent, Prepared
<1>7. CutInv'
  BY <1>1, <1>2 DEF CutInv, Final, Sent, Prepared, Early
<1> QED
  BY <1>1, <1>2, <1>4, <1>5, <1>6, <1>7, NoPackets

\* Encryption keeps the invariant.
LEMMA InvEncrypt ==
  ASSUME IInv, ff_client_encrypt_request
  PROVE  IInv'
<1> USE DEF IInv
<1>1. /\ pc = "encrypt"
      /\ \/ pc' = "error" /\ UNCHANGED <<bytes, payload_length, sealed, options_size>>
         \/ /\ pc' = "break" /\ bytes' = SubSeq(bytes, 1, node_length)
            /\ payload_length' = node_length /\ sealed' = TRUE
            /\ options_size' = options_size + 5 * OptionHeader + CipherValues
      /\ UNCHANGED <<config, input, consumed, body, node_length,
                     bytes_left, chunk_offset, packets, sent, ret_val>>
  BY Zenon DEF ff_client_encrypt_request, ff_client_encrypt_request_aes_256_gcm_pbkdf2,
               packetVars
<1>2. /\ options_size = 0
      /\ packets = << >> /\ chunk_offset = 0 /\ bytes_left = 0 /\ sent = 0
      /\ U16 \in Nat \ {0} /\ OptionHeader \in Nat /\ CipherValues \in Nat
      /\ input \in Nat /\ Len(body) = input /\ input < U16
      /\ Len(bytes) = payload_length /\ payload_length = Total
      /\ node_length = payload_length % U16
      /\ bytes \in Seq(Byte) /\ payload_length \in Nat
  BY <1>1, ClientAssumption DEF ReadInv, LengthInv, OptionsInv, CutInv, Early, TypeOK
<1>3. node_length \in 0 .. Len(bytes) /\ node_length \in 0 .. U16 - 1 /\ Total' = Total
  <2>1. Total' = Total
    BY <1>1 DEF Total
  <2>2. node_length \in 0 .. U16 - 1 /\ node_length <= payload_length
    BY <1>2, ModU16
  <2> QED
    BY <1>2, <2>1, <2>2
<1>4. bytes' \in Seq(Byte) /\ (pc' = "break" => Len(bytes') = node_length)
  BY <1>1, <1>2, <1>3
<1>5. sealed' \in BOOLEAN
  BY <1>1, Zenon DEF TypeOK
<1>6. /\ options_size' \in Nat
      /\ options_size' <= 5 * OptionHeader + CipherValues
      /\ payload_length' \in Nat /\ pc' \in {"break", "error"}
      /\ pc' = "break" => payload_length' = node_length
  BY <1>1, <1>2, <1>3
<1>7. TypeOK'
  BY <1>1, <1>4, <1>5, <1>6 DEF TypeOK
<1>8. ReadInv' /\ OptionsInv' /\ SendInv'
  BY <1>1, <1>2, <1>6 DEF ReadInv, OptionsInv, SendInv, Final, Sent, Prepared
<1>9. LengthInv'
  BY <1>2, <1>3, <1>4, <1>6 DEF LengthInv, Final, Sent, Prepared
<1>10. CutInv'
  <2>1. UNCHANGED <<bytes_left, chunk_offset, packets, sent>>
    BY <1>1
  <2>2. Final' => pc' = "break"
    BY <1>6 DEF Final, Sent, Prepared
  <2> QED
    BY <1>2, <2>1, <2>2 DEF CutInv
<1> QED
  BY <1>1, <1>2, <1>7, <1>8, <1>9, <1>10, NoPackets

\* The last option and the beginning of the cutting keep the invariant.
LEMMA InvBreak ==
  ASSUME IInv, Break
  PROVE  IInv'
<1> USE DEF IInv
<1>1. /\ pc = "break" /\ options_size' = options_size + OptionHeader
      /\ \/ pc' = "end" /\ ret_val' = 1 /\ UNCHANGED bytes_left
         \/ pc' = "packetise" /\ bytes_left' = payload_length % U16 /\ UNCHANGED ret_val
      /\ UNCHANGED <<config, input, consumed, body, bytes, node_length, payload_length, sealed,
                     chunk_offset, packets, sent>>
  BY DEF Break
<1>2. /\ options_size \in Nat /\ options_size <= 5 * OptionHeader + CipherValues
      /\ packets = << >> /\ chunk_offset = 0 /\ bytes_left = 0 /\ sent = 0
      /\ U16 \in Nat \ {0} /\ OptionHeader \in Nat /\ CipherValues \in Nat
      /\ Len(body) = input /\ input < U16
      /\ Len(bytes) = payload_length /\ payload_length \in {Total, Total % U16}
      /\ payload_length \in Nat
  BY <1>1, ClientAssumption
     DEF ReadInv, LengthInv, OptionsInv, CutInv, Early, TypeOK, Final, Prepared
<1>3. /\ payload_length % U16 \in 0 .. U16 - 1 /\ Total' = Total
      /\ options_size' \in Nat /\ options_size' <= 6 * OptionHeader + CipherValues
      /\ LeastRoom \in Int
  BY <1>1, <1>2, ModU16, ClientAssumption DEF Total, LeastRoom, FirstOverhead
<1>4. TypeOK'
  BY <1>1, <1>2, <1>3 DEF TypeOK
<1>5. ReadInv' /\ OptionsInv' /\ SendInv'
  BY <1>1, <1>2, <1>3 DEF ReadInv, OptionsInv, SendInv, Final, Sent, Prepared
<1>6. LengthInv'
  BY <1>1, <1>2, <1>3 DEF LengthInv, Final, Sent, Prepared
<1>7. CutInv'
  <2>1. Len(packets) * LeastRoom = 0
    BY <1>2, <1>3
  <2> QED
    BY <1>1, <1>2, <1>3, <2>1 DEF CutInv, Final, Sent, Prepared, Early
<1> QED
  BY <1>1, <1>2, <1>4, <1>5, <1>6, <1>7, NoPackets

\* Cutting off a packet keeps the invariant.
LEMMA InvPacketise ==
  ASSUME IInv, Packetise
  PROVE  IInv'
<1> USE DEF IInv
<1> DEFINE chunk == Least(bytes_left, Room)
           p == [total_length |-> payload_length, chunk_offset |-> chunk_offset,
                 chunk_length |-> chunk, length |-> Overhead + chunk,
                 data |-> SubSeq(bytes, chunk_offset + 1, chunk_offset + chunk)]
<1>1. /\ pc = "packetise" /\ pc' = pc /\ bytes_left > 0
      /\ packets' = Append(packets, p)
      /\ bytes_left' = bytes_left - chunk /\ chunk_offset' = chunk_offset + chunk
      /\ UNCHANGED <<config, input, consumed, body, bytes, node_length, payload_length, sealed,
                     options_size, sent, ret_val>>
  BY DEF Packetise, payloadVars
<1>2. /\ U16 \in Nat \ {0} /\ bytes_left \in 1 .. U16 - 1 /\ chunk_offset \in Nat
      /\ payload_length \in Nat /\ bytes \in Seq(Byte) /\ Len(bytes) = payload_length
      /\ packets \in Seq(Packet) /\ sent \in 0 .. Len(packets)
      /\ MaxPacketLength \in Nat /\ MaxPacketLength < U16
  BY <1>1, ClientAssumption DEF TypeOK, LengthInv, Final, Prepared
<1>3. chunk_offset + bytes_left = payload_length % U16 /\ chunk_offset + bytes_left <= Len(bytes)
  <2>1. chunk_offset + bytes_left = payload_length % U16
    BY <1>1 DEF CutInv, Final, Prepared
  <2>2. payload_length % U16 <= payload_length
    BY <1>2, ModU16
  <2> QED
    BY <1>2, <2>1, <2>2
<1>4. /\ Overhead \in Nat /\ Room = MaxPacketLength - Overhead
      /\ LeastRoom \in Nat \ {0} /\ Room \in Nat /\ Room >= LeastRoom
  BY ClientAssumption DEF OptionsInv, TypeOK, Overhead, Room, LeastRoom, FirstOverhead
<1>5. /\ chunk \in 1 .. bytes_left /\ Overhead + chunk <= MaxPacketLength
      /\ chunk < bytes_left => chunk >= LeastRoom
  BY <1>2, <1>4 DEF Least
<1> HIDE DEF chunk
<1>6. p.data \in Seq(Byte)
  <2>1. \A i \in chunk_offset + 1 .. chunk_offset + chunk : bytes[i] \in Byte
    BY <1>2, <1>3, <1>5
  <2> QED
    BY <1>2, <1>5, <2>1, SubSeqProperties
<1>7. p \in Packet
  BY <1>2, <1>4, <1>5, <1>6 DEF Packet
<1>8. /\ packets' \in Seq(Packet) /\ Len(packets') = Len(packets) + 1
      /\ \A i \in 1 .. Len(packets) : packets'[i] = packets[i]
      /\ packets'[Len(packets) + 1] = p
  BY <1>1, <1>2, <1>7, AppendProperties
<1>9. /\ p.total_length = payload_length /\ p.chunk_offset = chunk_offset
      /\ p.chunk_length = chunk /\ p.length = Overhead + chunk
      /\ p.data = SubSeq(bytes, chunk_offset + 1, chunk_offset + chunk)
  OBVIOUS
<1> HIDE DEF p
<1>10. TypeOK'
  <2>1. /\ bytes_left' \in 0 .. U16 - 1 /\ chunk_offset' \in Nat /\ sent' \in 0 .. Len(packets')
    BY <1>1, <1>2, <1>5, <1>8
  <2> QED
    BY <1>1, <1>8, <2>1 DEF TypeOK
<1>11. ReadInv' /\ OptionsInv' /\ SendInv'
  BY <1>1 DEF ReadInv, OptionsInv, SendInv, Final, Sent, Prepared
<1>12. LengthInv'
  BY <1>1 DEF LengthInv, Final, Sent, Prepared, Total
<1>13. PacketsFit'
  <2>1. Len(packets) * LeastRoom < U16
    <3>1. Len(packets) * LeastRoom <= chunk_offset /\ chunk_offset < U16
      BY <1>1, <1>2 DEF CutInv
    <3>2. Len(packets) * LeastRoom \in Int
      BY <1>2, <1>4
    <3> QED
      BY <1>2, <3>1, <3>2
  <2>2. Len(packets) \in Nat
    BY <1>2
  <2>3. Len(packets') <= Capacity
    BY <1>8, <2>1, <2>2, RoomInArray
  <2>4. \A i \in 1 .. Len(packets') : packets'[i].length <= MaxPacketLength
    BY <1>5, <1>8, <1>9, <2>2 DEF PacketsFit
  <2> QED
    BY <2>3, <2>4 DEF PacketsFit
<1>14. Tiles'
  <2> SUFFICES ASSUME NEW i \in 1 .. Len(packets')
               PROVE  /\ packets'[i].chunk_length > 0
                      /\ packets'[i].chunk_offset =
                           IF i = 1 THEN 0
                           ELSE packets'[i - 1].chunk_offset + packets'[i - 1].chunk_length
                      /\ packets'[i].data =
                           SubSeq(bytes, packets'[i].chunk_offset + 1,
                                  packets'[i].chunk_offset + packets'[i].chunk_length)
    BY <1>1 DEF Tiles
  <2>1. CASE i \in 1 .. Len(packets)
    <3>1. packets'[i] = packets[i] /\ (i # 1 => packets'[i - 1] = packets[i - 1])
      BY <1>2, <1>8, <2>1
    <3> QED
      BY <2>1, <3>1 DEF Tiles
  <2>2. CASE i = Len(packets) + 1
    <3>1. packets'[i] = p /\ chunk > 0
      BY <1>5, <1>8, <2>2
    <3>2. i = 1 => chunk_offset = 0
      BY <1>2, <2>2 DEF CutInv
    <3>3. i # 1 => /\ packets'[i - 1] = packets[Len(packets)]
                   /\ packets[Len(packets)].chunk_offset + packets[Len(packets)].chunk_length
                        = chunk_offset
      BY <1>2, <1>8, <2>2 DEF CutInv
    <3> QED
      BY <1>9, <3>1, <3>2, <3>3
  <2> QED
    BY <1>2, <1>8, <2>1, <2>2
<1>15. CutInv'
  <2>1. chunk_offset' + bytes_left' = chunk_offset + bytes_left
    BY <1>1, <1>2, <1>5
  <2>2. bytes_left' > 0 => Len(packets') * LeastRoom <= chunk_offset'
    <3> SUFFICES ASSUME bytes_left' > 0 PROVE Len(packets') * LeastRoom <= chunk_offset'
      OBVIOUS
    <3>1. chunk >= LeastRoom
      BY <1>1, <1>2, <1>5
    <3>2. Len(packets) * LeastRoom <= chunk_offset
      BY <1>1 DEF CutInv
    <3>3. /\ Len(packets') * LeastRoom = Len(packets) * LeastRoom + LeastRoom
          /\ Len(packets) * LeastRoom \in Int
      BY <1>2, <1>4, <1>8
    <3> QED
      BY <1>1, <1>2, <1>4, <1>5, <3>1, <3>2, <3>3
  <2>3. \A i \in 1 .. Len(packets') : packets'[i].total_length = payload_length
    BY <1>2, <1>8, <1>9 DEF CutInv
  <2>4. packets' # << >>
    BY <1>2, <1>8
  <2>5. packets'[Len(packets')].chunk_offset + packets'[Len(packets')].chunk_length = chunk_offset'
    BY <1>1, <1>8, <1>9
  <2> QED
    BY <1>1, <2>1, <2>2, <2>3, <2>4, <2>5 DEF CutInv, Final, Sent, Prepared, Early
<1> QED
  BY <1>10, <1>11, <1>12, <1>13, <1>14, <1>15

\* Sending, and the end of the program, keep the invariant.
LEMMA InvSend ==
  ASSUME IInv, PacketiseEnd \/ Connect \/ Send \/ SendEnd \/ Return
  PROVE  IInv'
<1> USE DEF IInv
<1>1. /\ UNCHANGED <<config, input, consumed, body, bytes, node_length, payload_length, sealed,
                     options_size, bytes_left, chunk_offset, packets>>
      /\ pc \in {"packetise", "connect", "send", "done", "error"}
      /\ pc' \in {"connect", "send", "done", "error", "end"}
      /\ pc = "packetise" => pc' = "connect" /\ bytes_left = 0
      /\ pc' = "connect" => pc = "packetise"
      /\ pc' = "send" => pc \in {"connect", "send"}
      /\ pc = "error" => pc' = "end" /\ ret_val' = 1
      /\ pc' = "end" => pc \in {"done", "error"} /\ ret_val' \in {0, 1}
      /\ pc' = "done" => pc = "send" /\ sent = Len(packets)
      /\ pc' # "end" => UNCHANGED ret_val
      /\ pc # "send" => UNCHANGED sent
  BY DEF PacketiseEnd, Connect, Send, SendEnd, Return, payloadVars, packetVars
<1>2. sent' \in 0 .. Len(packets) /\ (pc' = "done" => sent' = sent)
  BY DEF PacketiseEnd, Connect, Send, SendEnd, Return, TypeOK
<1>3. Final' => Final /\ pc # "break"
  BY <1>1 DEF Final, Sent, Prepared
<1>4. Sent' => bytes_left = 0 /\ sent' = Len(packets)
  BY <1>1, <1>2 DEF SendInv, Sent
<1>5. TypeOK'
  <2>1. ret_val' \in {NULL, 0, 1}
    BY <1>1 DEF TypeOK
  <2> QED
    BY <1>1, <1>2, <2>1 DEF TypeOK
<1>6. ReadInv' /\ OptionsInv'
  BY <1>1, <1>3 DEF ReadInv, OptionsInv
<1>7. LengthInv'
  BY <1>1, <1>3 DEF LengthInv, Total
<1>8. CutInv'
  BY <1>1, <1>3 DEF CutInv, Early
<1>9. SendInv'
  BY <1>1, <1>4 DEF SendInv
<1>10. PacketsFit' /\ Tiles'
  BY <1>1 DEF PacketsFit, Tiles
<1> QED
  BY <1>5, <1>6, <1>7, <1>8, <1>9, <1>10

\* A step that changes nothing keeps the invariant.
LEMMA InvStutter ==
  ASSUME IInv, UNCHANGED clientVars
  PROVE  IInv'
<1>1. UNCHANGED <<pc, config, input, consumed, body, bytes, node_length, payload_length, sealed,
                  options_size, bytes_left, chunk_offset, packets, sent, ret_val>>
  BY DEF clientVars, payloadVars, packetVars
<1>2. TypeOK'
  BY <1>1 DEF IInv, TypeOK
<1>3. ReadInv' /\ LengthInv' /\ OptionsInv' /\ SendInv'
  BY <1>1 DEF IInv, ReadInv, LengthInv, OptionsInv, SendInv, Final, Sent, Prepared, Total
<1>4. CutInv' /\ PacketsFit' /\ Tiles'
  BY <1>1 DEF IInv, CutInv, PacketsFit, Tiles, Final, Sent, Prepared, Early
<1> QED
  BY <1>2, <1>3, <1>4 DEF IInv

-----------------------------------------------------------------------------

\* The invariant holds throughout the program.
THEOREM Invariance == Spec => []IInv
<1>1. IInv /\ [Next]_clientVars => IInv'
  BY InvMain, InvOptions, InvRead, InvReadEnd, InvVectorise, InvEncrypt, InvBreak, InvPacketise,
     InvSend, InvStutter DEF Next, ff_client_make_request
<1> QED
  BY InvInit, <1>1, PTL DEF Spec

\* Variables keep their types, 16-bit lengths included: nothing the client
\* computes is truncated without the model saying so (client.c:20-242).
THEOREM TypeCorrect == Spec => []TypeOK
<1>1. IInv => TypeOK
  BY DEF IInv
<1> QED
  BY <1>1, Invariance, PTL

\* Packets fit their buffers and the array, for every body and every set of
\* options (client.c:191, 224, 234).
THEOREM Fitting == Spec => []PacketsFit
<1>1. IInv => PacketsFit
  BY DEF IInv
<1> QED
  BY <1>1, Invariance, PTL

\* The packets cut the payload into consecutive pieces (client.c:198-237).
THEOREM Tiling == Spec => []Tiles
<1>1. IInv => Tiles
  BY DEF IInv
<1> QED
  BY <1>1, Invariance, PTL

\* A body of 2^16 bytes or more is never sent (client.c:171-178).
THEOREM Refusal == Spec => []TooLongRefused
<1>1. IInv => TooLongRefused
  BY DEF IInv, ReadInv, TooLongRefused, Final
<1> QED
  BY <1>1, Invariance, PTL

\* Exit status 0 means that every byte of the payload was given to sendto, if
\* 16 bits can count them (client.c:194, 340-363).
THEOREM Completeness == Spec => []SentWhole
<1>1. IInv => SentWhole
  <2> SUFFICES ASSUME IInv, pc = "end", config # NULL, ret_val = 0, Fits
               PROVE  /\ sent = Len(packets) /\ sent > 0
                      /\ packets[sent].chunk_offset + packets[sent].chunk_length
                           = packets[sent].total_length
                      /\ packets[sent].total_length = Len(bytes)
    BY DEF SentWhole
  <2>1. Sent /\ Final
    BY DEF Sent, Final
  <2>2. /\ U16 \in Nat \ {0} /\ input \in Nat /\ payload_length \in Nat
        /\ packets \in Seq(Packet) /\ bytes_left = 0 /\ chunk_offset \in Nat
        /\ sent = Len(packets) /\ Len(bytes) = payload_length
        /\ payload_length \in {Total, Total % U16}
    BY <2>1, ClientAssumption DEF IInv, TypeOK, SendInv, LengthInv
  <2>3. Total \in 1 .. U16 - 1
    <3>1. PayloadOptions(config.https) \in Nat /\ PayloadOptions(config.https) > 0
      BY OptionSizes
    <3>2. PayloadOptions(config.https) % U16 = PayloadOptions(config.https)
      <4>1. PayloadOptions(config.https) < U16
        BY <2>2, <3>1 DEF Fits
      <4> QED
        BY <3>1, <4>1, ModU16
    <3> QED
      BY <2>2, <3>1, <3>2 DEF Fits, Total
  <2>4. payload_length = Total
    <3>1. Total \in Nat /\ Total < U16
      BY <2>2, <2>3
    <3>2. Total % U16 = Total
      BY <3>1, ModU16
    <3> QED
      BY <2>2, <3>2
  <2>5. chunk_offset = payload_length
    <3>1. chunk_offset + bytes_left = payload_length % U16
      BY <2>1 DEF IInv, CutInv
    <3>2. payload_length % U16 = payload_length
      BY <2>2, <2>3, <2>4, ModU16
    <3> QED
      BY <2>2, <3>1, <3>2
  <2>6. packets # << >>
    BY <2>2, <2>3, <2>4, <2>5 DEF IInv, CutInv
  <2> QED
    BY <2>2, <2>5, <2>6 DEF IInv, CutInv
<1> QED
  BY <1>1, Invariance, PTL

-----------------------------------------------------------------------------

\* The byte at place k of the payload of a body that is read at once.
ShortByte(k) ==
  IF k <= PayloadOptions(config.https) % U16 THEN OptionByte
  ELSE k - (PayloadOptions(config.https) % U16)

\* A body that is read at once, on its way into the payload.
ShortInv ==
  input <= ReadBuffer =>
    /\ pc \in {"main", "options", "read", "vectorise"} => \A k \in 1 .. Len(body) : body[k] = k
    /\ pc \in {"read", "vectorise"} => \A k \in 1 .. Len(bytes) : bytes[k] = OptionByte
    /\ pc = "encrypt" \/ Prepared => \A k \in 1 .. Len(bytes) : bytes[k] = ShortByte(k)

\* Reading fills the node with the whole body.
LEMMA ShortRead ==
  ASSUME IInv, ShortInv, Read
  PROVE  ShortInv'
<1> DEFINE n == Least(ReadBuffer, input - consumed)
           length == (Len(body) + n) % U16
<1>1. /\ pc = "read" /\ consumed < input
      /\ \/ length = 0 /\ pc' = "end"
         \/ length # 0 /\ body' = ReadChunk(n, length) /\ UNCHANGED pc
      /\ UNCHANGED <<config, input, bytes>>
  BY DEF Read, packetVars
<1>2. /\ U16 \in Nat \ {0} /\ ReadBuffer \in Nat \ {0}
      /\ input \in Nat /\ consumed \in 0 .. input /\ body \in Seq(Byte) /\ Len(body) = consumed
  BY <1>1, ClientAssumption DEF IInv, ReadInv, TypeOK
<1>3. PICK k \in 0 .. consumed : consumed = k * ReadBuffer
  BY <1>1 DEF IInv, ReadInv
<1> SUFFICES ASSUME input <= ReadBuffer, pc' = "read"
             PROVE  /\ \A j \in 1 .. Len(body') : body'[j] = j
                    /\ \A j \in 1 .. Len(bytes) : bytes[j] = OptionByte
  BY <1>1 DEF ShortInv, Prepared
<1>4. consumed = 0
  <2>1. ASSUME k >= 1 PROVE FALSE
    <3>1. k * ReadBuffer >= ReadBuffer
      BY <1>2, <2>1
    <3> QED
      BY <1>1, <1>2, <1>3, <3>1
  <2>2. k = 0
    BY <1>2, <2>1
  <2> QED
    BY <1>2, <1>3, <2>2
<1>5. n = input /\ input \in Nat
  BY <1>2, <1>4 DEF Least
<1>6. length = input % U16
  BY <1>2, <1>4, <1>5
<1>7. length \in Nat /\ length <= input
  BY <1>5, <1>6, ModU16
<1> HIDE DEF n, length
<1>8. body' = [j \in 1 .. length |-> IF j <= n THEN consumed + j
                                     ELSE IF j <= Len(body) THEN body[j] ELSE Garbage]
  BY <1>1 DEF ReadChunk
<1>9. \A j \in 1 .. length : body'[j] = j
  BY <1>4, <1>5, <1>7, <1>8
<1>10. Len(body') = length
  BY <1>7, <1>8
<1> QED
  BY <1>1, <1>9, <1>10 DEF ShortInv

\* Joining and encrypting keep every byte in its place.
LEMMA ShortJoin ==
  ASSUME IInv, ShortInv, ff_request_vectorise_payload \/ ff_client_encrypt_request
  PROVE  ShortInv'
<1>1. CASE ff_request_vectorise_payload
  <2>1. /\ pc = "vectorise" /\ pc' \in {"break", "encrypt"} /\ bytes' = bytes \o body
        /\ UNCHANGED <<config, input, body>>
    BY <1>1 DEF ff_request_vectorise_payload
  <2>2. /\ bytes \in Seq(Byte) /\ body \in Seq(Byte)
        /\ Len(bytes) = PayloadOptions(config.https) % U16
    BY <2>1 DEF IInv, TypeOK, LengthInv
  <2>3. /\ Len(bytes') = Len(bytes) + Len(body)
        /\ \A k \in 1 .. Len(bytes) + Len(body) :
             bytes'[k] = IF k <= Len(bytes) THEN bytes[k] ELSE body[k - Len(bytes)]
    BY <2>1, <2>2, ConcatProperties
  <2> SUFFICES ASSUME input <= ReadBuffer, NEW k \in 1 .. Len(bytes')
               PROVE  bytes'[k] = ShortByte(k)
    BY <2>1 DEF ShortInv, ShortByte
  <2>4. CASE k <= Len(bytes)
    BY <2>1, <2>2, <2>3, <2>4 DEF ShortInv, ShortByte
  <2>5. CASE k > Len(bytes)
    <3>1. k - Len(bytes) \in 1 .. Len(body) /\ bytes'[k] = body[k - Len(bytes)]
      BY <2>2, <2>3, <2>5
    <3>2. body[k - Len(bytes)] = k - Len(bytes)
      BY <2>1, <3>1 DEF ShortInv
    <3> QED
      BY <2>2, <2>3, <2>5, <3>1, <3>2 DEF ShortByte
  <2> QED
    BY <2>2, <2>3, <2>4, <2>5
<1>2. CASE ff_client_encrypt_request
  <2>1. /\ pc = "encrypt" /\ UNCHANGED <<config, input>>
        /\ pc' = "error" \/ (pc' = "break" /\ bytes' = SubSeq(bytes, 1, node_length))
    BY <1>2 DEF ff_client_encrypt_request, ff_client_encrypt_request_aes_256_gcm_pbkdf2
  <2>2. /\ bytes \in Seq(Byte) /\ node_length \in Nat /\ payload_length \in Nat
        /\ Len(bytes) = payload_length /\ node_length = payload_length % U16
    BY <2>1, ClientAssumption DEF IInv, TypeOK, LengthInv
  <2>3. node_length <= Len(bytes)
    BY <2>2, ModU16
  <2> SUFFICES ASSUME input <= ReadBuffer, pc' = "break", NEW k \in 1 .. Len(bytes')
               PROVE  bytes'[k] = ShortByte(k)
    BY <2>1 DEF ShortInv, ShortByte, Prepared
  <2>4. k \in 1 .. node_length /\ bytes'[k] = bytes[k]
    BY <2>1, <2>2, <2>3
  <2>5. k \in 1 .. Len(bytes)
    BY <2>2, <2>3, <2>4
  <2> QED
    BY <2>1, <2>4, <2>5 DEF ShortInv
<1> QED
  BY <1>1, <1>2

\* A body that is read at once arrives in the payload as it is, for every
\* configuration and every such body (client.c:160-187, 229).
THEOREM ShortBodies == Spec => []ShortBodyIntact
<1>1. Init => ShortInv
  BY DEF Init, ShortInv, Prepared
<1>2. IInv /\ ShortInv /\ [Next]_clientVars => ShortInv'
  <2> SUFFICES ASSUME IInv, ShortInv, [Next]_clientVars PROVE ShortInv'
    OBVIOUS
  <2>1. CASE (\E c \in Config : MakeRequest(c)) \/ (\E status \in {0, 1} : PrintAndExit(status))
    <3>1. body = << >> /\ UNCHANGED body /\ pc' \in {"options", "end"}
      BY <2>1 DEF MakeRequest, PrintAndExit, payloadVars, IInv, ReadInv
    <3> QED
      BY <3>1 DEF ShortInv, Prepared
  <2>2. CASE ff_client_create_payload_options
    <3>1. /\ body = << >> /\ UNCHANGED body /\ pc' = "read"
          /\ node_length' = PayloadOptions(config.https) % U16
          /\ bytes' = [k \in 1 .. node_length' |-> OptionByte]
      BY <2>2 DEF ff_client_create_payload_options, IInv, ReadInv
    <3>2. node_length' \in Nat
      BY <3>1, OptionSizes, ModU16
    <3>3. \A k \in 1 .. Len(bytes') : bytes'[k] = OptionByte
      BY <3>1, <3>2
    <3>4. pc' = "read" /\ \A k \in 1 .. Len(body') : body'[k] = k
      BY <3>1
    <3> QED
      BY <3>3, <3>4 DEF ShortInv, Prepared
  <2>3. CASE Read
    BY <2>3, ShortRead
  <2>4. CASE ff_request_vectorise_payload \/ ff_client_encrypt_request
    BY <2>4, ShortJoin
  <2>5. CASE \/ ReadEnd \/ Break \/ Packetise \/ PacketiseEnd \/ Connect \/ Send \/ SendEnd
             \/ Return \/ UNCHANGED clientVars
    <3>1. UNCHANGED <<config, input, body, bytes>>
      BY <2>5 DEF ReadEnd, Break, Packetise, PacketiseEnd, Connect, Send, SendEnd, Return,
                  payloadVars, clientVars
    <3>2. \/ UNCHANGED pc
          \/ pc = "read" /\ pc' = "vectorise"
          \/ Prepared /\ pc' \in {"packetise", "connect", "send", "done"}
          \/ pc' \in {"error", "end"}
      <4>1. CASE ReadEnd \/ Break \/ Packetise \/ PacketiseEnd
        BY <4>1 DEF ReadEnd, Break, Packetise, PacketiseEnd, Prepared
      <4>2. CASE Connect \/ Send \/ SendEnd \/ Return
        BY <4>2 DEF Connect, Send, SendEnd, Return, Prepared
      <4>3. CASE UNCHANGED clientVars
        BY <4>3 DEF clientVars
      <4> QED
        BY <2>5, <4>1, <4>2, <4>3
    <3> QED
      BY <3>1, <3>2 DEF ShortInv, ShortByte, Prepared
  <2> QED
    BY <2>1, <2>2, <2>3, <2>4, <2>5 DEF Next, ff_client_make_request
<1>3. IInv /\ ShortInv => ShortBodyIntact
  <2> SUFFICES ASSUME IInv, ShortInv, Prepared, input <= ReadBuffer, Fits
               PROVE  bytes = Intended(PayloadOptions(config.https))
    BY DEF ShortBodyIntact
  <2> DEFINE options == PayloadOptions(config.https)
  <2>1. options \in Nat /\ U16 \in Nat \ {0} /\ input \in Nat /\ bytes \in Seq(Byte)
    BY OptionSizes, ClientAssumption DEF IInv, TypeOK
  <2>2. options < U16 /\ options + input < U16
    BY <2>1 DEF Fits
  <2>3. options % U16 = options
    BY <2>1, <2>2, ModU16
  <2>4. (options + input) % U16 = options + input
    <3>1. options + input \in Nat
      BY <2>1
    <3> QED
      BY <2>2, <3>1, ModU16
  <2>5. Len(bytes) = options + input
    BY <2>3, <2>4 DEF IInv, LengthInv, Final, Total
  <2>6. \A k \in 1 .. options + input : bytes[k] = IF k <= options THEN OptionByte ELSE k - options
    BY <2>3, <2>5 DEF ShortInv, ShortByte
  <2> HIDE DEF options
  <2>7. bytes = [k \in 1 .. options + input |-> IF k <= options THEN OptionByte ELSE k - options]
    BY <2>1, <2>5, <2>6
  <2> QED
    BY <2>7 DEF Intended, options
<1> QED
  BY <1>1, <1>2, <1>3, Invariance, PTL DEF Spec

=============================================================================
