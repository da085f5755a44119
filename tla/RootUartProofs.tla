---------------------------- MODULE RootUartProofs ----------------------------
(***************************************************************************)
(* Theorems about RootUart: the parser stays inside its buffer, commands go *)
(* out once and in order, and the parser finds the line again after a lost  *)
(* byte, for every set of packets, every packet length and every number of  *)
(* packets.                                                                 *)
(***************************************************************************)
EXTENDS RootUart, SequenceTheorems, TLAPS

-----------------------------------------------------------------------------
(* The invariants.                                                          *)

\* The packet on the line, its frame, and how many bytes of it are gone.
Number == Len(sent)
Line   == Frame(sent[Number])
Gone   == Len(Line) - Len(wire)

\* The packets are uart_send's, what is left of a frame is its end, and only a lost
\* or cleared byte damages a packet.
WireInv ==
  /\ Number <= MaxFrames
  /\ \A m \in 1 .. Number : \E body \in Bodies :
       sent[m] = <<Address(m)>> \o body /\ Len(sent[m]) <= MaxLength
  /\ Number = 0 => wire = <<>>
  /\ Number > 0 => Gone >= 0 /\ \A k \in 1 .. Len(wire) : wire[k] = Line[Gone + k]
  /\ damaged \subseteq 1 .. Number
  /\ lost = 0 /\ noise = 0 => damaged = {}

BaseInv == TypeOK /\ BufferBound /\ WireInv

-----------------------------------------------------------------------------
(* Frames.                                                                  *)

LEMMA Constants ==
  /\ TypeAt \in Nat /\ TypeAt >= 1 /\ UartTypeAt \in Nat /\ MaxLength \in Nat
  /\ MaxLength < 65536 /\ UartTypeAt < MaxLength /\ TypeAt + 2 < MaxLength
  /\ MaxFrames \in Nat /\ MaxFrames <= 100 /\ MaxLost \in Nat /\ MaxNoise \in Nat
  /\ PollInterval \in Nat /\ Slack \in Nat /\ Pause \in Nat
  BY FrameAssumption, TimeAssumption

\* A length fits the two bytes of the header, from which the parser gets it back.
LEMMA TwoBytes ==
  ASSUME NEW n \in Nat, n < 65536
  PROVE  n % 256 \in Byte /\ n \div 256 \in Byte /\ (n % 256) + 256 * (n \div 256) = n
<1>1. n % 256 \in 0 .. 255
  OBVIOUS
<1>2. n \div 256 \in 0 .. 255
  OBVIOUS
<1>3. (n % 256) + 256 * (n \div 256) = n
  OBVIOUS
<1> QED
  BY <1>1, <1>2, <1>3 DEF Byte

LEMMA MagicIs ==
  /\ uart_magic_sequence \in Seq(Byte) /\ Len(uart_magic_sequence) = 6
  /\ uart_magic_sequence[1] = 1 /\ uart_magic_sequence[2] = 22
  /\ uart_magic_sequence[3] = 22 /\ uart_magic_sequence[4] = 22
  /\ uart_magic_sequence[5] = 22 /\ uart_magic_sequence[6] = 16
  BY DEF uart_magic_sequence, Byte

\* What stands where in a concatenation.
LEMMA Joined ==
  ASSUME NEW a \in Seq(Byte), NEW b \in Seq(Byte), NEW s, s = a \o b
  PROVE  /\ s \in Seq(Byte) /\ Len(s) = Len(a) + Len(b)
         /\ \A k \in 1 .. Len(a) + Len(b) : s[k] = IF k <= Len(a) THEN a[k] ELSE b[k - Len(a)]
  BY ConcatProperties

LEMMA Prefixed ==
  ASSUME NEW x \in Byte, NEW body \in Seq(Byte), NEW d, d = <<x>> \o body
  PROVE  Len(d) = 1 + Len(body) /\ d[1] = x /\ \A k \in 1 .. Len(body) : d[k + 1] = body[k]
<1>1. PICK a : a = <<x>>
  OBVIOUS
<1>2. a \in Seq(Byte) /\ Len(a) = 1 /\ a[1] = x /\ Len(body) \in Nat
  BY <1>1
<1>3. d = a \o body
  BY <1>1
<1>4. /\ Len(d) = Len(a) + Len(body)
      /\ \A k \in 1 .. Len(a) + Len(body) : d[k] = IF k <= Len(a) THEN a[k] ELSE body[k - Len(a)]
  BY <1>2, <1>3, Joined
<1>5. d[1] = x
  <2>1. 1 \in 1 .. 1 + Len(body) /\ 1 <= 1
    BY <1>2
  <2> QED
    BY <1>2, <1>4, <2>1
<1>6. ASSUME NEW k \in 1 .. Len(body) PROVE d[k + 1] = body[k]
  <2>1. k + 1 \in 1 .. 1 + Len(body) /\ ~(k + 1 <= 1) /\ (k + 1) - 1 = k
    BY <1>2
  <2> QED
    BY <1>2, <1>4, <2>1
<1> QED
  BY <1>2, <1>4, <1>5, <1>6

\* The frame of a packet: magic sequence, version, length, checksum, data.
LEMMA FrameIs ==
  ASSUME NEW data \in Seq(Byte), Len(data) <= MaxLength
  PROVE  /\ Frame(data) \in Seq(Byte) /\ Len(Frame(data)) = 10 + Len(data)
         /\ \A k \in 1 .. 6 : Frame(data)[k] = uart_magic_sequence[k]
         /\ Frame(data)[7] = 3 /\ Frame(data)[8] = Len(data) % 256
         /\ Frame(data)[9] = Len(data) \div 256 /\ Frame(data)[10] = 255
         /\ \A k \in 1 .. Len(data) : Frame(data)[10 + k] = data[k]
<1>1. Len(data) \in Nat /\ Len(data) < 65536
  BY Constants
<1>2. PICK m : m = uart_magic_sequence
  OBVIOUS
<1>3. PICK h : h = <<UART_PROTOCOL_VERSION_V3, Len(data) % 256, Len(data) \div 256, 255>>
  OBVIOUS
<1>4. m \in Seq(Byte) /\ Len(m) = 6
  BY <1>2, MagicIs
<1>5. /\ h \in Seq(Byte) /\ Len(h) = 4
      /\ h[1] = 3 /\ h[2] = Len(data) % 256 /\ h[3] = Len(data) \div 256 /\ h[4] = 255
  <2>1. Len(data) % 256 \in Byte /\ Len(data) \div 256 \in Byte
    BY <1>1, TwoBytes
  <2>2. 3 \in Byte /\ 255 \in Byte
    BY DEF Byte
  <2> QED
    BY <1>3, <2>1, <2>2 DEF UART_PROTOCOL_VERSION_V3
<1>6. PICK s : s = m \o h
  OBVIOUS
<1>7. /\ s \in Seq(Byte) /\ Len(s) = Len(m) + Len(h)
      /\ \A k \in 1 .. Len(m) + Len(h) : s[k] = IF k <= Len(m) THEN m[k] ELSE h[k - Len(m)]
  <2>1. m \in Seq(Byte) /\ h \in Seq(Byte)
    BY <1>4, <1>5
  <2> QED
    BY <1>6, <2>1, Joined
<1>8. PICK f : f = s \o data
  OBVIOUS
<1>9. /\ f \in Seq(Byte) /\ Len(f) = Len(s) + Len(data)
      /\ \A k \in 1 .. Len(s) + Len(data) : f[k] = IF k <= Len(s) THEN s[k] ELSE data[k - Len(s)]
  <2>1. s \in Seq(Byte)
    BY <1>7
  <2> QED
    BY <1>8, <2>1, Joined
<1>10. Frame(data) = f
  BY <1>2, <1>3, <1>6, <1>8 DEF Frame
<1>11. Len(s) = 10 /\ Len(f) = 10 + Len(data)
  BY <1>1, <1>4, <1>5, <1>7, <1>9
<1>12. ASSUME NEW k \in 1 .. 6 PROVE f[k] = m[k]
  <2>0. k \in 1 .. Len(m) + Len(h) /\ k <= Len(m)
    BY <1>4, <1>5
  <2>1. s[k] = m[k]
    BY <1>7, <2>0
  <2> QED
    BY <1>1, <1>9, <1>11, <2>1
<1>13. ASSUME NEW k \in 1 .. 4 PROVE f[6 + k] = h[k]
  <2>1. 6 + k \in 1 .. Len(m) + Len(h) /\ ~(6 + k <= Len(m)) /\ (6 + k) - Len(m) = k
    BY <1>4, <1>5
  <2>2. s[6 + k] = h[k]
    BY <1>7, <2>1
  <2>3. 6 + k \in 1 .. 10 + Len(data) /\ 6 + k <= 10
    BY <1>1
  <2> QED
    BY <1>9, <1>11, <2>2, <2>3
<1>14. f[7] = h[1] /\ f[8] = h[2] /\ f[9] = h[3] /\ f[10] = h[4]
  <2>1. f[6 + 1] = h[1] /\ f[6 + 2] = h[2] /\ f[6 + 3] = h[3] /\ f[6 + 4] = h[4]
    BY <1>13
  <2> QED
    BY <2>1
<1>15. ASSUME NEW k \in 1 .. Len(data) PROVE f[10 + k] = data[k]
  <2>1. 10 + k \in 1 .. 10 + Len(data) /\ ~(10 + k <= 10) /\ (10 + k) - 10 = k
    BY <1>1
  <2> QED
    BY <1>9, <1>11, <2>1
<1> QED
  BY <1>2, <1>5, <1>9, <1>10, <1>11, <1>12, <1>14, <1>15

\* What uart_send puts behind the address is no address.
LEMMA PacketIs ==
  ASSUME NEW m \in 1 .. MaxFrames, NEW body \in Bodies
  PROVE  LET d == <<Address(m)>> \o body
         IN  /\ d \in Seq(Byte) /\ Len(d) = Len(body) + 1 /\ Len(d) >= TypeAt + 1
             /\ d[1] = Address(m)
             /\ \A i \in 2 .. Len(d) : \A k \in 1 .. MaxFrames : d[i] # Address(k)
             /\ \A k \in 1 .. MaxFrames :
                  Len(d) % 256 # Address(k) /\ Len(d) \div 256 # Address(k)
<1>1. body \in Seq(Byte) /\ Len(body) \in Nat /\ Len(body) >= TypeAt /\ TypeAt \in Nat
  BY FrameAssumption
<1>2. m \in Nat /\ m >= 1 /\ m <= 100
  BY Constants
<1>3. PICK a : a = <<Address(m)>>
  OBVIOUS
<1>4. a \in Seq(Byte) /\ Len(a) = 1 /\ a[1] = Address(m)
  <2>1. Address(m) \in Byte
    BY <1>2 DEF Address, Byte
  <2> QED
    BY <1>3, <2>1
<1>5. PICK d : d = <<Address(m)>> \o body
  OBVIOUS
<1>6. /\ d \in Seq(Byte) /\ Len(d) = Len(a) + Len(body)
      /\ \A k \in 1 .. Len(a) + Len(body) : d[k] = IF k <= Len(a) THEN a[k] ELSE body[k - Len(a)]
  <2>1. d = a \o body
    BY <1>3, <1>5
  <2> QED
    BY <1>1, <1>4, <2>1, Joined
<1>7. Len(d) = Len(body) + 1
  BY <1>1, <1>4, <1>6
<1>8. d[1] = Address(m)
  BY <1>1, <1>4, <1>6
<1>9. ASSUME NEW i \in 2 .. Len(d), NEW k \in 1 .. MaxFrames PROVE d[i] # Address(k)
  <2>1. i \in 1 .. 1 + Len(body) /\ ~(i <= 1) /\ i - 1 \in 1 .. Len(body)
    BY <1>1, <1>7
  <2>2. d[i] = body[i - 1]
    BY <1>4, <1>6, <2>1
  <2>3. i - 1 \in DOMAIN body
    BY <1>1, <2>1, LenProperties
  <2> QED
    BY <2>2, <2>3, AddressAssumption
<1>10. ASSUME NEW k \in 1 .. MaxFrames
       PROVE  Len(d) % 256 # Address(k) /\ Len(d) \div 256 # Address(k)
  <2>1. (Len(body) + 1) % 256 # Address(k) /\ (Len(body) + 1) \div 256 # Address(k)
    BY AddressAssumption
  <2> QED
    BY <1>7, <2>1
<1> QED
  BY <1>1, <1>5, <1>6, <1>7, <1>8, <1>9, <1>10

-----------------------------------------------------------------------------
(* What one byte does to the parser.                                        *)

ParserState ==
  [header : 0 .. (PACKET_HEADER_LENGTH + 1), bytes : [1 .. 4 -> Byte],
   got : 0 .. MaxLength, length : 0 .. MaxLength]

Fields(h, b, g, l) == [header |-> h, bytes |-> b, got |-> g, length |-> l]

Quiet     == UNCHANGED <<uart_data, mailbox, epoch, ccfg, running, accepted>>
Heard(c)  == [parser.bytes EXCEPT ![parser.header - 5] = c]
Stored(c) == [uart_data EXCEPT ![parser.got] = c]

Outside == parser.got = 0 /\ parser.length = 0

InMagic(c) ==
  /\ parser.header < 6 /\ Outside /\ Quiet /\ c = uart_magic_sequence[parser.header + 1]
  /\ parser' = Fields(parser.header + 1, parser.bytes, 0, 0)
OutOfMagic(c) ==
  /\ parser.header < 6 /\ Outside /\ Quiet /\ c # uart_magic_sequence[parser.header + 1]
  /\ parser' = Reset
InHeader(c) ==
  /\ parser.header \in 6 .. 8 /\ Outside /\ Quiet
  /\ parser' = Fields(parser.header + 1, Heard(c), 0, 0)
BadHeader(c) ==
  /\ parser.header = 9 /\ Outside /\ Quiet
  /\ Heard(c)[1] # 3 \/ Length(Heard(c)) > MaxLength
  /\ parser' = Reset
GoodHeader(c) ==
  /\ parser.header = 9 /\ Outside /\ Quiet
  /\ Heard(c)[1] = 3 /\ Length(Heard(c)) <= MaxLength
  /\ parser' = Fields(11, Heard(c), 0, Length(Heard(c)))
Endless ==
  parser.header = 11 /\ Outside /\ Quiet /\ parser' = parser
InData(c) ==
  /\ parser.header = 11 /\ parser.length > 0 /\ parser.got + 1 < parser.length
  /\ parser' = Fields(11, parser.bytes, parser.got + 1, parser.length)
  /\ uart_data' = Stored(c) /\ UNCHANGED <<mailbox, epoch, ccfg, running, accepted>>
EndOfData(c) ==
  /\ parser.header = 11 /\ parser.length > 0 /\ parser.got + 1 = parser.length
  /\ uart_packet_processed(Stored(c), parser.length)

Taken(c) ==
  \/ InMagic(c) \/ OutOfMagic(c) \/ InHeader(c) \/ BadHeader(c) \/ GoodHeader(c)
  \/ Endless \/ InData(c) \/ EndOfData(c)

LEMMA ParserIs ==
  ASSUME TypeOK
  PROVE  /\ parser \in ParserState
         /\ parser.header \in 0 .. 11 /\ parser.bytes \in [1 .. 4 -> Byte]
         /\ parser.got \in 0 .. MaxLength /\ parser.length \in 0 .. MaxLength
         /\ parser = Fields(parser.header, parser.bytes, parser.got, parser.length)
<1>1. parser \in ParserState
  BY DEF TypeOK, ParserState
<1> QED
  BY <1>1 DEF ParserState, Fields, PACKET_HEADER_LENGTH

LEMMA ResetIs ==
  /\ Reset \in ParserState /\ Reset.header = 0 /\ Reset.length = 0 /\ Reset.got = 0
  BY Constants DEF Reset, ParserState, Byte, PACKET_HEADER_LENGTH

LEMMA HeaderFields ==
  ASSUME NEW p \in ParserState, NEW h
  PROVE  [p EXCEPT !.bytes = h, !.header = @ + 1] = Fields(p.header + 1, h, p.got, p.length)
<1>1. PICK q : q = [p EXCEPT !.bytes = h, !.header = @ + 1]
  OBVIOUS
<1>2. q = [header |-> p.header + 1, bytes |-> h, got |-> p.got, length |-> p.length]
  BY <1>1 DEF ParserState
<1> QED
  BY <1>1, <1>2 DEF Fields

LEMMA LengthFields ==
  ASSUME NEW p \in ParserState, NEW h, NEW l
  PROVE  [p EXCEPT !.bytes = h, !.length = l, !.header = 11] = Fields(11, h, p.got, l)
<1>1. PICK q : q = [p EXCEPT !.bytes = h, !.length = l, !.header = 11]
  OBVIOUS
<1>2. q = [header |-> 11, bytes |-> h, got |-> p.got, length |-> l]
  BY <1>1 DEF ParserState
<1> QED
  BY <1>1, <1>2 DEF Fields

LEMMA LengthNat ==
  ASSUME NEW h \in [1 .. 4 -> Byte]
  PROVE  Length(h) \in Nat
<1>0. h[2] \in 0 .. 255 /\ h[3] \in 0 .. 255
  BY DEF Byte
<1>1. PICK x, y \in 0 .. 255 : x = h[2] /\ y = h[3]
  BY <1>0
<1>2. x + 256 * y \in Nat
  OBVIOUS
<1> QED
  BY <1>1, <1>2 DEF Length

\* uart_data_receiver takes a byte in one of eight ways.
LEMMA ReceiverTakes ==
  ASSUME TypeOK, BufferBound, NEW c \in Byte, uart_data_receiver(c)
  PROVE  Taken(c)
<1> USE DEF MAGIC_SEQUENCE_LENGTH, PACKET_HEADER_LENGTH
<1>p. /\ parser.header \in 0 .. 11 /\ parser.bytes \in [1 .. 4 -> Byte]
      /\ parser.got \in 0 .. MaxLength /\ parser.length \in 0 .. MaxLength
      /\ parser = Fields(parser.header, parser.bytes, parser.got, parser.length)
      /\ MaxLength \in Nat
  BY ParserIs, Constants
<1>q. parser \in ParserState
  BY ParserIs
<1>o. parser.header < 11 => Outside
  BY <1>p DEF BufferBound, Outside
<1>1. CASE ReadMagic(c)
  <2>1. parser.header < 6 /\ Outside
    BY <1>1, <1>o, <1>p DEF ReadMagic
  <2>2. [parser EXCEPT !.header = @ + 1] = Fields(parser.header + 1, parser.bytes, 0, 0)
    BY <1>p, <2>1 DEF Fields, Outside
  <2>3. Quiet
    BY <1>1 DEF ReadMagic, Idle, Quiet
  <2>4. parser' = IF c = uart_magic_sequence[parser.header + 1]
                  THEN [parser EXCEPT !.header = @ + 1] ELSE Reset
    BY <1>1 DEF ReadMagic, Idle
  <2> QED
    BY <2>1, <2>2, <2>3, <2>4 DEF InMagic, OutOfMagic, Taken
<1>2. CASE ReadHeader(c)
  <2>1. parser.header \in 6 .. 9 /\ Outside
    BY <1>2, <1>o, <1>p DEF ReadHeader
  <2>2. Heard(c) = [parser.bytes EXCEPT ![parser.header - 6 + 1] = c]
    <3>1. parser.header - 6 + 1 = parser.header - 5
      BY <2>1
    <3> QED
      BY <3>1 DEF Heard
  <2>3. Quiet
    BY <1>2 DEF ReadHeader, Idle, Quiet
  <2>4. PICK h : h = Heard(c)
    OBVIOUS
  <2>5. parser' = IF parser.header + 1 < 10
                  THEN [parser EXCEPT !.bytes = h, !.header = @ + 1]
                  ELSE IF h[1] # 3 \/ Length(h) > MaxLength
                  THEN Reset
                  ELSE [parser EXCEPT !.bytes = h, !.length = Length(h), !.header = 11]
    BY <1>2, <2>2, <2>4 DEF ReadHeader, Idle, UART_PROTOCOL_VERSION_V3
  <2>6. /\ [parser EXCEPT !.bytes = h, !.header = @ + 1] = Fields(parser.header + 1, h, 0, 0)
        /\ [parser EXCEPT !.bytes = h, !.length = Length(h), !.header = 11]
             = Fields(11, h, 0, Length(h))
    <3>1. parser.got = 0 /\ parser.length = 0
      BY <2>1 DEF Outside
    <3>2. [parser EXCEPT !.bytes = h, !.header = @ + 1]
            = Fields(parser.header + 1, h, parser.got, parser.length)
      BY <1>q, HeaderFields, Zenon
    <3>3. [parser EXCEPT !.bytes = h, !.length = Length(h), !.header = 11]
            = Fields(11, h, parser.got, Length(h))
      BY <1>q, LengthFields, Zenon
    <3> QED
      BY <3>1, <3>2, <3>3, Zenon
  <2>7. CASE parser.header + 1 < 10
    BY <2>1, <2>3, <2>4, <2>5, <2>6, <2>7 DEF InHeader, Taken
  <2>8. CASE ~(parser.header + 1 < 10)
    <3>1. parser.header = 9
      BY <2>1, <2>8
    <3>2. CASE h[1] # 3 \/ Length(h) > MaxLength
      BY <2>1, <2>3, <2>4, <2>5, <2>8, <3>1, <3>2 DEF BadHeader, Taken
    <3>3. CASE ~(h[1] # 3 \/ Length(h) > MaxLength)
      <4>1. Length(h) <= MaxLength
        <5>1. h \in [1 .. 4 -> Byte]
          BY <1>p, <2>1, <2>4 DEF Heard
        <5>3. Length(h) \in Nat
          BY <5>1, LengthNat
        <5> QED
          BY <1>p, <3>3, <5>3
      <4> QED
        BY <2>1, <2>3, <2>4, <2>5, <2>6, <2>8, <3>1, <3>3, <4>1 DEF GoodHeader, Taken
    <3> QED
      BY <3>2, <3>3
  <2> QED
    BY <2>7, <2>8
<1>3. CASE ReadData(c)
  <2>1. parser.header = 11
    BY <1>3, <1>p DEF ReadData
  <2>2. ~(parser.got >= MaxLength)
    BY <1>3, <1>p, Constants DEF BufferBound, ReadData
  <2>3. CASE parser.length = 0
    <3>1. Outside
      BY <1>p, <2>3 DEF BufferBound, Outside
    <3>2. Quiet /\ parser' = parser
      BY <1>3, <2>2, <2>3 DEF ReadData, Idle, Quiet
    <3> QED
      BY <2>1, <3>1, <3>2 DEF Endless, Taken
  <2>4. CASE parser.length # 0
    <3>1. parser.length > 0 /\ parser.got < parser.length
      BY <1>p, <2>4 DEF BufferBound
    <3>2. CASE parser.got + 1 = parser.length
      <4>1. uart_packet_processed(Stored(c), parser.length)
        BY <1>3, <2>2, <2>4, <3>2 DEF ReadData, Stored
      <4> QED
        BY <2>1, <3>1, <3>2, <4>1 DEF EndOfData, Taken
    <3>3. CASE parser.got + 1 # parser.length
      <4>1. /\ parser' = [parser EXCEPT !.got = @ + 1] /\ uart_data' = Stored(c)
            /\ UNCHANGED <<mailbox, epoch, ccfg, running, accepted>>
        BY <1>3, <2>2, <2>4, <3>3 DEF ReadData, Stored
      <4>2. [parser EXCEPT !.got = @ + 1] = Fields(11, parser.bytes, parser.got + 1, parser.length)
        BY <1>p, <2>1 DEF Fields
      <4>3. parser.got + 1 < parser.length
        BY <1>p, <3>1, <3>3
      <4> QED
        BY <2>1, <3>1, <4>1, <4>2, <4>3 DEF InData, Taken
    <3> QED
      BY <3>2, <3>3
  <2> QED
    BY <2>3, <2>4
<1> QED
  BY <1>1, <1>2, <1>3 DEF uart_data_receiver

\* A complete packet: what uart_packet_processed makes of it.
Received(c) == Packet(Stored(c), parser.length)
Box         == mailbox[DATA_TYPE_COMMAND]

LEMMA StoredType ==
  ASSUME TypeOK, BufferBound, NEW c \in Byte, parser.length > 0
  PROVE  /\ Stored(c) \in [0 .. (MaxLength - 1) -> Byte] /\ parser.got \in 0 .. (MaxLength - 1)
         /\ Stored(c)[parser.got] = c
         /\ \A i \in 0 .. (MaxLength - 1) : i # parser.got => Stored(c)[i] = uart_data[i]
<1>1. uart_data \in [0 .. (MaxLength - 1) -> Byte]
  BY DEF TypeOK
<1>2. parser.got \in 0 .. (MaxLength - 1)
  BY ParserIs, Constants DEF BufferBound
<1> QED
  BY <1>1, <1>2 DEF Stored

LEMMA PacketType ==
  ASSUME NEW b \in [0 .. (MaxLength - 1) -> Byte], NEW n \in 0 .. MaxLength
  PROVE  /\ Packet(b, n) \in Seq(Byte) /\ Len(Packet(b, n)) = n
         /\ \A k \in 1 .. n : Packet(b, n)[k] = b[k - 1]
<1>1. ASSUME NEW i \in 1 .. n PROVE b[i - 1] \in Byte
  <2>1. i - 1 \in 0 .. (MaxLength - 1)
    BY Constants
  <2> QED
    BY <2>1
<1>2. Packet(b, n) \in [1 .. n -> Byte]
  BY <1>1 DEF Packet
<1>3. n \in Nat
  BY Constants
<1>4. Packet(b, n) \in Seq(Byte) /\ DOMAIN Packet(b, n) = 1 .. n
  BY <1>2, <1>3
<1>5. Len(Packet(b, n)) = n
  BY <1>3, <1>4, LenProperties
<1> QED
  BY <1>4, <1>5 DEF Packet

\* The packet is added to those accepted and goes into the mailbox of commands if it is
\* one; a reboot empties that.
LEMMA ProcessedIs ==
  ASSUME TypeOK, BufferBound, NEW c \in Byte, EndOfData(c)
  PROVE  /\ Received(c) \in Seq(Byte) /\ Len(Received(c)) = parser.length
         /\ \A k \in 1 .. parser.length : Received(c)[k] = Stored(c)[k - 1]
         /\ accepted' = Append(accepted, Received(c)) /\ parser' = Reset
         /\ uart_data' \in [0 .. (MaxLength - 1) -> Byte] /\ mailbox' \in [Kind -> Message]
         /\ epoch' \in Byte /\ ccfg' \in {"whole", "erased"} /\ running' \in BOOLEAN
         /\ \/ Box' = Empty /\ Stored(c)[TypeAt] = DATA_TYPE_LOCAL_CMD
            \/ /\ Stored(c)[TypeAt] = DATA_TYPE_COMMAND
               /\ Box' = [ready |-> TRUE, data |-> Received(c)]
            \/ Stored(c)[TypeAt] # DATA_TYPE_COMMAND /\ Box' = Box
<1>1. PICK b : b = Stored(c)
  OBVIOUS
<1>2. PICK x : x = Received(c)
  OBVIOUS
<1>3. b \in [0 .. (MaxLength - 1) -> Byte]
  BY <1>1, StoredType DEF EndOfData
<1>4. x \in Seq(Byte) /\ Len(x) = parser.length /\ \A k \in 1 .. parser.length : x[k] = b[k - 1]
  <2>1. x = Packet(b, parser.length) /\ parser.length \in 0 .. MaxLength
    BY <1>1, <1>2, ParserIs DEF Received
  <2> QED
    BY <1>3, <2>1, PacketType
<1>5. uart_packet_processed(b, parser.length) /\ Packet(b, parser.length) = x
  BY <1>1, <1>2 DEF EndOfData, Received
<1>6. accepted' = Append(accepted, x)
  BY <1>5 DEF uart_packet_processed
<1>7. /\ TypeAt \in 0 .. (MaxLength - 1) /\ TypeAt + 1 \in 0 .. (MaxLength - 1)
      /\ TypeAt + 2 \in 0 .. (MaxLength - 1)
  BY Constants
<1>8. DATA_TYPE_COMMAND \in Kind /\ DATA_TYPE_COMMAND # DATA_TYPE_UART
  BY DEF Kind, DATA_TYPE_COMMAND, DATA_TYPE_UART
<1>9. CASE b[TypeAt] = DATA_TYPE_LOCAL_CMD /\ b[TypeAt + 1] = LOCAL_ROOT_COMMAND_REBOOT
  <2>1. Restart
    BY <1>5, <1>9 DEF uart_packet_processed
  <2>2. mailbox' = [k \in Kind |-> Empty] /\ Empty \in Message
    BY <2>1 DEF Restart, Empty, Message
  <2>3. mailbox' \in [Kind -> Message] /\ Box' = Empty
    BY <1>8, <2>2 DEF Box
  <2>4. uart_data' \in [0 .. (MaxLength - 1) -> Byte] /\ epoch' \in Byte
    BY <2>1 DEF Restart, Zeroed, Byte
  <2>5. ccfg' \in {"whole", "erased"} /\ running' \in BOOLEAN /\ parser' = Reset
    BY <2>1 DEF Restart, TypeOK
  <2> QED
    BY <1>1, <1>2, <1>4, <1>6, <1>9, <2>3, <2>4, <2>5
<1>10. CASE ~(b[TypeAt] = DATA_TYPE_LOCAL_CMD /\ b[TypeAt + 1] = LOCAL_ROOT_COMMAND_REBOOT)
  <2>1. /\ IF b[TypeAt] = DATA_TYPE_LOCAL_CMD
           THEN local_command(b) ELSE UNCHANGED <<epoch, ccfg, running>>
        /\ mailbox' = [k \in Kind |->
             IF Fills(b, k) THEN [ready |-> TRUE, data |-> x] ELSE mailbox[k]]
        /\ uart_data' = b /\ parser' = Reset
    BY <1>5, <1>10 DEF uart_packet_processed
  <2>2. [ready |-> TRUE, data |-> x] \in Message
    BY <1>4 DEF Message
  <2>3. mailbox' \in [Kind -> Message]
    BY <2>1, <2>2 DEF TypeOK
  <2>4. Box' = IF b[TypeAt] = DATA_TYPE_COMMAND THEN [ready |-> TRUE, data |-> x] ELSE Box
    BY <1>8, <2>1 DEF Fills, Box
  <2>5. b[TypeAt + 2] \in Byte
    BY <1>3, <1>7
  <2>6. epoch' \in Byte /\ ccfg' \in {"whole", "erased"} /\ running' \in BOOLEAN
    BY <2>1, <2>5 DEF local_command, TypeOK
  <2> QED
    BY <1>1, <1>2, <1>3, <1>4, <1>6, <2>1, <2>3, <2>4, <2>6
<1> QED
  BY <1>9, <1>10

\* One byte, whatever it is, keeps the types and the parser inside its buffer.
LEMMA ReceiverTypes ==
  ASSUME TypeOK, BufferBound, NEW c \in Byte, Taken(c)
  PROVE  /\ parser' \in ParserState /\ BufferBound'
         /\ uart_data' \in [0 .. (MaxLength - 1) -> Byte] /\ mailbox' \in [Kind -> Message]
         /\ epoch' \in Byte /\ ccfg' \in {"whole", "erased"} /\ running' \in BOOLEAN
         /\ accepted' \in Seq(Seq(Byte))
<1>p. /\ parser.header \in 0 .. 11 /\ parser.bytes \in [1 .. 4 -> Byte]
      /\ parser.got \in 0 .. MaxLength /\ parser.length \in 0 .. MaxLength
      /\ MaxLength \in Nat
  BY ParserIs, Constants
<1>q. Quiet => /\ uart_data' \in [0 .. (MaxLength - 1) -> Byte] /\ mailbox' \in [Kind -> Message]
               /\ epoch' \in Byte /\ ccfg' \in {"whole", "erased"} /\ running' \in BOOLEAN
               /\ accepted' \in Seq(Seq(Byte))
  BY DEF Quiet, TypeOK
<1>f. ASSUME NEW h \in 0 .. 11, NEW b \in [1 .. 4 -> Byte], NEW g \in 0 .. MaxLength,
             NEW l \in 0 .. MaxLength, parser' = Fields(h, b, g, l),
             l > 0 => g < l /\ h > 10, l = 0 => g = 0
      PROVE  parser' \in ParserState /\ BufferBound'
  <2>1. parser' \in ParserState
    BY <1>f DEF Fields, ParserState, PACKET_HEADER_LENGTH
  <2>2. parser'.header = h /\ parser'.got = g /\ parser'.length = l
    BY <1>f DEF Fields
  <2> QED
    BY <1>f, <1>p, <2>1, <2>2 DEF BufferBound, PACKET_HEADER_LENGTH
<1>r. parser' = Reset => parser' \in ParserState /\ BufferBound'
  BY ResetIs, Constants DEF BufferBound
<1>h. parser.header \in 6 .. 9 => Heard(c) \in [1 .. 4 -> Byte]
  BY <1>p DEF Heard
<1>1. CASE InMagic(c)
  <2>1. /\ parser.header + 1 \in 0 .. 11 /\ 0 \in 0 .. MaxLength
        /\ parser' = Fields(parser.header + 1, parser.bytes, 0, 0)
    BY <1>1, <1>p DEF InMagic
  <2>2. parser' \in ParserState /\ BufferBound'
    BY <1>f, <1>p, <2>1
  <2> QED
    BY <1>1, <1>q, <2>2 DEF InMagic
<1>2. CASE OutOfMagic(c) \/ BadHeader(c)
  BY <1>2, <1>q, <1>r DEF OutOfMagic, BadHeader
<1>3. CASE InHeader(c)
  <2>1. /\ parser.header + 1 \in 0 .. 11 /\ 0 \in 0 .. MaxLength
        /\ Heard(c) \in [1 .. 4 -> Byte] /\ parser' = Fields(parser.header + 1, Heard(c), 0, 0)
    BY <1>3, <1>h, <1>p DEF InHeader
  <2>2. parser' \in ParserState /\ BufferBound'
    BY <1>f, <1>p, <2>1
  <2> QED
    BY <1>3, <1>q, <2>2 DEF InHeader
<1>4. CASE GoodHeader(c)
  <2>1. Heard(c) \in [1 .. 4 -> Byte] /\ Length(Heard(c)) <= MaxLength
    BY <1>4, <1>h DEF GoodHeader
  <2>2. Length(Heard(c)) \in 0 .. MaxLength
    <3>3. Length(Heard(c)) \in Nat
      BY <2>1, LengthNat
    <3> QED
      BY <1>p, <2>1, <3>3
  <2> QED
    BY <1>4, <1>f, <1>p, <1>q, <2>1, <2>2 DEF GoodHeader
<1>5. CASE Endless
  BY <1>5, <1>q, ParserIs DEF Endless, BufferBound
<1>6. CASE InData(c)
  <2>1. parser' \in ParserState /\ BufferBound'
    <3>1. parser.got + 1 \in 0 .. MaxLength /\ parser.got + 1 < parser.length
      BY <1>6, <1>p DEF InData
    <3> QED
      BY <1>6, <1>f, <1>p, <3>1 DEF InData
  <2>2. uart_data' \in [0 .. (MaxLength - 1) -> Byte]
    BY <1>6, StoredType DEF InData
  <2> QED
    BY <1>6, <2>1, <2>2 DEF InData, TypeOK
<1>7. CASE EndOfData(c)
  <2>1. accepted' \in Seq(Seq(Byte))
    <3>1. accepted \in Seq(Seq(Byte)) /\ Received(c) \in Seq(Byte)
      BY <1>7, ProcessedIs DEF TypeOK
    <3>2. accepted' = Append(accepted, Received(c))
      BY <1>7, ProcessedIs
    <3> QED
      BY <3>1, <3>2, AppendProperties
  <2> QED
    BY <1>7, <1>r, <2>1, ProcessedIs
<1> QED
  BY <1>1, <1>2, <1>3, <1>4, <1>5, <1>6, <1>7 DEF Taken

-----------------------------------------------------------------------------
(* The line.                                                                *)

\* What is known of a packet that was sent.
LEMMA SentIs ==
  ASSUME TypeOK, WireInv, NEW m \in 1 .. Number
  PROVE  /\ m \in 1 .. MaxFrames /\ sent[m] \in Seq(Byte) /\ Len(sent[m]) \in Nat
         /\ Len(sent[m]) >= TypeAt + 1 /\ Len(sent[m]) <= MaxLength
         /\ sent[m][1] = Address(m)
         /\ \A i \in 2 .. Len(sent[m]) : \A k \in 1 .. MaxFrames : sent[m][i] # Address(k)
         /\ \A k \in 1 .. MaxFrames :
              Len(sent[m]) % 256 # Address(k) /\ Len(sent[m]) \div 256 # Address(k)
<1>1. Number \in Nat /\ MaxFrames \in Nat
  BY Constants DEF TypeOK, Number
<1>2. m \in 1 .. MaxFrames
  BY <1>1 DEF WireInv
<1>3. PICK body \in Bodies : sent[m] = <<Address(m)>> \o body /\ Len(sent[m]) <= MaxLength
  BY DEF WireInv
<1>4. /\ sent[m] \in Seq(Byte) /\ Len(sent[m]) >= TypeAt + 1 /\ sent[m][1] = Address(m)
      /\ \A i \in 2 .. Len(sent[m]) : \A k \in 1 .. MaxFrames : sent[m][i] # Address(k)
      /\ \A k \in 1 .. MaxFrames :
           Len(sent[m]) % 256 # Address(k) /\ Len(sent[m]) \div 256 # Address(k)
  BY <1>2, <1>3, PacketIs
<1>5. Len(sent[m]) \in Nat
  BY <1>4, LenProperties
<1> QED
  BY <1>2, <1>3, <1>4, <1>5

LEMMA LineIs ==
  ASSUME TypeOK, WireInv, Number > 0
  PROVE  /\ Number \in 1 .. MaxFrames /\ Number \in 1 .. Number
         /\ Line \in Seq(Byte) /\ Len(Line) = 10 + Len(sent[Number])
         /\ \A k \in 1 .. 6 : Line[k] = uart_magic_sequence[k]
         /\ Line[7] = 3 /\ Line[8] = Len(sent[Number]) % 256
         /\ Line[9] = Len(sent[Number]) \div 256 /\ Line[10] = 255
         /\ \A k \in 1 .. Len(sent[Number]) : Line[10 + k] = sent[Number][k]
         /\ Len(Line) \in Nat /\ Len(wire) \in Nat /\ Gone \in 0 .. Len(Line)
         /\ Len(wire) = Len(Line) - Gone
<1>0. Number \in Nat
  BY DEF TypeOK, Number
<1>1. Number \in Nat /\ Number \in 1 .. Number
  BY <1>0
<1>2. /\ Number \in 1 .. MaxFrames /\ sent[Number] \in Seq(Byte) /\ Len(sent[Number]) \in Nat
      /\ Len(sent[Number]) <= MaxLength
  BY <1>1, SentIs
<1>3. /\ Line \in Seq(Byte) /\ Len(Line) = 10 + Len(sent[Number])
      /\ \A k \in 1 .. 6 : Line[k] = uart_magic_sequence[k]
      /\ Line[7] = 3 /\ Line[8] = Len(sent[Number]) % 256
      /\ Line[9] = Len(sent[Number]) \div 256 /\ Line[10] = 255
      /\ \A k \in 1 .. Len(sent[Number]) : Line[10 + k] = sent[Number][k]
  BY <1>2, FrameIs, Zenon DEF Line
<1>4. Len(wire) \in Nat
  BY DEF TypeOK
<1>5. Len(Line) \in Nat
  BY <1>2, <1>3
<1>6. Gone \in 0 .. Len(Line) /\ Len(wire) = Len(Line) - Gone
  BY <1>4, <1>5 DEF WireInv, Gone
<1> QED
  BY <1>1, <1>2, <1>3, <1>4, <1>5, <1>6

\* The length that the frame announces.
LEMMA LineLength ==
  ASSUME TypeOK, WireInv, Number > 0
  PROVE  Line[8] + 256 * Line[9] = Len(sent[Number])
<1>1. PICK n : n = Len(sent[Number])
  OBVIOUS
<1>2. Line[8] = n % 256 /\ Line[9] = n \div 256 /\ Number \in 1 .. Number
  BY <1>1, LineIs
<1>3. n \in Nat /\ n < 65536
  <2>0. Number \in 1 .. Number
    BY <1>2
  <2>1. n \in Nat /\ n <= MaxLength
    BY <1>1, <2>0, SentIs
  <2> QED
    BY <2>1, Constants
<1>4. (n % 256) + 256 * (n \div 256) = n
  BY <1>3, TwoBytes
<1>5. PICK a, b : a = n % 256 /\ b = n \div 256
  OBVIOUS
<1>6. Line[8] = a /\ Line[9] = b /\ a + 256 * b = n
  BY <1>2, <1>4, <1>5
<1> QED
  BY <1>1, <1>6

\* An address stands only at its place in the frame of its packet.
LEMMA LineAddress ==
  ASSUME TypeOK, WireInv, Number > 0, NEW k \in 1 .. Len(Line), NEW m \in 1 .. MaxFrames,
         Line[k] = Address(m)
  PROVE  k = 11 /\ m = Number
<1>1. m \in Nat /\ m >= 1 /\ m <= 100 /\ Address(m) = 100 + m
  BY Constants DEF Address
<1>2. k \in Nat /\ k >= 1 /\ k <= 10 + Len(sent[Number]) /\ Len(sent[Number]) \in Nat
  <2>1. Number \in 1 .. Number /\ Len(Line) = 10 + Len(sent[Number])
    BY LineIs
  <2> QED
    BY <2>1, SentIs
<1>3. ~(k <= 6)
  <2>1. \A i \in 1 .. 6 : uart_magic_sequence[i] \in {1, 22, 16}
    BY MagicIs
  <2> SUFFICES ASSUME k <= 6 PROVE FALSE
    OBVIOUS
  <2>2. k \in 1 .. 6
    BY <1>2
  <2>3. \A i \in 1 .. 6 : Line[i] = uart_magic_sequence[i]
    BY LineIs
  <2>4. Line[k] \in {1, 22, 16}
    BY <2>1, <2>2, <2>3
  <2> QED
    BY <1>1, <2>4
<1>4. k # 7 /\ k # 10
  <2>1. Line[7] = 3 /\ Line[10] = 255
    BY LineIs
  <2> QED
    BY <1>1, <2>1
<1>5. k # 8 /\ k # 9
  <2>1. /\ Number \in 1 .. Number
        /\ Line[8] = Len(sent[Number]) % 256 /\ Line[9] = Len(sent[Number]) \div 256
    BY LineIs
  <2>2. Number \in 1 .. Number
    BY <2>1
  <2>3. \A n \in 1 .. MaxFrames :
          Len(sent[Number]) % 256 # Address(n) /\ Len(sent[Number]) \div 256 # Address(n)
    BY <2>2, SentIs, Zenon
  <2>4. Len(sent[Number]) % 256 # Address(m) /\ Len(sent[Number]) \div 256 # Address(m)
    BY <2>3, Zenon
  <2>5. Line[8] # Address(m) /\ Line[9] # Address(m)
    BY <2>1, <2>4, Zenon
  <2> QED
    BY <2>5
<1>6. PICK i \in 1 .. Len(sent[Number]) : k = 10 + i
  BY <1>2, <1>3, <1>4, <1>5
<1>7. sent[Number][i] = Address(m) /\ Number \in 1 .. Number
  BY <1>6, LineIs
<1>8. i = 1
  <2>1. i \in 2 .. Len(sent[Number]) \/ i = 1
    BY <1>2
  <2>2. Number \in 1 .. Number
    BY <1>7
  <2>3. \A j \in 2 .. Len(sent[Number]) : \A n \in 1 .. MaxFrames : sent[Number][j] # Address(n)
    BY <2>2, SentIs, Zenon
  <2> QED
    BY <1>7, <2>1, <2>3
<1>9. Address(Number) = Address(m) /\ Number \in 1 .. MaxFrames
  BY <1>7, <1>8, SentIs
<1> QED
  BY <1>1, <1>6, <1>8, <1>9, Constants DEF Address

\* router.lua writes the next byte of the frame.
LEMMA WrittenIs ==
  ASSUME TypeOK, WireInv, Written
  PROVE  /\ Number > 0 /\ wire # <<>> /\ Number' = Number /\ sent' = sent /\ Line' = Line
         /\ Gone' = Gone + 1 /\ Gone \in 0 .. (Len(Line) - 1)
         /\ Head(wire) = Line[Gone + 1] /\ Head(wire) \in Byte
         /\ wire' \in Seq(Byte) /\ (wire' = <<>> <=> Gone' = Len(Line))
         /\ \A k \in 1 .. Len(wire') : wire'[k] = Line[Gone' + k]
         /\ pause' \in 0 .. Pause
         /\ wire' = <<>> => pause' = SleepAfter(sent[Number])
<1>1. /\ wire # <<>> /\ wire' = Tail(wire) /\ sent' = sent
      /\ pause' = IF Len(wire) = 1 THEN SleepAfter(Last(sent)) ELSE pause
  BY DEF Written
<1>2. wire \in Seq(Byte)
  BY DEF TypeOK
<1>3. Number \in Nat /\ Number > 0
  <2>1. Number \in Nat
    BY DEF TypeOK, Number
  <2>2. Number # 0
    BY <1>1 DEF WireInv
  <2> QED
    BY <2>1, <2>2
<1>4. Number' = Number /\ Line' = Line
  BY <1>1 DEF Number, Line
<1>5. /\ wire' \in Seq(Byte) /\ Len(wire') = Len(wire) - 1 /\ Len(wire) \in Nat /\ Len(wire) >= 1
      /\ \A k \in 1 .. Len(wire') : wire'[k] = wire[k + 1]
      /\ Head(wire) = wire[1] /\ Head(wire) \in Byte
  BY <1>1, <1>2
<1>6. /\ Len(Line) \in Nat /\ Gone \in 0 .. Len(Line) /\ Len(wire) = Len(Line) - Gone
      /\ \A k \in 1 .. Len(wire) : wire[k] = Line[Gone + k]
  BY <1>3, LineIs DEF WireInv
<1>7. Gone' = Gone + 1 /\ Gone \in 0 .. (Len(Line) - 1)
  BY <1>4, <1>5, <1>6 DEF Gone
<1>8. Head(wire) = Line[Gone + 1]
  BY <1>5, <1>6
<1>9. wire' = <<>> <=> Gone' = Len(Line)
  <2>1. wire' = <<>> <=> Len(wire') = 0
    BY <1>5, EmptySeq
  <2> QED
    BY <1>5, <1>6, <1>7, <2>1
<1>10. ASSUME NEW k \in 1 .. Len(wire') PROVE wire'[k] = Line[Gone' + k]
  <2>1. k + 1 \in 1 .. Len(wire) /\ Gone + (k + 1) = Gone' + k
    BY <1>5, <1>6, <1>7
  <2>2. wire'[k] = Line[Gone + (k + 1)]
    BY <1>5, <1>6, <2>1
  <2> QED
    BY <2>1, <2>2
<1>11. pause' \in 0 .. Pause
  BY <1>1, Constants DEF SleepAfter, TypeOK
<1>12. wire' = <<>> => pause' = SleepAfter(sent[Number])
  <2>1. wire' = <<>> => Len(wire) = 1
    BY <1>5, EmptySeq
  <2> QED
    BY <1>1, <2>1 DEF Last, Number
<1> QED
  BY <1>1, <1>3, <1>4, <1>5, <1>7, <1>8, <1>9, <1>10, <1>11, <1>12

\* uart_send puts the frame of a new packet on the idle line.
LEMMA SendIs ==
  ASSUME TypeOK, WireInv, NEW body \in Bodies, uart_send(body)
  PROVE  /\ wire = <<>> /\ pause = 0 /\ pause' = pause
         /\ Number' = Number + 1 /\ Number + 1 \in 1 .. MaxFrames
         /\ \A m \in 1 .. Number : sent'[m] = sent[m]
         /\ sent'[Number + 1] = <<Address(Number + 1)>> \o body
         /\ Len(sent'[Number + 1]) <= MaxLength /\ sent' \in Seq(Seq(Byte))
         /\ wire' = Line' /\ wire' \in Seq(Byte) /\ Gone' = 0
         /\ UNCHANGED <<rootVars, poll, accepted, udp, damaged, lost, noise>>
<1>1. PICK data : data = <<Address(Number + 1)>> \o body
  OBVIOUS
<1>2. /\ wire = <<>> /\ pause = 0 /\ Number < MaxFrames /\ Len(data) <= MaxLength
      /\ sent' = Append(sent, data) /\ wire' = Frame(data) /\ pause' = pause
      /\ UNCHANGED <<rootVars, poll, accepted, udp, damaged, lost, noise>>
  BY <1>1 DEF uart_send, Number
<1>3. Number \in Nat /\ Number + 1 \in 1 .. MaxFrames
  BY <1>2, Constants DEF TypeOK, Number
<1>4. data \in Seq(Byte)
  BY <1>1, <1>3, PacketIs
<1>5. /\ sent' \in Seq(Seq(Byte)) /\ Len(sent') = Number + 1 /\ sent'[Number + 1] = data
      /\ \A m \in 1 .. Number : sent'[m] = sent[m]
  <2>1. sent \in Seq(Seq(Byte))
    BY DEF TypeOK
  <2> QED
    BY <1>2, <1>4, <2>1, AppendProperties DEF Number
<1>6. Number' = Number + 1
  BY <1>5 DEF Number
<1>7. wire' = Line'
  BY <1>2, <1>5, <1>6 DEF Line
<1>8. wire' \in Seq(Byte)
  BY <1>2, <1>4, FrameIs
<1>9. Gone' = 0
  <2>1. Len(wire') \in Nat /\ Len(Line') = Len(wire')
    BY <1>7, <1>8, LenProperties
  <2> QED
    BY <2>1 DEF Gone
<1> QED
  BY <1>1, <1>2, <1>3, <1>5, <1>6, <1>7, <1>8, <1>9


-----------------------------------------------------------------------------
(* Types, the parser inside its buffer, frames on the line.                 *)

\* What a step that writes a byte may leave of the root.
Kept ==
  /\ parser' \in ParserState /\ BufferBound'
  /\ uart_data' \in [0 .. (MaxLength - 1) -> Byte] /\ mailbox' \in [Kind -> Message]
  /\ epoch' \in Byte /\ ccfg' \in {"whole", "erased"} /\ running' \in BOOLEAN
  /\ accepted' \in Seq(Seq(Byte))

\* A step writes a byte of the frame: the root takes it, or c in its place, or misses it.
Heeds(c) ==
  /\ running /\ uart_data_receiver(c) /\ UNCHANGED <<poll, udp, lost>>
  /\ \/ c = Head(wire) /\ damaged' = damaged /\ noise' = noise
     \/ c = 0 /\ damaged' = damaged \cup {Number} /\ noise' = noise + 1 /\ noise < MaxNoise
Misses ==
  /\ UNCHANGED <<parser, uart_data, mailbox, epoch, ccfg, running, poll, udp, accepted, noise>>
  /\ \/ /\ running /\ lost < MaxLost /\ lost' = lost + 1
        /\ damaged' = damaged \cup {Number}
     \/ ~running /\ UNCHANGED <<damaged, lost>>

LEMMA ByteStep ==
  ASSUME TypeOK, WireInv, Receive \/ LoseByte \/ ClearByte \/ Deaf
  PROVE  /\ Written
         /\ Misses \/ \E c \in Byte : Heeds(c)
<1>1. CASE Receive
  <2>1. Head(wire) \in Byte
    BY <1>1, WrittenIs DEF Receive
  <2>2. Written /\ Heeds(Head(wire))
    BY <1>1 DEF Receive, Heeds
  <2> QED
    BY <2>1, <2>2
<1>2. CASE LoseByte
  BY <1>2 DEF LoseByte, Misses, Number, rootVars
<1>3. CASE ClearByte
  <2>1. 0 \in Byte
    BY DEF Byte
  <2>2. Written /\ Heeds(0)
    BY <1>3 DEF ClearByte, Heeds, Number
  <2> QED
    BY <2>1, <2>2
<1>4. CASE Deaf
  BY <1>4 DEF Deaf, Misses, rootVars
<1> QED
  BY <1>1, <1>2, <1>3, <1>4

\* A step that writes no byte: the line idles.
LEMMA Steps ==
  ASSUME Next
  PROVE  \/ \E body \in Bodies : uart_send(body)
         \/ Receive \/ LoseByte \/ ClearByte \/ Deaf
         \/ Tick \/ send_command_process
  BY DEF Next

LEMMA Pieces ==
  ASSUME TypeOK
  PROVE  Number \in Nat /\ lost \in Nat /\ noise \in Nat /\ poll \in Nat /\ pause \in Nat
  BY Constants DEF TypeOK, Number

\* One step keeps the packets that were sent and the packets that were damaged.
LEMMA WireStep ==
  ASSUME TypeOK, WireInv, Written, damaged' \subseteq damaged \cup {Number},
         lost' \in Nat, noise' \in Nat, lost' >= lost, noise' >= noise,
         damaged' # damaged => lost' > 0 \/ noise' > 0
  PROVE  WireInv'
<1>1. /\ Number > 0 /\ Number' = Number /\ sent' = sent /\ Line' = Line
      /\ \A k \in 1 .. Len(wire') : wire'[k] = Line[Gone' + k]
  BY WrittenIs
<1>2. Gone' = Gone + 1 /\ Gone \in 0 .. (Len(Line) - 1)
  BY WrittenIs
<1>3. Number \in Nat /\ lost \in Nat /\ noise \in Nat
  BY Pieces
<1>4. Gone' >= 0 /\ \A k \in 1 .. Len(wire') : wire'[k] = Line'[Gone' + k]
  BY <1>1, <1>2
<1>5. damaged' \subseteq 1 .. Number'
  BY <1>1, <1>3 DEF WireInv
<1>6. (lost' = 0 /\ noise' = 0) => damaged' = {}
  BY <1>3 DEF WireInv
<1>7. /\ Number' <= MaxFrames
      /\ \A m \in 1 .. Number' : \E body \in Bodies :
           sent'[m] = <<Address(m)>> \o body /\ Len(sent'[m]) <= MaxLength
  BY <1>1 DEF WireInv
<1> QED
  BY <1>1, <1>3, <1>4, <1>5, <1>6, <1>7 DEF WireInv

LEMMA BaseStep ==
  ASSUME BaseInv, [Next]_vars
  PROVE  BaseInv'
<1>b. TypeOK /\ BufferBound /\ WireInv
  BY DEF BaseInv
<1>1. ASSUME NEW body \in Bodies, uart_send(body) PROVE BaseInv'
  <2>1. /\ Number' = Number + 1 /\ Number + 1 \in 1 .. MaxFrames
        /\ \A m \in 1 .. Number : sent'[m] = sent[m]
        /\ sent'[Number + 1] = <<Address(Number + 1)>> \o body
        /\ Len(sent'[Number + 1]) <= MaxLength
    BY <1>1, <1>b, SendIs
  <2>2. /\ pause' = pause /\ sent' \in Seq(Seq(Byte)) /\ wire' = Line' /\ wire' \in Seq(Byte)
        /\ Gone' = 0 /\ UNCHANGED <<rootVars, poll, accepted, udp, damaged, lost, noise>>
    BY <1>1, <1>b, SendIs
  <2>3. Number \in Nat
    BY <1>b, Pieces
  <2>4. TypeOK'
    BY <1>b, <2>2 DEF TypeOK, rootVars
  <2>5. BufferBound'
    BY <1>b, <2>2 DEF BufferBound, rootVars
  <2>6. ASSUME NEW m \in 1 .. Number'
        PROVE  \E b \in Bodies : sent'[m] = <<Address(m)>> \o b /\ Len(sent'[m]) <= MaxLength
    <3>1. CASE m = Number + 1
      BY <2>1, <3>1
    <3>2. CASE m # Number + 1
      <4>1. m \in 1 .. Number
        BY <2>1, <2>3, <3>2
      <4> QED
        BY <1>b, <2>1, <4>1 DEF WireInv
    <3> QED
      BY <3>1, <3>2
  <2>7. Gone' >= 0 /\ \A k \in 1 .. Len(wire') : wire'[k] = Line'[Gone' + k]
    <3>1. Len(wire') \in Nat
      BY <2>2
    <3> QED
      BY <2>2, <3>1
  <2>8. damaged' \subseteq 1 .. Number' /\ (lost' = 0 /\ noise' = 0 => damaged' = {})
    BY <1>b, <2>1, <2>2, <2>3 DEF WireInv
  <2>9. WireInv'
    <3>1. Number' <= MaxFrames /\ Number' # 0
      BY <2>1, <2>3, Constants
    <3> QED
      BY <2>6, <2>7, <2>8, <3>1 DEF WireInv
  <2> QED
    BY <2>4, <2>5, <2>9 DEF BaseInv
<1>2. CASE Receive \/ LoseByte \/ ClearByte \/ Deaf
  <2>1. Written /\ (Misses \/ \E c \in Byte : Heeds(c))
    BY <1>2, <1>b, ByteStep
  <2>2. /\ Number > 0 /\ sent' = sent /\ wire' \in Seq(Byte) /\ pause' \in 0 .. Pause
    BY <1>b, <2>1, WrittenIs
  <2>3. Number \in Nat /\ lost \in Nat /\ noise \in Nat /\ MaxLost \in Nat /\ MaxNoise \in Nat
    BY <1>b, Pieces, Constants
  <2>4. /\ damaged' \subseteq damaged \cup {Number} /\ lost' \in 0 .. MaxLost
        /\ noise' \in 0 .. MaxNoise /\ lost' >= lost /\ noise' >= noise
        /\ damaged' # damaged => lost' > 0 \/ noise' > 0
    <3>0. lost \in 0 .. MaxLost /\ noise \in 0 .. MaxNoise
      BY <1>b DEF TypeOK
    <3>1. CASE Misses
      BY <2>3, <3>0, <3>1 DEF Misses
    <3>2. ASSUME NEW c \in Byte, Heeds(c)
          PROVE  /\ damaged' \subseteq damaged \cup {Number} /\ lost' \in 0 .. MaxLost
                 /\ noise' \in 0 .. MaxNoise /\ lost' >= lost /\ noise' >= noise
                 /\ damaged' # damaged => lost' > 0 \/ noise' > 0
      BY <2>3, <3>0, <3>2 DEF Heeds
    <3> QED
      BY <2>1, <3>1, <3>2
  <2>5. WireInv'
    BY <1>b, <2>1, <2>3, <2>4, WireStep
  <2>6. Kept
    <3>1. CASE Misses
      <4>1. /\ UNCHANGED <<parser, uart_data, mailbox, epoch, ccfg, running, accepted>>
            /\ parser \in ParserState
        BY <1>b, <3>1, ParserIs DEF Misses
      <4> QED
        BY <1>b, <4>1 DEF Kept, TypeOK, BufferBound
    <3>2. ASSUME NEW c \in Byte, Heeds(c) PROVE Kept
      <4>1. Taken(c)
        BY <1>b, <3>2, ReceiverTakes DEF Heeds
      <4> QED
        BY <1>b, <4>1, ReceiverTypes DEF Kept
    <3> QED
      BY <2>1, <3>1, <3>2
  <2>7. UNCHANGED <<poll, udp>>
    BY <2>1 DEF Misses, Heeds
  <2>8. damaged' \subseteq 1 .. MaxFrames
    <3>1. Number \in 1 .. MaxFrames
      BY <1>b, <2>2, LineIs
    <3> QED
      BY <1>b, <2>4, <3>1 DEF TypeOK
  <2>9. TypeOK'
    BY <1>b, <2>2, <2>4, <2>6, <2>7, <2>8 DEF TypeOK, Kept, ParserState
  <2> QED
    BY <2>5, <2>6, <2>9 DEF BaseInv, Kept
<1>3. CASE Tick
  <2>1. /\ UNCHANGED <<sent, wire, rootVars, accepted, udp, damaged, lost, noise>>
        /\ poll' \in 0 .. (PollInterval + Slack) /\ pause' \in 0 .. Pause
    BY <1>3, <1>b, Constants DEF Tick, TypeOK
  <2>2. TypeOK'
    BY <1>b, <2>1 DEF TypeOK, rootVars
  <2> QED
    BY <1>b, <2>1, <2>2 DEF BaseInv, BufferBound, WireInv, Number, Line, Gone, rootVars
<1>4. CASE send_command_process
  <2>1. /\ UNCHANGED <<routerVars, parser, uart_data, epoch, ccfg, running, accepted, damaged,
                       lost, noise>>
        /\ poll' \in 0 .. (PollInterval + Slack)
    BY <1>4, Constants DEF send_command_process
  <2>2. ASSUME NEW k \in Kind
        PROVE  mailbox[k] \in Message /\ [mailbox[k] EXCEPT !.ready = FALSE] \in Message
    BY <1>b DEF TypeOK, Message
  <2>3. mailbox' \in [Kind -> Message]
    BY <1>4, <2>2 DEF send_command_process
  <2>4. udp' \in Seq(Seq(Byte))
    <3>1. mailbox[DATA_TYPE_COMMAND].data \in Seq(Byte)
      BY <2>2 DEF Message, Kind
    <3>2. udp \in Seq(Seq(Byte))
      BY <1>b DEF TypeOK
    <3>3. udp' = udp \/ udp' = Append(udp, mailbox[DATA_TYPE_COMMAND].data)
      BY <1>4 DEF send_command_process, send_command_packet
    <3> QED
      BY <3>1, <3>2, <3>3, AppendProperties
  <2>5. TypeOK'
    BY <1>b, <2>1, <2>3, <2>4 DEF TypeOK, routerVars
  <2> QED
    BY <1>b, <2>1, <2>5 DEF BaseInv, BufferBound, WireInv, Number, Line, Gone, routerVars
<1>5. CASE UNCHANGED vars
  BY <1>5, <1>b DEF vars, routerVars, rootVars, BaseInv, TypeOK, BufferBound, WireInv, Number,
                    Line, Gone
<1> QED
  BY <1>1, <1>2, <1>3, <1>4, <1>5, Steps

LEMMA BaseInit ==
  ASSUME Init
  PROVE  BaseInv
<1>1. Reset \in ParserState /\ Reset.header = 0 /\ Reset.length = 0 /\ Reset.got = 0
  BY ResetIs
<1>2. TypeOK
  <2>1. mailbox \in [Kind -> Message]
    BY DEF Init, Empty, Message
  <2>2. parser \in ParserState
    BY <1>1 DEF Init
  <2> QED
    BY <2>1, <2>2, Constants DEF Init, TypeOK, ParserState, Zeroed, Byte
<1>3. BufferBound
  BY <1>1, Constants DEF Init, BufferBound
<1>4. WireInv
  <2>1. Number = 0
    BY DEF Init, Number
  <2> QED
    BY <2>1, Constants DEF Init, WireInv
<1> QED
  BY <1>2, <1>3, <1>4 DEF BaseInv

LEMMA BaseAlways == Spec => []BaseInv
<1>1. Init => BaseInv
  BY BaseInit
<1>2. BaseInv /\ [Next]_vars => BaseInv'
  BY BaseStep
<1> QED
  BY <1>1, <1>2, PTL DEF Spec

-----------------------------------------------------------------------------
(* An undamaged packet is accepted only as its last byte arrives.  The       *)
(* address tells: the parser has it in its buffer only while it reads that  *)
(* packet, in step with the line, because the header before it was its own. *)

\* How many bytes behind the magic sequence the parser has heard.
HeadLen == IF parser.header <= 6 THEN 0 ELSE IF parser.header = 11 THEN 4 ELSE parser.header - 6

\* They are the last ones of the line.
HeadInv ==
  running =>
    /\ parser.header = 11 => parser.length = Length(parser.bytes)
    /\ Number > 0 /\ Number \notin damaged /\ parser.got = 0
         /\ (parser.header = 11 => parser.length > 0) =>
         \A j \in 1 .. HeadLen :
           Gone - HeadLen + j >= 1 => parser.bytes[j] = Line[Gone - HeadLen + j]

\* An address in the buffer is that of a damaged packet or of the one on the line.
BufferInv ==
  running /\ parser.got > 0 => \A m \in 1 .. MaxFrames : uart_data[0] = Address(m) =>
    /\ m <= Number
    /\ \/ m \in damaged
       \/ /\ m = Number /\ parser.length = Len(sent[m]) /\ parser.got = Gone - 10
          /\ wire # <<>>
          /\ \A i \in 0 .. (parser.got - 1) : uart_data[i] = sent[m][i + 1]

AcceptedInv ==
  \A i \in DOMAIN accepted :
    /\ Len(accepted[i]) >= 1
    /\ \A m \in 1 .. MaxFrames : accepted[i][1] = Address(m) => m <= Number
    /\ \A m \in 1 .. Number :
         accepted[i] = sent[m] /\ m \notin damaged => m < Number \/ wire = <<>>

AddressInv == HeadInv /\ BufferInv /\ AcceptedInv

\* What a byte that the parser takes has to do with the line.
LEMMA HeedsIs ==
  ASSUME BaseInv, Written, NEW c \in Byte, Heeds(c)
  PROVE  /\ running /\ Taken(c) /\ UNCHANGED <<poll, udp, lost>>
         /\ damaged \subseteq damaged' /\ damaged' \subseteq damaged \cup {Number}
         /\ Number \in damaged' \/ (damaged' = damaged /\ c = Line[Gone + 1] /\ noise' = noise)
         /\ c = Line[Gone + 1] \/ c = 0
<1>1. TypeOK /\ BufferBound /\ WireInv
  BY DEF BaseInv
<1>2. Head(wire) = Line[Gone + 1]
  BY <1>1, WrittenIs
<1>3. Taken(c)
  BY <1>1, ReceiverTakes DEF Heeds
<1> QED
  BY <1>2, <1>3 DEF Heeds

\* The first byte of a packet that the parser reads.
LEMMA FirstByte ==
  ASSUME BaseInv, HeadInv, Written, NEW c \in Byte, Heeds(c), parser.header = 11,
         parser.length > 0, parser.got = 0, NEW m \in 1 .. MaxFrames, c = Address(m)
  PROVE  /\ m = Number /\ Gone = 10
         /\ Number \notin damaged => parser.length = Len(sent[Number])
<1>b. TypeOK /\ BufferBound /\ WireInv
  BY DEF BaseInv
<1>1. Number > 0 /\ Gone \in 0 .. (Len(Line) - 1)
  BY <1>b, WrittenIs
<1>2. Len(Line) \in Nat
  BY <1>1, <1>b, LineIs
<1>3. c = Line[Gone + 1]
  <2>1. c = Line[Gone + 1] \/ c = 0
    BY HeedsIs
  <2>2. c # 0
    BY Constants DEF Address
  <2> QED
    BY <2>1, <2>2
<1>4. Gone + 1 \in 1 .. Len(Line) /\ Line[Gone + 1] = Address(m)
  BY <1>1, <1>2, <1>3
<1>5. Gone + 1 = 11 /\ m = Number
  BY <1>1, <1>4, <1>b, LineAddress
<1>6. Gone = 10
  BY <1>1, <1>2, <1>5
<1>7. ASSUME Number \notin damaged PROVE parser.length = Len(sent[Number])
  <2>1. HeadLen = 4
    BY DEF HeadLen
  <2>2. \A j \in 1 .. 4 : Gone - 4 + j >= 1 => parser.bytes[j] = Line[Gone - 4 + j]
    BY <1>1, <1>7, <2>1 DEF HeadInv, Heeds
  <2>3. parser.bytes[2] = Line[8] /\ parser.bytes[3] = Line[9]
    <3>1. Gone - 4 + 2 = 8 /\ Gone - 4 + 3 = 9
      BY <1>6
    <3> QED
      BY <2>2, <3>1
  <2>4. parser.length = parser.bytes[2] + 256 * parser.bytes[3]
    BY DEF HeadInv, Heeds, Length
  <2>5. Line[8] + 256 * Line[9] = Len(sent[Number])
    BY <1>1, <1>b, LineLength
  <2> QED
    BY <2>3, <2>4, <2>5
<1> QED
  BY <1>5, <1>6, <1>7

\* A packet in the buffer that begins with an address.
LEMMA StoredAddress ==
  ASSUME BaseInv, HeadInv, BufferInv, Written, NEW c \in Byte, Heeds(c), parser.header = 11,
         parser.length > 0, NEW m \in 1 .. MaxFrames, Stored(c)[0] = Address(m)
  PROVE  /\ m <= Number
         /\ \/ m \in damaged'
            \/ /\ m = Number /\ parser.length = Len(sent[m]) /\ parser.got = Gone - 10
               /\ damaged' = damaged
               /\ \A i \in 0 .. parser.got : Stored(c)[i] = sent[m][i + 1]
<1>b. TypeOK /\ BufferBound /\ WireInv
  BY DEF BaseInv
<1>1. Number > 0 /\ Gone \in 0 .. (Len(Line) - 1) /\ Len(Line) \in Nat
  BY <1>b, WrittenIs, LineIs
<1>2. /\ parser.got \in 0 .. (MaxLength - 1) /\ Stored(c)[parser.got] = c
      /\ \A i \in 0 .. (MaxLength - 1) : i # parser.got => Stored(c)[i] = uart_data[i]
  BY <1>b, StoredType
<1>3. /\ running /\ damaged \subseteq damaged'
      /\ Number \in damaged' \/ (damaged' = damaged /\ c = Line[Gone + 1])
  BY HeedsIs
<1>4. Number \in 1 .. Number /\ Number \in Nat /\ m \in Nat
  BY <1>1, <1>b, LineIs, Pieces
<1>5. \A k \in 1 .. Len(sent[Number]) : Line[10 + k] = sent[Number][k]
  BY <1>1, <1>b, LineIs
<1>6. MaxLength \in Nat
  BY Constants
<1>7. Len(sent[Number]) \in Nat /\ Len(sent[Number]) >= 1
  <2>1. Len(sent[Number]) \in Nat /\ Len(sent[Number]) >= TypeAt + 1
    BY <1>4, <1>b, SentIs
  <2> QED
    BY <2>1, Constants
<1>8. CASE parser.got = 0
  <2>1. c = Address(m)
    BY <1>2, <1>8
  <2>2. m = Number /\ Gone = 10 /\ (Number \notin damaged => parser.length = Len(sent[Number]))
    BY <1>8, <2>1, FirstByte
  <2>3. ASSUME Number \notin damaged'
        PROVE  \A i \in 0 .. parser.got : Stored(c)[i] = sent[m][i + 1]
    <3>1. c = Line[10 + 1] /\ 1 \in 1 .. Len(sent[Number])
      BY <1>3, <1>7, <2>2, <2>3
    <3>2. c = sent[Number][1]
      BY <1>5, <3>1
    <3>3. \A i \in 0 .. parser.got : i = 0 /\ i + 1 = 1
      BY <1>8
    <3> QED
      BY <1>2, <1>8, <2>2, <3>2, <3>3
  <2> QED
    BY <1>3, <1>4, <1>8, <2>2, <2>3
<1>9. CASE parser.got # 0
  <2>1. parser.got > 0 /\ 0 \in 0 .. (MaxLength - 1) /\ uart_data[0] = Address(m)
    BY <1>2, <1>6, <1>9
  <2>2. /\ m <= Number
        /\ \/ m \in damaged
           \/ /\ m = Number /\ parser.length = Len(sent[m]) /\ parser.got = Gone - 10
              /\ \A i \in 0 .. (parser.got - 1) : uart_data[i] = sent[m][i + 1]
    BY <1>3, <2>1 DEF BufferInv
  <2>3. ASSUME m \notin damaged'
        PROVE  \A i \in 0 .. parser.got : Stored(c)[i] = sent[m][i + 1]
    <3>1. /\ m = Number /\ parser.length = Len(sent[m]) /\ parser.got = Gone - 10
          /\ \A i \in 0 .. (parser.got - 1) : uart_data[i] = sent[m][i + 1]
      BY <1>3, <2>2, <2>3
    <3>2. c = Line[Gone + 1] /\ Gone + 1 = 10 + (parser.got + 1)
      BY <1>1, <1>2, <1>3, <2>3, <3>1
    <3>3. parser.got + 1 \in 1 .. Len(sent[Number])
      BY <1>2, <1>7, <1>b, <3>1 DEF BufferBound
    <3>4. c = sent[m][parser.got + 1]
      BY <1>5, <3>1, <3>2, <3>3
    <3>5. ASSUME NEW i \in 0 .. parser.got PROVE Stored(c)[i] = sent[m][i + 1]
      <4>1. CASE i = parser.got
        BY <1>2, <3>4, <4>1
      <4>2. CASE i # parser.got
        <5>1. i \in 0 .. (parser.got - 1) /\ i \in 0 .. (MaxLength - 1)
          BY <1>2, <1>6, <4>2
        <5> QED
          BY <1>2, <3>1, <4>2, <5>1
      <4> QED
        BY <4>1, <4>2
    <3> QED
      BY <3>5
  <2> QED
    BY <1>3, <2>2, <2>3
<1> QED
  BY <1>8, <1>9

\* A packet that was sent, arrived undamaged and was now accepted is the one on the line.
LEMMA NewlyAccepted ==
  ASSUME BaseInv, HeadInv, BufferInv, Written, NEW c \in Byte, Heeds(c), EndOfData(c)
  PROVE  /\ \A m \in 1 .. MaxFrames : Received(c)[1] = Address(m) => m <= Number
         /\ \A m \in 1 .. Number : Received(c) = sent[m] /\ m \notin damaged' =>
              m = Number /\ wire' = <<>> /\ damaged' = damaged
<1>b. TypeOK /\ BufferBound /\ WireInv
  BY DEF BaseInv
<1>1. /\ Len(Received(c)) = parser.length
      /\ \A k \in 1 .. parser.length : Received(c)[k] = Stored(c)[k - 1]
  BY <1>b, ProcessedIs
<1>2. parser.header = 11 /\ parser.length > 0 /\ parser.length \in Nat
  BY <1>b, ParserIs, Constants DEF EndOfData
<1>3. parser.got + 1 = parser.length
  BY DEF EndOfData
<1>4. Received(c)[1] = Stored(c)[0]
  <2>1. 1 \in 1 .. parser.length /\ 1 - 1 = 0
    BY <1>2
  <2> QED
    BY <1>1, <2>1
<1>5. ASSUME NEW m \in 1 .. MaxFrames, Received(c)[1] = Address(m) PROVE m <= Number
  BY <1>2, <1>4, <1>5, StoredAddress
<1>6. ASSUME NEW m \in 1 .. Number, Received(c) = sent[m], m \notin damaged'
      PROVE  m = Number /\ wire' = <<>> /\ damaged' = damaged
  <2>1. m \in 1 .. MaxFrames /\ sent[m][1] = Address(m)
    BY <1>b, SentIs
  <2>2. Stored(c)[0] = Address(m)
    BY <1>4, <1>6, <2>1
  <2>3. m = Number /\ parser.length = Len(sent[m]) /\ parser.got = Gone - 10 /\ damaged' = damaged
    BY <1>2, <1>6, <2>1, <2>2, StoredAddress
  <2>4. /\ Number > 0 /\ Gone' = Gone + 1 /\ Gone \in 0 .. (Len(Line) - 1)
        /\ (wire' = <<>> <=> Gone' = Len(Line))
    BY <1>b, WrittenIs
  <2>5. Len(Line) = 10 + Len(sent[Number]) /\ Len(Line) \in Nat
    BY <1>b, <2>4, LineIs
  <2>6. Len(sent[Number]) \in Nat
    BY <1>2, <2>3
  <2>7. Gone + 1 = Len(Line)
    BY <1>2, <1>3, <2>3, <2>4, <2>5, <2>6
  <2> QED
    BY <2>3, <2>4, <2>7
<1> QED
  BY <1>5, <1>6

\* A byte keeps the heard header.
LEMMA HeadHeeds ==
  ASSUME BaseInv, HeadInv, Written, NEW c \in Byte, Heeds(c)
  PROVE  HeadInv'
<1>b. TypeOK /\ BufferBound /\ WireInv
  BY DEF BaseInv
<1>1. /\ Number > 0 /\ Number' = Number /\ Line' = Line
      /\ Gone' = Gone + 1 /\ Gone \in 0 .. (Len(Line) - 1)
  BY <1>b, WrittenIs
<1>2. Gone \in Nat
  <2>1. Len(Line) \in Nat
    BY <1>1, <1>b, LineIs
  <2> QED
    BY <1>1, <2>1
<1>3. /\ running /\ Taken(c)
      /\ Number \in damaged' \/ (damaged' = damaged /\ c = Line[Gone + 1])
  BY HeedsIs
<1>p. /\ parser.header \in 0 .. 11 /\ parser.bytes \in [1 .. 4 -> Byte]
  BY <1>b, ParserIs
<1>4. CASE parser'.header <= 6
  <2>1. HeadLen' = 0
    BY <1>4 DEF HeadLen
  <2>2. parser'.header # 11 /\ 1 .. 0 = {}
    BY <1>4
  <2> QED
    BY <2>1, <2>2 DEF HeadInv
<1>r. parser' = Reset => parser'.header <= 6
  BY ResetIs
<1>5. CASE InMagic(c)
  BY <1>4, <1>5, <1>p DEF InMagic, Fields
<1>6. CASE OutOfMagic(c) \/ BadHeader(c)
  BY <1>4, <1>6, <1>r DEF OutOfMagic, BadHeader
<1>7. CASE EndOfData(c)
  BY <1>4, <1>7, <1>b, <1>r, ProcessedIs
<1>8. CASE InHeader(c) \/ GoodHeader(c)
  <2>1. /\ parser.header \in 6 .. 9 /\ parser.got = 0 /\ parser'.bytes = Heard(c)
        /\ parser'.header = IF parser.header = 9 THEN 11 ELSE parser.header + 1
        /\ parser'.header = 11 => parser'.length = Length(Heard(c))
    BY <1>8 DEF InHeader, GoodHeader, Fields, Outside
  <2>2. PICK n \in 0 .. 3 : n = parser.header - 6
    BY <2>1
  <2>3. HeadLen = n /\ HeadLen' = n + 1 /\ parser.header - 5 = n + 1
    BY <2>1, <2>2 DEF HeadLen
  <2>4. Heard(c)[n + 1] = c /\ \A j \in 1 .. n : Heard(c)[j] = parser.bytes[j]
    BY <1>p, <2>3 DEF Heard
  <2>5. ASSUME Number \notin damaged', NEW j \in 1 .. (n + 1), Gone' - (n + 1) + j >= 1
        PROVE  Heard(c)[j] = Line[Gone' - (n + 1) + j]
    <3>1. Number \notin damaged /\ c = Line[Gone + 1]
      BY <1>3, <2>5
    <3>2. CASE j = n + 1
      <4>1. Gone' - (n + 1) + j = Gone + 1
        BY <1>1, <1>2, <3>2
      <4> QED
        BY <2>4, <3>1, <3>2, <4>1
    <3>3. CASE j # n + 1
      <4>1. j \in 1 .. n /\ Gone' - (n + 1) + j = Gone - n + j
        BY <1>1, <1>2, <3>3
      <4>2. parser.header # 11
        BY <2>1
      <4>3. parser.bytes[j] = Line[Gone - n + j]
        BY <1>1, <1>3, <2>1, <2>3, <2>5, <3>1, <4>1, <4>2 DEF HeadInv
      <4> QED
        BY <2>4, <4>1, <4>3
    <3> QED
      BY <3>2, <3>3
  <2>6. parser'.header = 11 => parser'.length = Length(parser'.bytes)
    BY <2>1
  <2>7. Number' \notin damaged' =>
          \A j \in 1 .. HeadLen' : Gone' - HeadLen' + j >= 1 =>
            parser'.bytes[j] = Line'[Gone' - HeadLen' + j]
    <3>1. \A j \in 1 .. (n + 1) : Number \notin damaged' /\ Gone' - (n + 1) + j >= 1 =>
            parser'.bytes[j] = Line'[Gone' - (n + 1) + j]
      BY <1>1, <2>1, <2>5
    <3> QED
      BY <1>1, <2>3, <3>1
  <2> QED
    BY <2>6, <2>7 DEF HeadInv
<1>9. CASE Endless
  <2>1. parser' = parser /\ parser.header = 11 /\ parser.length = 0
    BY <1>9 DEF Endless, Outside
  <2> QED
    BY <1>3, <2>1 DEF HeadInv
<1>10. CASE InData(c)
  <2>1. /\ parser.header = 11 /\ parser'.header = 11 /\ parser'.bytes = parser.bytes
        /\ parser'.length = parser.length /\ parser'.got = parser.got + 1
    BY <1>10 DEF InData, Fields
  <2>2. parser'.got # 0
    BY <1>b, <2>1, ParserIs, Constants
  <2> QED
    BY <1>3, <2>1, <2>2 DEF HeadInv
<1> QED
  BY <1>3, <1>5, <1>6, <1>7, <1>8, <1>9, <1>10 DEF Taken

\* A byte keeps an address in the buffer that of the packet on the line.
LEMMA BufferHeeds ==
  ASSUME BaseInv, HeadInv, BufferInv, Written, NEW c \in Byte, Heeds(c)
  PROVE  BufferInv'
<1>b. TypeOK /\ BufferBound /\ WireInv
  BY DEF BaseInv
<1>1. /\ Number > 0 /\ Number' = Number /\ sent' = sent
      /\ Gone' = Gone + 1 /\ Gone \in 0 .. (Len(Line) - 1) /\ (wire' = <<>> <=> Gone' = Len(Line))
  BY <1>b, WrittenIs
<1>2. Len(Line) \in Nat /\ Len(Line) = 10 + Len(sent[Number])
  BY <1>1, <1>b, LineIs
<1>3. Taken(c)
  BY HeedsIs
<1>p. /\ parser.got \in 0 .. MaxLength /\ parser.length \in 0 .. MaxLength /\ MaxLength \in Nat
  BY <1>b, ParserIs, Constants
<1>4. CASE InData(c)
  <2>1. /\ parser.header = 11 /\ parser.length > 0 /\ parser.got + 1 < parser.length
        /\ parser'.got = parser.got + 1 /\ parser'.length = parser.length
        /\ uart_data' = Stored(c)
    BY <1>4 DEF InData, Fields
  <2>2. ASSUME NEW m \in 1 .. MaxFrames, uart_data'[0] = Address(m)
        PROVE  /\ m <= Number'
               /\ \/ m \in damaged'
                  \/ /\ m = Number' /\ parser'.length = Len(sent'[m]) /\ parser'.got = Gone' - 10
                     /\ wire' # <<>>
                     /\ \A i \in 0 .. (parser'.got - 1) : uart_data'[i] = sent'[m][i + 1]
    <3>1. /\ m <= Number
          /\ \/ m \in damaged'
             \/ /\ m = Number /\ parser.length = Len(sent[m]) /\ parser.got = Gone - 10
                /\ \A i \in 0 .. parser.got : Stored(c)[i] = sent[m][i + 1]
      BY <2>1, <2>2, StoredAddress
    <3>2. CASE m \in damaged'
      BY <1>1, <3>1, <3>2
    <3>3. CASE m \notin damaged'
      <4>1. /\ m = Number /\ parser.length = Len(sent[m]) /\ parser.got = Gone - 10
            /\ \A i \in 0 .. parser.got : Stored(c)[i] = sent[m][i + 1]
        BY <3>1, <3>3
      <4>2. parser'.got = Gone' - 10 /\ parser'.got - 1 = parser.got
        BY <1>1, <1>2, <1>p, <2>1, <4>1
      <4>3. Gone' # Len(Line)
        BY <1>1, <1>2, <1>p, <2>1, <4>1
      <4> QED
        BY <1>1, <2>1, <3>1, <4>1, <4>2, <4>3
    <3> QED
      BY <3>2, <3>3
  <2> QED
    BY <2>2 DEF BufferInv
<1>5. CASE ~InData(c)
  <2>1. parser'.got = 0
    <3>1. CASE InMagic(c) \/ InHeader(c) \/ GoodHeader(c) \/ Endless
      BY <3>1 DEF InMagic, InHeader, GoodHeader, Endless, Fields, Outside
    <3>2. CASE OutOfMagic(c) \/ BadHeader(c)
      BY <3>2, ResetIs DEF OutOfMagic, BadHeader
    <3>3. CASE EndOfData(c)
      BY <1>b, <3>3, ProcessedIs, ResetIs
    <3> QED
      BY <1>3, <1>5, <3>1, <3>2, <3>3 DEF Taken
  <2> QED
    BY <2>1 DEF BufferInv
<1> QED
  BY <1>4, <1>5

LEMMA AcceptedHeeds ==
  ASSUME BaseInv, AddressInv, Written, NEW c \in Byte, Heeds(c)
  PROVE  AcceptedInv'
<1>b. TypeOK /\ BufferBound /\ WireInv
  BY DEF BaseInv
<1>1. wire # <<>> /\ Number' = Number /\ sent' = sent
  BY <1>b, WrittenIs
<1>2. Taken(c) /\ damaged \subseteq damaged'
  BY HeedsIs
<1>3. ASSUME NEW i \in DOMAIN accepted
      PROVE  /\ Len(accepted[i]) >= 1
             /\ \A m \in 1 .. MaxFrames : accepted[i][1] = Address(m) => m <= Number
             /\ \A m \in 1 .. Number : accepted[i] = sent[m] /\ m \notin damaged' => m < Number
  BY <1>1, <1>2 DEF AddressInv, AcceptedInv
<1>4. CASE EndOfData(c)
  <2>1. accepted' = Append(accepted, Received(c)) /\ Received(c) \in Seq(Byte)
    BY <1>4, <1>b, ProcessedIs
  <2>2. accepted \in Seq(Seq(Byte))
    BY <1>b DEF TypeOK
  <2>3. Len(Received(c)) >= 1
    <3>1. Len(Received(c)) = parser.length /\ parser.length > 0
      BY <1>4, <1>b, ProcessedIs DEF EndOfData
    <3>2. parser.length \in Nat
      BY <1>b, ParserIs, Constants
    <3> QED
      BY <3>1, <3>2
  <2>4. /\ \A m \in 1 .. MaxFrames : Received(c)[1] = Address(m) => m <= Number
        /\ \A m \in 1 .. Number : Received(c) = sent[m] /\ m \notin damaged' => wire' = <<>>
    BY <1>4, NewlyAccepted DEF AddressInv
  <2>5. ASSUME NEW i \in DOMAIN accepted'
        PROVE  (i \in DOMAIN accepted /\ accepted'[i] = accepted[i]) \/ accepted'[i] = Received(c)
    BY <2>1, <2>2, AppendProperties
  <2>6. ASSUME NEW i \in DOMAIN accepted'
        PROVE  /\ Len(accepted'[i]) >= 1
               /\ \A m \in 1 .. MaxFrames : accepted'[i][1] = Address(m) => m <= Number
               /\ \A m \in 1 .. Number :
                    accepted'[i] = sent[m] /\ m \notin damaged' => m < Number \/ wire' = <<>>
    <3>1. CASE i \in DOMAIN accepted /\ accepted'[i] = accepted[i]
      BY <1>3, <3>1
    <3>2. CASE accepted'[i] = Received(c)
      BY <2>3, <2>4, <3>2
    <3> QED
      BY <2>5, <3>1, <3>2
  <2> QED
    BY <1>1, <2>6 DEF AcceptedInv
<1>5. CASE accepted' = accepted
  BY <1>1, <1>3, <1>5 DEF AcceptedInv
<1>6. EndOfData(c) \/ accepted' = accepted
  BY <1>2 DEF Taken, InMagic, OutOfMagic, InHeader, BadHeader, GoodHeader, Endless, InData, Quiet
<1> QED
  BY <1>4, <1>5, <1>6

LEMMA AddressStep ==
  ASSUME BaseInv, AddressInv, [Next]_vars
  PROVE  AddressInv'
<1>b. TypeOK /\ BufferBound /\ WireInv
  BY DEF BaseInv
<1>a. HeadInv /\ BufferInv /\ AcceptedInv
  BY DEF AddressInv
<1>n. Number \in Nat
  BY <1>b, Pieces
<1>1. ASSUME NEW body \in Bodies, uart_send(body) PROVE AddressInv'
  <2>1. /\ wire = <<>> /\ Number' = Number + 1 /\ Number + 1 \in 1 .. MaxFrames
        /\ \A m \in 1 .. Number : sent'[m] = sent[m]
        /\ sent'[Number + 1] = <<Address(Number + 1)>> \o body /\ Gone' = 0
    BY <1>1, <1>b, SendIs
  <2>2. UNCHANGED <<parser, uart_data, running, accepted, damaged>>
    <3>1. UNCHANGED <<rootVars, poll, accepted, udp, damaged, lost, noise>>
      BY <1>1, <1>b, SendIs
    <3> QED
      BY <3>1 DEF rootVars
  <2>3. HeadInv'
    <3>1. PICK n \in 0 .. 4 : n = HeadLen'
      BY <1>b, <2>2, ParserIs DEF HeadLen
    <3>2. \A j \in 1 .. HeadLen' : ~(Gone' - HeadLen' + j >= 1)
      <4>1. \A j \in 1 .. n : ~(0 - n + j >= 1)
        OBVIOUS
      <4> QED
        BY <2>1, <3>1, <4>1
    <3> QED
      BY <1>a, <2>2, <3>2 DEF HeadInv
  <2>4. BufferInv'
    <3>1. ASSUME running, parser.got > 0, NEW m \in 1 .. MaxFrames, uart_data[0] = Address(m)
          PROVE  m <= Number /\ m \in damaged
      BY <1>a, <2>1, <3>1 DEF BufferInv
    <3>2. \A m \in 1 .. MaxFrames : m <= Number => m <= Number'
      BY <1>n, <2>1, Constants
    <3> QED
      BY <2>2, <3>1, <3>2 DEF BufferInv
  <2>5. AcceptedInv'
    <3>1. ASSUME NEW i \in DOMAIN accepted, NEW m \in 1 .. MaxFrames,
                 accepted[i][1] = Address(m)
          PROVE  m <= Number /\ m <= Number'
      <4>1. m <= Number
        BY <1>a, <3>1 DEF AcceptedInv
      <4> QED
        BY <1>n, <2>1, <4>1, Constants
    <3>2. ASSUME NEW i \in DOMAIN accepted, NEW m \in 1 .. Number', accepted[i] = sent'[m]
          PROVE  m < Number'
      <4>1. m # Number + 1
        <5> SUFFICES ASSUME m = Number + 1 PROVE FALSE
          OBVIOUS
        <5>1. sent'[Number + 1][1] = Address(Number + 1)
          BY <2>1, PacketIs
        <5>2. Number + 1 <= Number
          BY <2>1, <3>1, <3>2, <5>1
        <5> QED
          BY <1>n, <5>2
      <4> QED
        BY <1>n, <2>1, <4>1
    <3>3. \A i \in DOMAIN accepted : Len(accepted[i]) >= 1
      BY <1>a DEF AcceptedInv
    <3> QED
      BY <2>2, <3>1, <3>2, <3>3 DEF AcceptedInv
  <2> QED
    BY <2>3, <2>4, <2>5 DEF AddressInv
<1>2. CASE Receive \/ LoseByte \/ ClearByte \/ Deaf
  <2>1. Written /\ (Misses \/ \E c \in Byte : Heeds(c))
    BY <1>2, <1>b, ByteStep
  <2>2. ASSUME NEW c \in Byte, Heeds(c) PROVE AddressInv'
    BY <1>a, <2>1, <2>2, HeadHeeds, BufferHeeds, AcceptedHeeds DEF AddressInv
  <2>3. CASE Misses
    <3>1. /\ UNCHANGED <<parser, uart_data, running, accepted>>
          /\ damaged \subseteq damaged' /\ (running => Number \in damaged')
      BY <2>3 DEF Misses
    <3>2. wire # <<>> /\ Number' = Number /\ sent' = sent
      BY <1>b, <2>1, WrittenIs
    <3>3. HeadInv'
      BY <1>a, <3>1, <3>2 DEF HeadInv
    <3>4. BufferInv'
      <4>1. ASSUME running, parser.got > 0, NEW m \in 1 .. MaxFrames, uart_data[0] = Address(m)
            PROVE  m <= Number /\ m \in damaged'
        BY <1>a, <3>1, <4>1 DEF BufferInv
      <4> QED
        BY <3>1, <3>2, <4>1 DEF BufferInv
    <3>5. AcceptedInv'
      BY <1>a, <3>1, <3>2 DEF AcceptedInv
    <3> QED
      BY <3>3, <3>4, <3>5 DEF AddressInv
  <2> QED
    BY <2>1, <2>2, <2>3
<1>3. CASE UNCHANGED <<sent, wire, parser, uart_data, running, accepted, damaged>>
  BY <1>3, <1>a DEF AddressInv, HeadInv, BufferInv, AcceptedInv, Number, Line, Gone, HeadLen
<1>4. CASE Tick \/ send_command_process \/ UNCHANGED vars
  BY <1>3, <1>4 DEF Tick, send_command_process, vars, routerVars, rootVars
<1> QED
  BY <1>1, <1>2, <1>4, Steps

LEMMA AddressAlways == Spec => []AddressInv
<1>1. Init => AddressInv
  BY Constants DEF Init, AddressInv, HeadInv, BufferInv, AcceptedInv, Reset, Number
<1>2. BaseInv /\ AddressInv /\ [Next]_vars => AddressInv'
  BY AddressStep
<1> QED
  BY <1>1, <1>2, BaseAlways, PTL DEF Spec

-----------------------------------------------------------------------------
(* Commands go out: a command that waits in the mailbox is sent before      *)
(* router.lua wakes up, because the poll comes within its pause.            *)

\* The commands of the router that arrived or may still arrive undamaged.
Commands ==
  {d \in {sent[n] : n \in (DOMAIN sent) \ damaged} : d[TypeAt + 1] = DATA_TYPE_COMMAND}

Waiting(d) ==
  Box.ready /\ Box.data = d /\ wire = <<>> /\ PollInterval + Slack - poll < pause

OnceIn(s) == \A i, k \in DOMAIN s : s[i] \in Commands /\ s[i] = s[k] => i = k

InOrder ==
  \A j \in DOMAIN udp : udp[j] \in Commands =>
    \E i \in DOMAIN accepted :
      /\ accepted[i] = udp[j]
      /\ \A k \in 1 .. (i - 1) :
           accepted[k] \in Commands => \E l \in 1 .. (j - 1) : udp[l] = accepted[k]

\* Only what was accepted is sent or waits; a command accepted is sent, or waits and was
\* not sent.
OutInv ==
  /\ \A j \in DOMAIN udp : \E i \in DOMAIN accepted : accepted[i] = udp[j]
  /\ Box.ready => \E i \in DOMAIN accepted : accepted[i] = Box.data
  /\ \A i \in DOMAIN accepted : accepted[i] \in Commands =>
       (\E j \in DOMAIN udp : udp[j] = accepted[i]) \/ Waiting(accepted[i])
  /\ Box.ready /\ Box.data \in Commands => \A j \in DOMAIN udp : udp[j] # Box.data
  /\ OnceIn(accepted) /\ OnceIn(udp) /\ InOrder

\* The router sleeps longer than a poll takes, delayed as it may be: 10 ticks
\* after a command, 5 from poll to poll.
PollsInPause == PollInterval + Slack < Pause

LEMMA CommandIs ==
  ASSUME NEW d
  PROVE  IsCommand(d) <=> d \in Commands
  BY DEF IsCommand, Commands

\* No packet that was accepted becomes a command later.
LEMMA CommandsBack ==
  ASSUME BaseInv, AddressInv, Next, NEW i \in DOMAIN accepted, accepted[i] \in Commands'
  PROVE  accepted[i] \in Commands
<1>b. TypeOK /\ WireInv /\ AcceptedInv
  BY DEF BaseInv, AddressInv
<1>1. PICK n \in (DOMAIN sent') \ damaged' : accepted[i] = sent'[n]
  BY DEF Commands
<1>2. accepted[i][TypeAt + 1] = DATA_TYPE_COMMAND
  BY DEF Commands
<1>3. n \in (DOMAIN sent) \ damaged /\ sent'[n] = sent[n]
  <2>1. ASSUME NEW body \in Bodies, uart_send(body)
        PROVE  n \in (DOMAIN sent) \ damaged /\ sent'[n] = sent[n]
    <3>1. /\ Number' = Number + 1 /\ Number + 1 \in 1 .. MaxFrames
          /\ \A m \in 1 .. Number : sent'[m] = sent[m]
          /\ sent'[Number + 1] = <<Address(Number + 1)>> \o body
          /\ sent' \in Seq(Seq(Byte)) /\ damaged' = damaged
      BY <1>b, <2>1, SendIs
    <3>2. Number \in Nat /\ DOMAIN sent = 1 .. Number /\ DOMAIN sent' = 1 .. Number'
      BY <1>b, <3>1 DEF TypeOK, Number
    <3>3. n # Number + 1
      <4> SUFFICES ASSUME n = Number + 1 PROVE FALSE
        OBVIOUS
      <4>1. accepted[i][1] = Address(Number + 1)
        BY <1>1, <3>1, PacketIs
      <4>2. Number + 1 <= Number
        BY <1>b, <3>1, <4>1 DEF AcceptedInv
      <4> QED
        BY <3>2, <4>2
    <3>4. n \in 1 .. Number
      BY <1>1, <3>1, <3>2, <3>3
    <3> QED
      BY <1>1, <3>1, <3>2, <3>4
  <2>2. CASE Receive \/ LoseByte \/ ClearByte \/ Deaf
    <3>1. Written /\ (Misses \/ \E c \in Byte : Heeds(c))
      BY <1>b, <2>2, ByteStep
    <3>2. sent' = sent /\ damaged \subseteq damaged'
      BY <3>1 DEF Written, Misses, Heeds
    <3> QED
      BY <1>1, <3>2
  <2>3. CASE Tick \/ send_command_process
    BY <1>1, <2>3 DEF Tick, send_command_process, routerVars
  <2> QED
    BY <2>1, <2>2, <2>3, Steps
<1> QED
  BY <1>1, <1>2, <1>3 DEF Commands

\* The invariant survives a step that leaves the histories and the mailbox alone, if
\* nothing waits or what waits still does.
LEMMA OutKept ==
  ASSUME BaseInv, AddressInv, OutInv, Next, UNCHANGED <<accepted, udp, mailbox>>,
         \A i \in DOMAIN accepted : Waiting(accepted[i]) /\ accepted[i] \in Commands =>
           wire' = <<>> /\ PollInterval + Slack - poll' < pause'
  PROVE  OutInv'
<1>1. accepted' = accepted /\ udp' = udp /\ Box' = Box
  BY DEF Box
<1>2. \A i \in DOMAIN accepted : accepted[i] \in Commands' => accepted[i] \in Commands
  BY CommandsBack
<1>3. \A j \in DOMAIN udp : udp[j] \in Commands' => udp[j] \in Commands
  BY <1>2 DEF OutInv
<1>4. Box.ready /\ Box.data \in Commands' => Box.data \in Commands
  BY <1>2 DEF OutInv
<1>5. /\ \A j \in DOMAIN udp' : \E i \in DOMAIN accepted' : accepted'[i] = udp'[j]
      /\ Box'.ready => \E i \in DOMAIN accepted' : accepted'[i] = Box'.data
  BY <1>1 DEF OutInv
<1>6. \A i \in DOMAIN accepted' : accepted'[i] \in Commands' =>
        (\E j \in DOMAIN udp' : udp'[j] = accepted'[i])
          \/ (/\ Box'.ready /\ Box'.data = accepted'[i]
              /\ wire' = <<>> /\ PollInterval + Slack - poll' < pause')
  BY <1>1, <1>2 DEF OutInv, Waiting
<1>7. Box'.ready /\ Box'.data \in Commands' => \A j \in DOMAIN udp' : udp'[j] # Box'.data
  BY <1>1, <1>4 DEF OutInv
<1>8. OnceIn(accepted)' /\ OnceIn(udp)'
  BY <1>1, <1>2, <1>3 DEF OutInv, OnceIn
<1>9. InOrder'
  <2>1. ASSUME NEW j \in DOMAIN udp, udp[j] \in Commands'
        PROVE  \E i \in DOMAIN accepted :
                 /\ accepted[i] = udp[j]
                 /\ \A k \in 1 .. (i - 1) :
                      accepted[k] \in Commands' => \E l \in 1 .. (j - 1) : udp[l] = accepted[k]
    <3>1. PICK i \in DOMAIN accepted :
            /\ accepted[i] = udp[j]
            /\ \A k \in 1 .. (i - 1) :
                 accepted[k] \in Commands => \E l \in 1 .. (j - 1) : udp[l] = accepted[k]
      BY <1>3, <2>1 DEF OutInv, InOrder
    <3>2. \A k \in 1 .. (i - 1) : k \in DOMAIN accepted
      <4>1. accepted \in Seq(Seq(Byte))
        BY DEF BaseInv, TypeOK
      <4> QED
        BY <3>1, <4>1
    <3> QED
      BY <1>2, <3>1, <3>2
  <2> QED
    BY <1>1, <2>1 DEF InOrder
<1> QED
  BY <1>5, <1>6, <1>7, <1>8, <1>9 DEF OutInv, Waiting

\* A command is accepted with the last byte of its frame, for the first time, goes into
\* the mailbox and finds a router that sleeps.
LEMMA CommandArrives ==
  ASSUME BaseInv, AddressInv, Written, NEW c \in Byte, Heeds(c), EndOfData(c),
         Received(c) \in Commands'
  PROVE  /\ wire' = <<>> /\ pause' = Pause /\ Box' = [ready |-> TRUE, data |-> Received(c)]
         /\ \A i \in DOMAIN accepted : accepted[i] # Received(c)
<1>b. TypeOK /\ BufferBound /\ WireInv /\ AcceptedInv /\ HeadInv /\ BufferInv
  BY DEF BaseInv, AddressInv
<1>1. /\ sent' = sent /\ wire # <<>> /\ Number > 0
      /\ wire' = <<>> => pause' = SleepAfter(sent[Number])
  BY <1>b, WrittenIs
<1>2. PICK n \in (DOMAIN sent) \ damaged' : Received(c) = sent[n]
  BY <1>1 DEF Commands
<1>3. DOMAIN sent = 1 .. Number /\ Number \in Nat
  BY <1>b DEF TypeOK, Number
<1>4. n = Number /\ wire' = <<>> /\ damaged' = damaged
  <2>1. n \in 1 .. Number /\ n \notin damaged'
    BY <1>2, <1>3
  <2> QED
    BY <1>2, <1>b, <2>1, NewlyAccepted
<1>5. Received(c)[TypeAt + 1] = DATA_TYPE_COMMAND
  BY DEF Commands
<1>6. pause' = Pause
  BY <1>1, <1>2, <1>4, <1>5 DEF SleepAfter
<1>7. ASSUME NEW i \in DOMAIN accepted, accepted[i] = Received(c) PROVE FALSE
  <2>1. accepted[i] = sent[Number] /\ Number \notin damaged /\ Number \in 1 .. Number
    BY <1>1, <1>2, <1>3, <1>4, <1>7
  <2>2. Number < Number \/ wire = <<>>
    BY <1>b, <2>1 DEF AcceptedInv
  <2> QED
    BY <1>1, <1>3, <2>2
<1>8. Stored(c)[TypeAt] = DATA_TYPE_COMMAND
  <2>1. Len(Received(c)) = parser.length
    BY <1>b, ProcessedIs
  <2>2. Len(sent[n]) >= TypeAt + 1 /\ Len(sent[n]) \in Nat
    BY <1>2, <1>3, <1>b, SentIs
  <2>3. TypeAt + 1 \in 1 .. parser.length /\ (TypeAt + 1) - 1 = TypeAt
    BY <1>2, <2>1, <2>2, Constants
  <2>4. \A k \in 1 .. parser.length : Received(c)[k] = Stored(c)[k - 1]
    BY <1>b, ProcessedIs
  <2> QED
    BY <1>5, <2>3, <2>4
<1>9. Box' = [ready |-> TRUE, data |-> Received(c)]
  <2>1. \/ Box' = Empty /\ Stored(c)[TypeAt] = DATA_TYPE_LOCAL_CMD
        \/ Box' = [ready |-> TRUE, data |-> Received(c)]
        \/ Stored(c)[TypeAt] # DATA_TYPE_COMMAND /\ Box' = Box
    BY <1>b, ProcessedIs
  <2> QED
    BY <1>8, <2>1 DEF DATA_TYPE_COMMAND, DATA_TYPE_LOCAL_CMD
<1> QED
  BY <1>4, <1>6, <1>7, <1>9

\* While a frame is on the line every command accepted was sent.
LEMMA AllSent ==
  ASSUME OutInv, wire # <<>>, NEW i \in DOMAIN accepted, accepted[i] \in Commands
  PROVE  \E j \in DOMAIN udp : udp[j] = accepted[i]
  BY DEF OutInv, Waiting

LEMMA OutAccepts ==
  ASSUME BaseInv, AddressInv, OutInv, PollsInPause, Next, Written, NEW c \in Byte, Heeds(c),
         EndOfData(c)
  PROVE  OutInv'
<1>b. TypeOK /\ BufferBound /\ WireInv
  BY DEF BaseInv
<1>x. PICK x : x = Received(c)
  OBVIOUS
<1>1. accepted \in Seq(Seq(Byte)) /\ x \in Seq(Byte) /\ accepted' = Append(accepted, x)
  BY <1>b, <1>x, ProcessedIs DEF TypeOK
<1>2. udp' = udp /\ poll' = poll /\ wire # <<>>
  BY DEF Heeds, Written
<1>3. PICK n \in Nat : n = Len(accepted)
  BY <1>1
<1>4. /\ DOMAIN accepted = 1 .. n /\ DOMAIN accepted' = 1 .. (n + 1)
      /\ accepted'[n + 1] = x /\ \A i \in 1 .. n : accepted'[i] = accepted[i]
  BY <1>1, <1>3, AppendProperties
<1>5. \A i \in 1 .. n : accepted[i] \in Commands' => accepted[i] \in Commands
  BY <1>4, CommandsBack
<1>6. x \in Commands' => /\ wire' = <<>> /\ pause' = Pause
                         /\ Box' = [ready |-> TRUE, data |-> x]
                         /\ \A i \in 1 .. n : accepted[i] # x
  BY <1>4, <1>x, CommandArrives
<1>7. \A j \in DOMAIN udp : \E i \in 1 .. n : accepted[i] = udp[j]
  BY <1>4 DEF OutInv
<1>8. \A j \in DOMAIN udp : udp[j] \in Commands' => udp[j] \in Commands
  BY <1>5, <1>7
<1>9. \A i \in 1 .. n : i \in 1 .. (n + 1)
  OBVIOUS
<1>10. \A j \in DOMAIN udp' : \E i \in DOMAIN accepted' : accepted'[i] = udp'[j]
  <2>1. ASSUME NEW j \in DOMAIN udp PROVE \E i \in 1 .. (n + 1) : accepted'[i] = udp[j]
    <3>1. PICK i \in 1 .. n : accepted[i] = udp[j]
      BY <1>7
    <3>2. accepted'[i] = udp[j] /\ i \in 1 .. (n + 1)
      BY <1>4, <1>9, <3>1
    <3> QED
      BY <3>2
  <2> QED
    BY <1>2, <1>4, <2>1
<1>11. Box' = Empty \/ Box' = [ready |-> TRUE, data |-> x] \/ Box' = Box
  BY <1>b, <1>x, ProcessedIs
<1>12. Box'.ready => \E i \in DOMAIN accepted' : accepted'[i] = Box'.data
  <2>1. CASE Box' = Empty
    BY <2>1 DEF Empty
  <2>2. CASE Box' = [ready |-> TRUE, data |-> x]
    <3>1. n + 1 \in 1 .. (n + 1)
      OBVIOUS
    <3> QED
      BY <1>4, <2>2, <3>1
  <2>3. CASE Box' = Box
    <3>1. Box.ready => \E i \in 1 .. n : accepted[i] = Box.data
      BY <1>4 DEF OutInv
    <3>2. Box.ready => \E i \in 1 .. n : accepted'[i] = Box.data /\ i \in 1 .. (n + 1)
      BY <1>4, <1>9, <3>1
    <3> QED
      BY <1>4, <2>3, <3>2
  <2> QED
    BY <1>11, <2>1, <2>2, <2>3
<1>13. ASSUME NEW i \in 1 .. (n + 1), accepted'[i] \in Commands'
       PROVE  (\E j \in DOMAIN udp' : udp'[j] = accepted'[i])
                \/ (/\ Box'.ready /\ Box'.data = accepted'[i]
                    /\ wire' = <<>> /\ PollInterval + Slack - poll' < pause')
  <2>1. CASE i = n + 1
    <3>1. /\ accepted'[i] = x /\ wire' = <<>> /\ pause' = Pause
          /\ Box' = [ready |-> TRUE, data |-> x]
      BY <1>13, <1>4, <1>6, <2>1
    <3>2. poll \in Nat
      BY <1>b, Pieces
    <3>3. PollInterval + Slack - poll' < pause'
      BY <1>2, <3>1, <3>2, Constants DEF PollsInPause
    <3> QED
      BY <3>1, <3>3
  <2>2. CASE i # n + 1
    <3>1. i \in 1 .. n
      BY <2>2
    <3>2. i \in DOMAIN accepted /\ accepted[i] \in Commands /\ accepted'[i] = accepted[i]
      BY <1>13, <1>4, <1>5, <3>1
    <3> QED
      BY <1>2, <3>2, AllSent
  <2> QED
    BY <2>1, <2>2
<1>14. ASSUME Box'.ready, Box'.data \in Commands', NEW j \in DOMAIN udp, udp[j] = Box'.data
       PROVE  FALSE
  <2>1. CASE Box' = Empty
    BY <1>14, <2>1 DEF Empty
  <2>2. CASE Box' = [ready |-> TRUE, data |-> x]
    BY <1>14, <1>6, <1>7, <2>2
  <2>3. CASE Box' = Box
    BY <1>14, <1>8, <2>3 DEF OutInv
  <2> QED
    BY <1>11, <2>1, <2>2, <2>3
<1>15. OnceIn(accepted)'
  <2>1. ASSUME NEW i \in 1 .. (n + 1), NEW k \in 1 .. (n + 1), accepted'[i] \in Commands',
               accepted'[i] = accepted'[k]
        PROVE  i = k
    <3>1. CASE i = n + 1 /\ k # n + 1
      <4>1. k \in 1 .. n
        BY <3>1
      <4> QED
        BY <1>4, <1>6, <2>1, <3>1, <4>1
    <3>2. CASE k = n + 1 /\ i # n + 1
      <4>1. i \in 1 .. n
        BY <3>2
      <4> QED
        BY <1>4, <1>6, <2>1, <3>2, <4>1
    <3>3. CASE i # n + 1 /\ k # n + 1
      <4>1. i \in 1 .. n /\ k \in 1 .. n
        BY <3>3
      <4>2. accepted[i] \in Commands /\ accepted[i] = accepted[k]
        BY <1>4, <1>5, <2>1, <4>1
      <4> QED
        BY <1>4, <4>1, <4>2 DEF OutInv, OnceIn
    <3> QED
      BY <3>1, <3>2, <3>3
  <2> QED
    BY <1>4, <2>1 DEF OnceIn
<1>16. OnceIn(udp)'
  BY <1>2, <1>8 DEF OutInv, OnceIn
<1>17. InOrder'
  <2>1. ASSUME NEW j \in DOMAIN udp, udp[j] \in Commands'
        PROVE  \E i \in 1 .. (n + 1) :
                 /\ accepted'[i] = udp[j]
                 /\ \A k \in 1 .. (i - 1) :
                      accepted'[k] \in Commands' => \E l \in 1 .. (j - 1) : udp[l] = accepted'[k]
    <3>1. PICK i \in 1 .. n :
            /\ accepted[i] = udp[j]
            /\ \A k \in 1 .. (i - 1) :
                 accepted[k] \in Commands => \E l \in 1 .. (j - 1) : udp[l] = accepted[k]
      BY <1>4, <1>8, <2>1 DEF OutInv, InOrder
    <3>2. \A k \in 1 .. (i - 1) : k \in 1 .. n
      BY <3>1
    <3>3. ASSUME NEW k \in 1 .. (i - 1), accepted'[k] \in Commands'
          PROVE  \E l \in 1 .. (j - 1) : udp[l] = accepted'[k]
      BY <1>4, <1>5, <3>1, <3>2, <3>3
    <3>4. accepted'[i] = udp[j] /\ i \in 1 .. (n + 1)
      BY <1>4, <1>9, <3>1
    <3> QED
      BY <3>3, <3>4
  <2> QED
    BY <1>2, <1>4, <2>1 DEF InOrder
<1> QED
  BY <1>2, <1>4, <1>10, <1>12, <1>13, <1>14, <1>15, <1>16, <1>17 DEF OutInv, Waiting

LEMMA OutPoll ==
  ASSUME BaseInv, AddressInv, OutInv, send_command_process
  PROVE  OutInv'
<1>b. TypeOK
  BY DEF BaseInv
<1>1. /\ accepted' = accepted /\ Commands' = Commands
  BY DEF send_command_process, routerVars, Commands
<1>2. ~Box'.ready
  <2>1. DATA_TYPE_COMMAND \in Kind /\ mailbox[DATA_TYPE_COMMAND] \in Message
    BY <1>b DEF Kind, TypeOK
  <2> QED
    BY <2>1 DEF Box, send_command_process, Message
<1>3. CASE ~Box.ready
  <2>1. udp' = udp
    BY <1>3 DEF send_command_process, Box
  <2>2. \A i \in DOMAIN accepted : accepted[i] \in Commands =>
          \E j \in DOMAIN udp : udp[j] = accepted[i]
    BY <1>3 DEF OutInv, Waiting
  <2> QED
    BY <1>1, <1>2, <2>1, <2>2 DEF OutInv, Waiting, OnceIn, InOrder
<1>4. CASE Box.ready
  <2>1. udp' = Append(udp, Box.data)
    BY <1>4 DEF send_command_process, send_command_packet, Box
  <2>2. udp \in Seq(Seq(Byte)) /\ Box.data \in Seq(Byte)
    BY <1>b DEF TypeOK, Box, Message, Kind
  <2>3. PICK n \in Nat : n = Len(udp)
    BY <2>2
  <2>4. /\ DOMAIN udp = 1 .. n /\ DOMAIN udp' = 1 .. (n + 1) /\ udp'[n + 1] = Box.data
        /\ \A j \in 1 .. n : udp'[j] = udp[j]
    BY <2>1, <2>2, <2>3, AppendProperties
  <2>5. PICK i \in DOMAIN accepted : accepted[i] = Box.data
    BY <1>4 DEF OutInv
  <2>6. n + 1 \in 1 .. (n + 1) /\ (\A j \in 1 .. n : j \in 1 .. (n + 1)) /\ (n + 1) - 1 = n
        /\ \A j \in 1 .. (n + 1) : j = n + 1 \/ j \in 1 .. n
    OBVIOUS
  <2>7. ASSUME NEW j \in 1 .. (n + 1) PROVE \E k \in DOMAIN accepted : accepted[k] = udp'[j]
    <3>1. CASE j = n + 1
      BY <2>4, <2>5, <3>1
    <3>2. CASE j \in 1 .. n
      BY <2>4, <3>2 DEF OutInv
    <3> QED
      BY <2>6, <3>1, <3>2
  <2>8. ASSUME NEW k \in DOMAIN accepted, accepted[k] \in Commands
        PROVE  \E j \in 1 .. (n + 1) : udp'[j] = accepted[k]
    <3>1. (\E j \in 1 .. n : udp[j] = accepted[k]) \/ Box.data = accepted[k]
      BY <2>4, <2>8 DEF OutInv, Waiting
    <3> QED
      BY <2>4, <2>6, <3>1
  <2>9. ASSUME NEW j \in 1 .. (n + 1), NEW k \in 1 .. (n + 1), udp'[j] \in Commands,
               udp'[j] = udp'[k]
        PROVE  j = k
    <3>0. Box.data \in Commands => \A l \in 1 .. n : udp[l] # Box.data
      BY <1>4, <2>4 DEF OutInv
    <3>1. CASE j = n + 1 /\ k \in 1 .. n
      BY <2>4, <2>9, <3>0, <3>1
    <3>2. CASE k = n + 1 /\ j \in 1 .. n
      BY <2>4, <2>9, <3>0, <3>2
    <3>3. CASE j \in 1 .. n /\ k \in 1 .. n
      BY <2>4, <2>9, <3>3 DEF OutInv, OnceIn
    <3> QED
      BY <2>6, <3>1, <3>2, <3>3
  <2>10. ASSUME NEW j \in 1 .. (n + 1), udp'[j] \in Commands
         PROVE  \E m \in DOMAIN accepted :
                  /\ accepted[m] = udp'[j]
                  /\ \A k \in 1 .. (m - 1) :
                       accepted[k] \in Commands => \E l \in 1 .. (j - 1) : udp'[l] = accepted[k]
    <3>1. CASE j = n + 1
      <4>1. ASSUME NEW k \in 1 .. (i - 1), accepted[k] \in Commands
            PROVE  \E l \in 1 .. n : udp'[l] = accepted[k]
        <5>1. i \in Nat /\ k \in DOMAIN accepted /\ k # i
          <6>1. accepted \in Seq(Seq(Byte))
            BY <1>b DEF TypeOK
          <6> QED
            BY <2>5, <4>1, <6>1
        <5>2. accepted[k] # Box.data
          BY <2>5, <4>1, <5>1 DEF OutInv, OnceIn
        <5>3. \E l \in 1 .. n : udp[l] = accepted[k]
          BY <2>4, <4>1, <5>1, <5>2 DEF OutInv, Waiting
        <5> QED
          BY <2>4, <5>3
      <4> QED
        BY <2>4, <2>5, <2>6, <3>1, <4>1
    <3>2. CASE j \in 1 .. n
      <4>1. PICK m \in DOMAIN accepted :
              /\ accepted[m] = udp[j]
              /\ \A k \in 1 .. (m - 1) :
                   accepted[k] \in Commands => \E l \in 1 .. (j - 1) : udp[l] = accepted[k]
        BY <2>10, <2>4, <3>2 DEF OutInv, InOrder
      <4>2. \A l \in 1 .. (j - 1) : udp'[l] = udp[l]
        <5>1. \A l \in 1 .. (j - 1) : l \in 1 .. n
          BY <3>2
        <5> QED
          BY <2>4, <5>1
      <4> QED
        BY <2>4, <3>2, <4>1, <4>2
    <3> QED
      BY <2>6, <3>1, <3>2
  <2>11. OnceIn(accepted)'
    BY <1>1 DEF OutInv, OnceIn
  <2>12. OnceIn(udp)'
    BY <1>1, <2>4, <2>9 DEF OnceIn
  <2>13. InOrder'
    BY <1>1, <2>10, <2>4 DEF InOrder
  <2> QED
    BY <1>1, <1>2, <2>4, <2>7, <2>8, <2>11, <2>12, <2>13 DEF OutInv
<1> QED
  BY <1>3, <1>4

LEMMA OutStep ==
  ASSUME BaseInv, AddressInv, OutInv, PollsInPause, [Next]_vars
  PROVE  OutInv'
<1>b. TypeOK /\ WireInv
  BY DEF BaseInv
<1>t. /\ poll \in Nat /\ pause \in Nat /\ poll <= PollInterval + Slack
      /\ PollInterval \in Nat /\ Slack \in Nat
  BY <1>b, Constants DEF TypeOK
<1>1. ASSUME NEW body \in Bodies, uart_send(body) PROVE OutInv'
  <2>1. pause = 0 /\ UNCHANGED <<accepted, udp, mailbox>> /\ Next
    BY <1>1, <1>b, SendIs DEF rootVars, Next
  <2>2. \A i \in DOMAIN accepted : ~Waiting(accepted[i])
    BY <1>t, <2>1 DEF Waiting
  <2> QED
    BY <2>1, <2>2, OutKept
<1>2. CASE Receive \/ LoseByte \/ ClearByte \/ Deaf
  <2>1. Next /\ Written /\ (Misses \/ \E c \in Byte : Heeds(c))
    BY <1>2, <1>b, ByteStep DEF Next
  <2>2. \A i \in DOMAIN accepted : ~Waiting(accepted[i])
    BY <2>1 DEF Written, Waiting
  <2>3. CASE Misses
    BY <2>1, <2>2, <2>3, OutKept DEF Misses
  <2>4. ASSUME NEW c \in Byte, Heeds(c) PROVE OutInv'
    <3>1. Taken(c) /\ udp' = udp
      BY <2>1, <2>4, HeedsIs
    <3>2. CASE EndOfData(c)
      BY <2>1, <2>4, <3>2, OutAccepts
    <3>3. CASE ~EndOfData(c)
      <4>1. UNCHANGED <<accepted, udp, mailbox>>
        BY <3>1, <3>3 DEF Taken, InMagic, OutOfMagic, InHeader, BadHeader, GoodHeader, Endless,
                          InData, Quiet
      <4> QED
        BY <2>1, <2>2, <4>1, OutKept
    <3> QED
      BY <3>2, <3>3
  <2> QED
    BY <2>1, <2>3, <2>4
<1>3. CASE Tick
  <2>1. UNCHANGED <<accepted, udp, mailbox, wire>> /\ Next
    BY <1>3 DEF Tick, rootVars, Next
  <2>2. poll' = poll + 1 /\ poll < PollInterval + Slack
        /\ pause' = IF pause > 0 THEN pause - 1 ELSE 0
    BY <1>3 DEF Tick
  <2>3. PollInterval + Slack - poll < pause => PollInterval + Slack - poll' < pause'
    BY <1>t, <2>2
  <2> QED
    BY <2>1, <2>3, OutKept DEF Waiting
<1>4. CASE send_command_process
  BY <1>4, OutPoll
<1>5. CASE UNCHANGED vars
  BY <1>5 DEF vars, routerVars, rootVars, OutInv, Waiting, OnceIn, InOrder, Commands, Box
<1> QED
  BY <1>1, <1>2, <1>3, <1>4, <1>5, Steps

\* The parser writes inside uart_data whatever the line makes of a frame: its cursor stays
\* below the announced length, which is at most MAX_UART_DATA_LENGTH.
THEOREM ParserInBuffer == Spec => []BufferBound
  BY BaseAlways, PTL DEF BaseInv

\* If the router's sleep after a command exceeds the poll interval and the delay of a poll,
\* no command is overwritten in the one-message mailbox before send_command_process has
\* sent it, none is accepted or sent twice, and they go out in the order they came in,
\* whatever bytes are lost or cleared meanwhile.
THEOREM CommandsAllGoOut ==
  ASSUME PollsInPause
  PROVE  Spec => []CommandsGoOut
<1>1. Init => OutInv
  <2> SUFFICES ASSUME Init PROVE OutInv
    OBVIOUS
  <2>1. DOMAIN accepted = {} /\ DOMAIN udp = {} /\ ~Box.ready
    BY DEF Init, Box, Empty, Kind
  <2> QED
    BY <2>1 DEF OutInv, OnceIn, InOrder
<1>2. BaseInv /\ AddressInv /\ OutInv /\ [Next]_vars => OutInv'
  BY OutStep
<1>3. OutInv => CommandsGoOut
  BY CommandIs DEF OutInv, OnceIn, InOrder, CommandsGoOut, Once
<1> QED
  BY <1>1, <1>2, <1>3, BaseAlways, AddressAlways, PTL DEF Spec

-----------------------------------------------------------------------------
(* The parser finds the line again.                                         *)

ParserAt(h, g, l) == parser.header = h /\ parser.got = g /\ parser.length = l

\* No byte of the packet was lost, and the parser has heard what was written.
InStep ==
  /\ Number \notin damaged
  /\ \/ Gone <= 9 /\ ParserAt(Gone, 0, 0)
     \/ /\ Gone >= 10 /\ wire # <<>> /\ ParserAt(11, Gone - 10, Len(sent[Number]))
        /\ Gone > 10 => uart_data[0] = Address(Number)
     \/ wire = <<>> /\ ParserAt(0, 0, 0) /\ Accepted(Number)

\* A byte of the version or the length was lost: the checksum byte takes the place of the
\* length's high byte; or the checksum byte was, which is not read.
Shifted ==
  /\ Number \in damaged /\ Gone \in 7 .. 10 /\ ParserAt(Gone - 1, 0, 0)
  /\ Gone = 10 => \/ parser.bytes[3] = 255
                  \/ parser.bytes[1] = 3 /\ parser.bytes[2] = Line[8] /\ parser.bytes[3] = Line[9]

\* A byte behind the length was lost: the packet ends with a byte of the next frame ...
Late == Number \in damaged /\ Gone >= 11 /\ ParserAt(11, Gone - 11, Len(sent[Number]))

\* ... which is on the line now.
LateNext ==
  /\ Gone = 0 /\ Number \notin damaged /\ Number > 1 /\ Number - 1 \in damaged
  /\ parser.header = 11 /\ parser.length > 0 /\ parser.got + 1 = parser.length

\* Why Resynchronises does not promise a packet.
Excused(n) ==
  n > 1 /\ (n - 1 \in damaged \/ (~Accepted(n - 1) /\ Tempting(sent[n - 1])))

\* The parser looks for a magic sequence, in the data, behind the lost byte of one, or with
\* the end of the last packet taken for its beginning.
Scanning ==
  /\ parser.header < 6 /\ parser.got = 0 /\ parser.length = 0
  /\ Number \in damaged \/ (Excused(Number) /\ ~Accepted(Number))
  /\ \/ /\ parser.header <= Gone - 1
        /\ \A k \in 1 .. parser.header : Line[Gone - parser.header + k] = uart_magic_sequence[k]
     \/ Number \in damaged /\ Gone \in 1 .. 6 /\ parser.header = Gone - 1
     \/ Number \notin damaged /\ Gone = 0 /\ parser.header > 0

Phase == InStep \/ (lost > 0 /\ (Shifted \/ Late \/ LateNext \/ Scanning))

SyncInv ==
  running /\ noise = 0 =>
    /\ Number = 0 => ParserAt(0, 0, 0)
    /\ Number > 0 => Phase
    /\ \A m \in (1 .. (Number - 1)) \ damaged : Accepted(m) \/ Excused(m)

\* No packet contains the magic sequence.
NoMagicInside ==
  \A body \in Bodies : \A i \in 0 .. (Len(body) - 6) :
    \E k \in 1 .. 6 : body[i + k] # uart_magic_sequence[k]

\* No length has the checksum byte for its high byte; MAX_UART_DATA_LENGTH is 1500.
ShortPackets == MaxLength < 255 * 256

\* A second byte is lost only when the parser has found the line again.
LossesApart ==
  lost' # lost =>
    \/ lost = 0
    \/ /\ Number \notin damaged
       /\ Number > 1 => Number - 1 \notin damaged /\ Accepted(Number - 1)

\* A frame holds the magic sequence once, at its start.
LEMMA MagicOnce ==
  ASSUME BaseInv, NoMagicInside, Number > 0, NEW p \in Nat, p >= 1, p + 6 <= Len(Line)
  PROVE  \E k \in 1 .. 6 : Line[p + k] # uart_magic_sequence[k]
<1>b. TypeOK /\ WireInv
  BY DEF BaseInv
<1> SUFFICES ASSUME \A k \in 1 .. 6 : Line[p + k] = uart_magic_sequence[k] PROVE FALSE
  OBVIOUS
<1>1. Line[p + 1] = 1 /\ Line[p + 2] = 22 /\ Line[p + 3] = 22
  BY MagicIs
<1>2. /\ Line[2] = 22 /\ Line[3] = 22 /\ Line[4] = 22 /\ Line[5] = 22 /\ Line[6] = 16
  <2>1. \A k \in 1 .. 6 : Line[k] = uart_magic_sequence[k]
    BY <1>b, LineIs
  <2> QED
    BY <2>1, MagicIs
<1>3. Line[7] = 3 /\ Line[10] = 255
  BY <1>b, LineIs
<1>4. /\ Number \in 1 .. Number /\ Len(Line) = 10 + Len(sent[Number])
      /\ \A k \in 1 .. Len(sent[Number]) : Line[10 + k] = sent[Number][k]
  BY <1>b, LineIs
<1>5. PICK body \in Bodies : sent[Number] = <<Address(Number)>> \o body
  BY <1>4, <1>b DEF WireInv
<1>6. body \in Seq(Byte) /\ Len(body) \in Nat
  BY FrameAssumption
<1>7. Address(Number) \in Byte /\ Address(Number) # 1
  <2>1. Number \in 1 .. MaxFrames
    BY <1>b, LineIs
  <2>2. PICK n \in 1 .. 100 : n = Number
    BY <2>1, Constants
  <2>3. 100 + n \in 0 .. 255 /\ 100 + n # 1
    OBVIOUS
  <2> QED
    BY <2>2, <2>3 DEF Address, Byte
<1>8. /\ Len(sent[Number]) = 1 + Len(body) /\ sent[Number][1] = Address(Number)
      /\ \A k \in 1 .. Len(body) : sent[Number][k + 1] = body[k]
  <2>1. PICK x \in Byte : x = Address(Number)
    BY <1>7
  <2>2. PICK d : d = sent[Number] /\ d = <<x>> \o body
    BY <1>5, <2>1
  <2>3. Len(d) = 1 + Len(body) /\ d[1] = x /\ \A k \in 1 .. Len(body) : d[k + 1] = body[k]
    BY <1>6, <2>2, Prefixed
  <2> QED
    BY <2>1, <2>2, <2>3
<1>9. Line[11] = Address(Number)
  <2>1. 1 \in 1 .. Len(sent[Number]) /\ 10 + 1 = 11
    BY <1>6, <1>8
  <2> QED
    BY <1>4, <1>8, <2>1
<1>10. PICK q, r, t \in Nat : q = p + 1 /\ r = p + 2 /\ t = p + 3
  OBVIOUS
<1>11. Line[q] = 1 /\ Line[r] = 22 /\ Line[t] = 22
  BY <1>1, <1>10
<1>12. /\ q # 2 /\ q # 3 /\ q # 4 /\ q # 5 /\ q # 6 /\ q # 7 /\ q # 10 /\ r # 10 /\ t # 10
       /\ q # 11
  <2>1. /\ Line[2] # 1 /\ Line[3] # 1 /\ Line[4] # 1 /\ Line[5] # 1 /\ Line[6] # 1
    BY <1>2
  <2>2. Line[7] # 1 /\ Line[10] # 1 /\ Line[10] # 22
    BY <1>3
  <2>3. Line[11] # 1
    BY <1>7, <1>9
  <2> QED
    BY <1>11, <2>1, <2>2, <2>3, Zenon
<1>13. p >= 11
  BY <1>10, <1>12
<1>14. p - 11 \in 0 .. (Len(body) - 6)
  BY <1>13, <1>4, <1>6, <1>8
<1>15. ASSUME NEW k \in 1 .. 6 PROVE body[(p - 11) + k] = uart_magic_sequence[k]
  <2>1. PICK i \in 1 .. Len(body) : i = (p - 11) + k
    BY <1>14, <1>6
  <2>2. p + k = 10 + (i + 1) /\ i + 1 \in 1 .. Len(sent[Number])
    BY <1>13, <1>6, <1>8, <2>1
  <2>3. Line[p + k] = sent[Number][i + 1]
    BY <1>4, <2>2
  <2> QED
    BY <1>8, <2>1, <2>3
<1> QED
  BY <1>14, <1>15 DEF NoMagicInside

\* What stays as it is when a byte is written.
LEMMA AcceptedKept ==
  ASSUME BaseInv, AddressInv, Written, Misses \/ \E c \in Byte : Heeds(c),
         NEW m \in 1 .. Number
  PROVE  /\ Accepted(m) => Accepted(m)'
         /\ m \notin damaged' /\ (m < Number \/ wire' # <<>>) /\ ~Accepted(m) => ~Accepted(m)'
<1>b. TypeOK /\ BufferBound /\ WireInv /\ HeadInv /\ BufferInv
  BY DEF BaseInv, AddressInv
<1>1. sent' = sent
  BY DEF Written
<1>n. Number \in Nat
  BY <1>b, Pieces
<1>2. CASE accepted' = accepted
  BY <1>1, <1>2 DEF Accepted
<1>3. ASSUME NEW c \in Byte, Heeds(c), EndOfData(c)
      PROVE  /\ Accepted(m) => Accepted(m)'
             /\ m \notin damaged' /\ (m < Number \/ wire' # <<>>) /\ ~Accepted(m) => ~Accepted(m)'
  <2>1. accepted \in Seq(Seq(Byte)) /\ Received(c) \in Seq(Byte)
        /\ accepted' = Append(accepted, Received(c))
    BY <1>3, <1>b, ProcessedIs DEF TypeOK
  <2>2. PICK n \in Nat : n = Len(accepted)
    BY <2>1
  <2>3. /\ DOMAIN accepted = 1 .. n /\ DOMAIN accepted' = 1 .. (n + 1)
        /\ accepted'[n + 1] = Received(c) /\ \A i \in 1 .. n : accepted'[i] = accepted[i]
    BY <2>1, <2>2, AppendProperties
  <2>4. (\A i \in 1 .. n : i \in 1 .. (n + 1)) /\ \A i \in 1 .. (n + 1) : i = n + 1 \/ i \in 1 .. n
    OBVIOUS
  <2>5. Accepted(m) => Accepted(m)'
    BY <1>1, <2>3, <2>4 DEF Accepted
  <2>6. ASSUME m \notin damaged', m < Number \/ wire' # <<>> PROVE Received(c) # sent[m]
    <3>1. Received(c) = sent[m] => m = Number /\ wire' = <<>>
      BY <1>3, <1>b, <2>6, NewlyAccepted
    <3> QED
      BY <1>n, <2>6, <3>1
  <2>7. ASSUME m \notin damaged', m < Number \/ wire' # <<>>, ~Accepted(m) PROVE ~Accepted(m)'
    BY <1>1, <2>3, <2>4, <2>6, <2>7 DEF Accepted
  <2> QED
    BY <2>5, <2>7
<1>4. accepted' = accepted \/ \E c \in Byte : Heeds(c) /\ EndOfData(c)
  <2>1. CASE Misses
    BY <2>1 DEF Misses
  <2>2. ASSUME NEW c \in Byte, Heeds(c) PROVE accepted' = accepted \/ EndOfData(c)
    <3>1. Taken(c)
      BY <2>2, HeedsIs
    <3> QED
      BY <3>1 DEF Taken, InMagic, OutOfMagic, InHeader, BadHeader, GoodHeader, Endless, InData,
                  Quiet
  <2> QED
    BY <2>1, <2>2
<1> QED
  BY <1>2, <1>3, <1>4

LEMMA ExcusedKept ==
  ASSUME BaseInv, AddressInv, Written, Misses \/ \E c \in Byte : Heeds(c),
         NEW m \in 1 .. Number, Excused(m)
  PROVE  Excused(m)'
<1>1. sent' = sent /\ damaged \subseteq damaged'
  BY DEF Written, Misses, Heeds
<1>n. Number \in Nat /\ m > 1
  BY Pieces DEF BaseInv, Excused
<1>2. m - 1 \in 1 .. Number /\ m - 1 < Number
  BY <1>n
<1>3. m - 1 \notin damaged' /\ ~Accepted(m - 1) => ~Accepted(m - 1)'
  BY <1>2, AcceptedKept
<1> QED
  BY <1>1, <1>3, <1>n DEF Excused, Tempting

\* The frame on the line, in numbers.
LEMMA LineNumbers ==
  ASSUME BaseInv, Number > 0
  PROVE  /\ Len(sent[Number]) \in Nat /\ Len(sent[Number]) >= 2 /\ Len(sent[Number]) <= MaxLength
         /\ Len(Line) = 10 + Len(sent[Number]) /\ Gone \in Nat /\ Gone <= 10 + Len(sent[Number])
         /\ (wire = <<>> <=> Gone = 10 + Len(sent[Number]))
<1>b. TypeOK /\ WireInv
  BY DEF BaseInv
<1>1. /\ Number \in 1 .. Number /\ Len(Line) = 10 + Len(sent[Number]) /\ Len(Line) \in Nat
      /\ Len(wire) \in Nat /\ Gone \in 0 .. Len(Line) /\ Len(wire) = Len(Line) - Gone
  BY <1>b, LineIs
<1>2. /\ Len(sent[Number]) \in Nat /\ Len(sent[Number]) >= TypeAt + 1
      /\ Len(sent[Number]) <= MaxLength
  BY <1>1, <1>b, SentIs
<1>3. wire = <<>> <=> Len(wire) = 0
  BY <1>b, EmptySeq DEF TypeOK
<1>4. Len(sent[Number]) >= 2
  BY <1>2, Constants
<1> QED
  BY <1>1, <1>2, <1>3, <1>4

\* The parser takes the byte of the line.
Hears(c) == Written /\ Heeds(c) /\ c = Line[Gone + 1] /\ damaged' = damaged

LEMMA HearsIs ==
  ASSUME BaseInv, NEW c \in Byte, Hears(c)
  PROVE  /\ Number > 0 /\ Number' = Number /\ sent' = sent /\ Line' = Line
         /\ Gone' = Gone + 1 /\ Gone \in Nat /\ Gone < 10 + Len(sent[Number])
         /\ wire # <<>> /\ (wire' = <<>> <=> Gone' = 10 + Len(sent[Number]))
         /\ lost' = lost /\ damaged' = damaged /\ c = Line[Gone + 1]
         /\ running /\ Taken(c)
<1>b. TypeOK /\ WireInv
  BY DEF BaseInv
<1>1. Written /\ Heeds(c) /\ c = Line[Gone + 1] /\ damaged' = damaged
  BY DEF Hears
<1>2. /\ Number > 0 /\ Number' = Number /\ sent' = sent /\ Line' = Line /\ wire # <<>>
      /\ Gone' = Gone + 1 /\ (wire' = <<>> <=> Gone' = Len(Line))
      /\ Gone \in 0 .. (Len(Line) - 1)
  BY <1>1, <1>b, WrittenIs
<1>3. /\ Len(Line) = 10 + Len(sent[Number]) /\ Len(sent[Number]) \in Nat /\ Gone \in Nat
  BY <1>2, LineNumbers
<1>4. running /\ Taken(c) /\ lost' = lost
  BY <1>1, HeedsIs
<1>5. Gone < 10 + Len(sent[Number])
  BY <1>2, <1>3
<1> QED
  BY <1>1, <1>2, <1>3, <1>4, <1>5

LEMMA TakenAt ==
  ASSUME BaseInv, NEW c \in Byte, Taken(c)
  PROVE  /\ parser.header < 6 => InMagic(c) \/ OutOfMagic(c)
         /\ parser.header \in 6 .. 8 => InHeader(c)
         /\ parser.header = 9 => BadHeader(c) \/ GoodHeader(c)
         /\ parser.header = 11 /\ parser.length > 0 => InData(c) \/ EndOfData(c)
<1>1. /\ InMagic(c) => parser.header < 6
      /\ OutOfMagic(c) => parser.header < 6
      /\ InHeader(c) => parser.header \in 6 .. 8
      /\ BadHeader(c) => parser.header = 9
      /\ GoodHeader(c) => parser.header = 9
      /\ Endless => parser.header = 11 /\ parser.length = 0
      /\ InData(c) => parser.header = 11
      /\ EndOfData(c) => parser.header = 11
  BY DEF InMagic, OutOfMagic, InHeader, BadHeader, GoodHeader, Endless, InData, EndOfData, Outside
<1>2. parser.header \in 0 .. 11
  BY ParserIs DEF BaseInv
<1> QED
  BY <1>1, <1>2 DEF Taken

\* With the right length and version the header is good.
LEMMA HeaderRight ==
  ASSUME BaseInv, NEW c \in Byte, Taken(c), parser.header = 9, Number > 0,
         parser.bytes[1] = 3, parser.bytes[2] = Line[8], parser.bytes[3] = Line[9]
  PROVE  parser'.header = 11 /\ parser'.got = 0 /\ parser'.length = Len(sent[Number])
<1>b. TypeOK /\ WireInv
  BY DEF BaseInv
<1>1. parser.bytes \in [1 .. 4 -> Byte]
  BY <1>b, ParserIs
<1>2. Heard(c)[1] = 3 /\ Heard(c)[2] = Line[8] /\ Heard(c)[3] = Line[9]
  <2>1. parser.header - 5 = 4
    OBVIOUS
  <2> QED
    BY <1>1, <2>1 DEF Heard
<1>3. Length(Heard(c)) = Len(sent[Number])
  BY <1>2, <1>b, LineLength DEF Length
<1>4. ~BadHeader(c)
  <2>1. Len(sent[Number]) \in Nat /\ Len(sent[Number]) <= MaxLength /\ MaxLength \in Nat
    BY LineNumbers, Constants
  <2> QED
    BY <1>2, <1>3, <2>1 DEF BadHeader
<1>5. GoodHeader(c)
  BY <1>4, TakenAt
<1> QED
  BY <1>3, <1>5 DEF GoodHeader, Fields

LEMMA InStepHears ==
  ASSUME BaseInv, AddressInv, NEW c \in Byte, Hears(c), InStep
  PROVE  InStep'
<1>b. TypeOK /\ BufferBound /\ WireInv /\ HeadInv /\ BufferInv
  BY DEF BaseInv, AddressInv
<1>1. /\ Number > 0 /\ Number' = Number /\ sent' = sent /\ Line' = Line
      /\ Gone' = Gone + 1 /\ Gone \in Nat /\ Gone < 10 + Len(sent[Number])
      /\ wire # <<>> /\ (wire' = <<>> <=> Gone' = 10 + Len(sent[Number]))
      /\ damaged' = damaged /\ c = Line[Gone + 1]
      /\ running /\ Taken(c)
  BY HearsIs
<1>2. /\ Len(sent[Number]) \in Nat /\ Len(sent[Number]) >= 2
  BY <1>1, LineNumbers
<1>3. Number' \notin damaged'
  BY <1>1 DEF InStep
<1>4. CASE Gone <= 9 /\ ParserAt(Gone, 0, 0)
  <2>1. parser.header = Gone /\ parser.got = 0 /\ parser.length = 0
    BY <1>4 DEF ParserAt
  <2>2. CASE Gone <= 5
    <3>1. Gone + 1 \in 1 .. 6 /\ parser.header < 6
      BY <1>1, <2>1, <2>2
    <3>2. c = uart_magic_sequence[parser.header + 1]
      <4>1. \A k \in 1 .. 6 : Line[k] = uart_magic_sequence[k]
        BY <1>1, <1>b, LineIs
      <4> QED
        BY <1>1, <2>1, <3>1, <4>1
    <3>3. InMagic(c)
      BY <1>1, <3>1, <3>2, TakenAt DEF OutOfMagic
    <3>4. parser'.header = Gone + 1 /\ parser'.got = 0 /\ parser'.length = 0
      BY <2>1, <3>3 DEF InMagic, Fields
    <3>5. Gone' <= 9
      BY <1>1, <2>2
    <3> QED
      BY <1>1, <1>3, <3>4, <3>5 DEF InStep, ParserAt
  <2>3. CASE Gone \in 6 .. 8
    <3>1. InHeader(c)
      BY <1>1, <2>1, <2>3, TakenAt
    <3>2. parser'.header = Gone + 1 /\ parser'.got = 0 /\ parser'.length = 0
      BY <2>1, <3>1 DEF InHeader, Fields
    <3>3. Gone' <= 9
      BY <1>1, <2>3
    <3> QED
      BY <1>1, <1>3, <3>2, <3>3 DEF InStep, ParserAt
  <2>4. CASE Gone = 9
    <3>1. HeadLen = 3 /\ parser.header = 9 /\ parser.header # 11
      BY <2>1, <2>4 DEF HeadLen
    <3>2. \A j \in 1 .. 3 : 9 - 3 + j >= 1 => parser.bytes[j] = Line[9 - 3 + j]
      BY <1>1, <1>b, <2>1, <2>4, <3>1 DEF HeadInv, InStep
    <3>3. parser.bytes[1] = Line[7] /\ parser.bytes[2] = Line[8] /\ parser.bytes[3] = Line[9]
      <4>1. 9 - 3 + 1 = 7 /\ 9 - 3 + 2 = 8 /\ 9 - 3 + 3 = 9
        OBVIOUS
      <4> QED
        BY <3>2, <4>1
    <3>4. Line[7] = 3
      BY <1>1, <1>b, LineIs
    <3>5. parser'.header = 11 /\ parser'.got = 0 /\ parser'.length = Len(sent[Number])
      BY <1>1, <3>1, <3>3, <3>4, HeaderRight
    <3>6. Gone' = 10 /\ wire' # <<>>
      BY <1>1, <1>2, <2>4
    <3>7. Gone' >= 10 /\ Gone' - 10 = 0 /\ ~(Gone' > 10)
      BY <3>6
    <3> QED
      BY <1>1, <1>3, <3>5, <3>6, <3>7 DEF InStep, ParserAt
  <2> QED
    BY <1>1, <1>4, <2>2, <2>3, <2>4
<1>5. CASE Gone >= 10 /\ ParserAt(11, Gone - 10, Len(sent[Number]))
             /\ (Gone > 10 => uart_data[0] = Address(Number))
  <2>1. parser.header = 11 /\ parser.got = Gone - 10 /\ parser.length = Len(sent[Number])
    BY <1>5 DEF ParserAt
  <2>2. parser.length > 0
    BY <1>2, <2>1
  <2>3. Stored(c)[0] = Address(Number)
    <3>1. /\ parser.got \in 0 .. (MaxLength - 1) /\ Stored(c)[parser.got] = c
          /\ \A i \in 0 .. (MaxLength - 1) : i # parser.got => Stored(c)[i] = uart_data[i]
      BY <1>b, <2>2, StoredType
    <3>2. CASE Gone = 10
      <4>1. c = Line[11] /\ parser.got = 0
        BY <1>1, <2>1, <3>2
      <4>2. /\ Number \in 1 .. Number
            /\ \A k \in 1 .. Len(sent[Number]) : Line[10 + k] = sent[Number][k]
        BY <1>1, <1>b, LineIs
      <4>3. 1 \in 1 .. Len(sent[Number]) /\ 10 + 1 = 11
        BY <1>2
      <4>4. Line[11] = sent[Number][1]
        BY <4>2, <4>3
      <4>5. sent[Number][1] = Address(Number)
        BY <1>b, <4>2, SentIs
      <4> QED
        BY <3>1, <4>1, <4>4, <4>5
    <3>3. CASE Gone # 10
      <4>1. Gone > 10 /\ parser.got # 0 /\ 0 \in 0 .. (MaxLength - 1)
        BY <1>1, <1>5, <2>1, <3>1, <3>3, Constants
      <4> QED
        BY <1>5, <3>1, <4>1
    <3> QED
      BY <3>2, <3>3
  <2>4. CASE InData(c)
    <3>1. /\ parser'.header = 11 /\ parser'.got = parser.got + 1 /\ parser'.length = parser.length
          /\ parser.got + 1 < parser.length /\ uart_data' = Stored(c)
      BY <2>4 DEF InData, Fields
    <3>2. Gone' >= 10 /\ parser'.got = Gone' - 10 /\ wire' # <<>>
      BY <1>1, <1>2, <1>5, <2>1, <3>1
    <3>3. uart_data'[0] = Address(Number') /\ parser'.length = Len(sent'[Number'])
      BY <1>1, <2>1, <2>3, <3>1
    <3> QED
      BY <1>3, <3>1, <3>2, <3>3 DEF InStep, ParserAt
  <2>5. CASE EndOfData(c)
    <3>1. /\ parser.got + 1 = parser.length
      BY <2>5 DEF EndOfData
    <3>2. wire' = <<>>
      BY <1>1, <1>2, <2>1, <3>1
    <3>3. parser' = Reset /\ accepted' = Append(accepted, Received(c))
      BY <1>b, <2>5, ProcessedIs
    <3>4. Received(c) = sent[Number]
      <4>1. Number \in 1 .. MaxFrames /\ Number \in 1 .. Number
        BY <1>1, <1>b, LineIs
      <4>2. \A i \in 0 .. parser.got : Stored(c)[i] = sent[Number][i + 1]
        BY <1>1, <1>3, <1>b, <2>1, <2>2, <2>3, <4>1, StoredAddress DEF Hears
      <4>3. /\ Received(c) \in Seq(Byte) /\ Len(Received(c)) = parser.length
            /\ \A k \in 1 .. parser.length : Received(c)[k] = Stored(c)[k - 1]
        BY <1>b, <2>5, ProcessedIs
      <4>4. sent[Number] \in Seq(Byte)
        BY <1>b, <4>1, SentIs
      <4>5. ASSUME NEW k \in 1 .. Len(sent[Number]) PROVE Received(c)[k] = sent[Number][k]
        <5>1. PICK i \in 0 .. parser.got : k - 1 = i /\ i + 1 = k
          BY <1>2, <2>1, <3>1, ParserIs, <1>b
        <5> QED
          BY <2>1, <4>2, <4>3, <5>1
      <4> QED
        BY <2>1, <4>3, <4>4, <4>5, SeqEqual
    <3>5. Accepted(Number)'
      <4>1. accepted \in Seq(Seq(Byte)) /\ Received(c) \in Seq(Byte)
        BY <1>b, <2>5, ProcessedIs DEF TypeOK
      <4>2. PICK n \in DOMAIN accepted' : accepted'[n] = Received(c)
        BY <3>3, <4>1, AppendProperties
      <4> QED
        BY <1>1, <3>4, <4>2 DEF Accepted
    <3> QED
      BY <1>3, <3>2, <3>3, <3>5, ResetIs DEF InStep, ParserAt
  <2> QED
    BY <1>1, <2>1, <2>2, <2>4, <2>5, TakenAt
<1> QED
  BY <1>1, <1>4, <1>5 DEF InStep

LEMMA ShiftedHears ==
  ASSUME BaseInv, ShortPackets, NEW c \in Byte, Hears(c), Shifted
  PROVE  Shifted' \/ Late' \/ Scanning'
<1>b. TypeOK /\ BufferBound /\ WireInv
  BY DEF BaseInv
<1>1. /\ Number > 0 /\ Number' = Number /\ sent' = sent /\ Line' = Line
      /\ Gone' = Gone + 1 /\ damaged' = damaged /\ c = Line[Gone + 1] /\ Taken(c)
  BY HearsIs
<1>2. /\ Number' \in damaged' /\ Gone \in 7 .. 10
      /\ parser.header = Gone - 1 /\ parser.got = 0 /\ parser.length = 0
  BY <1>1 DEF Shifted, ParserAt
<1>p. parser.bytes \in [1 .. 4 -> Byte]
  BY <1>b, ParserIs
<1>3. CASE Gone < 10
  <2>1. parser.header \in 6 .. 8
    BY <1>2, <1>3
  <2>2. InHeader(c)
    BY <1>1, <2>1, TakenAt
  <2>3. /\ parser'.header = parser.header + 1 /\ parser'.got = 0 /\ parser'.length = 0
        /\ parser'.bytes = Heard(c)
    BY <2>2 DEF InHeader, Fields
  <2>4. Gone' \in 7 .. 10 /\ parser'.header = Gone' - 1
    BY <1>1, <1>2, <1>3, <2>3
  <2>5. Gone' = 10 => parser'.bytes[3] = 255
    <3> SUFFICES ASSUME Gone' = 10 PROVE Heard(c)[3] = 255
      BY <2>3
    <3>1. Gone = 9 /\ parser.header - 5 = 3
      BY <1>1, <1>2
    <3>2. c = Line[10]
      BY <1>1, <3>1
    <3>3. Line[10] = 255
      BY <1>1, <1>b, LineIs
    <3> QED
      BY <1>p, <3>1, <3>2, <3>3 DEF Heard
  <2> QED
    BY <1>2, <2>3, <2>4, <2>5 DEF Shifted, ParserAt
<1>4. CASE Gone = 10
  <2>1. parser.header = 9 /\ Gone' = 11
    BY <1>1, <1>2, <1>4
  <2>2. CASE parser.bytes[3] = 255
    <3>1. Heard(c)[3] = 255 /\ Heard(c)[2] \in 0 .. 255
      <4>1. parser.header - 5 = 4
        BY <2>1
      <4> QED
        BY <1>p, <2>2, <4>1 DEF Heard, Byte
    <3>2. \A x \in 0 .. 255 : ~(x + 256 * 255 <= MaxLength)
      BY Constants DEF ShortPackets
    <3>3. ~(Length(Heard(c)) <= MaxLength)
      BY <3>1, <3>2 DEF Length
    <3>4. BadHeader(c)
      BY <1>1, <2>1, <3>3, TakenAt DEF GoodHeader
    <3>5. parser'.header = 0 /\ parser'.got = 0 /\ parser'.length = 0
      BY <3>4, ResetIs DEF BadHeader
    <3>6. parser'.header < 6 /\ parser'.header <= Gone' - 1 /\ 1 .. 0 = {}
      BY <2>1, <3>5
    <3> QED
      BY <1>2, <3>5, <3>6 DEF Scanning
  <2>3. CASE parser.bytes[1] = 3 /\ parser.bytes[2] = Line[8] /\ parser.bytes[3] = Line[9]
    <3>1. parser'.header = 11 /\ parser'.got = 0 /\ parser'.length = Len(sent[Number])
      BY <1>1, <2>1, <2>3, HeaderRight
    <3>2. Gone' >= 11 /\ parser'.got = Gone' - 11
      BY <2>1, <3>1
    <3> QED
      BY <1>1, <1>2, <3>1, <3>2 DEF Late, ParserAt
  <2> QED
    BY <1>4, <2>2, <2>3 DEF Shifted
<1> QED
  BY <1>2, <1>3, <1>4

LEMMA LateHears ==
  ASSUME BaseInv, NEW c \in Byte, Hears(c), Late
  PROVE  Late'
<1>1. /\ Number > 0 /\ Number' = Number /\ sent' = sent /\ Gone' = Gone + 1 /\ Gone \in Nat
      /\ Gone < 10 + Len(sent[Number]) /\ damaged' = damaged /\ Taken(c)
  BY HearsIs
<1>2. Len(sent[Number]) \in Nat /\ Len(sent[Number]) >= 2
  BY <1>1, LineNumbers
<1>3. /\ Number' \in damaged' /\ Gone >= 11
      /\ parser.header = 11 /\ parser.got = Gone - 11 /\ parser.length = Len(sent[Number])
  BY <1>1 DEF Late, ParserAt
<1>4. InData(c)
  <2>1. parser.length > 0 /\ parser.got + 1 # parser.length
    BY <1>1, <1>2, <1>3
  <2> QED
    BY <1>1, <1>3, <2>1, TakenAt DEF EndOfData
<1>5. parser'.header = 11 /\ parser'.got = parser.got + 1 /\ parser'.length = parser.length
  BY <1>4 DEF InData, Fields
<1>6. Gone' >= 11 /\ parser'.got = Gone' - 11
  BY <1>1, <1>3, <1>5
<1> QED
  BY <1>1, <1>3, <1>5, <1>6 DEF Late, ParserAt

\* An undamaged packet is not accepted while its frame is on the line.
LEMMA NotYet ==
  ASSUME BaseInv, AddressInv, Number > 0, wire # <<>>, Number \notin damaged
  PROVE  ~Accepted(Number)
<1>1. Number \in 1 .. Number /\ ~(Number < Number)
  BY Pieces DEF BaseInv
<1> QED
  BY <1>1 DEF AddressInv, AcceptedInv, Accepted

LEMMA LateNextHears ==
  ASSUME BaseInv, AddressInv, NEW c \in Byte, Hears(c), LateNext
  PROVE  Scanning'
<1>b. TypeOK /\ BufferBound /\ WireInv
  BY DEF BaseInv
<1>1. /\ Number > 0 /\ Number' = Number /\ Gone' = Gone + 1 /\ wire # <<>>
      /\ (wire' = <<>> <=> Gone' = 10 + Len(sent[Number])) /\ damaged' = damaged /\ Taken(c)
  BY HearsIs
<1>2. Len(sent[Number]) \in Nat
  BY <1>1, LineNumbers
<1>3. EndOfData(c)
  <2>1. parser.length \in Nat
    BY <1>b, ParserIs, Constants
  <2>2. ~InData(c)
    BY <2>1 DEF LateNext, InData
  <2>3. parser.header = 11 /\ parser.length > 0
    BY DEF LateNext
  <2> QED
    BY <1>1, <2>2, <2>3, TakenAt
<1>4. parser'.header = 0 /\ parser'.got = 0 /\ parser'.length = 0
  BY <1>3, <1>b, ProcessedIs, ResetIs
<1>5. Gone' = 1 /\ wire' # <<>>
  BY <1>1, <1>2 DEF LateNext
<1>6. Excused(Number)'
  BY <1>1 DEF LateNext, Excused
<1>7. ~Accepted(Number)'
  <2>1. PICK n : n = Number
    OBVIOUS
  <2>2. n \in 1 .. Number
    BY <1>1, <2>1, Pieces DEF BaseInv
  <2>3. ~Accepted(n) /\ n \notin damaged'
    BY <1>1, <2>1, NotYet DEF LateNext
  <2>4. ~Accepted(n)'
    BY <1>5, <2>2, <2>3, AcceptedKept DEF Hears
  <2> QED
    BY <1>1, <2>1, <2>4 DEF Accepted
<1>8. parser'.header < 6 /\ parser'.header <= Gone' - 1 /\ 1 .. 0 = {}
  BY <1>4, <1>5
<1> QED
  BY <1>4, <1>6, <1>7, <1>8 DEF Scanning

LEMMA ScanningHears ==
  ASSUME BaseInv, AddressInv, NoMagicInside, NEW c \in Byte, Hears(c), Scanning
  PROVE  Scanning'
<1>b. TypeOK /\ BufferBound /\ WireInv
  BY DEF BaseInv
<1>1. /\ Number > 0 /\ Number' = Number /\ sent' = sent /\ Line' = Line
      /\ Gone' = Gone + 1 /\ Gone \in Nat /\ Gone < 10 + Len(sent[Number])
      /\ damaged' = damaged /\ c = Line[Gone + 1] /\ Taken(c)
  BY HearsIs
<1>2. Len(sent[Number]) \in Nat /\ Len(Line) = 10 + Len(sent[Number])
  BY <1>1, LineNumbers
<1>3. InMagic(c) \/ OutOfMagic(c)
  BY <1>1, TakenAt DEF Scanning
<1>4. accepted' = accepted
  BY <1>3 DEF InMagic, OutOfMagic, Quiet
<1>5. (Number \in damaged \/ (Excused(Number) /\ ~Accepted(Number)))'
  BY <1>1, <1>4 DEF Scanning, Excused, Accepted, Tempting
<1>p. parser.header \in 0 .. 5 /\ parser.header \in Nat
  BY <1>b, ParserIs DEF Scanning
<1>6. CASE OutOfMagic(c)
  <2>1. parser'.header = 0 /\ parser'.got = 0 /\ parser'.length = 0
    BY <1>6, ResetIs DEF OutOfMagic
  <2>2. parser'.header < 6 /\ parser'.header <= Gone' - 1 /\ 1 .. 0 = {}
    BY <1>1, <2>1
  <2> QED
    BY <1>5, <2>1, <2>2 DEF Scanning
<1>7. CASE InMagic(c)
  <2>1. /\ parser'.header = parser.header + 1 /\ parser'.got = 0 /\ parser'.length = 0
        /\ c = uart_magic_sequence[parser.header + 1]
    BY <1>7 DEF InMagic, Fields
  <2>m. \A k \in 1 .. 6 : Line[k] = uart_magic_sequence[k]
    BY <1>1, <1>b, LineIs
  <2>2. CASE /\ parser.header <= Gone - 1
             /\ \A k \in 1 .. parser.header :
                  Line[Gone - parser.header + k] = uart_magic_sequence[k]
    <3>1. PICK p \in Nat : p = Gone - parser.header /\ p >= 1
      BY <1>1, <1>p, <2>2
    <3>2. ASSUME NEW k \in 1 .. (parser.header + 1) PROVE Line[p + k] = uart_magic_sequence[k]
      <4>1. CASE k = parser.header + 1
        <5>1. p + k = Gone + 1
          BY <1>1, <1>p, <3>1, <4>1
        <5> QED
          BY <1>1, <2>1, <4>1, <5>1
      <4>2. CASE k # parser.header + 1
        <5>1. k \in 1 .. parser.header
          BY <1>p, <4>2
        <5> QED
          BY <2>2, <3>1, <5>1
      <4> QED
        BY <4>1, <4>2
    <3>3. parser.header # 5
      <4> SUFFICES ASSUME parser.header = 5 PROVE FALSE
        OBVIOUS
      <4>1. p + 6 <= Len(Line)
        BY <1>1, <1>2, <3>1
      <4>2. \A k \in 1 .. 6 : Line[p + k] = uart_magic_sequence[k]
        BY <3>2
      <4> QED
        BY <1>1, <3>1, <4>1, <4>2, MagicOnce
    <3>4. /\ parser'.header < 6 /\ parser'.header <= Gone' - 1 /\ Gone' - parser'.header = p
      BY <1>1, <1>p, <2>1, <3>1, <3>3
    <3>5. \A k \in 1 .. parser'.header : Line'[Gone' - parser'.header + k] = uart_magic_sequence[k]
      BY <1>1, <2>1, <3>2, <3>4
    <3> QED
      BY <1>5, <2>1, <3>4, <3>5 DEF Scanning
  <2>3. CASE Number \in damaged /\ Gone \in 1 .. 6 /\ parser.header = Gone - 1
    <3>1. c = uart_magic_sequence[Gone]
      <4>1. parser.header + 1 = Gone
        BY <1>1, <2>3
      <4> QED
        BY <2>1, <4>1
    <3>2. Gone # 1 /\ Gone # 5 /\ Gone # 6
      <4>m. /\ Line[2] = uart_magic_sequence[2] /\ Line[6] = uart_magic_sequence[6]
            /\ Line[7] = 3
        BY <1>1, <1>b, <2>m, LineIs
      <4>d. /\ uart_magic_sequence[1] # uart_magic_sequence[2]
            /\ uart_magic_sequence[5] # uart_magic_sequence[6] /\ uart_magic_sequence[6] # 3
        BY MagicIs
      <4>1. Gone # 1
        <5>1. Gone = 1 => c = Line[2]
          BY <1>1
        <5> QED
          BY <3>1, <4>d, <4>m, <5>1, Zenon
      <4>2. Gone # 5
        <5>1. Gone = 5 => c = Line[6]
          BY <1>1
        <5> QED
          BY <3>1, <4>d, <4>m, <5>1, Zenon
      <4>3. Gone # 6
        <5>1. Gone = 6 => c = Line[7]
          BY <1>1
        <5> QED
          BY <3>1, <4>d, <4>m, <5>1, Zenon
      <4> QED
        BY <4>1, <4>2, <4>3
    <3>3. Gone' \in 1 .. 6 /\ parser'.header = Gone' - 1 /\ parser'.header < 6
      BY <1>1, <2>1, <2>3, <3>2
    <3>4. Number' \in damaged'
      BY <1>1, <2>3
    <3> QED
      BY <1>5, <2>1, <3>3, <3>4 DEF Scanning
  <2>4. CASE Gone = 0 /\ parser.header > 0
    <3>1. c = 1
      <4>1. c = Line[1]
        BY <1>1, <2>4
      <4> QED
        BY <2>m, <4>1, MagicIs
    <3>2. PICK k \in 2 .. 6 : k = parser.header + 1
      BY <1>p, <2>4
    <3>3. \A i \in 2 .. 6 : uart_magic_sequence[i] # 1
      BY MagicIs
    <3> QED
      BY <2>1, <3>1, <3>2, <3>3
  <2> QED
    BY <2>2, <2>3, <2>4 DEF Scanning
<1> QED
  BY <1>3, <1>6, <1>7

LEMMA PhaseHears ==
  ASSUME BaseInv, AddressInv, NoMagicInside, ShortPackets, NEW c \in Byte, Hears(c), Phase
  PROVE  Phase'
<1>1. lost' = lost
  BY HearsIs
<1>2. CASE InStep
  BY <1>2, InStepHears DEF Phase
<1>3. CASE Shifted
  BY <1>1, <1>2, <1>3, ShiftedHears DEF Phase
<1>4. CASE Late
  BY <1>1, <1>2, <1>4, LateHears DEF Phase
<1>5. CASE LateNext
  BY <1>1, <1>2, <1>5, LateNextHears DEF Phase
<1>6. CASE Scanning
  BY <1>1, <1>2, <1>6, ScanningHears DEF Phase
<1> QED
  BY <1>2, <1>3, <1>4, <1>5, <1>6 DEF Phase

\* A byte is lost while the parser is in step.
LEMMA InStepLoses ==
  ASSUME BaseInv, AddressInv, Written, Misses, running, InStep
  PROVE  Shifted' \/ Late' \/ Scanning'
<1>b. TypeOK /\ WireInv /\ HeadInv
  BY DEF BaseInv, AddressInv
<1>1. /\ Number > 0 /\ Number' = Number /\ sent' = sent /\ Line' = Line /\ wire # <<>>
      /\ Gone' = Gone + 1
  BY <1>b, WrittenIs
<1>2. parser' = parser /\ Number' \in damaged'
  BY <1>1 DEF Misses
<1>3. Gone \in Nat
  BY <1>1, LineNumbers
<1>4. CASE Gone <= 9 /\ ParserAt(Gone, 0, 0)
  <2>1. parser'.header = Gone' - 1 /\ parser'.got = 0 /\ parser'.length = 0
    BY <1>1, <1>2, <1>3, <1>4 DEF ParserAt
  <2>2. CASE Gone <= 5
    <3>1. Gone' \in 1 .. 6 /\ parser'.header < 6
      BY <1>1, <1>3, <2>1, <2>2
    <3> QED
      BY <1>2, <2>1, <3>1 DEF Scanning
  <2>3. CASE Gone > 5
    <3>1. Gone' \in 7 .. 10
      BY <1>1, <1>3, <1>4, <2>3
    <3>2. Gone' = 10 => /\ parser'.bytes[1] = 3 /\ parser'.bytes[2] = Line'[8]
                        /\ parser'.bytes[3] = Line'[9]
      <4> SUFFICES ASSUME Gone' = 10
                   PROVE  /\ parser.bytes[1] = 3 /\ parser.bytes[2] = Line[8]
                          /\ parser.bytes[3] = Line[9]
        BY <1>1, <1>2
      <4>1. Gone = 9 /\ parser.header = 9 /\ parser.got = 0
        BY <1>1, <1>3, <1>4 DEF ParserAt
      <4>2. HeadLen = 3 /\ parser.header # 11
        BY <4>1 DEF HeadLen
      <4>3. \A j \in 1 .. 3 : 9 - 3 + j >= 1 => parser.bytes[j] = Line[9 - 3 + j]
        BY <1>1, <1>b, <4>1, <4>2 DEF HeadInv, InStep
      <4>4. parser.bytes[1] = Line[7] /\ parser.bytes[2] = Line[8] /\ parser.bytes[3] = Line[9]
        <5>1. 9 - 3 + 1 = 7 /\ 9 - 3 + 2 = 8 /\ 9 - 3 + 3 = 9
          OBVIOUS
        <5> QED
          BY <4>3, <5>1
      <4>5. Line[7] = 3
        BY <1>1, <1>b, LineIs
      <4> QED
        BY <4>4, <4>5
    <3> QED
      BY <1>2, <2>1, <3>1, <3>2 DEF Shifted, ParserAt
  <2> QED
    BY <1>3, <2>2, <2>3
<1>5. CASE Gone >= 10 /\ ParserAt(11, Gone - 10, Len(sent[Number]))
  <2>1. /\ parser'.header = 11 /\ parser'.got = Gone' - 11 /\ Gone' >= 11
        /\ parser'.length = Len(sent'[Number'])
    BY <1>1, <1>2, <1>3, <1>5 DEF ParserAt
  <2> QED
    BY <1>2, <2>1 DEF Late, ParserAt
<1> QED
  BY <1>1, <1>4, <1>5 DEF InStep

\* The parser at the end of a frame.
LEMMA AtEnd ==
  ASSUME BaseInv, Number > 0, wire = <<>>, Phase
  PROVE  /\ Number \in damaged \/ Accepted(Number) \/ Excused(Number)
         /\ \/ ParserAt(0, 0, 0)
            \/ lost > 0 /\ Late
            \/ lost > 0 /\ Scanning /\ parser.header <= Gone - 1
                 /\ \A k \in 1 .. parser.header :
                      Line[Gone - parser.header + k] = uart_magic_sequence[k]
<1>1. /\ Len(sent[Number]) \in Nat /\ Gone \in Nat /\ Gone = 10 + Len(sent[Number])
      /\ Len(sent[Number]) >= 2
  BY LineNumbers
<1>2. ~(Gone <= 9) /\ Gone \notin 7 .. 10 /\ Gone # 0 /\ Gone \notin 1 .. 6
  BY <1>1
<1>3. ~Shifted /\ ~LateNext
  BY <1>2 DEF Shifted, LateNext
<1>4. CASE InStep
  BY <1>2, <1>4 DEF InStep
<1>5. CASE lost > 0 /\ Late
  BY <1>5 DEF Late
<1>6. CASE lost > 0 /\ Scanning
  BY <1>2, <1>6 DEF Scanning
<1> QED
  BY <1>3, <1>4, <1>5, <1>6 DEF Phase

\* The data of a packet behind which the parser has read the start of a magic sequence.
LEMMA EndTempts ==
  ASSUME BaseInv, Number > 0, wire = <<>>, parser.header \in 1 .. 5,
         \A k \in 1 .. parser.header : Line[Gone - parser.header + k] = uart_magic_sequence[k]
  PROVE  Tempting(sent[Number])
<1>b. TypeOK /\ WireInv
  BY DEF BaseInv
<1>1. PICK l \in Nat : l = Len(sent[Number]) /\ l >= 2 /\ Gone = 10 + l
  BY LineNumbers
<1>2. PICK h \in 1 .. 5 : h = parser.header
  OBVIOUS
<1>3. \A k \in 1 .. h : Line[10 + l - h + k] = uart_magic_sequence[k]
  <2>1. Gone - parser.header = 10 + l - h
    BY <1>1, <1>2
  <2> QED
    BY <1>2, <2>1
<1>4. Number \in 1 .. Number /\ \A k \in 1 .. l : Line[10 + k] = sent[Number][k]
  BY <1>1, <1>b, LineIs
<1>5. h <= l
  <2> SUFFICES ASSUME h > l PROVE FALSE
    BY <1>1
  <2>0. h + 1 - l \in 1 .. h /\ 10 + l - h + (h + 1 - l) = 10 + 1
    <3>1. l >= 2 /\ h \in Nat
      BY <1>1
    <3>2. h + 1 - l \in 1 .. h
      BY <3>1
    <3>3. 10 + l - h + (h + 1 - l) = 10 + 1
      BY <3>1
    <3> QED
      BY <3>2, <3>3
  <2>1. PICK k \in 1 .. h : 10 + l - h + k = 10 + 1
    BY <2>0
  <2>2. Line[10 + 1] = uart_magic_sequence[k]
    BY <1>3, <2>1
  <2>3. Line[10 + 1] = Address(Number)
    <3>1. 1 \in 1 .. l
      BY <1>1
    <3>2. sent[Number][1] = Address(Number)
      BY <1>4, <1>b, SentIs
    <3> QED
      BY <1>4, <3>1, <3>2
  <2>4. uart_magic_sequence[k] \in {1, 22, 16}
    <3>1. k \in 1 .. 6
      BY <2>1
    <3> QED
      BY <3>1, MagicIs
  <2>5. PICK n \in Nat : n = Number
    BY <1>b, Pieces
  <2>6. Address(Number) = 100 + n
    BY <2>5 DEF Address
  <2>7. 100 + n \notin {1, 22, 16}
    OBVIOUS
  <2> QED
    BY <2>2, <2>3, <2>4, <2>6, <2>7, Zenon
<1>6. ASSUME NEW i \in 1 .. h PROVE sent[Number][l - h + i] = uart_magic_sequence[i]
  <2>0. l - h + i \in 1 .. l
    BY <1>5, <1>1
  <2>1. PICK k \in 1 .. l : k = l - h + i
    BY <2>0
  <2>2. 10 + l - h + i = 10 + k
    BY <1>1, <2>1
  <2> QED
    BY <1>3, <1>4, <2>1, <2>2
<1>7. h \in 1 .. (MAGIC_SEQUENCE_LENGTH - 1)
  BY DEF MAGIC_SEQUENCE_LENGTH
<1>8. /\ h <= Len(sent[Number])
      /\ \A i \in 1 .. h : sent[Number][Len(sent[Number]) - h + i] = uart_magic_sequence[i]
  BY <1>1, <1>5, <1>6
<1> QED
  BY <1>7, <1>8 DEF Tempting

LEMMA SyncSend ==
  ASSUME BaseInv, AddressInv, SyncInv, NEW body \in Bodies, uart_send(body)
  PROVE  SyncInv'
<1>b. TypeOK /\ WireInv /\ AcceptedInv
  BY DEF BaseInv, AddressInv
<1>n. Number \in Nat /\ damaged \subseteq 1 .. Number
  BY <1>b, Pieces DEF WireInv
<1>1. /\ wire = <<>> /\ Number' = Number + 1 /\ Number + 1 \in 1 .. MaxFrames
      /\ \A m \in 1 .. Number : sent'[m] = sent[m]
      /\ sent'[Number + 1] = <<Address(Number + 1)>> \o body /\ Gone' = 0
  BY <1>b, SendIs
<1>2. /\ UNCHANGED <<parser, running, accepted, damaged, lost, noise>>
  <2>1. UNCHANGED <<rootVars, poll, accepted, udp, damaged, lost, noise>>
    BY <1>b, SendIs
  <2> QED
    BY <2>1 DEF rootVars
<1> SUFFICES ASSUME running, noise = 0 PROVE SyncInv'
  BY <1>2 DEF SyncInv
<1>3. Number' \notin damaged' /\ Number' # 0 /\ Number' > 0 /\ Number' - 1 = Number
  BY <1>1, <1>2, <1>n
<1>4. ~Accepted(Number)'
  <2>1. sent'[Number + 1][1] = Address(Number + 1)
    BY <1>1, PacketIs
  <2>2. ASSUME NEW i \in DOMAIN accepted, accepted[i] = sent'[Number + 1] PROVE FALSE
    <3>1. Number + 1 <= Number
      BY <1>1, <1>b, <2>1, <2>2 DEF AcceptedInv
    <3> QED
      BY <1>n, <3>1
  <2> QED
    BY <1>1, <1>2, <2>2 DEF Accepted
<1>5. ParserAt(0, 0, 0) => InStep'
  <2>1. Gone' <= 9
    BY <1>1
  <2> QED
    BY <1>1, <1>2, <1>3, <2>1 DEF InStep, ParserAt
<1>6. CASE Number = 0
  <2>1. ParserAt(0, 0, 0)
    BY <1>6 DEF SyncInv
  <2>2. 1 .. (Number' - 1) = {}
    BY <1>3, <1>6
  <2> QED
    BY <1>3, <1>5, <2>1, <2>2 DEF SyncInv, Phase
<1>7. CASE Number > 0
  <2>1. Phase
    BY <1>7 DEF SyncInv
  <2>2. /\ Number \in damaged \/ Accepted(Number) \/ Excused(Number)
        /\ \/ ParserAt(0, 0, 0)
           \/ lost > 0 /\ Late
           \/ lost > 0 /\ Scanning /\ parser.header <= Gone - 1
                /\ \A k \in 1 .. parser.header :
                     Line[Gone - parser.header + k] = uart_magic_sequence[k]
    BY <1>1, <1>7, <2>1, AtEnd
  <2>3. Phase'
    <3>1. CASE ParserAt(0, 0, 0)
      BY <1>5, <3>1 DEF Phase
    <3>2. CASE lost > 0 /\ Late
      <4>1. /\ Len(sent[Number]) \in Nat /\ Gone = 10 + Len(sent[Number]) /\ Len(sent[Number]) >= 2
        BY <1>1, <1>7, LineNumbers
      <4>2. parser.header = 11 /\ parser.length > 0 /\ parser.got + 1 = parser.length
        BY <3>2, <4>1 DEF Late, ParserAt
      <4>3. Number' > 1 /\ Number' - 1 \in damaged'
        BY <1>1, <1>2, <1>3, <1>7, <1>n, <3>2 DEF Late
      <4> QED
        BY <1>1, <1>2, <1>3, <3>2, <4>2, <4>3 DEF Phase, LateNext
    <3>3. CASE /\ lost > 0 /\ Scanning /\ ~ParserAt(0, 0, 0)
               /\ \A k \in 1 .. parser.header :
                    Line[Gone - parser.header + k] = uart_magic_sequence[k]
      <4>1. parser.header \in 1 .. 5
        BY <1>b, <3>3, ParserIs DEF Scanning, ParserAt
      <4>2. Tempting(sent[Number])
        BY <1>1, <1>7, <3>3, <4>1, EndTempts
      <4>3. Number \in damaged \/ (~Accepted(Number) /\ Tempting(sent[Number]))
        BY <3>3, <4>2 DEF Scanning
      <4>4. Number \in 1 .. Number /\ Number + 1 > 1
        BY <1>7, <1>n
      <4>5. Excused(Number)'
        <5>1. Number' > 1 /\ Number' - 1 = Number /\ sent'[Number] = sent[Number]
          BY <1>1, <1>3, <4>4
        <5>2. ~Accepted(Number) => ~(\E i \in DOMAIN accepted' : accepted'[i] = sent'[Number])
          BY <1>2, <5>1 DEF Accepted
        <5>3. \/ Number' - 1 \in damaged'
              \/ /\ ~(\E i \in DOMAIN accepted' : accepted'[i] = sent'[Number' - 1])
                 /\ Tempting(sent'[Number' - 1])
          BY <1>2, <4>3, <5>1, <5>2
        <5> QED
          BY <5>1, <5>3 DEF Excused, Accepted, Tempting
      <4>6. parser.header < 6 /\ parser.header > 0 /\ parser.got = 0 /\ parser.length = 0
        BY <3>3, <4>1 DEF Scanning
      <4> QED
        BY <1>1, <1>2, <1>3, <1>4, <3>3, <4>5, <4>6 DEF Phase, Scanning
    <3> QED
      BY <2>2, <3>1, <3>2, <3>3
  <2>4. ASSUME NEW m \in 1 .. Number, m \notin damaged
        PROVE  (Accepted(m) => Accepted(m)') /\ (Excused(m) => Excused(m)')
    <3>1. Accepted(m) => Accepted(m)'
      BY <1>1, <1>2 DEF Accepted
    <3>2. m > 1 => m - 1 \in 1 .. Number
      BY <1>n
    <3>3. Excused(m) => Excused(m)'
      BY <1>1, <1>2, <3>2 DEF Excused, Accepted, Tempting
    <3> QED
      BY <3>1, <3>3
  <2>5. ASSUME NEW m \in (1 .. (Number' - 1)) \ damaged' PROVE Accepted(m)' \/ Excused(m)'
    <3>1. m \in 1 .. Number /\ m \notin damaged
      BY <1>2, <1>3
    <3>2. CASE m = Number
      <4>1. Accepted(m) \/ Excused(m)
        BY <2>2, <3>1, <3>2
      <4> QED
        BY <2>4, <3>1, <4>1
    <3>3. CASE m # Number
      <4>1. m \in (1 .. (Number - 1)) \ damaged
        BY <1>n, <3>1, <3>3
      <4> QED
        BY <2>4, <3>1, <4>1 DEF SyncInv
    <3> QED
      BY <3>2, <3>3
  <2> QED
    BY <1>3, <2>3, <2>5 DEF SyncInv
<1> QED
  BY <1>6, <1>7, <1>n

LEMMA SyncStep ==
  ASSUME BaseInv, AddressInv, SyncInv, NoMagicInside, ShortPackets, LossesApart, [Next]_vars
  PROVE  SyncInv'
<1>b. TypeOK /\ BufferBound /\ WireInv
  BY DEF BaseInv
<1>n. Number \in Nat /\ noise \in Nat /\ lost \in Nat
  BY <1>b, Pieces
<1>1. ASSUME NEW body \in Bodies, uart_send(body) PROVE SyncInv'
  BY <1>1, SyncSend
<1>2. CASE Receive \/ LoseByte \/ ClearByte \/ Deaf
  <2>1. Written /\ (Misses \/ \E c \in Byte : Heeds(c))
    BY <1>2, <1>b, ByteStep
  <2>2. Number > 0 /\ Number' = Number /\ sent' = sent
    BY <1>b, <2>1, WrittenIs
  <2>3. noise' = 0 => noise = 0
    BY <1>n, <2>1 DEF Misses, Heeds
  <2>4. running' => running
    BY <2>1 DEF Misses, Heeds
  <2> SUFFICES ASSUME running, noise = 0, noise' = 0 PROVE SyncInv'
    BY <2>3, <2>4 DEF SyncInv
  <2>5. Phase /\ \A m \in (1 .. (Number - 1)) \ damaged : Accepted(m) \/ Excused(m)
    BY <2>2 DEF SyncInv
  <2>6. ASSUME NEW m \in (1 .. (Number' - 1)) \ damaged' PROVE Accepted(m)' \/ Excused(m)'
    <3>1. damaged \subseteq damaged'
      BY <2>1 DEF Misses, Heeds
    <3>2. m \in (1 .. (Number - 1)) \ damaged /\ m \in 1 .. Number
      BY <1>n, <2>2, <3>1
    <3>3. Accepted(m) \/ Excused(m)
      BY <2>5, <3>2
    <3> QED
      BY <2>1, <3>2, <3>3, AcceptedKept, ExcusedKept
  <2>7. Phase'
    <3>1. ASSUME NEW c \in Byte, Heeds(c) PROVE Phase'
      <4>1. c = Line[Gone + 1] /\ damaged' = damaged
        <5>1. c = Head(wire) /\ damaged' = damaged
          BY <3>1 DEF Heeds
        <5>2. Head(wire) = Line[Gone + 1]
          BY <1>b, <2>1, WrittenIs
        <5> QED
          BY <5>1, <5>2
      <4>2. Hears(c)
        BY <2>1, <3>1, <4>1 DEF Hears
      <4> QED
        BY <2>5, <4>2, PhaseHears
    <3>2. CASE Misses
      <4>1. lost' = lost + 1
        BY <3>2 DEF Misses
      <4>2. \/ lost = 0
            \/ /\ Number \notin damaged
               /\ Number > 1 => Number - 1 \notin damaged /\ Accepted(Number - 1)
        BY <1>n, <4>1 DEF LossesApart
      <4>3. InStep
        BY <1>n, <2>5, <4>2 DEF Phase, Shifted, Late, LateNext, Scanning, Excused
      <4> QED
        BY <1>n, <2>1, <3>2, <4>1, <4>3, InStepLoses DEF Phase
    <3> QED
      BY <2>1, <3>1, <3>2
  <2>8. Number' # 0
    BY <1>n, <2>2
  <2> QED
    BY <2>6, <2>7, <2>8 DEF SyncInv
<1>3. CASE UNCHANGED <<sent, wire, parser, uart_data, running, accepted, damaged, lost, noise>>
  BY <1>3 DEF SyncInv, Phase, InStep, Shifted, Late, LateNext, Scanning, Excused, Accepted,
              Tempting, ParserAt, Number, Line, Gone
<1>4. CASE Tick \/ send_command_process \/ UNCHANGED vars
  BY <1>3, <1>4 DEF Tick, send_command_process, vars, routerVars, rootVars
<1> QED
  BY <1>1, <1>2, <1>4, Steps

LEMMA SyncInit ==
  ASSUME Init
  PROVE  SyncInv
<1>1. Number = 0 /\ ParserAt(0, 0, 0) /\ 1 .. (0 - 1) = {}
  BY ResetIs DEF Init, Number, ParserAt
<1> QED
  BY <1>1 DEF SyncInv

LEMMA SyncShows ==
  ASSUME BaseInv, SyncInv
  PROVE  Resynchronises
<1> SUFFICES ASSUME running, noise = 0, NEW n \in Complete \ damaged
             PROVE  Accepted(n) \/ Excused(n)
  BY DEF Resynchronises, Excused
<1>1. Number \in Nat /\ n \in 1 .. Number /\ (n < Number \/ wire = <<>>) /\ n \notin damaged
  BY Pieces DEF BaseInv, Complete, Number
<1>2. CASE n < Number
  <2>1. n \in (1 .. (Number - 1)) \ damaged
    BY <1>1, <1>2
  <2> QED
    BY <2>1 DEF SyncInv
<1>3. CASE ~(n < Number)
  <2>1. n = Number /\ Number > 0 /\ wire = <<>>
    BY <1>1, <1>3
  <2> QED
    BY <1>1, <2>1, AtEnd DEF SyncInv
<1> QED
  BY <1>2, <1>3

\* Bytes may be lost any number of times, if each time after the first the parser is back
\* in step: it finds the line again, and no packet is missed but the damaged one, the one
\* behind it, and those behind a missed packet that ends as the magic sequence begins.
THEOREM ParserResynchronises ==
  ASSUME NoMagicInside, ShortPackets
  PROVE  Spec /\ [][LossesApart]_vars => []Resynchronises
<1>1. Init => SyncInv
  BY SyncInit
<1>2. BaseInv /\ AddressInv /\ SyncInv /\ [Next]_vars /\ [LossesApart]_vars => SyncInv'
  <2>1. UNCHANGED vars => LossesApart
    BY DEF vars, LossesApart
  <2> QED
    BY <2>1, SyncStep
<1>3. BaseInv /\ SyncInv => Resynchronises
  BY SyncShows
<1> QED
  BY <1>1, <1>2, <1>3, BaseAlways, AddressAlways, PTL DEF Spec

\* One lost byte, anywhere in any frame, is always recovered from.
THEOREM OneLossRecovered ==
  ASSUME NoMagicInside, ShortPackets
  PROVE  Spec => [](lost <= 1 => Resynchronises)
<1>1. Init => (lost <= 1 => SyncInv)
  BY SyncInit
<1>2. BaseInv /\ AddressInv /\ (lost <= 1 => SyncInv) /\ [Next]_vars => (lost <= 1 => SyncInv)'
  <2> SUFFICES ASSUME BaseInv, AddressInv, lost <= 1 => SyncInv, [Next]_vars, lost' <= 1
               PROVE  SyncInv'
    OBVIOUS
  <2>1. lost \in Nat /\ (lost' = lost \/ lost' = lost + 1)
    BY Pieces DEF BaseInv, Next, uart_send, Receive, LoseByte, ClearByte, Deaf, Tick,
                  send_command_process, vars
  <2>2. LossesApart /\ lost <= 1
    BY <2>1 DEF LossesApart
  <2> QED
    BY <2>2, SyncStep
<1>3. BaseInv /\ (lost <= 1 => SyncInv) => (lost <= 1 => Resynchronises)
  BY SyncShows
<1> QED
  BY <1>1, <1>2, <1>3, BaseAlways, AddressAlways, PTL DEF Spec
=============================================================================
