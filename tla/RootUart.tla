------------------------------- MODULE RootUart -------------------------------
(***************************************************************************)
(* The serial line from the router to the root node.  router.lua writes     *)
(* framed packets (uart_send); the UART interrupt of the root feeds them,   *)
(* byte by byte, to the parser of root-node.c (uart_data_receiver), which   *)
(* dispatches a complete packet into one-message mailboxes                  *)
(* (uart_packet_processed) that send_command_process empties into UDP       *)
(* packets on a timer.  A byte is lost when the receive FIFO overruns while *)
(* send_command_process holds the interrupts off; line noise clears one.    *)
(*                                                                          *)
(* The frame is the code's, byte for byte; the packet in it is cut down to  *)
(* what the parser tells apart: one byte stands for the 16 address bytes    *)
(* and the two version bytes, and the offsets are constants.                *)
(***************************************************************************)
EXTENDS Integers, Sequences, SequencesExt

CONSTANTS
  Bodies,       \* the packets the router may send, without their address
  TypeAt,       \* offset of data_type (18 in the code)
  UartTypeAt,   \* offset tested for DATA_TYPE_UART (26)
  MaxLength,    \* MAX_UART_DATA_LENGTH (1500)
  PollInterval, \* UART_DATA_POLL_INTERVAL, in ticks of about 8 ms (5)
  Slack,        \* ticks by which the other processes may delay a poll
  Pause,        \* ticks router.lua sleeps after a command (0.08 s, 10)
  MaxFrames,    \* bound: packets the router sends
  MaxLost,      \* bound: bytes lost on the line
  MaxNoise      \* bound: bytes cleared by noise

Byte == 0 .. 255

ASSUME FrameAssumption ==
  /\ TypeAt \in Nat \ {0} /\ UartTypeAt \in Nat
  /\ MaxLength \in Nat /\ MaxLength < 65536
  /\ UartTypeAt < MaxLength /\ TypeAt + 2 < MaxLength
  /\ Bodies \subseteq Seq(Byte) /\ \A body \in Bodies : Len(body) >= TypeAt

ASSUME TimeAssumption ==
  /\ PollInterval \in Nat \ {0} /\ Slack \in Nat /\ Pause \in Nat
  /\ MaxFrames \in 0 .. 100 /\ MaxLost \in Nat /\ MaxNoise \in Nat

\* The address of the n-th packet, which tells the packets of a history apart.
Address(n) == 100 + n

\* It stands for 18 bytes that nothing else on the line looks like.
ASSUME AddressAssumption ==
  \A body \in Bodies : \A n \in 1 .. MaxFrames :
    /\ \A i \in DOMAIN body : body[i] # Address(n)
    /\ (Len(body) + 1) % 256 # Address(n) /\ (Len(body) + 1) \div 256 # Address(n)

DATA_TYPE_COMMAND      == 5
DATA_TYPE_FIRMWARE     == 12
DATA_TYPE_UART         == 13
DATA_TYPE_FIRMWARE_CMD == 14
DATA_TYPE_LOCAL_CMD    == 15

LOCAL_ROOT_COMMAND_REBOOT              == 0
LOCAL_ROOT_COMMAND_BOOTLOADER_ACTIVATE == 1
LOCAL_ROOT_COMMAND_TIME_SET            == 2

UART_PROTOCOL_VERSION_V3 == 3
uart_magic_sequence      == <<1, 22, 22, 22, 22, 16>>
MAGIC_SEQUENCE_LENGTH    == 6
PACKET_HEADER_LENGTH     == 10

VARIABLES
  sent,      \* the packets router.lua has begun to write
  wire,      \* bytes of the last one still to come
  pause,     \* ticks router.lua still sleeps
  parser,    \* uart_data_receiver's static variables
  uart_data, \* the packet buffer; it keeps the bytes of older packets
  mailbox,   \* the four messages with their ready_to_send
  poll,      \* ticks since send_command_process set its timer
  epoch,     \* the root's time, 0 until it is set
  ccfg,      \* sector 0x1F000: whole, or erased to enter the ROM bootloader
  running,   \* FALSE once the root is in the ROM bootloader
  accepted,  \* history: packets given to uart_packet_processed
  udp,       \* history: commands sent to nodes
  damaged,   \* history: numbers of the packets that lost or changed a byte
  lost, noise

routerVars == <<sent, wire, pause>>
rootVars   == <<parser, uart_data, mailbox, epoch, ccfg, running>>
vars == <<routerVars, rootVars, poll, accepted, udp, damaged, lost, noise>>

Kind == {DATA_TYPE_COMMAND, DATA_TYPE_FIRMWARE, DATA_TYPE_UART,
         DATA_TYPE_FIRMWARE_CMD}

\* A message that is not ready_to_send.
Empty == [ready |-> FALSE, data |-> <<>>]

\* The static variables of uart_data_receiver; its uart_packet_crc is stored
\* and never read.
Reset == [header |-> 0, bytes |-> <<0, 0, 0, 0>>, got |-> 0, length |-> 0]

Zeroed == [i \in 0 .. (MaxLength - 1) |-> 0]

Init ==
  /\ sent = <<>> /\ wire = <<>> /\ pause = 0
  /\ parser = Reset /\ uart_data = Zeroed
  /\ mailbox = [k \in Kind |-> Empty]
  /\ poll = 0 /\ epoch = 0 /\ ccfg = "whole" /\ running = TRUE
  /\ accepted = <<>> /\ udp = <<>> /\ damaged = {}
  /\ lost = 0 /\ noise = 0

-----------------------------------------------------------------------------
(* The router.                                                              *)

Frame(data) ==
  uart_magic_sequence
    \o <<UART_PROTOCOL_VERSION_V3, Len(data) % 256, Len(data) \div 256, 255>>
    \o data

uart_send(body) ==
  LET data == <<Address(Len(sent) + 1)>> \o body
  IN  /\ wire = <<>> /\ pause = 0 /\ Len(sent) < MaxFrames
      /\ Len(data) <= MaxLength
      /\ sent' = Append(sent, data)
      /\ wire' = Frame(data)
      /\ UNCHANGED <<pause, rootVars, poll, accepted, udp, damaged, lost, noise>>

\* Mutant: no sender sleeps.
SleepAfterNothing(data) == 0

\* send_command_to_ability and send_local_command sleep 0.08 s when the last
\* byte is written; the UART and firmware senders return at once.
SleepAfter(data) ==
  IF data[TypeAt + 1] \in {DATA_TYPE_COMMAND, DATA_TYPE_LOCAL_CMD} THEN Pause ELSE 0

\* router.lua has written one more byte.
Written ==
  /\ wire # <<>>
  /\ wire' = Tail(wire)
  /\ pause' = IF Len(wire) = 1 THEN SleepAfter(Last(sent)) ELSE pause
  /\ UNCHANGED sent

-----------------------------------------------------------------------------
(* The root: dispatch of a complete packet.                                 *)

\* The packet in a buffer b of which n bytes were received.
Packet(b, n) == [i \in 1 .. n |-> b[i - 1]]

\* Which messages the packet fills.  The test for DATA_TYPE_UART reads another
\* byte than the others, and one that a short packet does not reach.
Fills(b, k) ==
  IF k = DATA_TYPE_UART THEN b[UartTypeAt] = DATA_TYPE_UART ELSE b[TypeAt] = k

\* local_command: only its first argument byte is kept of the time.
local_command(b) ==
  /\ epoch' = IF b[TypeAt + 1] = LOCAL_ROOT_COMMAND_TIME_SET
              THEN b[TypeAt + 2] ELSE epoch
  /\ ccfg' = IF b[TypeAt + 1] = LOCAL_ROOT_COMMAND_BOOTLOADER_ACTIVATE
             THEN "erased" ELSE ccfg
  /\ UNCHANGED running

\* A reset clears the RAM; the ROM starts its own loader without a CCFG.
Restart ==
  /\ parser' = Reset /\ uart_data' = Zeroed
  /\ mailbox' = [k \in Kind |-> Empty]
  /\ epoch' = 0
  /\ running' = (ccfg = "whole")
  /\ UNCHANGED ccfg

\* Mutant: the parser is not reset after a packet.
uart_packet_processed_no_reset(b, n) ==
  /\ accepted' = Append(accepted, Packet(b, n))
  /\ mailbox' = [k \in Kind |->
       IF Fills(b, k) THEN [ready |-> TRUE, data |-> Packet(b, n)] ELSE mailbox[k]]
  /\ uart_data' = b
  /\ parser' = [parser EXCEPT !.got = 0]
  /\ UNCHANGED <<epoch, ccfg, running>>

uart_packet_processed(b, n) ==
  /\ accepted' = Append(accepted, Packet(b, n))
  /\ IF b[TypeAt] = DATA_TYPE_LOCAL_CMD /\ b[TypeAt + 1] = LOCAL_ROOT_COMMAND_REBOOT
     THEN Restart
     ELSE /\ IF b[TypeAt] = DATA_TYPE_LOCAL_CMD
             THEN local_command(b)
             ELSE UNCHANGED <<epoch, ccfg, running>>
          /\ mailbox' = [k \in Kind |->
               IF Fills(b, k)
               THEN [ready |-> TRUE, data |-> Packet(b, n)]
               ELSE mailbox[k]]
          /\ uart_data' = b
          /\ parser' = Reset

-----------------------------------------------------------------------------
(* The root: uart_data_receiver, one case for each of its returns.          *)

Idle(p) == UNCHANGED <<uart_data, mailbox, epoch, ccfg, running, accepted>> /\ parser' = p

\* A byte that breaks the sequence is dropped: it is not tested as a first one.
ReadMagic(c) ==
  /\ parser.header < MAGIC_SEQUENCE_LENGTH
  /\ Idle(IF c = uart_magic_sequence[parser.header + 1]
          THEN [parser EXCEPT !.header = @ + 1] ELSE Reset)

Length(h) == h[2] + 256 * h[3]

ReadHeader(c) ==
  LET h == [parser.bytes EXCEPT ![parser.header - MAGIC_SEQUENCE_LENGTH + 1] = c]
  IN  /\ parser.header \in MAGIC_SEQUENCE_LENGTH .. (PACKET_HEADER_LENGTH - 1)
      /\ IF parser.header + 1 < PACKET_HEADER_LENGTH
         THEN Idle([parser EXCEPT !.bytes = h, !.header = @ + 1])
         ELSE IF h[1] # UART_PROTOCOL_VERSION_V3 \/ Length(h) > MaxLength
         THEN Idle(Reset)
         ELSE Idle([parser EXCEPT !.bytes = h, !.length = Length(h),
                                  !.header = PACKET_HEADER_LENGTH + 1])

\* Mutant: the packet ends one byte late.
ReadDataLate(c) ==
  /\ parser.header > PACKET_HEADER_LENGTH
  /\ IF parser.got >= MaxLength
     THEN Idle(Reset)
     ELSE IF parser.length = 0
     THEN Idle(parser)
     ELSE LET b == [uart_data EXCEPT ![parser.got] = c]
          IN  IF parser.got = parser.length
              THEN uart_packet_processed(b, parser.length)
              ELSE /\ parser' = [parser EXCEPT !.got = @ + 1]
                   /\ uart_data' = b
                   /\ UNCHANGED <<mailbox, epoch, ccfg, running, accepted>>

ReadData(c) ==
  /\ parser.header > PACKET_HEADER_LENGTH
  /\ IF parser.got >= MaxLength
     THEN Idle(Reset)
     ELSE IF parser.length = 0
     THEN Idle(parser)
     ELSE LET b == [uart_data EXCEPT ![parser.got] = c]
          IN  IF parser.got + 1 = parser.length
              THEN uart_packet_processed(b, parser.length)
              ELSE /\ parser' = [parser EXCEPT !.got = @ + 1]
                   /\ uart_data' = b
                   /\ UNCHANGED <<mailbox, epoch, ccfg, running, accepted>>

uart_data_receiver(c) == ReadMagic(c) \/ ReadHeader(c) \/ ReadData(c)

-----------------------------------------------------------------------------
(* The line, the clock and the poller.                                      *)

Receive ==
  /\ running
  /\ Written
  /\ uart_data_receiver(Head(wire))
  /\ UNCHANGED <<poll, udp, damaged, lost, noise>>

\* The FIFO overran: the byte never reaches the parser.
LoseByte ==
  /\ running /\ lost < MaxLost
  /\ Written
  /\ lost' = lost + 1
  /\ damaged' = damaged \cup {Len(sent)}
  /\ UNCHANGED <<rootVars, poll, accepted, udp, noise>>

\* Noise on the line: the byte arrives as 0.
ClearByte ==
  /\ running /\ noise < MaxNoise
  /\ Written
  /\ uart_data_receiver(0)
  /\ noise' = noise + 1
  /\ damaged' = damaged \cup {Len(sent)}
  /\ UNCHANGED <<poll, udp, lost>>

\* In the ROM bootloader the root no longer runs root-node.c.
Deaf ==
  /\ ~running
  /\ Written
  /\ UNCHANGED <<rootVars, poll, accepted, udp, damaged, lost, noise>>

Tick ==
  /\ poll < PollInterval + Slack
  /\ poll' = poll + 1
  /\ pause' = IF pause > 0 THEN pause - 1 ELSE 0
  /\ UNCHANGED <<sent, wire, rootVars, accepted, udp, damaged, lost, noise>>

\* The command goes to the address the packet names.
send_command_packet(data) == udp' = Append(udp, data)

\* One round of send_command_process; each message is sent and marked with the
\* interrupts off, so no byte is parsed meanwhile.
send_command_process ==
  /\ poll >= PollInterval
  /\ poll' = 0
  /\ IF mailbox[DATA_TYPE_COMMAND].ready
       THEN send_command_packet(mailbox[DATA_TYPE_COMMAND].data) ELSE UNCHANGED udp
  /\ mailbox' = [k \in Kind |-> [mailbox[k] EXCEPT !.ready = FALSE]]
  /\ UNCHANGED <<routerVars, parser, uart_data, epoch, ccfg, running,
                 accepted, damaged, lost, noise>>

Next ==
  \/ \E body \in Bodies : uart_send(body)
  \/ Receive \/ LoseByte \/ ClearByte \/ Deaf
  \/ Tick \/ send_command_process

Spec == Init /\ [][Next]_vars

-----------------------------------------------------------------------------
(* Properties.                                                              *)

Message == [ready : BOOLEAN, data : Seq(Byte)]

\* Every variable has its type.
TypeOK ==
  /\ sent \in Seq(Seq(Byte)) /\ wire \in Seq(Byte) /\ pause \in 0 .. Pause
  /\ parser \in [header : 0 .. (PACKET_HEADER_LENGTH + 1), bytes : [1 .. 4 -> Byte],
                 got : 0 .. MaxLength, length : 0 .. MaxLength]
  /\ uart_data \in [0 .. (MaxLength - 1) -> Byte]
  /\ mailbox \in [Kind -> Message]
  /\ poll \in 0 .. (PollInterval + Slack)
  /\ epoch \in Byte /\ ccfg \in {"whole", "erased"} /\ running \in BOOLEAN
  /\ accepted \in Seq(Seq(Byte)) /\ udp \in Seq(Seq(Byte))
  /\ damaged \subseteq 1 .. MaxFrames
  /\ lost \in 0 .. MaxLost /\ noise \in 0 .. MaxNoise

\* Whatever arrives, the parser writes inside uart_data: while it reads a
\* packet its cursor is below the announced length, which is at most
\* MAX_UART_DATA_LENGTH, and outside a packet the cursor is at the start.
BufferBound ==
  /\ parser.length <= MaxLength
  /\ parser.length > 0 => /\ parser.got < parser.length
                          /\ parser.header > PACKET_HEADER_LENGTH
  /\ parser.length = 0 => parser.got = 0

\* A command of the router, and not what a damaged packet was taken for.
IsCommand(data) ==
  /\ data[TypeAt + 1] = DATA_TYPE_COMMAND
  /\ \E n \in DOMAIN sent : sent[n] = data /\ n \notin damaged

Once(s) == \A i, k \in DOMAIN s : IsCommand(s[i]) /\ s[i] = s[k] => i = k

\* The mailbox of commands holds one message and uart_packet_processed
\* overwrites it without looking; the router's 0.08 s of sleep is all that
\* keeps a command from being overwritten before send_command_process polls
\* (it must exceed the poll interval and the delay of a poll).
\* Commands are accepted once and sent once, and one is sent when all that were
\* accepted before it are: those sent are the first of those accepted, in order.
CommandsGoOut ==
  /\ Once(accepted) /\ Once(udp)
  /\ \A j \in DOMAIN udp : IsCommand(udp[j]) =>
       \E i \in DOMAIN accepted :
         /\ accepted[i] = udp[j]
         /\ \A k \in 1 .. (i - 1) :
              IsCommand(accepted[k]) => \E l \in 1 .. (j - 1) : udp[l] = accepted[k]

\* The numbers of the packets written to the last byte.
Complete == {n \in 1 .. Len(sent) : n < Len(sent) \/ wire = <<>>}

Accepted(n) == \E i \in DOMAIN accepted : accepted[i] = sent[n]

\* The data end as the magic sequence begins.
Tempting(data) ==
  \E k \in 1 .. (MAGIC_SEQUENCE_LENGTH - 1) :
    k <= Len(data) /\ \A i \in 1 .. k : data[Len(data) - k + i] = uart_magic_sequence[i]

\* The parser finds the line again after a lost byte: an undamaged packet is
\* accepted unless the one before it was damaged, or was itself skipped and
\* ends as the magic sequence begins.  (Noise is another matter:
\* a length that arrives as 0 leaves the parser in a packet without an end.)
Resynchronises ==
  running /\ noise = 0 =>
    \A n \in Complete \ damaged :
      \/ Accepted(n)
      \/ n > 1 /\ (n - 1 \in damaged \/ (~Accepted(n - 1) /\ Tempting(sent[n - 1])))
=============================================================================
