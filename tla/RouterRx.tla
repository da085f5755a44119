------------------------------- MODULE RouterRx -------------------------------
(***************************************************************************)
(* What router.lua makes of the text that the root prints on the serial     *)
(* line: main_cycle reads it byte by byte, keeps the last bytes in a window *)
(* and looks in the window for packets (dag_root_raw_print of root-node.c)  *)
(* and for messages ("UDM: ..." lines).  The root's main loop prints lines, *)
(* its UART interrupt prints messages in the middle of them, a byte may be  *)
(* lost, and every main_cycle starts with an empty window.                  *)
(*                                                                          *)
(* A character is a token here: the header of a packet, its places, its end *)
(* mark, the start of a message with its text, a line feed, other text, and *)
(* the zeros that clean_buffer puts into the window.                        *)
(***************************************************************************)
EXTENDS Integers, SequencesExt

CONSTANTS
  Device,    \* the nodes
  Packet,    \* the packets that the root prints, see PacketAssumption
  Window,    \* the window and the length of a packet (95 characters in the code)
  MaxLost    \* bound: bytes lost on the line

ASSUME RouterAssumption ==
  /\ Window \in Nat /\ Window >= 4
  /\ MaxLost \in Nat

\* Packets by what the router does with them.  BUTTON stands for every packet
\* whose processing only prints.
ASSUME PacketAssumption ==
  Packet \subseteq [type : {"STATUS"}, from : Device, ota : BOOLEAN]
                      \cup [type : {"MOTION", "SUCCESS", "BUTTON"}]

VARIABLES
  mode,       \* the router's command: main, list or fw; or it does not run
  buffer,     \* main_cycle's window
  device_list, update_device_list,
  todo,       \* the devices that the fw command still has to update
  tx,         \* what the root prints: lines, each with what is left of it
  lost,
  age,        \* history: bytes read in this main_cycle, up to Window
  got,        \* history: the whole line whose last token was just read
  did         \* history: what the router did about the last byte

routerVars == <<mode, device_list, update_device_list, todo>>
historyVars == <<age, got, did>>
vars == <<routerVars, buffer, tx, lost, historyVars>>

-----------------------------------------------------------------------------
(***************************************************************************)
(* The root's lines.                                                        *)
(***************************************************************************)
Head_ == [t |-> "head"]     \* DAGROOTRAW1
Tail_ == [t |-> "tail"]     \* RAWEND
Feed  == [t |-> "feed"]
Other == [t |-> "other"]
Zero  == [t |-> "zero"]
Junk  == [t |-> "junk"]     \* what is left of a mark that lost a character

Text == {"sync", "created", "info"}

Token == {Head_, Tail_, Feed, Other, Zero, Junk}
           \cup [t : {"place"}, of : Packet, i : 1 .. Window - 2]
           \cup [t : {"udm"}, text : Text]

dag_root_raw_print(p) ==
  <<Head_>> \o [i \in 1 .. Window - 2 |-> [t |-> "place", of |-> p, i |-> i]]
    \o <<Tail_, Other, Feed>>

Message(text) == <<[t |-> "udm", text |-> text]>>
                   \o (IF text = "created" THEN <<Other, Other>> ELSE <<>>) \o <<Feed>>

\* A line under way.  clean, late: when its first token was read the window held
\* no message, and the cycle had filled its window; whole: all of its tokens were
\* read, in one cycle and in one piece.
Line(tokens, what) ==
  [rest |-> tokens, what |-> what, fresh |-> TRUE, clean |-> TRUE, late |-> FALSE,
   whole |-> TRUE]
PacketLine(p)     == Line(dag_root_raw_print(p), [packet |-> p])
MessageLine(text) == Line(Message(text), [text |-> text])

NoLine == [what |-> [none |-> "none"], clean |-> TRUE, late |-> FALSE]
Nothing == [packet |-> [type |-> "none"], sync |-> FALSE]

\* Places of different packets, or zeros between places.
Mixed == [type |-> "mixed"]

\* Every variable has its type: the window never holds more than it and the zeros
\* put behind it, and only devices that were listed are updated.
TypeOK ==
  /\ mode \in {"down", "main", "list", "fw"}
  /\ buffer \in Seq(Token) /\ Len(buffer) <= 2 * Window
  /\ device_list \in Seq(Device) /\ update_device_list \in Seq(Device)
  /\ Range(update_device_list) \subseteq Range(device_list)
  /\ todo \in Seq(Device) /\ (todo = <<>> <=> mode # "fw")
  /\ lost \in 0 .. MaxLost
  /\ age \in 0 .. Window
  /\ did.packet \in Packet \cup {Nothing.packet, Mixed} /\ did.sync \in BOOLEAN

Init ==
  /\ mode = "down"
  /\ buffer = <<>>
  /\ device_list = <<>>
  /\ update_device_list = <<>>
  /\ todo = <<>>
  /\ tx = <<>>
  /\ lost = 0
  /\ age = 0
  /\ got = NoLine
  /\ did = Nothing

RootPrints(lines) ==
  /\ tx = <<>>
  /\ tx' = lines
  /\ UNCHANGED <<routerVars, buffer, lost, age>>
  /\ got' = NoLine /\ did' = Nothing

\* rpl_initialize, when the root starts: the only request for the time.
rpl_initialize == RootPrints(<<MessageLine("created"), MessageLine("sync")>>)

udp_data_receiver ==
  \/ \E p \in Packet : RootPrints(<<PacketLine(p)>>)
  \/ RootPrints(<<MessageLine("info")>>)

Piece(line) == [line EXCEPT !.whole = FALSE]

\* uart_data_receiver, in the interrupt, prints between any two characters; it
\* is not interrupted itself.
uart_data_receiver ==
  /\ tx # <<>> /\ ~Head(tx).fresh /\ \A i \in DOMAIN tx : tx[i].whole
  /\ tx' = <<MessageLine("info"), Piece(Head(tx))>> \o Tail(tx)
  /\ got' = NoLine /\ did' = Nothing
  /\ UNCHANGED <<routerVars, buffer, lost, age>>

-----------------------------------------------------------------------------
(***************************************************************************)
(* The window.                                                              *)
(***************************************************************************)
\* Mutant: a single byte is removed, where the code loops.
add_byte_removes_one(b) ==
  LET all == Append(buffer, b)
  IN  IF Len(all) > Window THEN Tail(all) ELSE all

\* Mutant: the window is one byte short of a packet.
add_byte_to_short_buffer(b) ==
  LET all == Append(buffer, b)
  IN  IF Len(all) >= Window THEN SubSeq(all, Len(all) - Window + 2, Len(all)) ELSE all

add_byte_to_buffer(b) ==
  LET all == Append(buffer, b)
  IN  IF Len(all) > Window THEN SubSeq(all, Len(all) - Window + 1, Len(all)) ELSE all

\* Mutant: the window is left as it is.
clean_buffer_not(buf) == buf

\* Mutant: too few zeros push the message out.
clean_buffer_half(buf) == buf \o [i \in 1 .. Len(buf) \div 2 |-> Zero]

\* The window is not emptied: as many zeros are put behind it as it has bytes.
clean_buffer(buf) == buf \o [i \in 1 .. Len(buf) |-> Zero]

\* "(DAGROOTRAW1" .. 78 characters .. "RAWEND)": as long as the window.
FindPacket(buf) ==
  Len(buf) = Window /\ buf[1] = Head_ /\ buf[Window] = Tail_

\* packet_parse: letters and digits only, which zeros are too.
packet_parse(buf) ==
  LET body == SubSeq(buf, 2, Window - 1)
      Fits(p) == \A i \in DOMAIN body : body[i] = [t |-> "place", of |-> p, i |-> i]
  IN  CASE \E i \in DOMAIN body : body[i].t \in {"udm", "feed", "other"} -> Nothing.packet
        [] \E p \in Packet : Fits(p) -> CHOOSE p \in Packet : Fits(p)
        [] OTHER -> Mixed

\* "(UDM:.+\n)": from the first start of a message to the last line feed.
FindMessage(buf) ==
  LET starts == {i \in DOMAIN buf : buf[i].t = "udm"}
      feeds  == {i \in DOMAIN buf : buf[i] = Feed}
  IN  IF \E i \in starts, j \in feeds : i < j
        THEN SubSeq(buf, Min(starts), Max(feeds))
        ELSE <<>>

(***************************************************************************)
(* What a packet does.                                                      *)
(***************************************************************************)
packet_processing_see_adresses(p) ==
  /\ IF p.type = "STATUS" /\ p.from \notin Range(device_list)
       THEN /\ device_list' = Append(device_list, p.from)
            /\ update_device_list' =
                 IF p.ota THEN Append(update_device_list, p.from) ELSE update_device_list
       ELSE UNCHANGED <<device_list, update_device_list>>
  /\ UNCHANGED <<mode, todo>>

\* The program ends, and its variables with it.
Exit ==
  /\ mode' = "down"
  /\ todo' = <<>>
  /\ device_list' = <<>>
  /\ update_device_list' = <<>>

\* The fw command goes on to its next device; every other command is over.
EndCycle ==
  IF Len(todo) > 1
    THEN todo' = Tail(todo) /\ UNCHANGED <<mode, device_list, update_device_list>>
    ELSE Exit

\* logic.motion_sensor_event_handler calls send_relay_command, and
\* logic.button_sensor_event_handler compares with the names of the switches:
\* all of them are locals of router.lua, nil in logic.lua.  A call of nil is an
\* error, which ends the program.
packet_processing(p) ==
  CASE p.type = "SUCCESS" -> EndCycle
    [] p.type = "MOTION"  -> Exit
    [] OTHER              -> UNCHANGED routerVars

\* One turn of main_cycle's loop with a byte.  A cycle that the packet ended
\* leaves its window behind.
Read(b) ==
  LET buf     == add_byte_to_buffer(b)
      packet  == IF FindPacket(buf) THEN packet_parse(buf) ELSE Nothing.packet
      message == FindMessage(buf)
      ends    == /\ mode # "list"
                 /\ packet.type \in {"SUCCESS", "MOTION"}
  IN  /\ did' = [packet |-> packet, sync |-> message = Message("sync")]
      /\ IF mode = "list"
           THEN packet_processing_see_adresses(packet)
           ELSE packet_processing(packet)
      /\ buffer' = IF ends THEN <<>>
                   ELSE IF message # <<>> THEN clean_buffer(buf) ELSE buf
      /\ age' = IF ends THEN 0 ELSE IF age < Window THEN age + 1 ELSE age

-----------------------------------------------------------------------------
\* The line after one of its tokens was read or lost.  (The first token pushes
\* out of the window what is too much.)
Rest(line, whole) ==
  LET l == [line EXCEPT !.rest = Tail(@), !.fresh = FALSE,
                        !.clean = IF line.fresh
                                    THEN \A i \in DOMAIN buffer :
                                           i + Window > Len(buffer) + 1 => buffer[i].t # "udm"
                                    ELSE @,
                        !.late = IF line.fresh THEN age = Window ELSE @,
                        !.whole = @ /\ whole]
  IN  IF l.rest = <<>> THEN <<>> ELSE <<l>>

\* A packet is complete with its end mark, a message with its line feed.
Completed(line) ==
  IF line.whole /\ Head(line.rest) = (IF "text" \in DOMAIN line.what THEN Feed ELSE Tail_)
    THEN [what |-> line.what, clean |-> line.clean, late |-> line.late]
    ELSE NoLine

\* p:read(1, 200) returns a byte.
Byte ==
  /\ mode # "down" /\ tx # <<>>
  /\ Read(Head(Head(tx).rest))
  /\ got' = Completed(Head(tx))
  /\ tx' = Rest(Head(tx), TRUE) \o Tail(tx)
  /\ UNCHANGED lost

\* Nobody reads while the router does not run.
Drop ==
  /\ mode = "down" /\ tx # <<>>
  /\ tx' = Rest(Head(tx), FALSE) \o Tail(tx)
  /\ got' = NoLine /\ did' = Nothing
  /\ UNCHANGED <<routerVars, buffer, lost, age>>

\* What a token that stands for several characters is without one of them: a message
\* has blanks and other marks left, header and end mark are letters.
Damaged(b) ==
  CASE b.t = "udm" -> {Other, [t |-> "udm", text |-> "info"]}
    [] b.t \in {"head", "tail"} -> {Junk}
    [] OTHER -> {}

\* A byte is lost on the line.
Lose ==
  /\ mode # "down" /\ tx # <<>> /\ lost < MaxLost
  /\ lost' = lost + 1
  /\ tx' = Rest(Head(tx), FALSE) \o Tail(tx)
  /\ got' = NoLine
  /\ \/ \E b \in Damaged(Head(Head(tx).rest)) : Read(b)
     \/ /\ Damaged(Head(Head(tx).rest)) = {}
        /\ did' = Nothing
        /\ UNCHANGED <<routerVars, buffer, age>>

\* main_cycle starts, with a window of its own.
NewCycle ==
  /\ buffer' = <<>>
  /\ age' = 0
  /\ tx' = IF tx # <<>> /\ ~Head(tx).fresh THEN <<Piece(Head(tx))>> \o Tail(tx) ELSE tx
  /\ got' = NoLine /\ did' = Nothing
  /\ UNCHANGED lost

Start ==
  /\ mode = "down"
  /\ \/ mode' \in {"main", "list"} /\ todo' = <<>>
     \/ mode' = "fw" /\ \E d \in Device : todo' = <<d>>
  /\ NewCycle
  /\ UNCHANGED <<device_list, update_device_list>>

\* bulk_update: the operator presses enter.
lanes_io_input ==
  /\ mode = "list"
  /\ IF update_device_list = <<>>
       THEN Exit
       ELSE mode' = "fw" /\ todo' = update_device_list
              /\ UNCHANGED <<device_list, update_device_list>>
  /\ NewCycle

LimitReached ==
  /\ mode = "fw"
  /\ EndCycle
  /\ NewCycle

\* The operator stops the program.
Stop ==
  /\ mode # "down"
  /\ Exit
  /\ NewCycle

Next ==
  \/ rpl_initialize \/ udp_data_receiver \/ uart_data_receiver
  \/ Byte \/ Drop \/ Lose \/ Start \/ lanes_io_input \/ LimitReached \/ Stop

Spec == Init /\ [][Next]_vars

-----------------------------------------------------------------------------
(***************************************************************************)
(* Properties.                                                              *)
(***************************************************************************)
\* A packet that the root printed in one piece and the router read in one
\* cycle is handled once, with its end mark, unless the window held a message when
\* the packet began; and nothing else is handled, whatever was interrupted or cleaned
\* around it.  (A router that loses most of a packet can take the zeros of
\* clean_buffer, or another packet, for the rest: MaxLost is less than that.)
PacketsHandledOnce ==
  /\ did.packet # Nothing.packet => got.what = [packet |-> did.packet]
  /\ got.clean /\ "packet" \in DOMAIN got.what => did.packet = got.what.packet

\* The root's only request for the time is answered if the window held no other
\* message, and in a cycle that has filled its window it is answered once.
SyncAnswered ==
  /\ got.clean /\ got.what = [text |-> "sync"] => did.sync
  /\ did.sync /\ age = Window => got.what = [text |-> "sync"]

\* clean_buffer, which does not empty the window, is enough once a cycle has
\* filled it: as long as no byte is lost no packet and no request for the time
\* begins behind an old message, so that all of them are served.
WindowClears ==
  got.late /\ lost = 0 /\ got.what # [text |-> "info"] => got.clean

-----------------------------------------------------------------------------
(***************************************************************************)
(* The inductive invariants behind these properties.                        *)
(***************************************************************************)
What == [packet : Packet] \cup [text : Text]
Sync == [text |-> "sync"]
Info == [text |-> "info"]

Full(what) ==
  IF "text" \in DOMAIN what THEN Message(what.text) ELSE dag_root_raw_print(what.packet)

\* How many tokens of a line are gone.
Gone(line) == Len(Full(line.what)) - Len(line.rest)

LineType == [rest : Seq(Token), what : What, fresh : BOOLEAN, clean : BOOLEAN,
             late : BOOLEAN, whole : BOOLEAN]

\* What is left of a line is its end.
LineOK(line) ==
  /\ line.rest # <<>>
  /\ Gone(line) >= 0 /\ (line.fresh <=> Gone(line) = 0)
  /\ \A k \in DOMAIN line.rest : line.rest[k] = Full(line.what)[Gone(line) + k]
  /\ line.fresh => line.whole /\ line.clean /\ ~line.late

\* Only the line in front is under way in one piece, and nothing follows the
\* request for the time.
TxInv ==
  /\ tx \in Seq(LineType)
  /\ \A k \in DOMAIN tx : LineOK(tx[k])
  /\ \A k \in DOMAIN tx : k > 1 /\ ~tx[k].fresh => ~tx[k].whole
  /\ \A k \in DOMAIN tx : tx[k].what = Sync => k = Len(tx)

\* A message that was found has as many zeros behind it as tokens were read in this
\* cycle: when that is the whole window, the next token pushes the message out.
WindowInv ==
  /\ age <= Len(buffer)
  /\ mode = "down" => buffer = <<>>
  /\ \A i, j \in DOMAIN buffer :
       i < j /\ buffer[i].t = "udm" /\ buffer[j] = Feed => Len(buffer) - j >= age

\* Behind WindowClears: without a lost byte a message without an end is under way or
\* interrupted.
OpenInv ==
  lost = 0 =>
    /\ \A i \in DOMAIN buffer :
         buffer[i].t = "udm" /\ (\A j \in DOMAIN buffer : i < j => buffer[j] # Feed)
           => tx # <<>> /\ (~tx[1].fresh \/ tx[1].what = Info)
    /\ \A k \in DOMAIN tx : tx[k].late /\ tx[k].what # Info => tx[k].clean

\* A line that began behind no message and is read in one piece is the end of the
\* window, up to the end mark of a packet, and still no message is before it.
PieceInv ==
  tx # <<>> /\ tx[1].whole /\ tx[1].clean /\ ~tx[1].fresh /\ Gone(tx[1]) < Window =>
    LET n == Gone(tx[1])
    IN  /\ n <= Len(buffer) /\ Len(buffer) <= Window
        /\ \A k \in 1 .. n : buffer[Len(buffer) - n + k] = Full(tx[1].what)[k]
        /\ \A i \in 1 .. Len(buffer) - n : buffer[i].t # "udm"

\* Nothing but its own end can follow the start of a request for the time directly.
SyncEndInv ==
  buffer # <<>> /\ buffer[Len(buffer)] = [t |-> "udm", text |-> "sync"] =>
    tx = <<>> \/ tx[1].fresh \/ (tx[1].what = Sync /\ tx[1].whole)

\* Without a lost byte the header of a packet is followed by something that is no part
\* of a packet, or by all places of its packet that were read, and more than those if
\* there are zeros between them.
HeaderInv ==
  lost = 0 => \A i \in DOMAIN buffer : buffer[i] = Head_ =>
    \/ \E j \in DOMAIN buffer : i < j /\ buffer[j].t \in {"udm", "feed", "other"}
    \/ tx # <<>> /\ tx[1].fresh /\ tx[1].what = Info
    \/ /\ tx # <<>> /\ ~tx[1].fresh /\ tx[1].whole /\ "packet" \in DOMAIN tx[1].what
       /\ LET n == Gone(tx[1])
          IN  \/ Len(buffer) - i >= n
              \/ /\ Len(buffer) - i = n - 1
                 /\ \A k \in 1 .. n - 1 : buffer[i + k] = Full(tx[1].what)[k + 1]
=============================================================================
