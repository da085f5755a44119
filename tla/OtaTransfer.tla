----------------------------- MODULE OtaTransfer -----------------------------
(***************************************************************************)
(* The chunk protocol of a firmware update: router.lua walks a list of      *)
(* nodes and sends NEW_FW to each; a node erases OTA slot 1 and then pulls  *)
(* the image chunk by chunk (fw_update_process in dag_node.c); the root     *)
(* relays through one-message mailboxes (send_command_process in            *)
(* root-node.c).  Packets are lost, the mailbox is overwritten, nodes reset *)
(* and the operator may restart the router.                                 *)
(*                                                                          *)
(* What the node does with a verified image is module OtaBoot; here the     *)
(* trial of the new firmware either succeeds and is announced, or not.      *)
(* The receiving side of the router, and the packets that end it, are       *)
(* module RouterRx.  A battery node asks for chunks with its radio off: the *)
(* request or its answer is lost then, as it may be for any node.           *)
(***************************************************************************)
EXTENDS Integers, Sequences, FiniteSets

CONSTANTS
  Node,         \* the nodes
  Setting,      \* the situations to look at, see SettingAssumption
  SlotSize,     \* chunks that OTA slot 1 holds: what the erase loop clears
  W16,          \* 2^16, the values of a uint16_t
  MaxError,     \* FW_MAX_ERROR_COUNTER (5 in the code)
  MaxOffset     \* bound: chunks a node writes before data is cut off

ASSUME TransferAssumption ==
  /\ MaxError \in Nat /\ MaxOffset \in Nat /\ SlotSize \in 1 .. MaxOffset
  /\ W16 \in Nat /\ SlotSize < W16 - 1

\* router.lua's command line, the nodes to update; the image that each run of
\* the router is given, with its length, #ota_image_table_segments, and whether
\* it has the nodes' UUID; whether an answer may outlive FW_DELAY; and, a
\* bound, how many node resets and restarts of the router there may be.
ASSUME SettingAssumption ==
  \A s \in Setting :
    /\ s.order \in Seq(Node) /\ Len(s.order) > 0
    /\ \A i, j \in DOMAIN s.order : s.order[i] = s.order[j] => i = j
    /\ s.images \in Seq([chunks : 1 .. SlotSize, own : BOOLEAN])
    /\ s.late \in BOOLEAN
    /\ s.faults \in Nat
    /\ s.faults < Len(s.images)

VARIABLES
  setting,   \* the situation, which no step changes
  router,    \* [st, i]: running, done or exited; the device being updated
  report,    \* what the router printed about each device
  fwbox,     \* root-node.c firmware_message, one slot
  cmdbox,    \* root-node.c firmware_cmd_message, one slot
  net,       \* packets under way over the radio
  st,        \* where fw_update_process of each node stands
  page,      \* the erase loop's counter
  chunk_num, \* static: the next chunk to request
  quantity,  \* fw_chunk_quantity
  offset,    \* ota_image_current_offset, in chunks
  errors,    \* fw_error_counter
  slot,      \* OTA slot 1 and what follows it: the image and number of each chunk
  updated,   \* history: nodes that run the new image
  resets, restarts

Order     == setting.order
Late      == setting.late
MaxFaults == setting.faults

\* The image of a run of the router; the one of the present run.
Size(r)  == setting.images[r].chunks
Run      == restarts + 1
Quantity == Size(Run)

routerVars == <<setting, router, report, restarts>>
rootVars   == <<fwbox, cmdbox>>
ramVars    == <<page, chunk_num, quantity, offset, errors>>
vars == <<routerVars, rootVars, net, st, ramVars, slot, updated, resets>>

(***************************************************************************)
(* fw_update_process ends itself with process_exit and return 0, which      *)
(* takes it off the process list and leaves it in the state RUNNING: a      *)
(* second timer event that is in the queue by then still reaches it, where  *)
(* it waited last.  Off the list it can be started a second time.           *)
(***************************************************************************)
OnList  == {"erase", "wait", "delay"}
OffList == {"wait_off", "delay_off"}

Chunk   == 0 .. (Quantity - 1)
Place   == 0 .. MaxOffset
Nothing == [type |-> "none"]
Message == [type : {"SUCCESS"}, node : Node]
             \cup [type : {"NEW_FW", "REQ"}, node : Node, num : 0 .. SlotSize]
             \cup [type : {"CHUNK"}, node : Node, num : 0 .. SlotSize,
                   img : DOMAIN setting.images]

Blank   == <<0, 0>>   \* erased flash
Garbage == <<0, 1>>   \* two chunks programmed over each other
Content == {Blank, Garbage} \cup ((DOMAIN setting.images) \X (0 .. SlotSize))

TypeOK ==
  /\ setting \in Setting
  /\ router \in [st : {"running", "done", "exited"}, i : DOMAIN Order]
  /\ report \in [Node -> {"none", "success", "failed"}]
  /\ fwbox \in Message \cup {Nothing}
  /\ cmdbox \in Message \cup {Nothing}
  /\ net \subseteq Message
  /\ st \in [Node -> {"idle", "trial"} \cup OnList \cup OffList]
  /\ page \in [Node -> 0 .. SlotSize]
  /\ chunk_num \in [Node -> 0 .. (W16 - 1)]
  /\ quantity \in [Node -> 0 .. SlotSize]
  /\ offset \in [Node -> 0 .. (MaxOffset + 1)]
  /\ errors \in [Node -> 0 .. (MaxError + 1)]
  /\ slot \in [Node -> [Place -> Content]]
  /\ updated \subseteq Node
  /\ resets \in 0 .. MaxFaults
  /\ restarts \in 0 .. MaxFaults

NewFwFor(n, chunks) == [type |-> "NEW_FW", node |-> n, num |-> chunks]

Init ==
  /\ setting \in Setting
  /\ router = [st |-> "running", i |-> 1]
  /\ report = [n \in Node |-> "none"]
  /\ fwbox = Nothing
  /\ cmdbox = NewFwFor(Order[1], Size(1))
  /\ net = {}
  /\ st = [n \in Node |-> "idle"]
  /\ page = [n \in Node |-> 0]
  /\ chunk_num = [n \in Node |-> 0]
  /\ quantity = [n \in Node |-> 0]
  /\ offset = [n \in Node |-> 0]
  /\ errors = [n \in Node |-> 0]
  /\ slot = [n \in Node |-> [k \in Place |-> Garbage]]
  /\ updated = {}
  /\ resets = 0
  /\ restarts = 0

-----------------------------------------------------------------------------
(***************************************************************************)
(* router.lua: firmware_update and main_cycle.                              *)
(***************************************************************************)
\* The loop over the command line ends this device and starts the next one.
Advance(result) ==
  /\ router.st = "running"
  /\ report' = [report EXCEPT ![Order[router.i]] = result]
  /\ IF router.i < Len(Order)
       THEN /\ router' = [router EXCEPT !.i = @ + 1]
            /\ cmdbox' = NewFwFor(Order[router.i + 1], Quantity)
       ELSE /\ router' = [router EXCEPT !.st = "done"]
            /\ UNCHANGED cmdbox

\* main_cycle's limit: four minutes without a success message.
LimitReached ==
  /\ Advance("failed")
  /\ UNCHANGED <<setting, fwbox, net, st, ramVars, slot, updated, resets, restarts>>

\* message_data_processing: a success message from any node will do.
MessageSuccess(m) ==
  /\ m \in net /\ m.type = "SUCCESS"
  /\ net' = net \ {m}
  /\ Advance("success")
  /\ UNCHANGED <<setting, fwbox, st, ramVars, slot, updated, resets, restarts>>

\* fw_cmd_data_processing: the chunk goes to the root's mailbox over what it
\* holds; a chunk number the image does not have ends the router.
ServeRequest(m) ==
  /\ router.st = "running"
  /\ m \in net /\ m.type = "REQ"
  /\ net' = net \ {m}
  /\ IF m.num < Quantity
       THEN /\ fwbox' = [type |-> "CHUNK", node |-> m.node, num |-> m.num, img |-> Run]
            /\ UNCHANGED router
       ELSE /\ router' = [router EXCEPT !.st = "exited"]
            /\ UNCHANGED fwbox
  /\ UNCHANGED <<setting, report, cmdbox, st, ramVars, slot, updated, resets, restarts>>

\* The operator runs the router again with the same nodes and another image.
RouterRestart ==
  /\ resets + restarts < MaxFaults
  /\ restarts' = restarts + 1
  /\ router' = [st |-> "running", i |-> 1]
  /\ report' = [n \in Node |-> "none"]
  /\ cmdbox' = NewFwFor(Order[1], Size(Run + 1))
  /\ UNCHANGED <<setting, fwbox, net, st, ramVars, slot, updated, resets>>

\* root-node.c: what a full mailbox puts on the air.
send_firmware_packet     == {fwbox} \ {Nothing}
send_firmware_cmd_packet == {cmdbox} \ {Nothing}

\* send_command_process: one poll empties both mailboxes.
RootPoll ==
  /\ {fwbox, cmdbox} # {Nothing}
  /\ net' = net \cup send_firmware_packet \cup send_firmware_cmd_packet
  /\ fwbox' = Nothing
  /\ cmdbox' = Nothing
  /\ UNCHANGED <<routerVars, st, ramVars, slot, updated, resets>>

\* The radio loses a packet; so does a node that is in its bootloader, and
\* a router that no longer runs.
Lose(m) ==
  /\ m \in net
  /\ net' = net \ {m}
  /\ UNCHANGED <<routerVars, rootVars, st, ramVars, slot, updated, resets>>

(***************************************************************************)
(* The node: packet handlers.                                               *)
(***************************************************************************)
\* firmware_cmd_new_fw_handler: process_start has no effect on a process on
\* the list, and starts one off the list from its beginning.
NewFw(m) ==
  /\ m \in net /\ m.type = "NEW_FW" /\ st[m.node] # "trial"
  /\ net' = net \ {m}
  /\ quantity' = [quantity EXCEPT ![m.node] = m.num]
  /\ offset' = [offset EXCEPT ![m.node] = 0]
  /\ IF st[m.node] \notin OnList
       THEN /\ st' = [st EXCEPT ![m.node] = "erase"]
            /\ page' = [page EXCEPT ![m.node] = 0]
       ELSE UNCHANGED <<st, page>>
  /\ UNCHANGED <<routerVars, rootVars, chunk_num, errors, slot, updated, resets>>

\* store_firmware_data: programming only clears bits.
Programmed(old, new) == IF old = Blank \/ old = new THEN new ELSE Garbage

\* The handler's effect on flash and counters: the chunk goes where the
\* offset points, whichever chunk it is and whatever the process is doing.
Store(m) ==
  /\ m \in net /\ m.type = "CHUNK" /\ st[m.node] # "trial"
  /\ offset[m.node] <= MaxOffset
  /\ net' = net \ {m}
  /\ slot' = [slot EXCEPT ![m.node][offset[m.node]] = Programmed(@, <<m.img, m.num>>)]
  /\ offset' = [offset EXCEPT ![m.node] = @ + 1]
  /\ UNCHANGED <<routerVars, rootVars, page, quantity, updated, resets>>

\* firmware_data_handler in time: it expires fw_timer, which ends the wait of
\* a process on the list.  The timer now belongs to dag_node_process; what
\* wakes the waiting process is the exit of led_process, which the handler's
\* flash of the LED brings about and which only the list is told of.
FirmwareData(m) ==
  /\ Store(m)
  /\ errors' = [errors EXCEPT ![m.node] = 0]
  /\ st' = IF st[m.node] = "wait" THEN [st EXCEPT ![m.node] = "delay"] ELSE st
  /\ UNCHANGED chunk_num

\* The same with fw_timer_deadline expired before the process wakes: it takes
\* the expired deadline for a lost chunk and asks for it again.
FirmwareDataAtDeadline(m) ==
  /\ Late
  /\ Store(m)
  /\ st[m.node] = "wait" /\ chunk_num[m.node] < quantity[m.node]
  /\ errors' = [errors EXCEPT ![m.node] = 1]
  /\ st' = [st EXCEPT ![m.node] = "delay"]
  /\ chunk_num' = [chunk_num EXCEPT ![m.node] = @ - 1]

(***************************************************************************)
(* The node: fw_update_process.                                             *)
(***************************************************************************)
\* The same place of the code, on the list or off it.
Waits(n)   == st[n] \in {"wait", "wait_off"}
ToWait(n)  == [st EXCEPT ![n] = IF @ = "delay_off" THEN "wait_off" ELSE "wait"]
ToDelay(n) == [st EXCEPT ![n] = IF @ = "wait_off" THEN "delay_off" ELSE "delay"]

\* chunk_num-- of a uint16_t.
Decremented(n) == [chunk_num EXCEPT ![n] = (@ - 1) % W16]

EraseStep(n) ==
  /\ st[n] = "erase" /\ page[n] < SlotSize
  /\ slot' = [slot EXCEPT ![n][page[n]] = Blank]
  /\ page' = [page EXCEPT ![n] = @ + 1]
  /\ UNCHANGED <<routerVars, rootVars, net, st, chunk_num, quantity, offset,
                 errors, updated, resets>>

\* Mutant: the erase loop stops one page short.
LoopTopEarly(n) ==
  st[n] \in {"delay", "delay_off"} \/ (st[n] = "erase" /\ page[n] = SlotSize - 1)

\* The top of the while loop, after the erase loop or the 50 ms delay.
LoopTop(n) ==
  st[n] \in {"delay", "delay_off"} \/ (st[n] = "erase" /\ page[n] = SlotSize)

send_fw_chunk_req_packet(n) ==
  net' = net \cup {[type |-> "REQ", node |-> n, num |-> chunk_num[n]]}

\* Mutant: one chunk too many is requested.
RequestOneMore(n) ==
  /\ LoopTop(n) /\ chunk_num[n] <= quantity[n]
  /\ send_fw_chunk_req_packet(n)
  /\ chunk_num' = [chunk_num EXCEPT ![n] = @ + 1]
  /\ st' = ToWait(n)
  /\ UNCHANGED <<routerVars, rootVars, page, quantity, offset, errors, slot,
                 updated, resets>>

RequestChunk(n) ==
  /\ LoopTop(n) /\ chunk_num[n] < quantity[n]
  /\ send_fw_chunk_req_packet(n)
  /\ chunk_num' = [chunk_num EXCEPT ![n] = @ + 1]
  /\ st' = ToWait(n)
  /\ UNCHANGED <<routerVars, rootVars, page, quantity, offset, errors, slot,
                 updated, resets>>

\* verify_ota_slot(1): the metadata says how much of the slot to read.
SlotIsImage(n, r) == \A k \in 0 .. (Size(r) - 1) : slot[n][k] = <<r, k>>

\* A good image with the node's UUID reboots the node into the bootloader;
\* another one is reported and the process ends.  fw_timer_deadline of the last
\* wait may have expired together with the delay: its event comes after that.
VerifySlot(n) ==
  /\ LoopTop(n) /\ chunk_num[n] >= quantity[n]
  /\ chunk_num' = [chunk_num EXCEPT ![n] = 0]
  /\ errors' = [errors EXCEPT ![n] = 0]
  /\ \E next \in IF \E r \in DOMAIN setting.images :
                       SlotIsImage(n, r) /\ setting.images[r].own
                  THEN {"trial"} ELSE {"idle", "delay_off"} :
       st' = [st EXCEPT ![n] = next]
  /\ UNCHANGED <<routerVars, rootVars, net, page, quantity, offset, slot,
                 updated, resets>>

\* Unless answers may be late, one that is still under way comes in time.
Expected(n) ==
  \E m \in net \cup {fwbox} : m.type \in {"REQ", "CHUNK"} /\ m.node = n

\* Mutant: the lost chunk is not asked for again.
TimeoutSkips(n) ==
  /\ Waits(n) /\ (Late \/ ~Expected(n))
  /\ chunk_num[n] < quantity[n] /\ errors[n] <= MaxError
  /\ errors' = [errors EXCEPT ![n] = @ + 1]
  /\ st' = ToDelay(n)
  /\ UNCHANGED <<routerVars, rootVars, net, page, chunk_num, quantity, offset, slot,
                 updated, resets>>

\* fw_timer and fw_timer_deadline expired: ask again, as long as there is a
\* chunk after this one and the error counter allows it.
TimeoutRetry(n) ==
  /\ Waits(n) /\ (Late \/ ~Expected(n))
  /\ chunk_num[n] < quantity[n] /\ errors[n] <= MaxError
  /\ errors' = [errors EXCEPT ![n] = @ + 1]
  /\ chunk_num' = Decremented(n)
  /\ st' = ToDelay(n)
  /\ UNCHANGED <<routerVars, rootVars, net, page, quantity, offset, slot,
                 updated, resets>>

\* Mutant: the counter is not cleared on the way out.
TimeoutAbortKeeps(n) ==
  /\ Waits(n) /\ (Late \/ ~Expected(n))
  /\ chunk_num[n] < quantity[n] /\ errors[n] > MaxError
  /\ errors' = [errors EXCEPT ![n] = 0]
  /\ \E next \in {"idle", "wait_off"} : st' = [st EXCEPT ![n] = next]
  /\ UNCHANGED <<routerVars, rootVars, net, page, chunk_num, quantity, offset, slot,
                 updated, resets>>

\* Too many errors.  The two timers, a tick apart, may have expired in one
\* poll of etimer_process: the second event comes after the exit.
TimeoutAbort(n) ==
  /\ Waits(n) /\ (Late \/ ~Expected(n))
  /\ chunk_num[n] < quantity[n] /\ errors[n] > MaxError
  /\ errors' = [errors EXCEPT ![n] = 0]
  /\ chunk_num' = [chunk_num EXCEPT ![n] = 0]
  /\ \E next \in {"idle", "wait_off"} : st' = [st EXCEPT ![n] = next]
  /\ UNCHANGED <<routerVars, rootVars, net, page, quantity, offset, slot,
                 updated, resets>>

\* Mutant: the last chunk is asked for again and again.
TimeoutLastRetries(n) ==
  /\ Waits(n) /\ (Late \/ ~Expected(n))
  /\ chunk_num[n] >= quantity[n]
  /\ chunk_num' = Decremented(n)
  /\ st' = ToDelay(n)
  /\ UNCHANGED <<routerVars, rootVars, net, page, quantity, offset, errors,
                 slot, updated, resets>>

\* The last chunk is not asked for again: the slot is verified without it.
TimeoutLast(n) ==
  /\ Waits(n) /\ (Late \/ ~Expected(n))
  /\ chunk_num[n] >= quantity[n]
  /\ st' = ToDelay(n)
  /\ UNCHANGED <<routerVars, rootVars, net, page, chunk_num, quantity, offset,
                 errors, slot, updated, resets>>

\* A reset clears the node's RAM.
ClearRam(n) ==
  /\ st' = [st EXCEPT ![n] = "idle"]
  /\ page' = [page EXCEPT ![n] = 0]
  /\ chunk_num' = [chunk_num EXCEPT ![n] = 0]
  /\ quantity' = [quantity EXCEPT ![n] = 0]
  /\ offset' = [offset EXCEPT ![n] = 0]
  /\ errors' = [errors EXCEPT ![n] = 0]

\* OtaBoot in one step: the new image joins and says so, or is rolled back.
TrialJoined(n) ==
  /\ st[n] = "trial"
  /\ ClearRam(n)
  /\ updated' = updated \cup {n}
  /\ net' = net \cup {[type |-> "SUCCESS", node |-> n]}
  /\ UNCHANGED <<routerVars, rootVars, slot, resets>>

\* Mutant: the old image that is back announces a success.
TrialRolledBackAnnounces(n) ==
  /\ st[n] = "trial"
  /\ ClearRam(n)
  /\ net' = net \cup {[type |-> "SUCCESS", node |-> n]}
  /\ UNCHANGED <<routerVars, rootVars, slot, updated, resets>>

TrialRolledBack(n) ==
  /\ st[n] = "trial"
  /\ ClearRam(n)
  /\ UNCHANGED <<routerVars, rootVars, net, slot, updated, resets>>

\* Only nodes of the command line: for the others nothing is lost.
NodeReset(n) ==
  /\ resets + restarts < MaxFaults
  /\ \E i \in DOMAIN Order : Order[i] = n
  /\ resets' = resets + 1
  /\ st[n] # "trial"
  /\ ClearRam(n)
  /\ UNCHANGED <<routerVars, rootVars, net, slot, updated>>

-----------------------------------------------------------------------------
Receive(m) ==
  \/ MessageSuccess(m) \/ ServeRequest(m)
  \/ NewFw(m) \/ FirmwareData(m) \/ FirmwareDataAtDeadline(m)

fw_update_process(n) ==
  \/ EraseStep(n) \/ RequestChunk(n) \/ VerifySlot(n)
  \/ TimeoutRetry(n) \/ TimeoutAbort(n) \/ TimeoutLast(n)

Trial(n) == TrialJoined(n) \/ TrialRolledBack(n)

Next ==
  \/ LimitReached \/ RouterRestart \/ RootPoll
  \/ \E m \in net : Receive(m) \/ Lose(m)
  \/ \E n \in Node : fw_update_process(n) \/ Trial(n) \/ NodeReset(n)

Spec == Init /\ [][Next]_vars

(***************************************************************************)
(* The node's timers expire, the root polls its mailboxes, and no packet    *)
(* stays on the air for ever: it is received or lost, and the protocol may  *)
(* not count on which.  The network, the operator and power are not fair.   *)
(***************************************************************************)
Traffic(n) == \E m \in net : m.node = n /\ (Receive(m) \/ Lose(m))

Fairness ==
  /\ WF_vars(RootPoll)
  /\ \A n \in Node : WF_vars(fw_update_process(n)) /\ WF_vars(Traffic(n))

FairSpec == Spec /\ Fairness

-----------------------------------------------------------------------------
(***************************************************************************)
(* Properties.                                                              *)
(***************************************************************************)
\* The write offset and the request counter, which no packet carries and
\* nothing compares, agree as long as answers come in time and the router is
\* not restarted: the slot holds exactly the chunks already acknowledged.
\* Only an unanswered last chunk leaves the slot short at its verification.
CursorAgrees ==
  ~Late /\ restarts = 0 => \A n \in Node : st[n] \in {"wait", "delay"} =>
    /\ \/ st[n] = "wait" /\ offset[n] = chunk_num[n] - 1
       \/ st[n] = "delay" /\ offset[n] = chunk_num[n]
       \/ st[n] = "delay" /\ chunk_num[n] = Quantity /\ offset[n] = Quantity - 1
    /\ \A k \in Chunk : slot[n][k] = IF k < offset[n] THEN <<1, k>> ELSE Blank

\* A transfer starts with fw_update_process's static counters as a first start
\* finds them, however the last one ended, unless a timer event has re-entered
\* the process after its exit and it has not come to rest yet: such a start
\* finds 65535 or a few chunks already counted, and verifies a slot that it
\* has not filled (dag_node.c 1151 and 1166).
StartsFresh ==
  [][\A n \in Node :
       st'[n] = "erase" /\ st[n] \notin OnList =>
         (chunk_num'[n] = 0 /\ errors'[n] = 0) \/ st[n] \in OffList]_vars

\* A node ends the router, for every node, by asking for a chunk the image does
\* not have (fw_cmd_data_processing's os.exit).  That takes a router that was
\* started again with a shorter image, while a node or a request of it still
\* follows the longer one; no loss, delay, reset or second timer event does it.
RouterSurvives == router.st = "exited" => \E r \in 1 .. restarts : Size(r) > Quantity

\* A started transfer ends, in a trial of the image or with the process off its
\* list, whatever is lost on the way.
TransferEnds == \A n \in Node : st[n] \in OnList ~> st[n] \notin OnList

\* What the router prints: "Update device ... success" (router.lua 1130)
\* names a device that runs the new image, as long as no device before it ran
\* into the limit: a success that comes after that is booked on the next one.
SuccessIsOwn ==
  restarts = 0 /\ (\A m \in Node : report[m] # "failed")
    => \A n \in Node : report[n] = "success" => n \in updated

\* A transfer programs its chunks into erased flash only, late answers
\* included: NEW_FW clears the slot before it starts.  (A restarted router
\* sends a second NEW_FW, which rewinds the offset of a running transfer; and
\* a chunk that reaches a node with no transfer, or one with a process off the
\* list, is programmed all the same.)
WritesHitErased ==
  [][restarts' = 0 =>
       \A n \in Node :
         st[n] \in {"wait", "delay"} /\ offset'[n] > offset[n] /\ offset[n] \in Chunk
           => slot[n][offset[n]] = Blank]_vars

-----------------------------------------------------------------------------
(***************************************************************************)
(* The inductive invariants behind these properties.                        *)
(***************************************************************************)
UnderWay == net \cup {fwbox, cmdbox}
None(types, n) == \A m \in UnderWay : m.type \in types => m.node # n

\* The root's two mailboxes hold what the router puts there.
BoxInv ==
  /\ fwbox = Nothing \/ fwbox.type = "CHUNK"
  /\ cmdbox = Nothing \/ cmdbox.type = "NEW_FW"

\* Behind RouterSurvives: what a node asks for, what it was told and what it is
\* sent is some run's; a node that waits on the list has asked.
RequestInv ==
  /\ \A n \in Node : quantity[n] = 0 \/ \E r \in 1 .. Run : quantity[n] = Size(r)
  /\ \A n \in Node : st[n] = "wait" => chunk_num[n] >= 1
  /\ \A m \in UnderWay : m.type = "NEW_FW" => \E r \in 1 .. Run : m.num = Size(r)
  /\ \A m \in UnderWay : m.type = "REQ" => \E r \in 1 .. Run : m.num < Size(r)
  /\ \A m \in UnderWay : m.type = "CHUNK" => m.img \in 1 .. Run /\ m.num < Size(m.img)

\* Behind StartsFresh: a process that nothing can re-enter has cleared its counters.
RestInv == \A n \in Node : st[n] = "idle" => chunk_num[n] = 0 /\ errors[n] = 0

\* The devices whose turn has not come yet, and those whose turn it was.
Future(n) == \E j \in DOMAIN Order : j > router.i /\ Order[j] = n
Told(n)   == \E j \in DOMAIN Order : j <= router.i /\ Order[j] = n

\* As long as the router is not restarted, a node is told once to update: one that
\* is still to be told is idle, with nothing under way to it or from it.
StartInv ==
  /\ cmdbox \notin net
  /\ \A n \in Node :
       /\ Future(n) => None({"NEW_FW"}, n)
       /\ Future(n) \/ ~None({"NEW_FW"}, n) =>
            st[n] = "idle" /\ None({"REQ", "CHUNK", "SUCCESS"}, n)
       /\ st[n] # "idle" \/ ~None({"NEW_FW"}, n) => Told(n)

\* Behind WritesHitErased: the erase loop runs undisturbed, and what is above the
\* write offset stays erased.
ErasedInv ==
  \A n \in Node :
    /\ st[n] = "erase" =>
         /\ offset[n] = 0 /\ chunk_num[n] = 0 /\ None({"REQ", "CHUNK"}, n)
         /\ \A k \in Chunk : k < page[n] => slot[n][k] = Blank
    /\ st[n] \in {"wait", "delay"} => \A k \in Chunk : k >= offset[n] => slot[n][k] = Blank

\* Behind CursorAgrees: one request or answer of a node is under way at most, for the
\* chunk a waiting node asked for last; a node between two requests has none.
Exchange == {"REQ", "CHUNK"}

OneAtATime ==
  /\ fwbox \notin net
  /\ \A m, o \in UnderWay :
       m.type \in Exchange /\ o.type \in Exchange /\ m.node = o.node => m = o

ExchangeAt(n) ==
  /\ st[n] \in {"delay", "delay_off"} => None({"REQ", "CHUNK"}, n)
  /\ st[n] = "wait" =>
       /\ quantity[n] = Quantity /\ chunk_num[n] <= Quantity
       /\ \A m \in UnderWay :
            m.type \in Exchange /\ m.node = n => m.num = chunk_num[n] - 1

\* Behind SuccessIsOwn: a success under way is that of the device whose turn it is,
\* and the devices before it are finished with theirs.
ReportInv ==
  /\ router.st = "running" =>
       \A j \in DOMAIN Order : j >= router.i => report[Order[j]] = "none"
  /\ restarts = 0 /\ (\A n \in Node : report[n] # "failed") =>
       /\ \A n \in Node : report[n] = "success" => n \in updated
       /\ \A n \in Node : ~None({"SUCCESS"}, n) =>
            /\ n \in updated /\ st[n] = "idle"
            /\ router.st = "running" => n = Order[router.i]
       /\ \A j \in DOMAIN Order : j < router.i =>
            st[Order[j]] = "idle" /\ None({"NEW_FW"}, Order[j])
=============================================================================
