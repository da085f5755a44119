# A TLA+ model of the Unwired smart home

The repository is a fork of Contiki. Its own program is in `src/unwired/` (the
firmware of the nodes, of the root and of their bootloader), in
`src/platform/unwired/common/` (flash and radio) and in `src/udrouter/` (the Lua
program on the router). This directory holds a TLA+ model of that program: what
it does when power fails, when packets and bytes are lost or late, and when two
of its processes meet in an order nobody had in mind.

Paths below are relative to the repository (`src/` here); `dag_node.c`,
`root-node.c`, `ota-main.c` and `rtc-common.c` are in `src/unwired/`.

## The system

    router.lua  --- UART, framed --->  root  --- UDP/6LoWPAN --->  nodes
    (router)    <-- UART, text -----  node   <-------------------  (relay, button,
                                                                   dimmer, motion, light)

| Part | State | Operations | What is hard about it |
| --- | --- | --- | --- |
| Bootloader: `bootloader/bootloader.c`, `bootloader/ota-common/*` | internal flash, external flash, OTA flag byte | start, copy a slot page by page, change the flag, jump | a power failure between any two flash operations, the repair included |
| OTA of the application: `ota-main.c`, `ota-common.c`, `int-flash-common.c` | OTA slots 0 (golden) and 1, flag | erase, store a chunk, verify, back up the golden image | the source of a copy must survive; the chip's erase unit is larger than the code's |
| Firmware transfer: `fw_update_process` in `dag_node.c`, mailboxes in `root-node.c`, `fw` of `router.lua` | chunk counter and error counter (statics), write offset, mailboxes, list of devices | NEW_FW, request, chunk, time-out, abort, success message | counters that no packet carries; late, lost and repeated packets; restarts of either side |
| Node life cycle: processes of `dag_node.c`, `radio_power.c` | `node_mode`, processes, timers, unanswered pings, radio | search, join, status, pong, sleep, wake up, reboot | processes that start, stop and post to each other while the radio goes off |
| Serial line: `uart_send` of `router.lua`, `uart_data_receiver` and `send_command_process` of `root-node.c` | parser statics, buffer, four mailboxes | write a frame, receive a byte, dispatch, poll | the receiver runs in the interrupt, the poller does not; a lost byte shifts the parser |
| Relay device: `smarthome/relay.c` | pins, RAM, user page | start-up, command, settings | one static message for all packets; a page that is erased for every byte saved |
| Time: `rtc-common.c` | clock offset | request, answer, set | mixed widths and signs, clock readings in two calls |
| Root, radio side: `root-node.c`, `smarthome/root.c` | mailboxes, time | answer joins, pings, time requests, print packets for the router | its interrupt prints in the middle of the main loop's lines |
| Router: `router.lua`, `common/packet_parser.lua`, `logic.lua` | receive window, lists of devices | read, parse, act, update firmware | text of several sources in a window that is as long as a packet and never emptied |
| Kernel: `core/sys/process.c`, `etimer.c`, `clock.c`, `soc-rtc.c` and `lpm.c` of the CPU, `contiki-main.c` | event queue, poll flags, list of timers, RTC alarm | process_run, post, poll, set and stop timers, sleep | interrupts between any two steps; one alarm and one stored time for all timers |
| Button, dimmer, motion sensor, street light | none that outlives an event | one event to one packet or output | - |
| Helpers: `crypto-common.c`, `system-common.c`, shell, offline tools | none | conversions, printing | - |

Packets go from the router over the serial line to the root's mailboxes
(`RootUart`), from there to a node (`OtaTransfer`, `TimeSync`), and inside the
node through one static message to the device's process (`RelayNode`). An image
that the transfer has completed is what the bootloader copies (`OtaBoot`), and
what that promises is `OtaUpdate`. What comes back from the nodes reaches the
router as text (`RouterRx`). Every process of a node runs on `Kernel`. The
user page of the relay also holds the OTA flag, which is why `RelayNode` and
`OtaBoot` both model it.

## The modules

Every definition that stands for code is listed with its lines in
`PROJECT.json` ("map"). Definitions whose comment begins with "Mutant:" are
deliberate mistakes that no specification uses; each shows that a property would
notice such a mistake.

**OtaBoot** - bootloader, flag and flash of one node. `int` and `ext` are the
pages of the internal and external flash, each blank, garbage or a page of an
image; a CRC that is right is "all pages in use are of one image". `flag` is the
OTA byte, `pend` its new value between the erase and the program of its sector.
Bootloader and application look for the external flash on their own
(`bootloader.c` 106, `dag_node.c` 1255), so either may find it when the other
does not: `boot_spi` and `spi`. `spoilt` is a history: slot 1 was written while
the flag named it. `pc` says where the code is: the bootloader (`BootInit` ...
`PageProgram`, one action per branch of `main` and per flash operation of the copy), or the
application, whose OTA handlers are actions of their own (`NewFw`, `FwErase`,
`FirmwareData`, `FwVerify`, `FwAbort`, `CleanGi`, `GoldenErase`, `BackupCopy`,
`AppStart`, `JoinConfirm`, `RootNotFound`, `NeedReboot`, `SaveRelayState`). `Reset` is a
power failure or a watchdog reset between any two of them.

**OtaUpdate** - what an update promises, without pages and flags: the image a
node can run (none while it is replaced), the one offered, the one to return to,
and the stage: stable, install, ready, trial. The code's one weakness is part of
it: what a node has decided to install may be changed before it is installed
(`Spoil`), and then the trial alone brings it back. `OtaBoot` implements it
(`Update == INSTANCE OtaUpdate WITH ...`, `ImplementsUpdate`): an area holds an
image when all of it is there, and the flag counts as written when its sector is
erased, so that a power failure before it is programmed is the abstract
`PowerFails` that forgets the update.

**OtaTransfer** - the same update seen from the network: `router` and `report`
are the loop over the command line of `router.lua`, `fwbox` and `cmdbox` the
root's one-message mailboxes, `net` the packets on the air, and per node the
statics of `fw_update_process`. Each run of the router may have another image
(`setting.images`), and the slot is an array of images and chunk numbers, so that a
chunk in the wrong place, or of another image, is visible. The process ends itself
with `process_exit` and `return 0` (`dag_node.c` 1151, 1169), which takes it off
Contiki's list and leaves it in the state RUNNING: a timer event that is already in
the queue still reaches it (`OffList`), and a NEW_FW may start it a second time. The
trial of the new image, which OtaBoot models in detail, is one step with two outcomes.

**NodeLifecycle** - one node of class B (battery) or C (mains): `node_mode`,
Contiki's event queue, the five processes by where they wait, their timers,
unanswered pings and the radio. Contiki's rules are modelled from
`core/sys/process.c` and `etimer.c` as the code uses them: a timer set by a
packet handler belongs to no process and is broadcast, `process_start` of a
running process does nothing, a process that exits itself and goes on
waiting is off the list and hears no broadcast, and any event resumes a process
that waits for its timer if that has expired, the EXIT event of its own end too
(`FindGivesUp`, `Broadcast`). Packets that expect no PONG (time
requests, messages, UART data) matter here for the radio they switch on
(`SendPacket`).

**RootUart** - the serial line, byte by byte, with the real magic sequence and
header; the body of a packet is cut down to the type and what the code looks at.
One action per return of `uart_data_receiver`, the dispatch, the poller, and a
line that loses a byte or clears it. A restart of the root is one step. A mailbox
holds any packet: in the code it holds 600 bytes of data, as many as the router ever
sends, while a frame may announce up to 1500.

**RelayNode** - a relay device from the packet to the pin and to the user page,
which is read, erased and programmed in three steps that power may fail between.

**TimeSync** - one node, the root's clock and one exchange at a time. Times are
records of seconds and milliseconds with the code's widths and wrap-around; each
reading takes two calls, between which the clock may tick. The root's clock is its
uptime until the router sets it in the UART interrupt (`TimeSet`), as often as it
likes and also between the two halves of an answer (`TimeSetInAnswer`). `agreed`
is a history: the node took its time from what the root's clock shows since.

**RouterRx** - the router's receiving side: the root's lines (packets, messages,
messages printed by the interrupt in the middle of either), the window that
`main_cycle` keeps of them, the patterns it looks for, and what the commands
main, list, bulk_update and fw do about a packet. A character is a token: the
places of a packet keep their number and their packet, so that a window put
together from two packets is visible. Histories say how the last line was read.

**Kernel** - the main loop of a node: `process_run` step by step, what a process
may do while it is called (set, stop and reset timers, post, exit, switch the
radio), the timers by the ticks they have left, the RTC interrupt, other
interrupts, and `lpm_drop` with its choice of mode and alarm. Times are relative
to now; a time that is past is -1, which `update_time`, being unsigned, takes for
the farthest of all.

`MC*` modules give the constants their values for TLC; `*Proofs` modules hold
theorems and their proofs.

## What the runs check

Passing runs:

| Run | Bounds | Properties |
| --- | --- | --- |
| `ota_power_cuts` | 2 images, areas of 3 pages of which 2 are used, erase sectors of 5 pages, 2 cuts, flag updates may be cut, each look for the external flash may miss it, a transfer that ends with slot 1, class B; 1.1 million states | `TornImageIsRecoverable`: a torn internal image is named by the flag and has a whole source, or, when slot 1 was spoilt, a golden image behind its trial. `HungOnlyWithoutSpi`: without a spoilt slot, only the path that does not read the flag jumps into a torn image. `GoldenBehindUpdate`: an update under way has a whole golden image. `CopySourceIsStable`: nothing changes the golden image while the flag names it, nor slot 1 if the bootloader found the chip. `ImplementsUpdate`: OtaBoot implements OtaUpdate. |
| `ota_trial` | 3 images, areas of 2 pages, 2 cuts, flag updates not cut, CLEAN_GI, a transfer that may run a page over slot 1 (`MaxOffset`), any of the node's own reboots may not come, class C; 0.8 million states | `UnconfirmedOnTrial`: a firmware that never joined runs only while the flag provides for its trial. `GoldenIsConfirmed`: what is backed up has joined once. `UpdateResolves`, `ResetReachesApp`: while the golden image is whole, an update ends confirmed or rolled back unless one of the node's reboots never comes, and every start reaches an application. |
| `transfer` | FW_MAX_ERROR_COUNTER 1; either 2 nodes, 3 chunks and answers within FW_DELAY; or 1 node, one reset or restart of the router, with a shorter image of 2 chunks after one of 3; or the same with late answers and another device's image of 1 chunk after one of 2 | `CursorAgrees`: write offset and request counter belong together without a restart. `SuccessIsOwn`: "success" is printed for a device that runs the new image, as long as no limit ran out. `StartsFresh`: a transfer finds the counters of a first start, unless the ended process has been re-entered and is not at rest yet. `RouterSurvives`: only a router started again with a shorter image is ended by a request. `WritesHitErased`: without a router restart a transfer programs erased flash only. `TransferEnds`. |
| `lifecycle` | 2 confirmations on the air, 6 events, 1 unanswered ping allowed | `SleepIsSilent`, `RadioOnIsTimed` (battery nodes), `SearchEnds`, `RootLossNoticed`, `StatusIsScheduled` (mains nodes). Deadlock is checked. |
| `uart` | 3 packets of 7 kinds, 1 byte lost, 1 byte cleared | `BufferBound`: the parser writes inside its buffer. `CommandsGoOut`: accepted commands are sent once each and in order, which rests on the router's 0.08 s of sleep. `Resynchronises`: after a lost byte the parser misses the packet behind it at most, and further ones only as long as each missed packet ends as the magic sequence begins. |
| `relay_states` | 48 packets, 2 relays, 2 cuts, packets one at a time | `StatesAgree`: pins, RAM and page agree whenever main_process waits. `CommandsObeyed`. `OtaFlagKept`. Deadlock is checked. |
| `time` | a second of 2 ms with the limits and widths scaled (a limit of 6 ms, 2^16 as 64, 2^32 as 4096), 14 ms of a node and a root that has been up for 25, 2 exchanges, 1 time set by the router, torn readings; 1.1 million states | `ClockRuns`: the clock shows what it was set to plus the time since. `LagBounded`: a node that took its time from the root's present clock is at most a second ahead of it, and behind by what an accepted exchange explains. `ReportIsHonest`: a number sent to the router is the correction made. |
| `router` | 2 devices, 5 packets, a window of 11 tokens, 1 byte lost | `PacketsHandledOnce`: a packet printed in one piece is handled once and nothing else is, unless the window held a message when it began. `SyncAnswered`: the request for the time is answered, and once. `WindowClears`: in a cycle that has filled its window neither exception happens without a lost byte. Deadlock is checked. |
| `kernel` | 2 timers of up to 3 ticks, 2 units per tick, a queue of 1 event, 2 other interrupts or posts | `SleepsWithNothingToDo`: no event or poll is left when the processor stops. `WakesInTime`: the alarm covers every timer that is still ahead. `OverdueFires`: a timer that is past is delivered in the end, unless the queue is kept full for ever. Deadlock is checked. |

Each module also has its `TypeOK`, which the runs check for `OtaBoot`,
`NodeLifecycle`, `TimeSync`, `RouterRx` and `Kernel`. Those of `RelayNode` and
`RootUart` are part of the invariants their proofs establish; in `OtaTransfer` the
properties bound the counters more closely.

Runs that find a disagreement between the code and what the repository says of
it (details and quotes in `PROJECT.json`, "findings"):

| Run | What it shows |
| --- | --- |
| `ota_flag_cut` | A power failure inside the update of the flag sector makes an unconfirmed update permanent (`UnconfirmedOnTrial`). |
| `ota_full_size` | An image of the full 25 pages loses its golden image when slot 1 is erased, because opcode 0xD8 clears 64 KB (`GoldenBehindUpdate`). Images of at most 23 pages are safe. |
| `relay_overrun` | Two packets before main_process runs: the first is overwritten (`CommandsObeyed`). |

Other disagreements met while modelling, which have no run of their own:

- a bootloader that does not find the external flash starts the old image and
  leaves the flag at NEW_IMG_EXT (`bootloader.c` 106). The application looks for
  the chip again (`dag_node.c` 1255), and if it finds it a NEW_FW erases the very
  slot that the flag names (`dag_node.c` 457). After the next reset the bootloader
  copies what is there: it has verified the slot, and only prints the result
  (`bootloader.c` 192-196); in `update_firmware` the line "Validate the new firmware
  (CRC)" is a comment without code (`ota-bootloader.c` 543). If that is not an
  image, its trial hangs, and the next reset restores the golden image; a power failure in an update of the flag's
  sector before that loses the node (`spoilt = "forgotten"`). This is the exception in
  `TornImageIsRecoverable`, `HungOnlyWithoutSpi` and `CopySourceIsStable`, and the
  step `Spoil` of `OtaUpdate`;
- the comment beside the reboot after an unsuccessful search says "почему-то не
  перезагружается!" (for some reason it does not reboot, `dag_node.c` 997). The
  code there is `watchdog_reboot`, which starts the watchdog and waits in an empty
  loop (`contiki-watchdog.c` 155). The model lets any such reboot fail to come
  (`RebootMayHang`, `pc = "stuck"`): then an update on trial stays where it is, and
  a rollback waits for the next power failure. This is the exception in
  `UpdateResolves`;
- CLEAN_GI and FLASH_GI are the same number (`ud_binary_protocol.h` 182), so that
  the branch of FLASH_GI is never taken (`dag_node.c` 529);
- `fw_update_process` can be re-entered after it has ended itself (`dag_node.c`
  1151, 1169): the turn that follows decrements a counter that is 0 to 65535, or
  asks for a chunk again, and a NEW_FW that comes meanwhile starts a transfer with
  that counter, which verifies a slot it has not filled, or leaves chunks out. The
  slot's CRC refuses the result. This is the exception in `StartsFresh`;
- a request that follows the image of an earlier run of the router ends the router
  if the present image is shorter (`router.lua` 785, `RouterSurvives`);
- TIME_SET changes the root's clock and tells no node (`root-node.c` 495): those
  that synchronised before are wrong until their next exchange, which is due once
  an hour. `LagBounded` says nothing of them meanwhile;
- a frame header that announces length 0 leaves the parser in a packet without
  an end until the root is restarted (`root-node.c` 667); `Resynchronises` is
  stated for a line without noise for this reason;
- `root-node.c` 571 looks for DATA_TYPE_UART at another offset than for all
  other types; `Fills` models the test as it is;
- a NEW_FW in the middle of a transfer rewinds the offset of a process that is
  not restarted (`dag_node.c` 457), and a chunk that reaches a node without a
  transfer is programmed all the same (`dag_node.c` 420-439);
- a success message that comes after the router's limit is booked on the next
  device (`router.lua` 753), and one that comes while the router only listens ends
  it;
- a parser that skips a packet ending with 0x01, the first byte of the magic
  sequence, takes the 0x01 of the next frame for its second byte and skips that
  frame too (`root-node.c` 604): after one lost byte repeated "relay 2 on"
  commands, which end so, are all lost. The same goes for a packet that ends with
  any longer start of the sequence (0x01 0x16, ...). This is the exception in
  `Resynchronises`;
- `logic.lua` calls `send_relay_command` and compares with names of relays and
  switches that are local to `router.lua`: the first motion event calls nil and
  ends the router (`logic.lua` 33), and no button event ever matches. In the same
  way `enter_bootloader` (`router.lua` 936) ends after its first two commands:
  it calls `send_local_command` without the data that function indexes;
- `clean_buffer` (`router.lua` 971) appends zeros and removes nothing. Early in a
  cycle, when the window is not full, the message it was called for stays in it:
  it is found again, so that the time is set up to three times, and a packet that
  begins meanwhile is lost. These are the exceptions in `PacketsHandledOnce` and
  `SyncAnswered`;
- the root asks for the time once, when it starts (`root-node.c` 267); a router
  started later never answers, and the network has no clock until the root is
  restarted;
- `soc-rtc.c` 160 says "We need to keep ticking while we are awake"; only the RTC's
  own interrupt schedules the next tick. Woken by another interrupt the node runs
  without ticks, and a timer that expires before `lpm_drop` keeps it awake
  (`lpm.c` 287) until the alarm of its last sleep, up to a second away, or as far
  as the next timer was after a deep sleep;
- with a third timer: `etimer_stop` while another timer is past stores the time of
  the one ahead (`etimer.c` 58-78), and the node sleeps over the one that is past;
- timers of a process that exits are dropped without `update_time` (`etimer.c`
  91-107): the stored time may belong to none of the others, and keeps a battery
  node awake from then until the next change of the list;
- a battery node that is confirmed just as its search ends may stay in normal
  mode without status packets (`dag_node.c` 988);
- a correction backwards across a second, however small, is reported as 32767
  (`rtc-common.c` 153), and `calculate_transit_time` returns half of the time
  its header promises;
- `settings_change` in `relay.c` tests for targets that its caller has excluded.

### Why the bounds are enough

The interesting cases of the update are one torn copy, one torn repair of it and
an update that follows another; two cuts and three images reach them. Two pages
in use are enough for "some pages old, some new", and the third page of an area
in `ota_power_cuts` lets a sector reach over the end of a slot without reaching
an image. Three chunks give a first, a middle and a last one, which the code
treats differently; one retry distinguishes "again" from "give up". In the serial
line the second packet shows what a damaged one did to its neighbour and the
third that the effect ends. In the life cycle two confirmations are the late one
and its repetition; the queue never grows beyond 6. In `time` all phases of the
second, of carries and borrows, and transits on both sides of the limit occur
within 14 ms of the scaled clock; one TIME_SET can fall before, between, into and
after the two exchanges. The clock gains one millisecond at most between the two
calls that read it, which is more than the code needs between them. One restart with a
shorter image and one with another device's are what the router's end and
`verify_ota_slot` have to tell apart. The window of 11 tokens is longer than the
longest message and holds the shortest four times, as 95 characters do, so that
cleaning it pushes old text out at the same rate. In `kernel` two units per tick
put the end of a standby period (1.28 ticks in the code) between two boundaries,
two timers and one place in the queue give a timer that finds it full, and three
ticks a sleep that is long enough for deep sleep and for an interrupt within it.
A third timer brings nothing new for the invariants except the sleep over a past
timer described above, which `WakesInTime` excepts. `OverdueFires` says that such a
timer is delivered all the same, but two timers do not reach that case.

### Fairness

- `OtaBoot`: weak fairness of the bootloader, of the program after an erase and
  of the golden backup, which are straight-line code; strong fairness of
  `NeedReboot` and of the end of the root search, because a timer that has
  expired is served although handlers of other packets run again and again in
  between. That a reboot which the node has asked for comes is not assumed
  (`RebootMayHang`), nor that anything ever resets a node that hangs. Nothing makes a transfer, a command or a power failure happen.
- `OtaTransfer`: the root polls, each node's process goes on (its waits have
  timers), and a packet does not stay on the air for ever: it is received or
  lost. Delivery is not assumed.
- `NodeLifecycle`: the event loop runs, set timers expire, and `watchdog_reboot`
  resets the node (for the doubt about that see above). `FindTimer` is
  strongly fair: the search timer is set again each time it expires and other
  events may keep the queue busy when it does. The root need not answer.
  `RootLossNoticed` takes it that the node stays in some DAG: `status_send_process`
  counts nothing while `rpl_get_any_dag()` returns NULL.
- `Kernel`: the clock runs, a pending interrupt is taken, every call of a process
  returns. `OverdueFires` further takes it that the queue is not full at every
  scan from some time on for ever: the list of timers is searched from the newest,
  and processes that refill the queue each time would starve the others.
- A battery node asks for chunks with its radio off (`dag_node.c` 822), so that
  its requests and their answers are lost most of the time. `OtaTransfer` lets any
  packet be lost at any time, which includes this; `TransferEnds` and
  `CursorAgrees` hold of such nodes too, though hardly any chunk may arrive.

## What is proved

Proofs hold for every value of the constants under the assumptions the modules
name (`ImageAssumption`, `GeometryAssumption`, ... which TLC evaluates in the
runs). Where a theorem needs more, it says so in an ASSUME of its own, with the
reason at the definition of that condition. Each component's inductive invariant
is defined next to its properties or in its proof module and was checked with TLC
before it was proved.

**OtaBootProofs.** `TypeCorrect` needs no more than the assumptions; its
strengthening `TypeInv` adds that code of the application runs only from a whole
image, without which the copy loop's source would be untyped at a restart.

Five theorems assume `SafeGeometry` (the erase of slot 1 cannot reach pages
the golden image uses, which is what `ota_full_size` violates) and that
CLEAN_GI is not sent (`root-node.c` does not). In all of them each look for the
external flash may fail. They all follow from `RecoveryInv` (`RecoveryInvariant`), whose parts are: `FlagInv`,
what each value of the flag promises about the internal image, slot 1 and the
golden image; `CopyInv`, that a copy in progress has the flag's image as its
source and that the pages behind its cursor are already equal to it; `AppInv`,
what holds while the application runs, beside a flag that names slot 1 only if the
bootloader missed the chip; `FwInv`, what a transfer has done to slot 1. Each part says
what is left of it once slot 1 has been spoilt. `TornImageIsRecoverable` alone is not
inductive: a step of the copy needs to know that the source is whole and the
flag, which was written several resets ago, still names it. From it: `Recoverable`,
`NeverHungWithSpi`, `GoldenAlwaysBehind` and the action property
`CopySourceStable`. A cut of the flag update is allowed in all of them.

`OtaBootImplementsUpdate` is the refinement, under the same two conditions and with
cut flag updates: the initial states map to initial states, and from `RecoveryInv`
and `BackupInv` (a backup starts without a golden image and goes to erased pages, and
where the external flash is at hand no update is left over in an application that has
joined) every action is a step of `OtaUpdate` or a stutter. `LostInv` (a node that
forgot a spoilt update has neither an image nor a flag to get one) is what keeps such a
node from running anything again.

`GoldenConfirmed` and `TrialUntilConfirmed` rest on `TrialInv`: every page of the
golden area, whole or not, is of an image that joined, and so is every page of the
internal image unless the flag, or the value about to be written to it, provides for a
trial. Both properties speak of whole images, which no step of a copy can
preserve; pages it can. The first needs no condition at all; the second needs that no update of the flag is cut, which is what
`ota_flag_cut` violates.

**OtaTransferProofs.** Four invariants, each on top of the one before. `BaseInv`:
types; `RequestInv`, that every request, chunk and NEW_FW on the air or in a mailbox
belongs to the image of some run of the router, as does what each node was told; and
`RestInv`, that a process that nothing can re-enter any more has the counters of a first
start. It gives `TransferTypes`, `TransferStartsFresh` and `RouterStaysUp`, for any images
of any number of restarts. `TellInv`: as long as the router was not restarted, it tells each node
once, and nothing is written behind the offset of a transfer; it gives
the action property `ChunksGoToErasedFlash`. `TimelyInv`: with answers in time as
well, a node has one request or one chunk under way, in one of the places they pass
(`Exchange`, `OneAtATime`, `ExchangeAt`); this is what `OffsetFollowsRequests` needs,
since neither the chunk nor the request carries the offset. `ReportInv`: the success
message under way is that of the device the router waits for (`SuccessNamesItsDevice`).

**NodeLifecycleProofs.** `LifeInv` is `TypeOK`, `RadioOnIsTimed` and `SilenceInv`:
a battery node that gave up is silent, or the event that makes it so is in the queue
and maintenance_process waits for it. `SleepIsSilent` is what is left of it when the
queue is empty, and is not inductive without that event. It gives `LifecycleTypes`,
`NodeSleepsSilently` and `RadioIsTimed`.

**KernelProofs.** `KernelInv` adds to the properties `PollInv` (a poll flag without
`poll_requested` belongs to a process that do_poll has yet to visit) and
`StoredTimeInv` (the time that update_time stored is no later than that of any timer
still ahead). It gives `KernelTypes`, `NothingLeftToDo` and
`AlarmInTime` for any number of timers.

**TimeSyncProofs.** The lemmas first show that what the code does with seconds and
milliseconds of different widths (`Shifted`, `set_epoch_time`, `Minus`,
`calculate_transit_time`, `calculate_diff_time`) is arithmetic on milliseconds as long
as nothing leaves its range; the invariants are then about `Total` alone: the clock
is the rtc plus `Total(offset)` (`OffsetInv`), a packet carries what the clocks
showed when it was sent (`PacketInv`). `SyncTypes` holds in any case. The other three
theorems assume `EpochInRange` (the root has been on for some seconds longer than the
node, the router sets it to a time later than its uptime, and seconds stay below 2^32)
and `TransitInRange` (no answer is under way for 131 s, half of which no longer fits a
uint16_t). The latter is an assumption on the network, which drops what it has not
delivered by then; the module has it as `MaxTransit`. `RootInv` and `PacketInv` say what
the root's clock and its answers show though the router may set that clock at any time:
an answer counts for `LagBounded` only if the clock was not set behind it.

**RootUartProofs.** The first lemmas say what stands where in a frame (`FrameIs`) and
reduce `uart_data_receiver` to the eight ways in which it takes a byte
(`ReceiverTakes`). `BaseInv` (types, `BufferBound`, and that what is left of a frame is
its end) gives `ParserInBuffer` for every set of packets, every buffer length and
every damage on the line.

The histories of the model tell packets apart by their address, which stands for the 18
bytes of address and version in the code and occurs nowhere else on the line
(`AddressAssumption`). `AddressInv` turns this into the fact that both other results
need: an undamaged packet is accepted only as its own last byte arrives
(`NewlyAccepted`). Its parts are `HeadInv` (what the parser has heard of a header are
the last bytes of the line, so that the length it has is that of the packet whose
address follows), `BufferInv` (an address in the buffer is that of a damaged packet or
of the one on the line, of which the buffer holds as much as was written) and
`AcceptedInv`. None of them depends on how many bytes are lost or cleared, or on where.

`CommandsAllGoOut` assumes `PollsInPause`, that the router sleeps longer after a command
(10 ticks of 8 ms) than the poll interval (5 ticks) and its delay together. By
`OutInv` a command that was accepted was sent or waits in the mailbox, and while it
waits the line is idle and the pause left is longer than the time to the poll.
`CommandsGoOut` alone does not exclude that the mailbox is overwritten by the next step.

`OneLossRecovered` is `Resynchronises` for one lost byte anywhere in any frame;
`ParserResynchronises` for any number, if a second byte is lost only when the parser is
back in step (`LossesApart`: neither the packet on the line nor the one before it is
damaged, and that one was accepted). `SyncInv` says where the parser can be: in step;
in a header that lacks a byte, with the checksum byte 255 moving into the length
(`Shifted`); one byte late in a packet (`Late`), which the next frame's first byte then
ends (`LateNext`); or looking for the magic sequence (`Scanning`), with a window that
begins behind the frame's first byte. Two conditions are needed:
`ShortPackets`, that a length with high byte 255 is refused (MAX_UART_DATA_LENGTH is
1500), and `NoMagicInside`, that no packet contains the magic sequence. The code escapes
nothing: a chunk of an image, for one, may contain it, and after a loss the parser can
take it for the start of a frame.

**RelayNodeProofs.** `RelayInv` says what the page, the buffer of the update
under way and the RAM hold at each point of `main_process`: during start-up the
second relay's byte is not yet current, during an update the new page is in the
buffer only. It gives `RelayStatesAgree` and `RelayKeepsOtaFlag` for any packets
and any number of power failures. `CommandInv`, which relates the history of
packets to RAM, page and the packet that waits, gives `RelayObeysCommands` when
packets arrive one at a time (`Spaced`); `relay_overrun` shows that they must.

**RouterRxProofs.** Lemmas first say what the operators on the window do: adding a
byte (`AddByte`), finding a message (`FindMessageFinds`), cleaning (`CleanBuffer`) and
when a window parses as a packet (`ParseCases`); `StepKinds` then reduces every action
to what it does to lines and window. `TxInv`: what is left of a line is its end, and
only the line in front is under way in one piece (`RouterTypeCorrect`). `WindowInv`: a
message that was found has as many zeros behind it as tokens were read in the cycle,
so that in a full window the next token pushes it out; with `OpenInv` (a message
without an end is under way or interrupted) it gives `RouterWindowClears`. `PieceInv`,
that a line read in one piece is the end of the window, gives `RouterHandlesPackets`,
and with `SyncEndInv` `RouterAnswersSync`, both with any number of lost bytes.
`HeaderInv`, what can follow a packet's header in the window, gives
`RouterHandlesPacketsOnce`. That one is about runs in which no byte is lost: without
most of a packet, zeros that `clean_buffer` appends or places of another packet can
stand for the rest, and the router handles what was never sent. In the model with a
window of 7 tokens that takes five lost bytes.

Only model-checked:

- every liveness property (`UpdateResolves`, `ResetReachesApp`, `TransferEnds`,
  `SearchEnds`, `RootLossNoticed`, `StatusIsScheduled`, `OverdueFires`), since the
  prover handles neither fairness nor ENABLED;
- `Resynchronises` is not claimed when a second byte is lost before the parser is back
  in step, nor for packets that contain the magic sequence;
- `PacketsHandledOnce` after a lost byte, of which the proof covers the second half
  (`RouterHandlesPackets`). The first half holds as long as fewer bytes are lost than a
  packet has, which needs a count of the bytes of each packet in the window.

Some properties say less than one might wish, because the code does no more:
`SuccessIsOwn` needs that no limit ran out (a success that comes later is booked on the
next device); `CursorAgrees` that answers come in time and the router is not restarted;
`StatusIsScheduled` speaks of mains nodes (a battery node may stay without status
packets, see above); `ReportIsHonest` allows "out of range" for any correction backwards.

No module with a theorem uses a RECURSIVE operator.

## What is not modelled

- Contiki's network stack, its other platforms and CPUs, the register headers,
  the drivers and the sniffer: third-party or generated, and nearly all of the
  repository. Of the 535,732 lines of code in `src/` fewer than 20,000 are the program's
  own or the kernel it runs on; this model is about those. No part of what is left
  can be mapped without modelling code that the product does not run.
- A flash operation that fails though the chip answered when it was looked for: the
  code repeats erases, writes and page copies until they succeed (or the watchdog
  resets the node), and a slot that cannot be read for its
  verification is not installed, and a golden image not replaced.
- `check_next_rtimer` of `lpm.c`: this build sets no rtimer.
- SPI transactions, CRC arithmetic and AES: out of TLC's reach, and abstracted to
  "whole or not" where the update needs them. The encryption helpers are called
  only by a self-test.
- Button, dimmer and motion sensor: one event becomes one packet or one PWM
  value. The street light's packets take the path `RelayNode` models; its replies
  are not connected in this build.
- The motion sensor sends a packet from its interrupt handler (`motionsensor.c`
  101), into the packet buffer of the network stack that the main loop may be
  using. What becomes of it is up to that stack.
- Shell, formatting, number conversions and offline tools.

## Plan

Built, in this order: OtaBoot with its proofs, OtaTransfer,
NodeLifecycle, RootUart with its proof, RelayNode with its proofs, TimeSync;
then RouterRx, Kernel, and OtaUpdate with its refinement.

The proofs followed: the recovery of OtaBoot, RootUart and RelayNode; then the
refinement and the trial of OtaBoot, Kernel, OtaTransfer, NodeLifecycle, TimeSync and
RouterRx; last the commands and the resynchronisation of RootUart.

What could be added is a run of `Kernel` with three timers, and `PacketsHandledOnce` with a bound on the bytes lost. All
other invariants and action properties of the runs have a theorem; the liveness
properties are out of the prover's reach (see above).
