------------------------------- MODULE TimeSync -------------------------------
(***************************************************************************)
(* Time synchronisation (rtc-common.c): a node sends its time to the root,  *)
(* the root answers with its own time and the node's, and the node sets the *)
(* offset of its clock from both (time_data_handler).  A clock is read in   *)
(* two calls, rtc_s and rtc_ms, and the second may change between them.     *)
(* The root's clock shows its uptime until the router sets it, in the UART  *)
(* interrupt, and the router may set it again: before, between and in the   *)
(* middle of the exchanges of a node.                                       *)
(*                                                                          *)
(* A time is a record of seconds and milliseconds with the widths of the    *)
(* code; the second, the limits and the widths are constants so that TLC    *)
(* can scale them together.                                                 *)
(***************************************************************************)
EXTENDS Integers

CONSTANTS
  Ms,        \* milliseconds of a second (1000)
  W32, W16,  \* 2^32 and 2^16
  Limit,     \* the largest half transit time accepted (3000 ms)
  MaxDiff,   \* the largest difference reported (30 s)
  RootUp,    \* ms the root has been up when the node starts
  Epochs,    \* the seconds that the router may set the root's clock to
  Tear,      \* the clock may tick between rtc_s and rtc_ms
  MaxTransit,\* ms after which the network has delivered or dropped a packet
  MaxNow,    \* bound: ms of the run
  MaxSyncs,  \* bound: requests
  MaxSets    \* bound: times that the router sets the root's clock

ASSUME SyncAssumption ==
  /\ Ms \in Nat \ {0} /\ W32 \in Nat \ {0} /\ W16 \in Nat \ {0}
  /\ Limit \in Nat /\ 3 * Ms <= Limit /\ Limit < W16
  /\ MaxDiff \in Nat /\ MaxDiff * Ms < W16 \div 2
  /\ RootUp \in Nat /\ Epochs \subseteq 0 .. (W32 - 1) /\ Tear \in BOOLEAN
  /\ MaxTransit \in Nat /\ MaxNow \in Nat /\ MaxSyncs \in Nat /\ MaxSets \in Nat

VARIABLES
  now,     \* ms since the node started: its rtc
  offset,  \* epoch_sec_offset and epoch_msec_offset
  root_offset, \* the same two variables of the root
  packet,  \* the request or the response under way
  syncs,
  sets,    \* times that the router has set the root's clock
  last,    \* history: what the clock was last set to, less the uptime then
  agreed,  \* history: it was, from a time that the root's present clock gave
  report   \* history: the TIMESYNC_STATUS just sent, and the correction made

vars == <<now, offset, root_offset, packet, syncs, sets, last, agreed, report>>

Nothing == [type |-> "none"]
NoReport == [sent |-> 0, made |-> 0]

Init ==
  /\ now = 0 /\ offset = [s |-> 0, ms |-> 0] /\ root_offset = [s |-> 0, ms |-> 0]
  /\ packet = Nothing /\ syncs = 0 /\ sets = 0
  /\ last = [base |-> 0, gap |-> 0] /\ agreed = FALSE
  /\ report = NoReport

-----------------------------------------------------------------------------
(* The clocks.                                                              *)

\* What rtc_s and rtc_ms return, t ms apart, on a device that is up for so long.
Reading(up, t) == [s |-> up \div Ms, ms |-> (up + t) % Ms]
Gaps == IF Tear THEN {0, 1} ELSE {0}

\* Mutant: the carry into the seconds is forgotten.
Shifted_no_carry(rtc, off) ==
  [s |-> (rtc.s + off.s) % W32, ms |-> (rtc.ms + off.ms) % Ms]

\* get_epoch_time for a reading; its test for a negative uint16_t never holds.
Shifted(rtc, off) ==
  LET ms == (rtc.ms + off.ms) % W16
      s  == (rtc.s + off.s) % W32
  IN  IF ms >= Ms THEN [s |-> (s + 1) % W32, ms |-> ms - Ms] ELSE [s |-> s, ms |-> ms]

get_epoch_time(t) == Shifted(Reading(now, t), offset)

\* The same on the root.
root_time(t) == Shifted(Reading(RootUp + now, t), root_offset)

\* Mutant: no borrow from the seconds.
set_epoch_time_no_borrow(new, rtc) ==
  [s |-> (new.s - rtc.s) % W32, ms |-> (new.ms - rtc.ms) % W16]

\* set_epoch_time: the offset for a new time and a reading.
set_epoch_time(new, rtc) ==
  LET d == new.ms - rtc.ms
      s == new.s - rtc.s
  IN  IF d >= Ms THEN [s |-> (s + 1) % W32, ms |-> d - Ms]
      ELSE IF d < 0 THEN [s |-> (s - 1) % W32, ms |-> d + Ms]
      ELSE [s |-> s % W32, ms |-> d]

-----------------------------------------------------------------------------
(* The handler.                                                             *)

\* uint32_t differences; the result is cut to a uint16_t.
calculate_transit_time(req, res) ==
  LET s  == (res.s - req.s) % W32
      ms == (res.ms - req.ms) % W32
  IN  ((((s * Ms) + ms) % W32) \div 2) % W16

\* Mutant: the two times are swapped.
calculate_diff_time_swapped(max, min) ==
  LET s  == (min.s - max.s) % W32
      ms == s * Ms + (min.ms - max.ms)
  IN  IF s > MaxDiff \/ ms > MaxDiff * Ms \/ ms < -(MaxDiff * Ms)
      THEN W16 \div 2 - 1 ELSE ms

\* Seconds are subtracted as uint32_t and only then widened to int64_t.
calculate_diff_time(max, min) ==
  LET s  == (max.s - min.s) % W32
      ms == s * Ms + (max.ms - min.ms)
  IN  IF s > MaxDiff \/ ms > MaxDiff * Ms \/ ms < -(MaxDiff * Ms)
      THEN W16 \div 2 - 1 ELSE ms

\* Mutant: no borrow from the seconds.
Minus_no_borrow(time, half) ==
  LET k == IF half > Ms THEN (half - 1) \div Ms ELSE 0
      h == half - k * Ms
  IN  [s |-> (time.s - k) % W32, ms |-> (IF h > time.ms THEN time.ms + Ms - h ELSE time.ms - h)]

\* The root's time less half the transit time: whole seconds first (the loop
\* stops at one second), then the rest with a borrow.
Minus(time, half) ==
  LET k == IF half > Ms THEN (half - 1) \div Ms ELSE 0
      h == half - k * Ms
  IN  IF h > time.ms
      THEN [s |-> (time.s - k - 1) % W32, ms |-> (time.ms + Ms - h) % W16]
      ELSE [s |-> (time.s - k) % W32, ms |-> time.ms - h]

Total(time) == time.s * Ms + time.ms

send_time_sync_req_packet ==
  /\ packet = Nothing /\ syncs < MaxSyncs
  /\ \E t \in Gaps :
       packet' = [type |-> "request", local |-> get_epoch_time(t), sent |-> now]
  /\ syncs' = syncs + 1 /\ report' = NoReport
  /\ UNCHANGED <<now, offset, root_offset, sets, last, agreed>>

Response(time) ==
  [type |-> "response", local |-> packet.local, sent |-> packet.sent, root |-> time,
   set |-> sets]

send_time_sync_resp_packet ==
  /\ packet.type = "request"
  /\ \E t \in Gaps : packet' = Response(root_time(t))
  /\ UNCHANGED <<now, offset, root_offset, syncs, sets, last, agreed, report>>

\* LOCAL_ROOT_COMMAND_TIME_SET: whole seconds from the router.
NewRootOffset(epoch, t) ==
  set_epoch_time([s |-> epoch, ms |-> 0], Reading(RootUp + now, t))

TimeSet ==
  /\ sets < MaxSets
  /\ \E epoch \in Epochs, t \in Gaps : root_offset' = NewRootOffset(epoch, t)
  /\ sets' = sets + 1 /\ agreed' = FALSE /\ report' = NoReport
  /\ UNCHANGED <<now, offset, packet, syncs, last>>

\* The same in the middle of an answer: get_epoch_time has added the offset of the
\* seconds, and adds that of the milliseconds when the interrupt is over.
TimeSetInAnswer ==
  /\ packet.type = "request" /\ sets < MaxSets
  /\ \E epoch \in Epochs, t1, t2 \in Gaps :
       /\ root_offset' = NewRootOffset(epoch, t1)
       /\ packet' = Response(Shifted(Reading(RootUp + now, t2),
                                     [s |-> root_offset.s, ms |-> root_offset'.ms]))
  /\ sets' = sets + 1 /\ agreed' = FALSE
  /\ UNCHANGED <<now, offset, syncs, last, report>>

\* An answer too long under way is dropped; otherwise the clock is set and the
\* difference is sent to the router.
time_data_handler ==
  /\ packet.type = "response"
  /\ packet' = Nothing
  /\ \E t1, t2 \in Gaps :
       LET res  == get_epoch_time(t1)
           half == calculate_transit_time(packet.local, res)
           new  == Minus(packet.root, half)
       IN  IF half > Limit
           THEN UNCHANGED <<offset, last, agreed, report>>
           ELSE /\ offset' = set_epoch_time(new, Reading(now, t2))
                /\ last' = [base |-> Total(new) - now, gap |-> t2]
                /\ agreed' = (packet.set = sets)
                /\ report' = [sent |-> calculate_diff_time(new, res),
                              made |-> Total(new) - Total(res)]
  /\ UNCHANGED <<now, root_offset, syncs, sets>>

LosePacket ==
  /\ packet # Nothing
  /\ packet' = Nothing
  /\ UNCHANGED <<now, offset, root_offset, syncs, sets, last, agreed, report>>

Tick ==
  /\ now < MaxNow
  /\ packet # Nothing => now < packet.sent + MaxTransit
  /\ now' = now + 1
  /\ report' = NoReport
  /\ UNCHANGED <<offset, root_offset, packet, syncs, sets, last, agreed>>

Next ==
  \/ send_time_sync_req_packet \/ send_time_sync_resp_packet \/ time_data_handler
  \/ TimeSet \/ TimeSetInAnswer \/ LosePacket \/ Tick

Spec == Init /\ [][Next]_vars

-----------------------------------------------------------------------------
(* Properties.                                                              *)

Time == [s : 0 .. (W32 - 1), ms : 0 .. (Ms - 1)]

\* Every variable has its type; a time never shows a full second of
\* milliseconds.
TypeOK ==
  /\ now \in 0 .. MaxNow /\ offset \in Time /\ root_offset \in Time
  /\ syncs \in 0 .. MaxSyncs /\ sets \in 0 .. MaxSets
  /\ packet.type \in {"none", "request", "response"}
  /\ packet.type # "none" => packet.local \in Time /\ packet.sent \in 0 .. now
  /\ packet.type = "response" => packet.root \in Time /\ packet.set \in 0 .. sets
  /\ last.base \in Int /\ last.gap \in Gaps
  /\ agreed \in BOOLEAN
  /\ report.sent \in -(W16 \div 2) .. (W16 \div 2 - 1) /\ report.made \in Int

\* The clock shows what it was set to plus the time since, through every
\* carry of set_epoch_time and get_epoch_time.  A tick between the two calls
\* that set it costs that tick, or puts the clock ahead by the rest of a second
\* when it ended one, and nothing more.
ClockRuns ==
  LET error == Total(get_epoch_time(0)) - (last.base + now)
  IN  error = 0 \/ (last.gap = 1 /\ error \in {-1, Ms - 1})

\* A node that took its time from the root's present clock is at most a second
\* ahead of the root and behind it by no more than an accepted exchange and its torn
\* readings explain, however often the router set that clock before, while an
\* older answer was under way or in the middle of one.  (The half transit time is
\* subtracted from the root's time, so it adds to the way of the answer.)  Nothing
\* is said of a node from the moment the router sets the root's clock to the end of
\* the next exchange that the root answers: local_command tells no node.
LagBounded ==
  agreed =>
    LET lag == Total(root_time(0)) - Total(get_epoch_time(0))
    IN  -Ms <= lag /\ lag <= 3 * Limit + 1 + 2 * Ms

\* What the node tells the router is the correction made to its clock, sign
\* included; the largest number, which stands for "out of range", is sent for
\* no correction forwards that is in range.  (It is also what a correction
\* backwards across a second gives, however small: calculate_diff_time widens
\* the seconds after it has subtracted them.)
ReportIsHonest ==
  \/ report.sent = report.made
  \/ report.sent = W16 \div 2 - 1 /\ report.made \notin 0 .. (MaxDiff * Ms)

-----------------------------------------------------------------------------
(* What the proofs need beside: the range of the clocks, and the invariant. *)

\* The milliseconds below which a clock must stay for its difference to be reported.
Top == (W32 - MaxDiff) * Ms

\* The root has been up for some seconds when the node starts, the router sets its
\* clock to a time later than its uptime, and the seconds stay below 2^32 (until 2106).
EpochInRange ==
  /\ 3 * Limit + 1 + 2 * Ms <= RootUp
  /\ RootUp + MaxNow + 5 * Ms <= Top
  /\ \A e \in Epochs : RootUp + MaxNow + 1 <= e * Ms /\ e * Ms + MaxNow + 5 * Ms <= Top

\* No answer is under way for so long that half of its time no longer fits a uint16_t.
TransitInRange == MaxTransit + Ms < 2 * W16 /\ 2 * W16 <= W32

\* What a reading in two calls may be off by.
TornBy == {0, 1, 1 - Ms}

\* A clock is the rtc plus this number.
OffsetInv ==
  /\ Total(offset) + MaxNow + 2 * Ms <= Top
  /\ LET error == Total(offset) - last.base
     IN  error = 0 \/ (last.gap = 1 /\ error \in {-1, Ms - 1})

RootInv == Total(root_offset) + RootUp + MaxNow + 4 * Ms <= Top

\* The offset does not change while a packet is under way, and an answer from the
\* root's present clock says what it showed at some moment since the request.
PacketInv ==
  /\ packet.type # "none" =>
       /\ Total(packet.local) - packet.sent - Total(offset) \in TornBy
       /\ now <= packet.sent + MaxTransit
  /\ packet.type = "response" =>
       \E x \in packet.sent .. now :
         /\ RootUp + x + 1 <= Total(packet.root) + Ms
         /\ Total(packet.root) + MaxNow + 3 * Ms <= Top + x
         /\ packet.set = sets =>
              Total(packet.root) - (RootUp + x + Total(root_offset)) \in TornBy

\* Behind LagBounded.
LagInv ==
  agreed => LET lag == RootUp + Total(root_offset) - Total(offset)
            IN  -Ms <= lag /\ lag <= 3 * Limit + 1 + 2 * Ms
=============================================================================
