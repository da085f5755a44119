---------------------------- MODULE NodeLifecycle ----------------------------
(***************************************************************************)
(* The life of a node from its start to the next reset: dag_node_process,   *)
(* maintenance_process, root_find_process and status_send_process of        *)
(* dag_node.c, the radio switch of radio_power.c and the button device's    *)
(* wake-up.  The processes are Contiki protothreads: each runs to its next  *)
(* wait, events are delivered in the order they were posted, and a process  *)
(* that exits itself and then waits goes on living outside the process      *)
(* list, where broadcast events no longer reach it.                         *)
(***************************************************************************)
EXTENDS Integers, SequencesExt

CONSTANTS
  MaxPings,    \* MAX_NON_ANSWERED_PINGS (3 in the code)
  MaxAir,      \* bound: join confirmations on the air at once
  RxAfterOff,  \* a packet received before the radio went off is still handled
  MaxQueue     \* bound: events in Contiki's queue (32 in Contiki)

ASSUME LifecycleAssumption ==
  /\ RxAfterOff \in BOOLEAN
  /\ MaxPings \in Nat /\ MaxAir \in Nat /\ MaxQueue \in Nat \ {0}

VARIABLES
  node_mode,   \* MODE_*, or RESET after watchdog_reboot()
  queue,       \* posted events, oldest first
  dag,         \* dag_node_process: waiting for the confirmation, or ended
  maint,       \* maintenance_process: where it waits
  mtimer,      \* maintenance_timer runs
  find, limit, \* root_find_process runs; its two-minute limit has passed
  status,      \* status_send_process runs
  pings,       \* non_answered_packet
  radio,       \* the radio listens
  radio_mode,  \* RADIO_HOLD, RADIO_FREEDOM or not yet set
  off_timer,   \* net_off_timer runs
  asked,       \* a status or sensor packet waits for its PONG
  air,         \* JOIN_CONFIRM packets under way to the node
  rootUp,      \* the root answers
  classB       \* the build: battery node that sleeps (CLASS_B), or mains

procVars  == <<dag, maint, mtimer, find, limit, status>>
radioVars == <<radio, radio_mode, off_timer>>
vars == <<node_mode, queue, procVars, pings, radioVars, asked, air, rootUp, classB>>

Event == {"dag",     \* CONTINUE for dag_node_process (join_confirm_handler)
          "maint",   \* CONTINUE for maintenance_process (PROCESS_PAUSE)
          "expired", \* TIMER broadcast: maintenance_timer set by a handler
          "tick",    \* TIMER for maintenance_process itself
          "find"}    \* TIMER for root_find_process

\* Bound: non_answered_packet is not counted any further.
MaxCount == MaxPings + 2

TypeOK ==
  /\ node_mode \in {"NORMAL", "NOTROOT", "JOIN_PROGRESS", "NEED_REBOOT", "RESET"}
  /\ queue \in Seq(Event) /\ Len(queue) <= MaxQueue
  /\ dag \in {"waiting", "ended"}
  /\ maint \in {"pause", "wait", "zombie", "reboot_wait"}
  /\ {mtimer, find, limit, status, radio, off_timer, asked, rootUp, classB} \subseteq BOOLEAN
  /\ pings \in 0 .. MaxCount
  /\ radio_mode \in {"unset", "HOLD", "FREEDOM"}
  /\ air \in 0 .. MaxAir

\* The node's RAM after dag_node_process has started the other processes and
\* waits for a confirmation; maintenance_process is in its PROCESS_PAUSE.
Started ==
  /\ node_mode' = "JOIN_PROGRESS"
  /\ queue' = <<"maint">>
  /\ dag' = "waiting"
  /\ maint' = "pause"
  /\ mtimer' = FALSE
  /\ find' = FALSE
  /\ limit' = FALSE
  /\ status' = FALSE
  /\ pings' = 0
  /\ radio' = TRUE
  /\ radio_mode' = "unset"
  /\ off_timer' = FALSE
  /\ asked' = FALSE

Init ==
  /\ node_mode = "RESET"
  /\ queue = <<>>
  /\ dag = "waiting"
  /\ maint = "pause"
  /\ mtimer = FALSE
  /\ find = FALSE
  /\ limit = FALSE
  /\ status = FALSE
  /\ pings = 0
  /\ radio = TRUE
  /\ radio_mode = "unset"
  /\ off_timer = FALSE
  /\ asked = FALSE
  /\ air = 0
  /\ rootUp = TRUE
  /\ classB \in BOOLEAN

Alive == node_mode # "RESET"

Boot ==
  /\ ~Alive
  /\ Started
  /\ UNCHANGED <<air, rootUp, classB>>

watchdog_reboot ==
  /\ node_mode' = "RESET"
  /\ UNCHANGED <<queue, procVars, pings, radioVars, asked>>

-----------------------------------------------------------------------------
(***************************************************************************)
(* radio_power.c.  CLASS_C nodes never switch the radio.                    *)
(***************************************************************************)
\* Mutant: the radio is switched on without its timer.
net_on_timer_off_untimed ==
  /\ radio' = (radio \/ (classB /\ radio_mode = "FREEDOM"))
  /\ UNCHANGED <<off_timer, radio_mode>>

net_on_timer_off ==
  LET on == classB /\ radio_mode = "FREEDOM"
  IN  /\ radio' = (radio \/ on)
      /\ off_timer' = (off_timer \/ on)
      /\ UNCHANGED radio_mode

net_off_now(mode) ==
  LET off == classB /\ mode = "FREEDOM"
  IN  /\ radio' = (radio /\ ~off)
      /\ off_timer' = (off_timer /\ ~off)

net_off_timer_now ==
  /\ Alive /\ off_timer
  /\ off_timer' = FALSE
  /\ radio' = FALSE
  /\ UNCHANGED <<node_mode, queue, procVars, pings, radio_mode, asked, air, rootUp, classB>>

(***************************************************************************)
(* maintenance_process: one turn of its loop, with the rest of the queue    *)
(* left for later.                                                          *)
(***************************************************************************)
\* Where the loop ends: the timer is set and the process waits for it.
LoopEnd == maint' = (IF maint = "zombie" THEN "zombie" ELSE "wait") /\ mtimer' = TRUE

MaintNeedReboot(rest) ==
  /\ node_mode = "NEED_REBOOT"
  /\ queue' = rest
  /\ maint' = "reboot_wait"
  /\ UNCHANGED <<node_mode, dag, mtimer, find, limit, status, pings, radioVars, asked>>

\* Mutant: a silent root is never given up.
MaintNormalPatient(rest) ==
  /\ node_mode = "NORMAL"
  /\ queue' = rest
  /\ status' = TRUE
  /\ find' = FALSE
  /\ LoopEnd
  /\ pings' = IF pings > MaxPings THEN 0 ELSE pings
  /\ UNCHANGED <<node_mode, dag, limit, radioVars, asked>>

MaintNormal(rest) ==
  /\ node_mode = "NORMAL"
  /\ \/ pings > MaxPings /\ watchdog_reboot
     \/ /\ pings <= MaxPings
        /\ queue' = rest
        /\ status' = TRUE
        /\ find' = FALSE
        /\ LoopEnd
        /\ UNCHANGED <<node_mode, dag, limit, pings, radioVars, asked>>

\* Mutant: the search for the root goes on under a sleeping node.
MaintNotRootSearches(rest) ==
  /\ node_mode = "NOTROOT"
  /\ \/ ~classB /\ watchdog_reboot
     \/ /\ classB
        /\ queue' = rest
        /\ status' = FALSE
        /\ maint' = "zombie"
        /\ mtimer' = TRUE
        /\ net_off_now("FREEDOM")
        /\ radio_mode' = "HOLD"
        /\ UNCHANGED <<node_mode, dag, find, limit, pings, asked>>

\* A battery node ends every process, the running one included, and switches
\* the radio off; a mains node starts again.
MaintNotRoot(rest) ==
  /\ node_mode = "NOTROOT"
  /\ \/ ~classB /\ watchdog_reboot
     \/ /\ classB
        /\ queue' = rest
        /\ find' = FALSE
        /\ status' = FALSE
        /\ maint' = "zombie"
        /\ mtimer' = TRUE
        /\ net_off_now("FREEDOM")
        /\ radio_mode' = "HOLD"
        /\ UNCHANGED <<node_mode, dag, limit, pings, asked>>

MaintJoin(rest) ==
  /\ node_mode = "JOIN_PROGRESS"
  /\ queue' = rest
  /\ radio' = (radio \/ (classB /\ radio_mode = "FREEDOM"))
  /\ radio_mode' = IF classB THEN "HOLD" ELSE radio_mode
  /\ find' = TRUE
  /\ limit' = (limit /\ find)
  /\ status' = FALSE
  /\ LoopEnd
  /\ UNCHANGED <<node_mode, dag, pings, off_timer, asked>>

maintenance_loop(rest) ==
  MaintNeedReboot(rest) \/ MaintNormal(rest) \/ MaintNotRoot(rest) \/ MaintJoin(rest)

\* process_exit(&maintenance_process); process_start(&maintenance_process):
\* its timer goes, and its PROCESS_PAUSE posts a CONTINUE.
RestartMaintenance(rest) ==
  /\ maint' = "pause"
  /\ mtimer' = FALSE
  /\ queue' = Append(rest, "maint")

(***************************************************************************)
(* The other processes' turns.                                              *)
(***************************************************************************)
\* RADIO_FREEDOM and off; then time_sync_process starts with a request for the
\* time, which switches the radio on again and sets its timer.
JoinedRadio ==
  /\ radio_mode' = IF classB THEN "FREEDOM" ELSE radio_mode
  /\ radio' = (radio \/ classB)
  /\ off_timer' = (off_timer \/ classB)

\* dag_node_process after the confirmation: the golden image may need a
\* backup and a reboot, an update on trial is confirmed.
dag_node_process(rest) ==
  /\ dag = "waiting"
  /\ dag' = "ended"
  /\ \/ /\ node_mode' = "RESET"
        /\ UNCHANGED <<queue, maint, mtimer, find, limit, status, pings, radioVars, asked>>
     \/ /\ node_mode' = "NORMAL"
        /\ queue' = rest
        /\ JoinedRadio
        /\ UNCHANGED <<maint, mtimer, find, limit, status, pings, asked>>
     \/ /\ node_mode' = "NEED_REBOOT"
        /\ RestartMaintenance(rest)
        /\ JoinedRadio
        /\ UNCHANGED <<find, limit, status, pings, asked>>

\* A root that is up answers a join packet; either packet may be lost.
send_confirmation_packet == IF rootUp /\ air < MaxAir THEN {air + 1} ELSE {}
send_join_packet         == air' \in {air} \cup send_confirmation_packet

\* Mutant: the limit is not looked at.
root_find_for_ever(rest) ==
  /\ queue' = rest
  /\ IF find /\ node_mode = "JOIN_PROGRESS" THEN send_join_packet ELSE UNCHANGED air
  /\ UNCHANGED <<node_mode, procVars, pings, radioVars, asked>>

\* The limit has passed: root_find_process restarts maintenance_process.  Its
\* process_exit hands that process a last event, and a process whose timer has
\* expired takes it for the timer's: it runs its turn before it is restarted.
FindGivesUp(rest) ==
  \/ /\ maint = "wait" /\ ~mtimer /\ ~classB
     /\ watchdog_reboot
  \/ /\ maint = "wait" /\ ~mtimer /\ classB
     /\ node_mode' = "NOTROOT"
     /\ find' = FALSE
     /\ status' = FALSE
     /\ net_off_now("FREEDOM")
     /\ radio_mode' = "HOLD"
     /\ RestartMaintenance(rest)
     /\ UNCHANGED <<dag, limit, pings, asked>>
  \/ /\ maint # "wait" \/ mtimer
     /\ node_mode' = "NOTROOT"
     /\ RestartMaintenance(rest)
     /\ UNCHANGED <<dag, find, limit, status, pings, radioVars, asked>>

\* root_find_process: ask for a confirmation, or give up after the limit.
root_find_process(rest) ==
  \/ /\ find /\ node_mode = "JOIN_PROGRESS" /\ ~limit
     /\ queue' = rest
     /\ send_join_packet
     /\ UNCHANGED <<node_mode, procVars, pings, radioVars, asked>>
  \/ /\ find /\ node_mode = "JOIN_PROGRESS" /\ limit
     /\ FindGivesUp(rest)
     /\ UNCHANGED air
  \/ /\ ~find \/ node_mode # "JOIN_PROGRESS"
     /\ queue' = rest
     /\ UNCHANGED <<node_mode, procVars, pings, radioVars, asked, air>>

\* do_event: the oldest event goes to its process if that waits for it.
DoEvent ==
  /\ Alive /\ queue # <<>>
  /\ UNCHANGED <<rootUp, classB>>
  /\ LET ev == Head(queue)  rest == Tail(queue)
     IN  \/ ev = "dag" /\ dag_node_process(rest) /\ UNCHANGED air
         \/ ev = "maint" /\ maint = "pause" /\ maintenance_loop(rest) /\ UNCHANGED air
         \/ ev = "expired" /\ maint = "wait" /\ ~mtimer
              /\ maintenance_loop(rest) /\ UNCHANGED air
         \/ ev = "tick" /\ maint \in {"wait", "zombie"} /\ ~mtimer
              /\ maintenance_loop(rest) /\ UNCHANGED air
         \/ ev = "find" /\ root_find_process(rest)
         \/ /\ \/ ev = "dag" /\ dag = "ended"
               \/ ev = "maint" /\ maint # "pause"
               \/ ev = "expired" /\ (maint # "wait" \/ mtimer)
               \/ ev = "tick" /\ (maint \notin {"wait", "zombie"} \/ mtimer)
            /\ queue' = rest
            /\ UNCHANGED <<node_mode, procVars, pings, radioVars, asked, air>>

\* A broadcast event (a button, a line on the console, the end of another
\* process) resumes a process whose timer has expired, ahead of the timer's own
\* event; that one then finds the timer set again.
Broadcast ==
  /\ Alive
  /\ UNCHANGED <<rootUp, classB>>
  /\ \/ maint = "wait" /\ ~mtimer /\ maintenance_loop(queue) /\ UNCHANGED air
     \/ find /\ \E i \in DOMAIN queue :
                 queue[i] = "find" /\ root_find_process(RemoveAt(queue, i))

(***************************************************************************)
(* Timers.                                                                  *)
(***************************************************************************)
\* MAINTENANCE_INTERVAL is ten minutes, the search for the root takes two.
MaintenanceTimer ==
  /\ Alive /\ mtimer /\ node_mode # "JOIN_PROGRESS" /\ Len(queue) < MaxQueue
  /\ mtimer' = FALSE
  /\ queue' = Append(queue, "tick")
  /\ UNCHANGED <<node_mode, dag, maint, find, limit, status, pings, radioVars, asked,
                 air, rootUp, classB>>

FindTimer ==
  /\ Alive /\ find /\ Len(queue) < MaxQueue
  /\ "find" \notin Range(queue)
  /\ queue' = Append(queue, "find")
  /\ UNCHANGED <<node_mode, procVars, pings, radioVars, asked, air, rootUp, classB>>

LimitTimer ==
  /\ Alive /\ find /\ ~limit
  /\ limit' = TRUE
  /\ UNCHANGED <<node_mode, queue, dag, maint, mtimer, find, status, pings, radioVars,
                 asked, air, rootUp, classB>>

RebootTimer ==
  /\ maint = "reboot_wait" /\ Alive
  /\ watchdog_reboot
  /\ UNCHANGED <<air, rootUp, classB>>

send_status_packet == asked' = TRUE /\ net_on_timer_off

\* status_send_process: an unreachable parent means a reboot, otherwise a
\* status packet is counted until a PONG comes, and goes out if the parent is
\* known.  (A node that is in no DAG at all only sets its timer again.)
StatusTimer ==
  /\ Alive /\ status /\ node_mode = "NORMAL"
  /\ \/ watchdog_reboot
     \/ /\ pings' = IF pings < MaxCount THEN pings + 1 ELSE pings
        /\ send_status_packet \/ UNCHANGED <<asked, radioVars>>
        /\ UNCHANGED <<node_mode, queue, procVars>>
  /\ UNCHANGED <<air, rootUp, classB>>

(***************************************************************************)
(* Packets, buttons, the root.                                              *)
(***************************************************************************)
CanReceive == Alive /\ (radio \/ RxAfterOff)

\* Mutant: the timer is stopped instead of set to expire.
JoinConfirmStopsTimer ==
  /\ CanReceive /\ air > 0 /\ Len(queue) + 1 < MaxQueue
  /\ air' = air - 1
  /\ queue' = Append(queue, "dag")
  /\ mtimer' = FALSE
  /\ UNCHANGED <<node_mode, dag, maint, find, limit, status, pings, radioVars, asked,
                 rootUp, classB>>

\* join_confirm_handler runs outside every process: its etimer_set makes the
\* timer nobody's, and its expiry is broadcast.
JoinConfirm ==
  /\ CanReceive /\ air > 0 /\ Len(queue) + 1 < MaxQueue
  /\ air' = air - 1
  /\ queue' = queue \o <<"dag", "expired">>
  /\ mtimer' = FALSE
  /\ UNCHANGED <<node_mode, dag, maint, find, limit, status, pings, radioVars, asked,
                 rootUp, classB>>

LoseConfirm ==
  /\ air > 0
  /\ air' = air - 1
  /\ UNCHANGED <<node_mode, queue, procVars, pings, radioVars, asked, rootUp, classB>>

\* The root answers status and sensor packets, and no others, with a PONG.
send_pong_packet == rootUp /\ asked

\* Mutant: a PONG pays for one status packet only.
PongCountsDown ==
  /\ CanReceive /\ send_pong_packet
  /\ asked' = FALSE
  /\ pings' = pings - 1
  /\ net_off_now(radio_mode)
  /\ UNCHANGED <<node_mode, queue, procVars, radio_mode, air, rootUp, classB>>

\* pong_handler.
Pong ==
  /\ CanReceive /\ send_pong_packet
  /\ asked' = FALSE
  /\ pings' = 0
  /\ net_off_now(radio_mode)
  /\ UNCHANGED <<node_mode, queue, procVars, radio_mode, air, rootUp, classB>>

\* Only a node in normal mode sends its sensor's events.
send_sensor_event ==
  /\ node_mode = "NORMAL"
  /\ asked' = TRUE
  /\ net_on_timer_off

\* Time requests and the report of their answer, the messages of an update and
\* UART data: sent in normal mode, and no PONG answers them.
SendPacket ==
  /\ Alive /\ node_mode = "NORMAL"
  /\ net_on_timer_off
  /\ UNCHANGED <<node_mode, queue, procVars, pings, asked, air, rootUp, classB>>

\* send_button_status_packet: an event for the root, or the end of a sleep.
ButtonClick ==
  /\ Alive
  /\ \/ node_mode = "NOTROOT" /\ watchdog_reboot
     \/ /\ send_sensor_event
        /\ UNCHANGED <<node_mode, queue, procVars, pings>>
  /\ UNCHANGED <<air, rootUp, classB>>

RootDies ==
  /\ rootUp
  /\ rootUp' = FALSE
  /\ UNCHANGED <<node_mode, queue, procVars, pings, radioVars, asked, air, classB>>

Timers == MaintenanceTimer \/ FindTimer \/ LimitTimer \/ RebootTimer \/ StatusTimer

Next ==
  \/ Boot \/ DoEvent \/ Broadcast \/ Timers \/ net_off_timer_now
  \/ JoinConfirm \/ LoseConfirm \/ Pong \/ ButtonClick \/ SendPacket \/ RootDies

Spec == Init /\ [][Next]_vars

(***************************************************************************)
(* The event loop runs and every timer that is set expires.  Nothing makes  *)
(* the root answer, a packet arrive or a user press a button.               *)
(***************************************************************************)
Fairness ==
  /\ WF_vars(Boot) /\ WF_vars(DoEvent)
  /\ WF_vars(MaintenanceTimer) /\ SF_vars(FindTimer) /\ WF_vars(LimitTimer)
  /\ WF_vars(RebootTimer) /\ WF_vars(StatusTimer) /\ WF_vars(net_off_timer_now)

FairSpec == Spec /\ Fairness

-----------------------------------------------------------------------------
(***************************************************************************)
(* Properties.                                                              *)
(***************************************************************************)
\* A battery node that gave up is silent: radio off and held off, no search,
\* no status packets, until a button starts it again.
SleepIsSilent ==
  classB /\ node_mode = "NOTROOT" /\ queue = <<>> =>
    ~radio /\ ~off_timer /\ radio_mode = "HOLD" /\ ~find /\ ~status

\* A battery node in normal mode never leaves its radio on for good.
RadioOnIsTimed ==
  classB /\ node_mode = "NORMAL" /\ radio => off_timer

\* When the root goes away for good, a mains node in normal mode starts over.
RootLossNoticed == ~classB /\ node_mode = "NORMAL" /\ ~rootUp ~> node_mode = "RESET"

\* A mains node that has joined sends its status packets, whichever process
\* the confirmation met.  (A battery node may not: a confirmation that meets
\* the end of its search finds maintenance_process outside the process list.)
StatusIsScheduled ==
  ~classB /\ node_mode = "NORMAL" ~> status \/ node_mode # "NORMAL"

\* The search for the root ends: joined, asleep or restarted.
SearchEnds == node_mode = "JOIN_PROGRESS" ~> node_mode # "JOIN_PROGRESS"

\* Behind SleepIsSilent: a battery node that gave up is silent, or the event that
\* makes it so is in the queue and maintenance_process waits for it.
Silent == ~radio /\ ~off_timer /\ radio_mode = "HOLD" /\ ~find /\ ~status

Pending(q) == \E i \in DOMAIN q : q[i] = "maint"

SilenceInv ==
  classB /\ node_mode = "NOTROOT" => Silent \/ (maint = "pause" /\ Pending(queue))
=============================================================================
