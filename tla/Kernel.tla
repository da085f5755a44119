-------------------------------- MODULE Kernel --------------------------------
(***************************************************************************)
(* What every process of a node runs on: the main loop with process_run,    *)
(* the event timers, the clock and its interrupt, and the low-power modes   *)
(* that stop the processor until an alarm.                                  *)
(*                                                                          *)
(* Time runs in units, several to a tick of the clock.  All times are kept  *)
(* relative to now, so that no counter grows.  A process is what its code   *)
(* may do to this state in one call; the processes themselves are in the    *)
(* modules of the components.                                               *)
(***************************************************************************)
EXTENDS Integers, FiniteSetsExt

CONSTANTS
  Timer,         \* the event timers of all processes
  K,             \* COMPARE_INCREMENT: units per tick
  NumEvents,     \* PROCESS_CONF_NUMEVENTS
  StandbyMin,    \* STANDBY_MIN_DURATION in units
  MinSafe,       \* MIN_SAFE_SCHEDULE in units
  MaxSleep,      \* MAX_SLEEP_TIME in units
  Farthest,      \* "the farthest possible wakeup time" in units
  MaxInterval,   \* bound: ticks a timer is set to
  MaxWork        \* bound: other interrupts, and events that processes post

ASSUME KernelAssumption ==
  /\ IsFiniteSet(Timer)
  /\ {K, NumEvents, MaxInterval} \subseteq Nat \ {0}
  /\ MaxWork \in Nat
  /\ MinSafe \in 1 .. K
  /\ StandbyMin \in MinSafe .. Farthest
  /\ {MaxSleep, Farthest} \subseteq Nat
  /\ MaxSleep >= 2 * K
  /\ Farthest >= MaxSleep /\ Farthest >= K * MaxInterval

VARIABLES
  phase,            \* units since the last tick of clock_time
  timerlist,        \* the timers on etimer.c's list
  rem,              \* ticks until a timer on the list expires, -1 when that is past
  next_expiration,  \* the same for the time that update_time has stored
  nevents,
  needspoll,        \* the polled processes: etimer_process, the others as one
  poll_requested,
  pc,               \* where the main loop is
  rfOn,             \* the radio, which forbids deep sleep
  alarm,            \* units until channel 1 of the RTC fires
  since,            \* units since last_isr_time, up to the longest interval
  work              \* bound: what is left of MaxWork

timerVars == <<timerlist, rem, next_expiration>>
pollVars  == <<nevents, needspoll, poll_requested>>
clockVars == <<phase, alarm, since>>
vars == <<timerVars, pollVars, clockVars, pc, rfOn, work>>

Past == -1
Asleep == pc \in {"sleep", "deep"}
InProcess == pc \in {"polled", "called"}

TypeOK ==
  /\ phase \in 0 .. K - 1
  /\ timerlist \subseteq Timer
  /\ rem \in [Timer -> Past .. MaxInterval]
  /\ next_expiration \in Past .. MaxInterval
  /\ nevents \in 0 .. NumEvents
  /\ needspoll \subseteq {"etimer", "other"}
  /\ poll_requested \in BOOLEAN
  /\ pc \in {"run", "poll", "polled", "etimer", "event", "called", "drop", "sleep", "deep"}
  /\ rfOn \in BOOLEAN
  /\ alarm \in 0 .. Farthest
  /\ since \in 0 .. K * MaxInterval
  /\ work \in 0 .. MaxWork

\* The processes have been started; what they have posted waits in the queue.
Init ==
  /\ phase = 0
  /\ timerlist = {}
  /\ rem = [t \in Timer |-> Past]
  /\ next_expiration = 0
  /\ nevents \in 0 .. NumEvents
  /\ needspoll = {}
  /\ poll_requested = FALSE
  /\ pc = "run"
  /\ rfOn = FALSE
  /\ alarm = K
  /\ since = 0
  /\ work = MaxWork

-----------------------------------------------------------------------------
(***************************************************************************)
(* etimer.c and the queue of process.c.                                     *)
(***************************************************************************)
\* The distances are unsigned: a time that is past is farther than any other.
update_time(list, left) ==
  LET ahead == {left[t] : t \in list} \ {Past}
  IN IF list = {} THEN 0 ELSE IF ahead = {} THEN Past ELSE Min(ahead)

SetTimers(list, left) ==
  /\ timerlist' = list
  /\ rem' = [t \in Timer |-> IF t \in list THEN left[t] ELSE Past]
  /\ next_expiration' = update_time(list, left)

process_poll(ps) ==
  /\ needspoll' = needspoll \cup ps
  /\ poll_requested' = (poll_requested \/ ps # {})

Expired == {t \in timerlist : rem[t] <= 0}

-----------------------------------------------------------------------------
(***************************************************************************)
(* Time and interrupts.                                                     *)
(***************************************************************************)
Passed(n) == IF n > Past THEN n - 1 ELSE Past

TimePasses ==
  /\ alarm > 0
  /\ alarm' = alarm - 1
  /\ since' = Min({since + 1, K * MaxInterval})
  /\ phase' = (phase + 1) % K
  /\ IF phase' = 0
     THEN /\ rem' = [t \in Timer |-> Passed(rem[t])]
          /\ next_expiration' = Passed(next_expiration)
     ELSE UNCHANGED <<rem, next_expiration>>
  /\ UNCHANGED <<timerlist, pollVars, pc, rfOn, work>>

\* The end of lpm_sleep or deep_sleep: back to the main loop.
WakeUp == pc' = IF Asleep THEN "run" ELSE pc

\* Mutant: the tick does not poll etimer_process.
clock_update_silent == {}

clock_update == IF timerlist # {} THEN {"etimer"} ELSE {}

\* The next alarm is on the boundary of a tick, and not on the next boundary when
\* that is less than 5 units of the RTC away.
soc_rtc_isr ==
  /\ alarm = 0
  /\ since' = 0
  /\ process_poll(clock_update)
  /\ \/ alarm' = K - phase
     \/ phase = K - 1 /\ alarm' = 2 * K - phase
  /\ WakeUp
  /\ UNCHANGED <<timerVars, nevents, phase, rfOn, work>>

\* The radio, the UART or a pin; its handler may poll a process.  wake_up, after a
\* deep sleep, updates the clock.  None of them schedules an alarm.
OtherInterrupt ==
  /\ work > 0
  /\ work' = work - 1
  /\ \E ps \in {{}, {"other"}} :
       process_poll(ps \cup (IF pc = "deep" THEN clock_update ELSE {}))
  /\ WakeUp
  /\ UNCHANGED <<timerVars, nevents, clockVars, rfOn>>

-----------------------------------------------------------------------------
(***************************************************************************)
(* process_run, one call after the other.                                   *)
(***************************************************************************)
process_run ==
  /\ pc = "run"
  /\ pc' = IF poll_requested THEN "poll" ELSE "event"
  /\ poll_requested' = FALSE
  /\ UNCHANGED <<timerVars, nevents, needspoll, clockVars, rfOn, work>>

\* do_poll walks the list of the processes: etimer_process was started first and
\* is the last of them.
PollOther ==
  /\ pc = "poll"
  /\ needspoll' = needspoll \ {"other"}
  /\ pc' = IF "other" \in needspoll THEN "polled" ELSE "etimer"
  /\ UNCHANGED <<timerVars, nevents, poll_requested, clockVars, rfOn, work>>

\* etimer_process posts an event for every timer that has expired while there is
\* room, and asks to be polled again for the others.
PostExpired ==
  \E posted \in kSubset(Min({Cardinality(Expired), NumEvents - nevents}), Expired) :
    /\ nevents' = nevents + Cardinality(posted)
    /\ IF posted = {} THEN UNCHANGED timerVars ELSE SetTimers(timerlist \ posted, rem)
    /\ LET again == IF posted = Expired THEN {} ELSE {"etimer"}
       IN /\ needspoll' = (needspoll \ {"etimer"}) \cup again
          /\ poll_requested' = (poll_requested \/ again # {})

PollEtimer ==
  /\ pc = "etimer"
  /\ pc' = "event"
  /\ IF "etimer" \in needspoll THEN PostExpired ELSE UNCHANGED <<timerVars, pollVars>>
  /\ UNCHANGED <<clockVars, rfOn, work>>

\* The return value of process_run decides between another round and lpm_drop.
AfterRun(events) == IF events > 0 \/ poll_requested THEN "run" ELSE "drop"

do_event ==
  /\ pc = "event"
  /\ IF nevents > 0
     THEN nevents' = nevents - 1 /\ pc' = "called"
     ELSE nevents' = nevents /\ pc' = AfterRun(0)
  /\ UNCHANGED <<timerVars, needspoll, poll_requested, clockVars, rfOn, work>>

Return ==
  /\ InProcess
  /\ pc' = IF pc = "polled" THEN "etimer" ELSE AfterRun(nevents)
  /\ UNCHANGED <<timerVars, pollVars, clockVars, rfOn, work>>

-----------------------------------------------------------------------------
(***************************************************************************)
(* What a process may do while it is called.                                *)
(***************************************************************************)
\* Mutant: add_timer without its last update_time.
etimer_set_lazy(t, left) ==
  /\ timerlist' = timerlist \cup {t}
  /\ rem' = [rem EXCEPT ![t] = left]
  /\ next_expiration' = IF timerlist = {} THEN left ELSE next_expiration
  /\ process_poll({"etimer"})
  /\ UNCHANGED nevents

\* etimer_set and etimer_restart with an interval of left; etimer_reset counts
\* from the last expiration, which may put the time into the past.
etimer_set(t, left) ==
  /\ SetTimers(timerlist \cup {t}, [rem EXCEPT ![t] = left])
  /\ process_poll({"etimer"})
  /\ UNCHANGED nevents

etimer_stop(t) ==
  /\ t \in timerlist
  /\ SetTimers(timerlist \ {t}, rem)
  /\ UNCHANGED pollVars

\* exit_process: etimer_process drops the timers of the process, and leaves
\* next_expiration as it is.
process_exit(ts) ==
  /\ ts # {}
  /\ timerlist' = timerlist \ ts
  /\ rem' = [t \in Timer |-> IF t \in ts THEN Past ELSE rem[t]]
  /\ UNCHANGED <<next_expiration, pollVars>>

\* Mutant: the queue is not looked at.
process_post_unchecked ==
  /\ nevents' = nevents + 1
  /\ UNCHANGED <<timerVars, needspoll, poll_requested>>

process_post ==
  /\ nevents' = Min({nevents + 1, NumEvents})
  /\ UNCHANGED <<timerVars, needspoll, poll_requested>>

Process ==
  /\ InProcess
  /\ \/ /\ \/ \E t \in Timer, left \in Past .. MaxInterval : etimer_set(t, left)
           \/ \E t \in Timer : etimer_stop(t)
           \/ \E ts \in SUBSET timerlist : process_exit(ts)
        /\ UNCHANGED <<rfOn, work>>
     \/ /\ work > 0
        /\ work' = work - 1
        /\ process_post
        /\ UNCHANGED rfOn
     \/ /\ rfOn' = ~rfOn
        /\ UNCHANGED <<timerVars, pollVars, work>>
  /\ UNCHANGED <<clockVars, pc>>

-----------------------------------------------------------------------------
(***************************************************************************)
(* lpm_drop, with interrupts disabled.                                      *)
(***************************************************************************)
\* Mutant: a poll that came in since process_run returned is not seen.
process_nevents_queued == nevents > 0

process_nevents == nevents > 0 \/ poll_requested

\* check_next_etimer: a whole number of ticks, counted from the last interrupt of
\* the RTC and not from now.
until_next_etimer == next_expiration * K - since

\* The mode that the events, the radio and the next timer allow.  A next rtimer
\* would allow less (check_next_rtimer, lpm.c 254): this build sets none.
setup_sleep_mode ==
  IF process_nevents \/ (timerlist # {} /\ next_expiration < 1) THEN "run"
  ELSE IF rfOn \/ (timerlist # {} /\ until_next_etimer < StandbyMin) THEN "sleep"
  ELSE "deep"

SleepAlarm ==
  IF timerlist = {} THEN MaxSleep ELSE Max({MinSafe, Min({until_next_etimer, MaxSleep})})

DeepSleepAlarm == IF timerlist = {} THEN Farthest ELSE until_next_etimer

lpm_drop ==
  /\ pc = "drop"
  /\ pc' = setup_sleep_mode
  /\ alarm' = CASE pc' = "run"   -> alarm
               [] pc' = "sleep" -> SleepAlarm
               [] pc' = "deep"  -> DeepSleepAlarm
  /\ UNCHANGED <<timerVars, pollVars, phase, since, rfOn, work>>

-----------------------------------------------------------------------------
MainLoop == process_run \/ PollOther \/ PollEtimer \/ do_event \/ Return \/ lpm_drop

Next == TimePasses \/ soc_rtc_isr \/ OtherInterrupt \/ MainLoop \/ Process

\* The clock runs, a pending interrupt is taken, and every call of a process
\* returns.
Fairness == WF_vars(TimePasses) /\ WF_vars(soc_rtc_isr) /\ WF_vars(MainLoop)

Spec == Init /\ [][Next]_vars /\ Fairness

-----------------------------------------------------------------------------
(***************************************************************************)
(* Properties.                                                              *)
(***************************************************************************)
\* No event is left in the queue and no poll is forgotten when the processor stops,
\* though interrupts poll between any two steps of process_run and between its
\* return and lpm_drop.
SleepsWithNothingToDo == Asleep => nevents = 0 /\ needspoll = {}

\* The alarm of a sleeping node comes no later than the tick on which any of its
\* timers expires, although lpm_drop knows one stored time only, and counts it from
\* an interrupt that may be long ago.  Timers that were past before are excepted:
\* update_time takes them for the farthest (OverdueFires).
WakesInTime ==
  Asleep => \A t \in timerlist :
    rem[t] # Past => alarm <= rem[t] * K - phase + (K - 1)

\* Behind SleepsWithNothingToDo: a poll that do_poll will not come to any more in
\* this round is requested for the next one.
PollInv ==
  /\ "other" \in needspoll => poll_requested \/ pc = "poll"
  /\ "etimer" \in needspoll => poll_requested \/ pc \in {"poll", "polled", "etimer"}

\* Behind WakesInTime: the stored time is not behind any timer that is to expire.
StoredTimeInv == \A t \in timerlist : rem[t] # Past => next_expiration <= rem[t]

\* There is no room in the queue for the events of all timers that have expired.
Overloaded == pc = "etimer" /\ Cardinality(Expired) > NumEvents - nevents

Overdue(t) == t \in timerlist /\ rem[t] = Past

\* A timer that is past its time is delivered in the end (or stopped), also when the
\* queue was full or when the node stopped ticking; with three timers or more, also
\* when it fell asleep over the timer, which is past while the stored time is another
\* one's.  Only processes that keep the queue full for ever can prevent it.
OverdueFires == <>[]~Overloaded => \A t \in Timer : Overdue(t) ~> ~Overdue(t)
=============================================================================
