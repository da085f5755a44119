----------------------------- MODULE KernelProofs -----------------------------
(***************************************************************************)
(* Theorems about Kernel for every set of timers, queue length, tick and    *)
(* sleep limit: the node falls asleep with nothing left to do, and its      *)
(* alarm comes in time for every timer.  PollInv and StoredTimeInv are the  *)
(* strengthenings; that overdue timers fire is liveness and left to TLC.    *)
(***************************************************************************)
EXTENDS Kernel, FiniteSetTheorems, WellFoundedInduction, TLAPS

\* A nonempty set of times has a least one, and Min is it (update_time's loop).
LEMMA MinOfNat ==
  ASSUME NEW S \in SUBSET Nat, S # {}
  PROVE  Min(S) \in S /\ \A x \in S : Min(S) <= x
<1>1. \E x \in S : \A y \in S : x <= y
  <2> DEFINE R == OpToRel(<, Nat)
  <2>1. IsWellFoundedOn(R, Nat)
    BY NatLessThanWellFounded
  <2>2. \A x, y \in Nat : <<x, y>> \in R <=> x < y
    BY DEF OpToRel
  <2> HIDE DEF R
  <2>3. PICK x \in S : \A y \in S : ~(<<y, x>> \in R)
    BY <2>1, WFMin
  <2>4. \A y \in S : ~(y < x)
    BY <2>2, <2>3, Zenon
  <2>5. \A y \in S : x <= y
    BY <2>4
  <2>q. QED
    BY <2>5
<1>q. QED
  BY <1>1 DEF Min

\* The smaller and the larger of two times.
LEMMA MinMaxOfTwo ==
  ASSUME NEW a \in Int, NEW b \in Int
  PROVE  /\ Min({a, b}) = IF a <= b THEN a ELSE b
         /\ Max({a, b}) = IF a >= b THEN a ELSE b
<1>1. \E x \in {a, b} : \A y \in {a, b} : x <= y
  OBVIOUS
<1>2. \E x \in {a, b} : \A y \in {a, b} : x >= y
  OBVIOUS
<1>3. Min({a, b}) \in {a, b} /\ \A y \in {a, b} : Min({a, b}) <= y
  BY <1>1 DEF Min
<1>4. Max({a, b}) \in {a, b} /\ \A y \in {a, b} : Max({a, b}) >= y
  BY <1>2 DEF Max
<1>q. QED
  BY <1>3, <1>4

\* update_time stores a time of the list, and one that is not behind any timer
\* that is still to expire.
LEMMA UpdateTime ==
  ASSUME NEW list \in SUBSET Timer, NEW left \in [Timer -> Past .. MaxInterval]
  PROVE  /\ update_time(list, left) \in Past .. MaxInterval
         /\ \A t \in list : left[t] # Past => update_time(list, left) <= left[t]
<1> DEFINE ahead == {left[t] : t \in list} \ {Past}
<1>0. MaxInterval \in Nat
  BY KernelAssumption
<1>1. ahead \in SUBSET (0 .. MaxInterval)
  BY DEF Past
<1>2. CASE list = {} \/ ahead = {}
  BY <1>2, <1>0 DEF update_time, Past
<1>3. CASE list # {} /\ ahead # {}
  <2>1. Min(ahead) \in ahead /\ \A x \in ahead : Min(ahead) <= x
    <3>1. ahead \in SUBSET Nat
      BY <1>1
    <3>q. QED
      BY <1>3, <3>1, MinOfNat
  <2>2. update_time(list, left) = Min(ahead)
    BY <1>3 DEF update_time
  <2>3. \A t \in list : left[t] # Past => left[t] \in ahead
    OBVIOUS
  <2>4. Min(ahead) \in Past .. MaxInterval
    BY <1>0, <1>1, <2>1 DEF Past
  <2>5. \A t \in list : left[t] # Past => Min(ahead) <= left[t]
    BY <2>1, <2>3
  <2> HIDE DEF ahead
  <2>q. QED
    BY <2>2, <2>4, <2>5
<1>q. QED
  BY <1>2, <1>3
\* PostExpired never posts more than the queue has room for, and none is left
\* expired unless the queue is full.
LEMMA PostFits ==
  ASSUME TypeOK,
         NEW posted \in kSubset(Min({Cardinality(Expired), NumEvents - nevents}), Expired)
  PROVE  posted \subseteq timerlist /\ nevents + Cardinality(posted) \in 0 .. NumEvents
<1>1. Expired \in SUBSET Timer /\ IsFiniteSet(Timer)
  BY KernelAssumption DEF TypeOK, Expired
<1>2. IsFiniteSet(Expired)
  BY <1>1, FS_Subset
<1>3. Cardinality(Expired) \in Nat
  BY <1>2, FS_CardinalityType
<1>4. NumEvents \in Nat /\ nevents \in 0 .. NumEvents /\ NumEvents - nevents \in Int
  BY KernelAssumption DEF TypeOK
<1>5. posted \in SUBSET Expired
      /\ Cardinality(posted) = Min({Cardinality(Expired), NumEvents - nevents})
  BY DEF kSubset
<1>6. Cardinality(posted) = IF Cardinality(Expired) <= NumEvents - nevents
                            THEN Cardinality(Expired) ELSE NumEvents - nevents
  BY <1>3, <1>4, <1>5, MinMaxOfTwo
<1>7. nevents + Cardinality(posted) \in 0 .. NumEvents
  BY <1>3, <1>4, <1>6
<1>q. QED
  BY <1>5, <1>7 DEF Expired

\* SetTimers keeps the types and makes the stored time good for the new list.
LEMMA SetTimersInv ==
  ASSUME NEW list \in SUBSET Timer, NEW left \in [Timer -> Past .. MaxInterval],
         SetTimers(list, left)
  PROVE  /\ timerlist' \subseteq Timer
         /\ rem' \in [Timer -> Past .. MaxInterval]
         /\ next_expiration' \in Past .. MaxInterval
         /\ StoredTimeInv'
<1>1. /\ timerlist' = list
      /\ rem' = [t \in Timer |-> IF t \in list THEN left[t] ELSE Past]
      /\ next_expiration' = update_time(list, left)
  BY DEF SetTimers
<1>2. Past \in Past .. MaxInterval
  BY KernelAssumption DEF Past
<1>3. rem' \in [Timer -> Past .. MaxInterval]
  BY <1>1, <1>2
<1>4. /\ next_expiration' \in Past .. MaxInterval
      /\ \A t \in list : left[t] # Past => next_expiration' <= left[t]
  BY <1>1, UpdateTime
<1>5. StoredTimeInv'
  BY <1>1, <1>4 DEF StoredTimeInv
<1>q. QED
  BY <1>1, <1>3, <1>4, <1>5

\* What the constants' assumption says of each of them.
LEMMA Constants ==
  /\ IsFiniteSet(Timer)
  /\ K \in Nat /\ K >= 1 /\ NumEvents \in Nat /\ MaxInterval \in Nat /\ MaxWork \in Nat
  /\ MinSafe \in Nat /\ 1 <= MinSafe /\ MinSafe <= K
  /\ StandbyMin \in Int /\ MinSafe <= StandbyMin
  /\ MaxSleep \in Nat /\ Farthest \in Nat /\ 2 * K <= MaxSleep /\ MaxSleep <= Farthest
  /\ K * MaxInterval \in Nat /\ K * MaxInterval <= Farthest
BY KernelAssumption

\* One tick less is K units less.
LEMMA TicksToUnits ==
  ASSUME NEW r \in Int, NEW s \in Int, NEW k \in Nat
  PROVE  /\ r * k \in Int
         /\ (r - 1) * k = r * k - k
         /\ r <= s => r * k <= s * k
         /\ r >= 1 => r * k >= k
OBVIOUS

-----------------------------------------------------------------------------
(***************************************************************************)
(* The inductive invariant.                                                 *)
(***************************************************************************)
KernelInv == TypeOK /\ PollInv /\ StoredTimeInv /\ SleepsWithNothingToDo /\ WakesInTime

\* The state after the start of the processes.
LEMMA InitKernelInv == Init => KernelInv
<1>1. Init => TypeOK
  <2>1. 0 \in 0 .. K * MaxInterval /\ K \in 0 .. Farthest /\ 0 \in 0 .. K - 1
    BY Constants
  <2>2. Past \in Past .. MaxInterval /\ 0 \in Past .. MaxInterval /\ MaxWork \in 0 .. MaxWork
    BY Constants DEF Past
  <2>q. QED
    BY <2>1, <2>2 DEF Init, TypeOK
<1>q. QED
  BY <1>1 DEF Init, KernelInv, PollInv, StoredTimeInv, SleepsWithNothingToDo, WakesInTime, Asleep


\* A unit of time: the alarm and the ticks left of every timer get closer together.
LEMMA TimePassesInv == KernelInv /\ TimePasses => KernelInv'
<1> SUFFICES ASSUME KernelInv, TimePasses PROVE KernelInv'
  OBVIOUS
<1>i. TypeOK /\ PollInv /\ StoredTimeInv /\ SleepsWithNothingToDo /\ WakesInTime
  BY DEF KernelInv
<1>t. /\ phase \in Int /\ 0 <= phase /\ phase <= K - 1 /\ alarm \in Int /\ alarm > 0
      /\ alarm <= Farthest /\ since \in Int /\ 0 <= since /\ since <= K * MaxInterval
      /\ next_expiration \in Past .. MaxInterval /\ rem \in [Timer -> Past .. MaxInterval]
      /\ timerlist \subseteq Timer
  BY <1>i, Constants DEF TypeOK, TimePasses
<1>u. /\ UNCHANGED <<timerlist, nevents, needspoll, poll_requested, pc, rfOn, work>>
      /\ alarm' = alarm - 1
  BY DEF TimePasses, pollVars
<1>1. phase' = IF phase = K - 1 THEN 0 ELSE phase + 1
  <2>1. phase' = (phase + 1) % K
    BY DEF TimePasses
  <2>2. phase < K - 1 => (phase + 1) % K = phase + 1
    BY <1>t, Constants
  <2>3. K % K = 0
    BY Constants
  <2>q. QED
    BY <1>t, <2>1, <2>2, <2>3, Constants
<1>2. since' \in 0 .. K * MaxInterval
  <2>1. since' = IF since + 1 <= K * MaxInterval THEN since + 1 ELSE K * MaxInterval
    BY <1>t, Constants, MinMaxOfTwo DEF TimePasses
  <2>q. QED
    BY <1>t, <2>1, Constants
<1>3. \/ /\ phase' = 0 /\ phase = K - 1
         /\ rem' = [t \in Timer |-> Passed(rem[t])]
         /\ next_expiration' = Passed(next_expiration)
      \/ phase' = phase + 1 /\ UNCHANGED <<rem, next_expiration>>
  BY <1>1, <1>t, Constants DEF TimePasses
<1>4. \A n \in Past .. MaxInterval : Passed(n) \in Past .. MaxInterval
  BY Constants DEF Passed, Past
<1>5. TypeOK'
  <2>1. phase' \in 0 .. K - 1 /\ alarm' \in 0 .. Farthest
    BY <1>t, <1>u, <1>1, Constants
  <2>2. rem' \in [Timer -> Past .. MaxInterval] /\ next_expiration' \in Past .. MaxInterval
    BY <1>t, <1>3, <1>4
  <2>q. QED
    BY <1>i, <1>u, <1>2, <2>1, <2>2 DEF TypeOK
<1>6. PollInv' /\ SleepsWithNothingToDo'
  BY <1>i, <1>u DEF PollInv, SleepsWithNothingToDo, Asleep
<1>7. StoredTimeInv'
  BY <1>i, <1>t, <1>u, <1>3, Constants DEF StoredTimeInv, Passed, Past
<1>8. WakesInTime'
  <2> SUFFICES ASSUME Asleep', NEW t \in timerlist', rem'[t] # Past
               PROVE  alarm' <= rem'[t] * K - phase' + (K - 1)
    BY DEF WakesInTime
  <2>1. t \in timerlist /\ t \in Timer /\ Asleep /\ rem[t] \in Past .. MaxInterval
    BY <1>t, <1>u DEF Asleep
  <2>2. rem[t] # Past /\ rem[t] \in Int /\ rem[t] * K \in Int
    BY <1>3, <2>1, Constants DEF Passed, Past
  <2>3. alarm <= rem[t] * K - phase + (K - 1)
    BY <1>i, <2>1, <2>2 DEF WakesInTime
  <2>4. CASE phase' = phase + 1 /\ UNCHANGED <<rem, next_expiration>>
    BY <1>t, <1>u, <2>2, <2>3, <2>4, Constants
  <2>5. CASE phase' = 0 /\ phase = K - 1 /\ rem' = [x \in Timer |-> Passed(rem[x])]
    <3>1. rem'[t] = rem[t] - 1
      BY <2>1, <2>2, <2>5 DEF Passed, Past
    <3>2. rem'[t] * K = rem[t] * K - K
      BY <2>2, <3>1, Constants, TicksToUnits
    <3>q. QED
      BY <1>t, <1>u, <2>2, <2>3, <2>5, <3>2, Constants
  <2>q. QED
    BY <1>3, <2>4, <2>5
<1>q. QED
  BY <1>5, <1>6, <1>7, <1>8 DEF KernelInv

\* lpm_drop stops the processor only when nothing waits, and sets the alarm to no
\* more than the stored time allows.
LEMMA DropInv == KernelInv /\ lpm_drop => KernelInv'
<1> SUFFICES ASSUME KernelInv, lpm_drop PROVE KernelInv'
  OBVIOUS
<1>i. TypeOK /\ PollInv /\ StoredTimeInv
  BY DEF KernelInv
<1>t. /\ phase \in Int /\ 0 <= phase /\ phase <= K - 1
      /\ since \in Int /\ 0 <= since
      /\ next_expiration \in Int /\ next_expiration <= MaxInterval
      /\ next_expiration * K \in Int
      /\ nevents \in Nat /\ rem \in [Timer -> Past .. MaxInterval] /\ timerlist \subseteq Timer
  BY <1>i, Constants DEF TypeOK, Past
<1>u. /\ UNCHANGED <<timerlist, rem, next_expiration, nevents, needspoll, poll_requested,
                     phase, since, rfOn, work>>
      /\ pc = "drop" /\ pc' = setup_sleep_mode /\ pc' \in {"run", "sleep", "deep"}
  BY DEF lpm_drop, timerVars, pollVars, setup_sleep_mode
<1>c. next_expiration * K <= K * MaxInterval
  <2>1. next_expiration * K <= MaxInterval * K
    BY <1>t, Constants, TicksToUnits
  <2>2. MaxInterval * K = K * MaxInterval
    BY Constants
  <2>q. QED
    BY <2>1, <2>2
<1>1. CASE pc' = "run"
  <2>1. alarm' = alarm
    BY <1>1 DEF lpm_drop
  <2>2. TypeOK'
    BY <1>i, <1>u, <2>1 DEF TypeOK
  <2>q. QED
    BY <1>i, <1>u, <1>1, <2>2
    DEF KernelInv, PollInv, StoredTimeInv, SleepsWithNothingToDo, WakesInTime, Asleep
<1>2. CASE pc' \in {"sleep", "deep"}
  <2>1. ~process_nevents /\ (timerlist # {} => next_expiration >= 1)
    BY <1>2, <1>t, <1>u DEF setup_sleep_mode
  <2>2. nevents = 0 /\ ~poll_requested
    BY <2>1, <1>t DEF process_nevents
  <2>3. PollInv' /\ SleepsWithNothingToDo'
    <3>1. needspoll = {}
      <4>1. "other" \notin needspoll /\ "etimer" \notin needspoll
        BY <1>i, <1>u, <2>2 DEF PollInv
      <4>q. QED
        BY <4>1, <1>i DEF TypeOK
    <3>q. QED
      BY <1>u, <2>2, <3>1 DEF PollInv, SleepsWithNothingToDo
  <2>4. /\ alarm' \in 0 .. Farthest
        /\ timerlist # {} => alarm' <= next_expiration * K \/ alarm' = MinSafe
    <3>1. CASE pc' = "sleep" /\ timerlist = {}
      BY <3>1, Constants DEF lpm_drop, SleepAlarm
    <3>2. CASE pc' = "sleep" /\ timerlist # {}
      <4>1. until_next_etimer \in Int /\ until_next_etimer <= next_expiration * K
        BY <1>t DEF until_next_etimer
      <4> DEFINE nearest == Min({until_next_etimer, MaxSleep})
      <4>2. alarm' = Max({MinSafe, nearest})
        BY <3>2 DEF lpm_drop, SleepAlarm
      <4>3. nearest = IF until_next_etimer <= MaxSleep THEN until_next_etimer ELSE MaxSleep
        BY <4>1, Constants, MinMaxOfTwo
      <4>4. nearest \in Int
        BY <4>1, <4>3, Constants
      <4> HIDE DEF nearest
      <4>5. alarm' = IF MinSafe >= nearest THEN MinSafe ELSE nearest
        <5>1. MinSafe \in Int
          BY Constants
        <5>2. Max({MinSafe, nearest}) = IF MinSafe >= nearest THEN MinSafe ELSE nearest
          BY <4>4, <5>1, MinMaxOfTwo
        <5>q. QED
          BY <4>2, <5>2
      <4>q. QED
        BY <1>t, <4>1, <4>3, <4>5, Constants
    <3>3. CASE pc' = "deep" /\ timerlist = {}
      BY <3>3, Constants DEF lpm_drop, DeepSleepAlarm
    <3>4. CASE pc' = "deep" /\ timerlist # {}
      <4>1. alarm' = until_next_etimer
        BY <3>4 DEF lpm_drop, DeepSleepAlarm
      <4>2. until_next_etimer = next_expiration * K - since
        BY DEF until_next_etimer
      <4>3. ~(until_next_etimer < StandbyMin)
        BY <3>4, <1>u DEF setup_sleep_mode
      <4>q. QED
        BY <1>t, <1>c, <4>1, <4>2, <4>3, Constants
    <3>q. QED
      BY <1>2, <3>1, <3>2, <3>3, <3>4
  <2>5. WakesInTime'
    <3> SUFFICES ASSUME NEW t \in timerlist, rem[t] # Past
                 PROVE  alarm' <= rem[t] * K - phase + (K - 1)
      BY <1>u DEF WakesInTime
    <3>1. rem[t] \in Int /\ next_expiration <= rem[t] /\ 1 <= next_expiration
      BY <1>i, <1>t, <2>1, Constants DEF StoredTimeInv, Past
    <3>2. /\ next_expiration * K <= rem[t] * K /\ K <= rem[t] * K
          /\ rem[t] * K \in Int
      BY <1>t, <3>1, Constants, TicksToUnits
    <3>q. QED
      BY <1>t, <2>4, <3>2, Constants
  <2>6. TypeOK'
    BY <1>i, <1>u, <2>4 DEF TypeOK
  <2>7. StoredTimeInv'
    BY <1>i, <1>u DEF StoredTimeInv
  <2>q. QED
    BY <2>3, <2>5, <2>6, <2>7 DEF KernelInv
<1>q. QED
  BY <1>u, <1>1, <1>2


\* Interrupts: what they poll is requested, and a sleeping node is awake after them.
LEMMA InterruptInv == KernelInv /\ (soc_rtc_isr \/ OtherInterrupt) => KernelInv'
<1> SUFFICES ASSUME KernelInv, soc_rtc_isr \/ OtherInterrupt PROVE KernelInv'
  OBVIOUS
<1>i. TypeOK /\ PollInv /\ StoredTimeInv
  BY DEF KernelInv
<1>1. PICK ps \in SUBSET {"etimer", "other"} : process_poll(ps)
  <2>1. CASE soc_rtc_isr
    BY <2>1 DEF soc_rtc_isr, clock_update
  <2>2. CASE OtherInterrupt
    <3>1. PICK qs \in {{}, {"other"}} :
            process_poll(qs \cup (IF pc = "deep" THEN clock_update ELSE {}))
      BY <2>2 DEF OtherInterrupt
    <3>2. (qs \cup (IF pc = "deep" THEN clock_update ELSE {})) \in SUBSET {"etimer", "other"}
      BY DEF clock_update
    <3>q. QED
      BY <3>1, <3>2
  <2>q. QED
    BY <2>1, <2>2
<1>2. needspoll' = needspoll \cup ps /\ poll_requested' = (poll_requested \/ ps # {})
  BY <1>1 DEF process_poll
<1>3. /\ UNCHANGED <<timerlist, rem, next_expiration, nevents, phase, rfOn>>
      /\ pc' = IF Asleep THEN "run" ELSE pc
  BY DEF soc_rtc_isr, OtherInterrupt, WakeUp, timerVars, clockVars
<1>4. alarm' \in 0 .. Farthest /\ since' \in 0 .. K * MaxInterval /\ work' \in 0 .. MaxWork
  <2>1. CASE soc_rtc_isr
    <3>1. phase \in 0 .. K - 1 /\ work \in 0 .. MaxWork
      BY <1>i DEF TypeOK
    <3>2. /\ alarm' = K - phase \/ (phase = K - 1 /\ alarm' = 2 * K - phase)
          /\ since' = 0 /\ work' = work
      BY <2>1 DEF soc_rtc_isr
    <3>q. QED
      BY <3>1, <3>2, Constants
  <2>2. CASE OtherInterrupt
    BY <2>2, <1>i, Constants DEF OtherInterrupt, clockVars, TypeOK
  <2>q. QED
    BY <2>1, <2>2
<1>5. pc' \notin {"sleep", "deep"}
  BY <1>3 DEF Asleep
<1>6. needspoll' \subseteq {"etimer", "other"} /\ poll_requested' \in BOOLEAN
  BY <1>i, <1>2 DEF TypeOK
<1>7. TypeOK'
  BY <1>i, <1>3, <1>4, <1>6 DEF TypeOK, Asleep
<1>8. PollInv'
  <2>1. ASSUME NEW p \in ps PROVE poll_requested'
    BY <1>2, <2>1
  <2>2. pc' = pc \/ Asleep
    BY <1>3
  <2>q. QED
    BY <1>i, <1>2, <2>1, <2>2 DEF PollInv, Asleep
<1>9. StoredTimeInv' /\ SleepsWithNothingToDo' /\ WakesInTime'
  BY <1>i, <1>3, <1>5 DEF StoredTimeInv, SleepsWithNothingToDo, WakesInTime, Asleep
<1>q. QED
  BY <1>7, <1>8, <1>9 DEF KernelInv

\* The steps of process_run before lpm_drop: a poll is forgotten only when it is
\* carried out.
LEMMA RunInv == KernelInv /\ MainLoop => KernelInv'
<1> SUFFICES ASSUME KernelInv, MainLoop, ~lpm_drop PROVE KernelInv'
  BY DropInv
<1>i. TypeOK /\ PollInv /\ StoredTimeInv
  BY DEF KernelInv
<1>n. nevents \in 0 .. NumEvents /\ NumEvents \in Nat
  BY <1>i, Constants DEF TypeOK
<1>1. UNCHANGED <<phase, alarm, since, rfOn, work>> /\ pc' \notin {"sleep", "deep"}
  BY DEF MainLoop, process_run, PollOther, PollEtimer, do_event, Return, clockVars, AfterRun
<1>2. CASE process_run
  BY <1>2, <1>i, <1>1 DEF process_run, KernelInv, TypeOK, PollInv, StoredTimeInv,
     SleepsWithNothingToDo, WakesInTime, Asleep, timerVars
<1>3. CASE PollOther
  BY <1>3, <1>i, <1>1 DEF PollOther, KernelInv, TypeOK, PollInv, StoredTimeInv,
     SleepsWithNothingToDo, WakesInTime, Asleep, timerVars
<1>4. CASE PollEtimer
  <2>0. pc = "etimer" /\ pc' = "event"
    BY <1>4 DEF PollEtimer
  <2>1. CASE "etimer" \notin needspoll
    BY <1>4, <2>1, <1>i, <1>1 DEF PollEtimer, KernelInv, TypeOK, PollInv, StoredTimeInv,
       SleepsWithNothingToDo, WakesInTime, Asleep, timerVars, pollVars
  <2>2. CASE "etimer" \in needspoll
    <3>1. PICK posted \in kSubset(Min({Cardinality(Expired), NumEvents - nevents}), Expired) :
            /\ nevents' = nevents + Cardinality(posted)
            /\ IF posted = {} THEN UNCHANGED timerVars ELSE SetTimers(timerlist \ posted, rem)
            /\ LET again == IF posted = Expired THEN {} ELSE {"etimer"}
               IN /\ needspoll' = (needspoll \ {"etimer"}) \cup again
                  /\ poll_requested' = (poll_requested \/ again # {})
      BY <1>4, <2>2 DEF PollEtimer, PostExpired
    <3>2. nevents' \in 0 .. NumEvents
      BY <1>i, <3>1, PostFits
    <3>3. /\ timerlist' \subseteq Timer /\ rem' \in [Timer -> Past .. MaxInterval]
          /\ next_expiration' \in Past .. MaxInterval /\ StoredTimeInv'
      <4>1. CASE posted = {}
        BY <3>1, <4>1, <1>i DEF timerVars, TypeOK, StoredTimeInv
      <4>2. CASE posted # {}
        BY <3>1, <4>2, <1>i, SetTimersInv DEF TypeOK
      <4>q. QED
        BY <4>1, <4>2
    <3>4. PICK again \in {{}, {"etimer"}} :
            /\ needspoll' = (needspoll \ {"etimer"}) \cup again
            /\ poll_requested' = (poll_requested \/ again # {})
      BY <3>1
    <3>5. PollInv'
      BY <1>i, <2>0, <3>4 DEF PollInv
    <3>6. TypeOK'
      BY <1>i, <1>1, <2>0, <3>2, <3>3, <3>4 DEF TypeOK
    <3>q. QED
      BY <1>1, <3>3, <3>5, <3>6 DEF KernelInv, SleepsWithNothingToDo, WakesInTime, Asleep
  <2>q. QED
    BY <2>1, <2>2
<1>5. CASE do_event
  <2>1. nevents' \in 0 .. NumEvents
    BY <1>5, <1>n DEF do_event
  <2>2. /\ UNCHANGED <<timerlist, rem, next_expiration, needspoll, poll_requested>>
        /\ pc = "event" /\ pc' \in {"called", "run", "drop"}
    BY <1>5 DEF do_event, AfterRun, timerVars
  <2>q. QED
    BY <1>i, <1>1, <2>1, <2>2 DEF KernelInv, TypeOK, PollInv, StoredTimeInv,
       SleepsWithNothingToDo, WakesInTime, Asleep
<1>6. CASE Return
  <2>1. /\ UNCHANGED <<timerlist, rem, next_expiration, nevents, needspoll, poll_requested>>
        /\ \/ pc = "polled" /\ pc' = "etimer"
           \/ pc = "called" /\ pc' \in {"run", "drop"}
    BY <1>6 DEF Return, InProcess, AfterRun, timerVars, pollVars
  <2>q. QED
    BY <1>i, <1>1, <2>1 DEF KernelInv, TypeOK, PollInv, StoredTimeInv,
       SleepsWithNothingToDo, WakesInTime, Asleep
<1>q. QED
  BY <1>2, <1>3, <1>4, <1>5, <1>6 DEF MainLoop

\* Whatever a process does to timers, queue and radio while it is called.
LEMMA ProcessInv == KernelInv /\ Process => KernelInv'
<1> SUFFICES ASSUME KernelInv, Process PROVE KernelInv'
  OBVIOUS
<1>i. TypeOK /\ PollInv /\ StoredTimeInv
  BY DEF KernelInv
<1>t. timerlist \subseteq Timer /\ rem \in [Timer -> Past .. MaxInterval]
  BY <1>i DEF TypeOK
<1>1. pc \in {"polled", "called"} /\ UNCHANGED <<phase, alarm, since, pc>>
  BY DEF Process, InProcess, clockVars
<1>a. SleepsWithNothingToDo' /\ WakesInTime'
  BY <1>1 DEF SleepsWithNothingToDo, WakesInTime, Asleep
<1>2. ASSUME NEW t \in Timer, NEW left \in Past .. MaxInterval, etimer_set(t, left),
             UNCHANGED <<rfOn, work>>
      PROVE  KernelInv'
  <2>1. /\ SetTimers(timerlist \cup {t}, [rem EXCEPT ![t] = left])
        /\ needspoll' = needspoll \cup {"etimer"} /\ poll_requested' = TRUE
        /\ nevents' = nevents
    BY <1>2 DEF etimer_set, process_poll
  <2>2. timerlist \cup {t} \in SUBSET Timer
        /\ [rem EXCEPT ![t] = left] \in [Timer -> Past .. MaxInterval]
    BY <1>t
  <2>3. /\ timerlist' \subseteq Timer /\ rem' \in [Timer -> Past .. MaxInterval]
        /\ next_expiration' \in Past .. MaxInterval /\ StoredTimeInv'
    BY <2>1, <2>2, SetTimersInv
  <2>4. TypeOK' /\ PollInv'
    BY <1>i, <1>1, <1>2, <2>1, <2>3 DEF TypeOK, PollInv
  <2>q. QED
    BY <1>a, <2>3, <2>4 DEF KernelInv
<1>3. ASSUME NEW t \in Timer, etimer_stop(t), UNCHANGED <<rfOn, work>>
      PROVE  KernelInv'
  <2>1. SetTimers(timerlist \ {t}, rem) /\ UNCHANGED <<nevents, needspoll, poll_requested>>
    BY <1>3 DEF etimer_stop, pollVars
  <2>2. timerlist \ {t} \in SUBSET Timer
    BY <1>t
  <2>3. /\ timerlist' \subseteq Timer /\ rem' \in [Timer -> Past .. MaxInterval]
        /\ next_expiration' \in Past .. MaxInterval /\ StoredTimeInv'
    BY <1>t, <2>1, <2>2, SetTimersInv
  <2>4. TypeOK' /\ PollInv'
    BY <1>i, <1>1, <1>3, <2>1, <2>3 DEF TypeOK, PollInv
  <2>q. QED
    BY <1>a, <2>3, <2>4 DEF KernelInv
<1>4. ASSUME NEW ts \in SUBSET timerlist, process_exit(ts), UNCHANGED <<rfOn, work>>
      PROVE  KernelInv'
  <2>1. /\ timerlist' = timerlist \ ts
        /\ rem' = [t \in Timer |-> IF t \in ts THEN Past ELSE rem[t]]
        /\ UNCHANGED <<next_expiration, nevents, needspoll, poll_requested>>
    BY <1>4 DEF process_exit, pollVars
  <2>2. Past \in Past .. MaxInterval
    BY Constants DEF Past
  <2>3. timerlist' \subseteq Timer /\ rem' \in [Timer -> Past .. MaxInterval]
    BY <1>t, <2>1, <2>2
  <2>4. StoredTimeInv'
    BY <1>i, <1>t, <2>1 DEF StoredTimeInv
  <2>5. TypeOK' /\ PollInv'
    BY <1>i, <1>1, <1>4, <2>1, <2>3 DEF TypeOK, PollInv
  <2>q. QED
    BY <1>a, <2>4, <2>5 DEF KernelInv
<1>5. ASSUME work > 0, work' = work - 1, process_post, UNCHANGED rfOn
      PROVE  KernelInv'
  <2>1. nevents \in 0 .. NumEvents /\ NumEvents \in Nat /\ work \in 0 .. MaxWork /\ MaxWork \in Nat
    BY <1>i, Constants DEF TypeOK
  <2>2. nevents' = IF nevents + 1 <= NumEvents THEN nevents + 1 ELSE NumEvents
    BY <1>5, <2>1, MinMaxOfTwo DEF process_post
  <2>3. nevents' \in 0 .. NumEvents /\ work' \in 0 .. MaxWork
    BY <1>5, <2>1, <2>2
  <2>4. UNCHANGED <<timerlist, rem, next_expiration, needspoll, poll_requested>>
    BY <1>5 DEF process_post, timerVars
  <2>q. QED
    BY <1>i, <1>1, <1>5, <1>a, <2>3, <2>4 DEF KernelInv, TypeOK, PollInv, StoredTimeInv
<1>6. ASSUME rfOn' = ~rfOn, UNCHANGED <<timerVars, pollVars, work>>
      PROVE  KernelInv'
  <2>1. rfOn' \in BOOLEAN
    BY <1>6
  <2>2. UNCHANGED <<timerlist, rem, next_expiration, nevents, needspoll, poll_requested>>
    BY <1>6 DEF timerVars, pollVars
  <2>q. QED
    BY <1>i, <1>1, <1>6, <1>a, <2>1, <2>2 DEF KernelInv, TypeOK, PollInv, StoredTimeInv
<1>q. QED
  BY <1>2, <1>3, <1>4, <1>5, <1>6 DEF Process

\* The invariant holds in every state.
LEMMA KernelInvariant == Spec => []KernelInv
<1>1. KernelInv /\ UNCHANGED vars => KernelInv'
  BY DEF KernelInv, TypeOK, PollInv, StoredTimeInv, SleepsWithNothingToDo, WakesInTime,
         Asleep, vars, timerVars, pollVars, clockVars
<1>2. KernelInv /\ [Next]_vars => KernelInv'
  BY <1>1, TimePassesInv, InterruptInv, RunInv, ProcessInv DEF Next
<1>q. QED
  BY InitKernelInv, <1>2, PTL DEF Spec

\* Every variable keeps its type: the queue never holds more than NumEvents events
\* (process_post, etimer_process), and no alarm is set to a time in the past or
\* farther than the chip can count (lpm_drop).
THEOREM KernelTypes == Spec => []TypeOK
BY KernelInvariant, PTL DEF KernelInv

\* The processor stops only when no event waits and no process is to be polled,
\* however interrupts fall between the steps of process_run and lpm_drop.
THEOREM NothingLeftToDo == Spec => []SleepsWithNothingToDo
BY KernelInvariant, PTL DEF KernelInv

\* The alarm of a sleeping node is never later than the tick on which one of its
\* timers expires, for every tick length, sleep limit and set of timers.
THEOREM AlarmInTime == Spec => []WakesInTime
BY KernelInvariant, PTL DEF KernelInv

===============================================================================
