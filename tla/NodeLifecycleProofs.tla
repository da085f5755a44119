------------------------- MODULE NodeLifecycleProofs -------------------------
(***************************************************************************)
(* Theorems about NodeLifecycle for every length of Contiki's event queue,  *)
(* every limit on unanswered packets and both kinds of node.                *)
(***************************************************************************)
EXTENDS NodeLifecycle, SequenceTheorems, TLAPS

Queue == {q \in Seq(Event) : Len(q) <= MaxQueue}

-----------------------------------------------------------------------------
(* The event queue.                                                         *)

\* Taking the oldest event; another process's event does not take the "maint" one.
LEMMA TailOf ==
  ASSUME NEW q \in Queue, q # <<>>
  PROVE  /\ Head(q) \in Event /\ Tail(q) \in Queue /\ Len(Tail(q)) < MaxQueue
         /\ Head(q) # "maint" /\ Pending(q) => Pending(Tail(q))
<1>1. q \in Seq(Event) /\ Len(q) <= MaxQueue /\ MaxQueue \in Nat
  BY LifecycleAssumption DEF Queue
<1>2. /\ Head(q) \in Event /\ Tail(q) \in Seq(Event) /\ Len(Tail(q)) = Len(q) - 1
      /\ \A i \in 1 .. Len(Tail(q)) : Tail(q)[i] = q[i + 1]
  BY <1>1, HeadTailProperties
<1>3. ASSUME Head(q) # "maint", NEW i \in DOMAIN q, q[i] = "maint" PROVE Pending(Tail(q))
  <2>1. i \in 1 .. Len(q) /\ i # 1
    BY <1>1, <1>3
  <2>2. i - 1 \in DOMAIN Tail(q) /\ i - 1 \in 1 .. Len(Tail(q))
    BY <1>1, <1>2, <2>1
  <2>3. Tail(q)[i - 1] = q[i]
    BY <1>2, <2>1, <2>2
  <2>q. QED
    BY <1>3, <2>2, <2>3 DEF Pending
<1>4. Tail(q) \in Queue /\ Len(Tail(q)) < MaxQueue
  BY <1>1, <1>2 DEF Queue
<1>q. QED
  BY <1>2, <1>3, <1>4 DEF Pending

\* Posting an event into a queue with room.
LEMMA AppendTo ==
  ASSUME NEW q \in Queue, Len(q) < MaxQueue, NEW e \in Event
  PROVE  /\ Append(q, e) \in Queue
         /\ Pending(q) \/ e = "maint" => Pending(Append(q, e))
<1>1. q \in Seq(Event) /\ Len(q) \in Nat /\ MaxQueue \in Nat
  BY LifecycleAssumption DEF Queue
<1>2. /\ Append(q, e) \in Seq(Event) /\ Len(Append(q, e)) = Len(q) + 1
      /\ \A i \in 1 .. Len(q) : Append(q, e)[i] = q[i]
      /\ Append(q, e)[Len(q) + 1] = e
  BY <1>1, AppendProperties
<1>3. DOMAIN Append(q, e) = 1 .. (Len(q) + 1) /\ DOMAIN q = 1 .. Len(q)
  BY <1>1, <1>2
<1>4. Append(q, e) \in Queue
  BY <1>1, <1>2 DEF Queue
<1>5. \A i \in 1 .. Len(q) : i \in 1 .. (Len(q) + 1)
  BY <1>1
<1>6. Len(q) + 1 \in 1 .. (Len(q) + 1)
  BY <1>1
<1>q. QED
  BY <1>2, <1>3, <1>4, <1>5, <1>6 DEF Pending

\* join_confirm_handler posts one event, and its timer's expiry another.
LEMMA PostTwo ==
  ASSUME NEW q \in Queue, Len(q) + 1 < MaxQueue
  PROVE  /\ q \o <<"dag", "expired">> \in Queue
         /\ Pending(q) => Pending(q \o <<"dag", "expired">>)
<1> DEFINE two == <<"dag", "expired">>
<1>1. q \in Seq(Event) /\ Len(q) \in Nat /\ MaxQueue \in Nat
  BY LifecycleAssumption DEF Queue
<1>2. two \in Seq(Event) /\ Len(two) = 2
  BY DEF Event
<1> HIDE DEF two
<1> DEFINE c == q \o two
<1>3. /\ c \in Seq(Event) /\ Len(c) = Len(q) + Len(two)
      /\ \A i \in 1 .. Len(q) + Len(two) : c[i] = IF i <= Len(q) THEN q[i] ELSE two[i - Len(q)]
  BY <1>1, <1>2, ConcatProperties, Zenon
<1> HIDE DEF c
<1>4. c \in Queue
  BY <1>1, <1>2, <1>3 DEF Queue
<1>5. ASSUME NEW i \in DOMAIN q, q[i] = "maint" PROVE Pending(c)
  <2>1. i \in 1 .. Len(q) /\ i \in 1 .. Len(q) + Len(two) /\ i \in DOMAIN c
    BY <1>1, <1>2, <1>3
  <2>2. c[i] = "maint"
    BY <1>1, <1>3, <1>5, <2>1
  <2>q. QED
    BY <2>1, <2>2 DEF Pending
<1>q. QED
  BY <1>4, <1>5 DEF Pending, c, two

\* Another process's event leaves the queue out of its turn.
LEMMA RemoveFrom ==
  ASSUME NEW q \in Queue, NEW k \in DOMAIN q, q[k] # "maint"
  PROVE  /\ RemoveAt(q, k) \in Queue /\ Len(RemoveAt(q, k)) < MaxQueue
         /\ Pending(q) => Pending(RemoveAt(q, k))
<1> DEFINE a == SubSeq(q, 1, k - 1)
           b == SubSeq(q, k + 1, Len(q))
<1>1. q \in Seq(Event) /\ Len(q) \in Nat /\ MaxQueue \in Nat /\ Len(q) <= MaxQueue
      /\ k \in 1 .. Len(q) /\ DOMAIN q = 1 .. Len(q)
  BY LifecycleAssumption DEF Queue
<1>2. /\ k - 1 \in Int /\ k + 1 \in Int /\ 1 \in Int /\ Len(q) \in Int
      /\ \A i \in 1 .. (k - 1) : q[i] \in Event
      /\ \A i \in (k + 1) .. Len(q) : q[i] \in Event
  BY <1>1
<1>3. /\ a \in Seq(Event) /\ Len(a) = k - 1
      /\ \A i \in 1 .. (k - 1) : a[i] = q[i]
  <2>1. /\ a \in Seq(Event) /\ Len(a) = IF 1 <= k - 1 THEN k - 1 - 1 + 1 ELSE 0
        /\ \A i \in 1 .. k - 1 - 1 + 1 : a[i] = q[1 + i - 1]
    BY <1>2, SubSeqProperties
  <2>q. QED
    BY <1>1, <2>1
<1>4. /\ b \in Seq(Event) /\ Len(b) = Len(q) - k
      /\ \A i \in 1 .. (Len(q) - k) : b[i] = q[k + i]
  <2> DEFINE n == k + 1
  <2>0. n \in Int /\ n = k + 1 /\ b = SubSeq(q, n, Len(q))
    BY <1>2
  <2> HIDE DEF n
  <2>1. /\ b \in Seq(Event) /\ Len(b) = IF n <= Len(q) THEN Len(q) - n + 1 ELSE 0
        /\ \A i \in 1 .. Len(q) - n + 1 : b[i] = q[n + i - 1]
    <3>1. \A i \in n .. Len(q) : q[i] \in Event
      BY <1>2, <2>0
    <3> HIDE DEF b
    <3>q. QED
      BY <1>2, <2>0, <3>1, SubSeqProperties, SMTT(30)
  <2> HIDE DEF b
  <2>2. Len(b) = Len(q) - k
    BY <1>1, <2>0, <2>1
  <2>4. n = k + 1 /\ k \in Nat /\ Len(q) \in Nat
    BY <1>1, <2>0
  <2>3. \A i \in 1 .. (Len(q) - k) : i \in 1 .. (Len(q) - n + 1) /\ n + i - 1 = k + i
    BY <2>4
  <2>q. QED
    BY <2>1, <2>2, <2>3
<1> DEFINE c == a \o b
<1>5. RemoveAt(q, k) = c
  BY DEF RemoveAt
<1> HIDE DEF a, b
<1>6. /\ c \in Seq(Event) /\ Len(c) = Len(a) + Len(b)
      /\ \A i \in 1 .. Len(a) + Len(b) : c[i] = IF i <= Len(a) THEN a[i] ELSE b[i - Len(a)]
  BY <1>3, <1>4, ConcatProperties, Zenon
<1> HIDE DEF c
<1>l. Len(c) = Len(q) - 1 /\ DOMAIN c = 1 .. Len(c) /\ Len(a) = k - 1 /\ Len(b) = Len(q) - k
  BY <1>1, <1>3, <1>4, <1>6
<1>7. ASSUME NEW i \in DOMAIN q, q[i] = "maint" PROVE Pending(c)
  <2>1. i \in 1 .. Len(q) /\ i # k
    BY <1>1, <1>7
  <2>2. CASE i < k
    <3>1. i \in DOMAIN c /\ i \in 1 .. (k - 1) /\ i \in 1 .. Len(a) + Len(b) /\ i <= Len(a)
      BY <1>1, <1>l, <2>1, <2>2
    <3>2. c[i] = q[i]
      BY <1>3, <1>6, <3>1
    <3>q. QED
      BY <1>7, <3>1, <3>2 DEF Pending
  <2>3. CASE i > k
    <3>0. i \in Nat /\ k \in Nat /\ Len(q) \in Nat /\ i <= Len(q) /\ k + 1 <= i /\ 1 <= k
      BY <1>1, <2>1, <2>3
    <3>1. /\ i - 1 \in DOMAIN c /\ i - 1 \in 1 .. Len(a) + Len(b)
          /\ ~(i - 1 <= Len(a)) /\ i - k \in 1 .. (Len(q) - k) /\ i - 1 - Len(a) = i - k
          /\ k + (i - k) = i
      <4>1. i - 1 \in 1 .. (Len(q) - 1) /\ ~(i - 1 <= k - 1) /\ i - k \in 1 .. (Len(q) - k)
        BY <3>0
      <4>2. i - 1 - (k - 1) = i - k /\ k + (i - k) = i /\ (k - 1) + (Len(q) - k) = Len(q) - 1
        BY <3>0
      <4>q. QED
        BY <1>l, <4>1, <4>2
    <3>2. c[i - 1] = b[i - 1 - Len(a)]
      BY <1>6, <3>1
    <3>3. c[i - 1] = q[i]
      BY <1>4, <3>1, <3>2
    <3>q. QED
      BY <1>7, <3>1, <3>3 DEF Pending
  <2>q. QED
    BY <1>1, <2>1, <2>2, <2>3
<1>8. c \in Queue /\ Len(c) < MaxQueue
  BY <1>1, <1>6, <1>l DEF Queue
<1>q. QED
  BY <1>5, <1>7, <1>8 DEF Pending

-----------------------------------------------------------------------------
(* Types, the radio and the silence of a node that gave up.                 *)

LifeInv == TypeOK /\ SilenceInv /\ RadioOnIsTimed

Mode == {"NORMAL", "NOTROOT", "JOIN_PROGRESS", "NEED_REBOOT", "RESET"}

\* TypeOK, one variable at a time.
Types ==
  /\ node_mode \in Mode /\ queue \in Queue
  /\ dag \in {"waiting", "ended"} /\ maint \in {"pause", "wait", "zombie", "reboot_wait"}
  /\ mtimer \in BOOLEAN /\ find \in BOOLEAN /\ limit \in BOOLEAN /\ status \in BOOLEAN
  /\ radio \in BOOLEAN /\ off_timer \in BOOLEAN /\ asked \in BOOLEAN /\ rootUp \in BOOLEAN
  /\ classB \in BOOLEAN
  /\ pings \in 0 .. MaxCount /\ radio_mode \in {"unset", "HOLD", "FREEDOM"}
  /\ air \in 0 .. MaxAir

LEMMA TypesAre == TypeOK <=> Types
BY DEF TypeOK, Types, Queue, Mode

LEMMA TypesAreNext == TypeOK' <=> Types'
BY DEF TypeOK, Types, Queue, Mode

\* watchdog_reboot.
LEMMA RebootInv ==
  ASSUME LifeInv, watchdog_reboot, UNCHANGED <<air, rootUp, classB>>
  PROVE  LifeInv'
<1>1. Types
  BY TypesAre DEF LifeInv
<1>2. Types'
  BY <1>1 DEF Types, watchdog_reboot, Mode, procVars, radioVars
<1>3. SilenceInv' /\ RadioOnIsTimed'
  BY DEF watchdog_reboot, SilenceInv, RadioOnIsTimed
<1>q. QED
  BY <1>2, <1>3, TypesAreNext DEF LifeInv

\* One turn of maintenance_process's loop, in any mode and whatever is queued.
LEMMA MaintenanceInv ==
  ASSUME LifeInv, NEW rest \in Queue, maintenance_loop(rest),
         UNCHANGED <<air, rootUp, classB>>
  PROVE  LifeInv'
<1>t. Types
  BY TypesAre DEF LifeInv
<1>1. CASE MaintNeedReboot(rest)
  <2>1. Types'
    BY <1>1, <1>t DEF Types, MaintNeedReboot, radioVars
  <2>2. SilenceInv' /\ RadioOnIsTimed'
    BY <1>1 DEF MaintNeedReboot, SilenceInv, RadioOnIsTimed
  <2>q. QED
    BY <2>1, <2>2, TypesAreNext DEF LifeInv
<1>2. CASE MaintNormal(rest) /\ ~watchdog_reboot
  <2>1. Types'
    BY <1>2, <1>t DEF Types, MaintNormal, LoopEnd, radioVars
  <2>2. SilenceInv' /\ RadioOnIsTimed'
    BY <1>2 DEF MaintNormal, SilenceInv, RadioOnIsTimed, radioVars, LifeInv
  <2>q. QED
    BY <2>1, <2>2, TypesAreNext DEF LifeInv
<1>3. CASE MaintNotRoot(rest) /\ ~watchdog_reboot
  <2>1. /\ classB /\ node_mode' = "NOTROOT" /\ queue' = rest /\ maint' = "zombie"
        /\ mtimer' = TRUE /\ find' = FALSE /\ status' = FALSE /\ radio_mode' = "HOLD"
        /\ UNCHANGED <<dag, limit, pings, asked>>
    BY <1>3 DEF MaintNotRoot
  <2>2. radio' = FALSE /\ off_timer' = FALSE
    BY <1>3, <2>1 DEF MaintNotRoot, net_off_now
  <2>3. Types'
    BY <1>t, <2>1, <2>2 DEF Types, Mode
  <2>4. SilenceInv' /\ RadioOnIsTimed'
    BY <2>1, <2>2 DEF SilenceInv, Silent, RadioOnIsTimed
  <2>q. QED
    BY <2>3, <2>4, TypesAreNext DEF LifeInv
<1>4. CASE MaintJoin(rest)
  <2>1. Types'
    BY <1>4, <1>t DEF Types, MaintJoin, LoopEnd
  <2>2. SilenceInv' /\ RadioOnIsTimed'
    BY <1>4 DEF MaintJoin, SilenceInv, RadioOnIsTimed
  <2>q. QED
    BY <2>1, <2>2, TypesAreNext DEF LifeInv
<1>5. CASE watchdog_reboot
  BY <1>5, RebootInv
<1>q. QED
  BY <1>1, <1>2, <1>3, <1>4, <1>5 DEF maintenance_loop

\* dag_node_process after its confirmation.
LEMMA DagInv ==
  ASSUME LifeInv, NEW rest \in Queue, Len(rest) < MaxQueue, dag_node_process(rest),
         UNCHANGED <<air, rootUp, classB>>
  PROVE  LifeInv'
<1>t. Types
  BY TypesAre DEF LifeInv
<1>j. ASSUME JoinedRadio
      PROVE  /\ radio' \in BOOLEAN /\ off_timer' \in BOOLEAN
             /\ radio_mode' \in {"unset", "HOLD", "FREEDOM"}
             /\ classB => off_timer'
  BY <1>j, <1>t DEF JoinedRadio, Types
<1>1. CASE node_mode' = "RESET"
  <2>1. Types'
    BY <1>1, <1>t DEF Types, dag_node_process, Mode, radioVars
  <2>2. SilenceInv' /\ RadioOnIsTimed'
    BY <1>1 DEF SilenceInv, RadioOnIsTimed
  <2>q. QED
    BY <2>1, <2>2, TypesAreNext DEF LifeInv
<1>2. CASE node_mode' = "NORMAL"
  <2>1. /\ queue' = rest /\ JoinedRadio /\ dag' = "ended"
        /\ UNCHANGED <<maint, mtimer, find, limit, status, pings, asked>>
    BY <1>2 DEF dag_node_process
  <2>2. Types'
    BY <1>2, <1>t, <1>j, <2>1 DEF Types, Mode
  <2>3. SilenceInv' /\ RadioOnIsTimed'
    BY <1>2, <1>j, <2>1 DEF SilenceInv, RadioOnIsTimed
  <2>q. QED
    BY <2>2, <2>3, TypesAreNext DEF LifeInv
<1>3. CASE node_mode' = "NEED_REBOOT"
  <2>1. /\ RestartMaintenance(rest) /\ JoinedRadio /\ dag' = "ended"
        /\ UNCHANGED <<find, limit, status, pings, asked>>
    BY <1>3 DEF dag_node_process
  <2>2. queue' \in Queue /\ maint' = "pause" /\ mtimer' = FALSE
    BY <2>1, AppendTo DEF RestartMaintenance, Event
  <2>3. Types'
    BY <1>3, <1>t, <1>j, <2>1, <2>2 DEF Types, Mode
  <2>4. SilenceInv' /\ RadioOnIsTimed'
    BY <1>3 DEF SilenceInv, RadioOnIsTimed
  <2>q. QED
    BY <2>3, <2>4, TypesAreNext DEF LifeInv
<1>q. QED
  BY <1>1, <1>2, <1>3 DEF dag_node_process

\* An event that no process waits for goes.
LEMMA DroppedInv ==
  ASSUME LifeInv, NEW rest \in Queue, queue' = rest,
         maint = "pause" /\ Pending(queue) => Pending(rest),
         UNCHANGED <<node_mode, procVars, pings, radioVars, asked, rootUp, classB>>,
         air' \in 0 .. MaxAir
  PROVE  LifeInv'
<1>t. Types
  BY TypesAre DEF LifeInv
<1>1. Types'
  BY <1>t DEF Types, procVars, radioVars
<1>2. SilenceInv'
  BY DEF LifeInv, SilenceInv, Silent, procVars, radioVars
<1>3. RadioOnIsTimed'
  BY DEF LifeInv, RadioOnIsTimed, procVars, radioVars
<1>q. QED
  BY <1>1, <1>2, <1>3, TypesAreNext DEF LifeInv

\* root_find_process, by its timer's event or by a broadcast.
LEMMA FindInv ==
  ASSUME LifeInv, NEW rest \in Queue, Len(rest) < MaxQueue, root_find_process(rest),
         Pending(queue) => Pending(rest),
         UNCHANGED <<rootUp, classB>>
  PROVE  LifeInv'
<1>t. Types
  BY TypesAre DEF LifeInv
<1>m. MaxAir \in Nat /\ air \in 0 .. MaxAir
  BY <1>t, LifecycleAssumption DEF Types
<1>1. ASSUME queue' = rest, send_join_packet \/ air' = air,
             UNCHANGED <<node_mode, procVars, pings, radioVars, asked>>
      PROVE  LifeInv'
  <2>1. air' \in 0 .. MaxAir
    BY <1>1, <1>m DEF send_join_packet, send_confirmation_packet
  <2>q. QED
    BY <1>1, <2>1, DroppedInv
<1>2. ASSUME FindGivesUp(rest), UNCHANGED air PROVE LifeInv'
  <2>1. CASE watchdog_reboot
    BY <1>2, <2>1, RebootInv
  <2>2. CASE ~watchdog_reboot
    <3>1. /\ node_mode' = "NOTROOT" /\ RestartMaintenance(rest)
          /\ UNCHANGED <<dag, limit, pings, asked>>
      BY <1>2, <2>2 DEF FindGivesUp
    <3>2. queue' \in Queue /\ Pending(queue') /\ maint' = "pause" /\ mtimer' = FALSE
      BY <3>1, AppendTo DEF RestartMaintenance, Event
    <3>3. /\ find' \in BOOLEAN /\ status' \in BOOLEAN /\ radio' \in BOOLEAN
          /\ off_timer' \in BOOLEAN /\ radio_mode' \in {"unset", "HOLD", "FREEDOM"}
      BY <1>2, <1>t, <2>2 DEF FindGivesUp, Types, net_off_now, radioVars
    <3>4. Types'
      BY <1>2, <1>t, <3>1, <3>2, <3>3 DEF Types, Mode
    <3>5. SilenceInv' /\ RadioOnIsTimed'
      BY <3>1, <3>2 DEF SilenceInv, RadioOnIsTimed
    <3>q. QED
      BY <3>4, <3>5, TypesAreNext DEF LifeInv
  <2>q. QED
    BY <2>1, <2>2
<1>q. QED
  BY <1>1, <1>2 DEF root_find_process

LEMMA InitLife == Init => LifeInv
<1> SUFFICES ASSUME Init PROVE LifeInv
  OBVIOUS
<1>1. queue \in Queue
  <2>1. <<>> \in Seq(Event) /\ Len(<<>>) = 0 /\ MaxQueue \in Nat
    BY LifecycleAssumption
  <2>q. QED
    BY <2>1 DEF Init, Queue
<1>0. 0 \in 0 .. MaxCount /\ 0 \in 0 .. MaxAir
  BY LifecycleAssumption DEF MaxCount
<1>2. Types
  BY <1>0, <1>1 DEF Init, Types, Mode
<1>3. SilenceInv /\ RadioOnIsTimed
  BY DEF Init, SilenceInv, RadioOnIsTimed
<1>q. QED
  BY <1>2, <1>3, TypesAre DEF LifeInv

\* What switching the radio on does to the invariant's variables.
LEMMA RadioOn ==
  ASSUME LifeInv, net_on_timer_off
  PROVE  /\ radio' \in BOOLEAN /\ off_timer' \in BOOLEAN /\ radio_mode' = radio_mode
         /\ classB /\ node_mode = "NORMAL" /\ radio' => off_timer'
<1>t. radio \in BOOLEAN /\ off_timer \in BOOLEAN /\ classB \in BOOLEAN
  BY TypesAre DEF LifeInv, Types
<1>1. radio' \in BOOLEAN /\ off_timer' \in BOOLEAN /\ radio_mode' = radio_mode
  BY <1>t DEF net_on_timer_off
<1>2. classB /\ node_mode = "NORMAL" /\ radio' => off_timer'
  BY <1>t DEF net_on_timer_off, LifeInv, RadioOnIsTimed
<1>q. QED
  BY <1>1, <1>2

\* The event loop's steps.
LEMMA EventInv ==
  ASSUME LifeInv, Boot \/ DoEvent \/ Broadcast
  PROVE  LifeInv'
<1>t. Types
  BY TypesAre DEF LifeInv
<1>q0. queue \in Queue /\ air \in 0 .. MaxAir
  BY <1>t DEF Types
<1>1. CASE Boot
  <2>1. queue' \in Queue
    <3>1. <<"maint">> \in Seq(Event) /\ Len(<<"maint">>) = 1
      BY DEF Event
    <3>q. QED
      BY <1>1, <3>1, LifecycleAssumption DEF Boot, Started, Queue
  <2>0. 0 \in 0 .. MaxCount
    BY LifecycleAssumption DEF MaxCount
  <2>2. Types'
    BY <1>1, <1>t, <2>0, <2>1 DEF Types, Boot, Started, Mode
  <2>3. SilenceInv' /\ RadioOnIsTimed'
    BY <1>1 DEF Boot, Started, SilenceInv, RadioOnIsTimed
  <2>q. QED
    BY <2>2, <2>3, TypesAreNext DEF LifeInv
<1>2. CASE DoEvent
  <2> DEFINE ev == Head(queue)
             rest == Tail(queue)
  <2>0. queue # <<>> /\ UNCHANGED <<rootUp, classB>>
    BY <1>2 DEF DoEvent
  <2>1. /\ rest \in Queue /\ Len(rest) < MaxQueue
        /\ ev # "maint" /\ Pending(queue) => Pending(rest)
    BY <1>q0, <2>0, TailOf
  <2>2. \/ ev = "dag" /\ dag_node_process(rest) /\ UNCHANGED air
        \/ maintenance_loop(rest) /\ UNCHANGED air
        \/ ev = "find" /\ root_find_process(rest)
        \/ /\ ev # "maint" \/ maint # "pause"
           /\ queue' = rest
           /\ UNCHANGED <<node_mode, procVars, pings, radioVars, asked, air>>
    BY <1>2 DEF DoEvent
  <2> HIDE DEF ev, rest
  <2>3. CASE ev = "dag" /\ dag_node_process(rest) /\ UNCHANGED air
    BY <2>0, <2>1, <2>3, DagInv
  <2>4. CASE maintenance_loop(rest) /\ UNCHANGED air
    BY <2>0, <2>1, <2>4, MaintenanceInv
  <2>5. CASE ev = "find" /\ root_find_process(rest)
    BY <2>0, <2>1, <2>5, FindInv
  <2>6. CASE /\ ev # "maint" \/ maint # "pause"
             /\ queue' = rest
             /\ UNCHANGED <<node_mode, procVars, pings, radioVars, asked, air>>
    BY <1>q0, <2>0, <2>1, <2>6, DroppedInv
  <2>q. QED
    BY <2>2, <2>3, <2>4, <2>5, <2>6
<1>3. CASE Broadcast
  <2>0. UNCHANGED <<rootUp, classB>>
    BY <1>3 DEF Broadcast
  <2>1. CASE maintenance_loop(queue) /\ UNCHANGED air
    BY <1>q0, <2>0, <2>1, MaintenanceInv
  <2>2. ASSUME NEW i \in DOMAIN queue, queue[i] = "find", root_find_process(RemoveAt(queue, i))
        PROVE  LifeInv'
    <3> DEFINE rest == RemoveAt(queue, i)
    <3>1. rest \in Queue /\ Len(rest) < MaxQueue /\ (Pending(queue) => Pending(rest))
      BY <1>q0, <2>2, RemoveFrom
    <3>2. root_find_process(rest)
      BY <2>2
    <3> HIDE DEF rest
    <3>q. QED
      BY <2>0, <3>1, <3>2, FindInv
  <2>q. QED
    BY <1>3, <2>1, <2>2 DEF Broadcast
<1>q. QED
  BY <1>1, <1>2, <1>3

\* Timers, packets, buttons and the root.
LEMMA OtherInv ==
  ASSUME LifeInv,
         \/ Timers \/ net_off_timer_now \/ JoinConfirm \/ LoseConfirm \/ Pong
         \/ ButtonClick \/ SendPacket \/ RootDies
  PROVE  LifeInv'
<1>t. Types
  BY TypesAre DEF LifeInv
<1>q0. queue \in Queue /\ Len(queue) \in Nat
  BY <1>t DEF Types, Queue
<1>c. MaxPings \in Nat /\ MaxAir \in Nat /\ MaxCount \in Nat /\ air \in 0 .. MaxAir
      /\ pings \in 0 .. MaxCount
  BY <1>t, LifecycleAssumption DEF Types, MaxCount
<1>p. ASSUME queue' \in Queue, Pending(queue) => Pending(queue'),
             mtimer' \in BOOLEAN, limit' \in BOOLEAN, asked' \in BOOLEAN, rootUp' \in BOOLEAN,
             pings' \in 0 .. MaxCount, air' \in 0 .. MaxAir,
             UNCHANGED <<node_mode, dag, maint, find, status, radioVars, classB>>
      PROVE  LifeInv'
  <2>1. Types'
    BY <1>p, <1>t DEF Types, radioVars
  <2>2. SilenceInv'
    BY <1>p DEF LifeInv, SilenceInv, Silent, radioVars
  <2>3. RadioOnIsTimed'
    BY <1>p DEF LifeInv, RadioOnIsTimed, radioVars
  <2>q. QED
    BY <2>1, <2>2, <2>3, TypesAreNext DEF LifeInv
<1>n. ASSUME node_mode = "NORMAL", net_on_timer_off, pings' \in 0 .. MaxCount,
             asked' \in BOOLEAN, UNCHANGED <<node_mode, queue, procVars, air, rootUp, classB>>
      PROVE  LifeInv'
  <2>1. Types'
    BY <1>n, <1>t, RadioOn DEF Types, procVars
  <2>2. SilenceInv' /\ RadioOnIsTimed'
    BY <1>n, RadioOn DEF SilenceInv, RadioOnIsTimed
  <2>q. QED
    BY <2>1, <2>2, TypesAreNext DEF LifeInv
<1>1. CASE MaintenanceTimer
  <2>1. queue' \in Queue /\ (Pending(queue) => Pending(queue'))
    BY <1>1, <1>q0, AppendTo DEF MaintenanceTimer, Event
  <2>q. QED
    BY <1>1, <1>p, <1>t, <2>1 DEF MaintenanceTimer, Types
<1>2. CASE FindTimer
  <2>1. queue' \in Queue /\ (Pending(queue) => Pending(queue'))
    BY <1>2, <1>q0, AppendTo DEF FindTimer, Event
  <2>q. QED
    BY <1>2, <1>p, <1>t, <2>1 DEF FindTimer, Types, procVars
<1>3. CASE LimitTimer
  BY <1>3, <1>p, <1>t DEF LimitTimer, Types
<1>4. CASE RebootTimer
  BY <1>4, RebootInv DEF RebootTimer
<1>5. CASE StatusTimer
  <2>1. CASE watchdog_reboot
    BY <1>5, <2>1, RebootInv DEF StatusTimer
  <2>2. CASE ~watchdog_reboot
    <3>1. /\ node_mode = "NORMAL" /\ pings' = (IF pings < MaxCount THEN pings + 1 ELSE pings)
          /\ send_status_packet \/ UNCHANGED <<asked, radioVars>>
          /\ UNCHANGED <<node_mode, queue, procVars, air, rootUp, classB>>
      BY <1>5, <2>2 DEF StatusTimer
    <3>2. pings' \in 0 .. MaxCount
      BY <1>c, <3>1
    <3>3. CASE send_status_packet
      BY <1>n, <3>1, <3>2, <3>3 DEF send_status_packet
    <3>4. CASE UNCHANGED <<asked, radioVars>>
      BY <1>p, <1>t, <3>1, <3>2, <3>4 DEF Types, procVars
    <3>q. QED
      BY <3>1, <3>3, <3>4
  <2>q. QED
    BY <2>1, <2>2
<1>6. CASE net_off_timer_now
  <2>1. /\ off_timer' = FALSE /\ radio' = FALSE /\ off_timer
        /\ UNCHANGED <<node_mode, queue, procVars, pings, radio_mode, asked, air, rootUp, classB>>
    BY <1>6 DEF net_off_timer_now
  <2>2. Types'
    BY <1>t, <2>1, ZenonT(60) DEF Types, procVars
  <2>3. SilenceInv' /\ RadioOnIsTimed'
    BY <2>1 DEF LifeInv, SilenceInv, Silent, RadioOnIsTimed, procVars
  <2>q. QED
    BY <2>2, <2>3, TypesAreNext DEF LifeInv
<1>7. CASE JoinConfirm
  <2>1. queue' \in Queue /\ (Pending(queue) => Pending(queue'))
    BY <1>7, <1>q0, PostTwo DEF JoinConfirm
  <2>2. air' \in 0 .. MaxAir
    BY <1>7, <1>c DEF JoinConfirm
  <2>q. QED
    BY <1>7, <1>p, <1>t, <2>1, <2>2 DEF JoinConfirm, Types
<1>8. CASE LoseConfirm
  <2>1. air' \in 0 .. MaxAir
    BY <1>8, <1>c DEF LoseConfirm
  <2>q. QED
    BY <1>8, <1>p, <1>t, <2>1 DEF LoseConfirm, Types, procVars
<1>9. CASE Pong
  <2>1. /\ asked' = FALSE /\ pings' = 0 /\ net_off_now(radio_mode)
        /\ UNCHANGED <<node_mode, queue, procVars, radio_mode, air, rootUp, classB>>
    BY <1>9 DEF Pong
  <2>2. /\ radio' \in BOOLEAN /\ off_timer' \in BOOLEAN
        /\ radio' => radio /\ (off_timer => off_timer')
        /\ off_timer' => off_timer
    BY <1>t, <2>1 DEF net_off_now, Types
  <2>3. pings' \in 0 .. MaxCount
    BY <1>c, <2>1
  <2>4. Types'
    BY <1>t, <2>1, <2>2, <2>3, ZenonT(60) DEF Types, procVars
  <2>5. SilenceInv' /\ RadioOnIsTimed'
    BY <2>1, <2>2 DEF LifeInv, SilenceInv, Silent, RadioOnIsTimed, procVars
  <2>q. QED
    BY <2>4, <2>5, TypesAreNext DEF LifeInv
<1>10. CASE ButtonClick
  <2>1. CASE watchdog_reboot
    BY <1>10, <2>1, RebootInv DEF ButtonClick
  <2>2. CASE ~watchdog_reboot
    BY <1>10, <1>n, <1>t, <2>2 DEF ButtonClick, send_sensor_event, Types
  <2>q. QED
    BY <2>1, <2>2
<1>11. CASE SendPacket
  BY <1>11, <1>n, <1>t DEF SendPacket, Types
<1>12. CASE RootDies
  BY <1>12, <1>p, <1>t DEF RootDies, Types, procVars
<1>q. QED
  BY <1>1, <1>2, <1>3, <1>4, <1>5, <1>6, <1>7, <1>8, <1>9, <1>10, <1>11, <1>12 DEF Timers

LEMMA NextLife == LifeInv /\ [Next]_vars => LifeInv'
<1> SUFFICES ASSUME LifeInv, [Next]_vars PROVE LifeInv'
  OBVIOUS
<1>1. CASE Next
  BY <1>1, EventInv, OtherInv DEF Next
<1>2. CASE UNCHANGED vars
  <2>1. queue' = queue /\ air' = air
    BY <1>2 DEF vars
  <2>2. queue \in Queue /\ air' \in 0 .. MaxAir
    BY <2>1, TypesAre DEF LifeInv, Types
  <2>q. QED
    BY <1>2, <2>1, <2>2, DroppedInv DEF vars
<1>q. QED
  BY <1>1, <1>2

LEMMA LifeInvariant == Spec => []LifeInv
BY InitLife, NextLife, PTL DEF Spec

\* The node's state keeps to its types in every mode and every order of events; in
\* particular the event queue never overflows by what the processes post themselves.
THEOREM LifecycleTypes == Spec => []TypeOK
BY LifeInvariant, PTL DEF LifeInv

\* A battery node that gave up the search is silent once its queue is empty: radio off
\* and held off, no search, no status packets, however the confirmation, the limit and
\* the restart of maintenance_process met.
THEOREM NodeSleepsSilently == Spec => []SleepIsSilent
<1>1. LifeInv => SleepIsSilent
  <2> SUFFICES ASSUME LifeInv, classB, node_mode = "NOTROOT", queue = <<>> PROVE Silent
    BY DEF SleepIsSilent, Silent
  <2>1. ~Pending(queue)
    <3>1. DOMAIN <<>> = {}
      OBVIOUS
    <3>q. QED
      BY <3>1 DEF Pending
  <2>q. QED
    BY <2>1 DEF LifeInv, SilenceInv
<1>q. QED
  BY <1>1, LifeInvariant, PTL

\* A battery node in normal mode has set net_off_timer whenever its radio is on, from
\* the first packet after the confirmation: it never listens for good.
THEOREM RadioIsTimed == Spec => []RadioOnIsTimed
BY LifeInvariant, PTL DEF LifeInv
==============================================================================
