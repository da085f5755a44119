-------------------------- MODULE OtaTransferProofs --------------------------
(***************************************************************************)
(* Theorems about OtaTransfer for every set of nodes, every image length,   *)
(* every limit on errors and every number of resets and restarts.           *)
(***************************************************************************)
EXTENDS OtaTransfer, TLAPS

USE DEF Order, Size, Run, Quantity, Late, MaxFaults, Chunk, Place

\* What the settings say of the command line and the images.
LEMMA Settings ==
  ASSUME setting \in Setting
  PROVE  /\ SlotSize \in Nat /\ 1 <= SlotSize /\ SlotSize <= MaxOffset
         /\ W16 \in Nat /\ SlotSize < W16 - 1
         /\ MaxOffset \in Nat /\ MaxError \in Nat /\ MaxFaults \in Nat /\ Late \in BOOLEAN
         /\ Order \in Seq(Node) /\ Len(Order) \in Nat /\ Len(Order) >= 1
         /\ DOMAIN Order = 1 .. Len(Order)
         /\ \A i \in DOMAIN Order : Order[i] \in Node
         /\ \A i, j \in DOMAIN Order : Order[i] = Order[j] => i = j
<1>1. /\ setting.order \in Seq(Node) /\ Len(setting.order) > 0
      /\ \A i, j \in DOMAIN setting.order : setting.order[i] = setting.order[j] => i = j
      /\ setting.late \in BOOLEAN
      /\ setting.faults \in Nat
  BY SettingAssumption
<1>q. QED
  BY <1>1, TransferAssumption

\* Every run of the router has its image, and an image fits the slot.
LEMMA Images ==
  ASSUME setting \in Setting, NEW r \in 1 .. (MaxFaults + 1)
  PROVE  r \in DOMAIN setting.images /\ Size(r) \in 1 .. SlotSize
<1>1. /\ setting.images \in Seq([chunks : 1 .. SlotSize, own : BOOLEAN])
      /\ setting.faults \in Nat /\ setting.faults < Len(setting.images)
  BY SettingAssumption
<1>2. r \in DOMAIN setting.images
  BY <1>1
<1>3. setting.images[r] \in [chunks : 1 .. SlotSize, own : BOOLEAN]
  <2>1. ASSUME NEW T, NEW s \in Seq(T), NEW i \in DOMAIN s PROVE s[i] \in T
    BY <2>1
  <2>q. QED
    BY <1>1, <1>2, <2>1, Zenon
<1>q. QED
  BY <1>2, <1>3

\* The present run, and the ones before it.
LEMMA Runs ==
  ASSUME TypeOK
  PROVE  /\ Run \in DOMAIN setting.images /\ Run \in Nat
         /\ Quantity \in Nat /\ 1 <= Quantity /\ Quantity <= SlotSize
         /\ \A r \in 1 .. Run : Size(r) \in 1 .. SlotSize /\ r \in DOMAIN setting.images
<1>1. setting \in Setting /\ restarts \in 0 .. MaxFaults
  BY DEF TypeOK
<1>2. MaxFaults \in Nat /\ SlotSize \in Nat
  BY <1>1, Settings
<1>3. \A r \in 1 .. Run : r \in 1 .. (MaxFaults + 1)
  BY <1>1, <1>2
<1>4. Run \in 1 .. Run /\ Run \in Nat
  BY <1>1, <1>2
<1>5. \A r \in 1 .. Run : Size(r) \in 1 .. SlotSize /\ r \in DOMAIN setting.images
  BY <1>1, <1>3, Images
<1>6. Run \in DOMAIN setting.images /\ Quantity \in 1 .. SlotSize
  BY <1>4, <1>5
<1>q. QED
  BY <1>2, <1>4, <1>5, <1>6

\* Every message names a node.
LEMMA Messages ==
  ASSUME TypeOK, NEW m \in net
  PROVE  /\ m \in Message /\ m.node \in Node /\ m # Nothing
         /\ m.type \in {"NEW_FW", "SUCCESS", "REQ", "CHUNK"}
         /\ m.type \in {"NEW_FW", "REQ", "CHUNK"} => m.num \in 0 .. SlotSize
         /\ m.type = "CHUNK" => m.img \in DOMAIN setting.images
BY DEF TypeOK, Message, Nothing

-----------------------------------------------------------------------------
(***************************************************************************)
(* Types, the router and the static counters, whatever is late, lost, reset *)
(* or restarted.                                                            *)
(***************************************************************************)
BaseInv == TypeOK /\ BoxInv /\ RequestInv /\ RestInv /\ RouterSurvives

\* The types of what the nodes keep.
NodeTypes ==
  /\ st \in [Node -> {"idle", "trial"} \cup OnList \cup OffList]
  /\ page \in [Node -> 0 .. SlotSize]
  /\ chunk_num \in [Node -> 0 .. (W16 - 1)]
  /\ quantity \in [Node -> 0 .. SlotSize]
  /\ offset \in [Node -> 0 .. (MaxOffset + 1)]
  /\ errors \in [Node -> 0 .. (MaxError + 1)]
  /\ slot \in [Node -> [Place -> Content]]

\* The NEW_FW of a run.
LEMMA Told1 ==
  ASSUME setting \in Setting, NEW n \in Node, NEW r \in 1 .. (MaxFaults + 1)
  PROVE  NewFwFor(n, Size(r)) \in Message
<1>1. Size(r) \in 0 .. SlotSize
  BY Images, Settings
<1>2. PICK s \in 0 .. SlotSize : s = Size(r)
  BY <1>1
<1>3. NewFwFor(n, s) \in Message
  BY DEF NewFwFor, Message
<1>q. QED
  BY <1>2, <1>3

LEMMA InitBase == Init => BaseInv
<1> SUFFICES ASSUME Init PROVE BaseInv
  OBVIOUS
<1>1. setting \in Setting
  BY DEF Init
<1>2. Order[1] \in Node /\ 1 \in DOMAIN Order
  BY <1>1, Settings
<1>3. /\ MaxFaults \in Nat /\ SlotSize \in Nat /\ MaxOffset \in Nat /\ MaxError \in Nat
      /\ 0 <= W16 - 1
  BY <1>1, Settings
<1>4. cmdbox \in Message
  <2>1. 1 \in 1 .. (MaxFaults + 1)
    BY <1>3
  <2>q. QED
    BY <1>1, <1>2, <2>1, Told1 DEF Init
<1>5. TypeOK
  <2>1. NodeTypes
    BY <1>3 DEF Init, NodeTypes, Content
  <2>2. updated \subseteq Node /\ resets \in 0 .. MaxFaults /\ restarts \in 0 .. MaxFaults
    BY <1>3 DEF Init
  <2>q. QED
    BY <1>1, <1>2, <1>4, <2>1, <2>2 DEF Init, TypeOK, NodeTypes
<1>6. BoxInv /\ RestInv /\ RouterSurvives
  BY DEF Init, BoxInv, RestInv, RouterSurvives, Nothing, NewFwFor
<1>7. RequestInv
  <2>1. UnderWay = {Nothing, NewFwFor(Order[1], Size(1))} /\ Run = 1
    BY DEF Init, UnderWay
  <2>2. \A n \in Node : quantity[n] = 0 /\ st[n] # "wait"
    BY DEF Init
  <2>q. QED
    BY <2>1, <2>2 DEF RequestInv, NewFwFor, Nothing
<1>q. QED
  BY <1>5, <1>6, <1>7 DEF BaseInv

\* The router's steps and the root's.
LEMMA RouterBase ==
  ASSUME BaseInv,
         \/ LimitReached \/ RouterRestart \/ RootPoll
         \/ \E m \in net : MessageSuccess(m) \/ ServeRequest(m) \/ Lose(m)
  PROVE  BaseInv'
<1> USE DEF BaseInv
<1>s. setting \in Setting
  BY DEF TypeOK
<1>r. /\ restarts \in 0 .. MaxFaults /\ MaxFaults \in Nat /\ Run \in 1 .. Run
      /\ Run \in 1 .. (MaxFaults + 1)
  <2>1. restarts \in 0 .. MaxFaults /\ MaxFaults \in Nat
    BY <1>s, Settings DEF TypeOK
  <2>q. QED
    BY <2>1
<1> DEFINE NodesSame == UNCHANGED <<setting, st, page, chunk_num, quantity, offset, errors,
                                    slot, updated, resets>>
           Known(x) == \/ x \in UnderWay \/ x = Nothing
                       \/ x.type = "NEW_FW" /\ \E r \in 1 .. Run' : x.num = Size(r)
                       \/ x.type = "CHUNK" /\ x.img \in 1 .. Run' /\ x.num < Size(x.img)
<1>u. ASSUME NodesSame,
             router' \in [st : {"running", "done", "exited"}, i : DOMAIN Order],
             report' \in [Node -> {"none", "success", "failed"}],
             restarts' \in 0 .. MaxFaults, restarts <= restarts',
             fwbox' \in (Message \cup {Nothing}),
             cmdbox' \in (Message \cup {Nothing}),
             net' \subseteq Message,
             BoxInv', RouterSurvives',
             \A x \in UnderWay' : Known(x)
      PROVE  BaseInv'
  <2>1. TypeOK'
    <3>1. Message' = Message /\ Content' = Content
      BY <1>u DEF Message, Content
    <3>q. QED
      BY <1>u, <3>1 DEF TypeOK
  <2>2. RequestInv'
    <3>1. 1 .. Run \subseteq 1 .. Run' /\ setting' = setting
      BY <1>r, <1>u
    <3>2. \A n \in Node : quantity'[n] = 0 \/ \E r \in 1 .. Run' : quantity'[n] = Size(r)'
      BY <1>u, <3>1 DEF RequestInv
    <3>x. ASSUME NEW x \in UnderWay', x.type \in {"NEW_FW", "REQ", "CHUNK"}
          PROVE  /\ x.type = "NEW_FW" => \E r \in 1 .. Run' : x.num = Size(r)
                 /\ x.type = "REQ" => \E r \in 1 .. Run' : x.num < Size(r)
                 /\ x.type = "CHUNK" => x.img \in 1 .. Run' /\ x.num < Size(x.img)
      <4>0. Known(x)
        BY <1>u
      <4>1. x # Nothing
        BY <3>x DEF Nothing
      <4>2. CASE x \in UnderWay
        <5>1. /\ x.type = "NEW_FW" => \E r \in 1 .. Run : x.num = Size(r)
              /\ x.type = "REQ" => \E r \in 1 .. Run : x.num < Size(r)
              /\ x.type = "CHUNK" => x.img \in 1 .. Run /\ x.num < Size(x.img)
          BY <4>2, Zenon DEF RequestInv
        <5>q. QED
          BY <3>1, <5>1, Zenon
      <4>3. CASE x \notin UnderWay
        BY <4>0, <4>1, <4>3
      <4>q. QED
        BY <4>2, <4>3
    <3>3. \A r : Size(r)' = Size(r)
      BY <3>1
    <3>q. QED
      BY <1>u, <3>2, <3>3, <3>x DEF RequestInv
  <2>3. RestInv'
    BY <1>u DEF RestInv
  <2>q. QED
    BY <1>u, <2>1, <2>2, <2>3
<1>a. ASSUME NEW result \in {"success", "failed"}, Advance(result), UNCHANGED <<setting, restarts>>
      PROVE  /\ router' \in [st : {"running", "done", "exited"}, i : DOMAIN Order]
             /\ report' \in [Node -> {"none", "success", "failed"}]
             /\ cmdbox' \in (Message \cup {Nothing})
             /\ cmdbox' = cmdbox \/ (cmdbox'.type = "NEW_FW" /\ cmdbox'.num = Quantity)
             /\ RouterSurvives'
  <2>1. router.i \in DOMAIN Order /\ Order[router.i] \in Node /\ router.st = "running"
    BY <1>s, <1>a, Settings DEF TypeOK, Advance
  <2>2. report' \in [Node -> {"none", "success", "failed"}]
    BY <1>a, <2>1 DEF TypeOK, Advance
  <2>3. CASE router.i < Len(Order)
    <3>1. router.i + 1 \in DOMAIN Order
      BY <1>s, <2>1, <2>3, Settings
    <3>2. Order[router.i + 1] \in Node
      BY <1>s, <3>1, Settings
    <3>3. cmdbox' = NewFwFor(Order[router.i + 1], Quantity)
      BY <1>a, <2>3 DEF Advance
    <3>4. cmdbox' \in Message
      BY <1>r, <1>s, <3>2, <3>3, Told1
    <3>5. cmdbox'.type = "NEW_FW" /\ cmdbox'.num = Quantity
      BY <3>3 DEF NewFwFor
    <3>6. router' = [router EXCEPT !.i = @ + 1]
      BY <1>a, <2>3 DEF Advance
    <3>7. router' \in [st : {"running", "done", "exited"}, i : DOMAIN Order] /\ router'.st = "running"
      BY <2>1, <3>1, <3>6 DEF TypeOK
    <3>q. QED
      BY <2>2, <3>4, <3>5, <3>7 DEF RouterSurvives
  <2>4. CASE ~(router.i < Len(Order))
    <3>1. router' = [router EXCEPT !.st = "done"] /\ cmdbox' = cmdbox
      BY <1>a, <2>4 DEF Advance
    <3>2. router' \in [st : {"running", "done", "exited"}, i : DOMAIN Order] /\ router'.st = "done"
      BY <2>1, <3>1 DEF TypeOK
    <3>q. QED
      BY <2>2, <3>1, <3>2 DEF TypeOK, RouterSurvives
  <2>q. QED
    BY <2>3, <2>4
<1>1. CASE LimitReached
  <2>1. NodesSame /\ UNCHANGED <<fwbox, net, restarts>> /\ Advance("failed")
    BY <1>1 DEF LimitReached, ramVars
  <2>2. \A x \in UnderWay' : Known(x)
    BY <1>r, <1>a, <2>1 DEF UnderWay
  <2>3. BoxInv'
    BY <1>a, <2>1 DEF BoxInv
  <2>q. QED
    BY <1>a, <1>r, <1>u, <2>1, <2>2, <2>3 DEF TypeOK
<1>2. CASE RouterRestart
  <2>1. Order[1] \in Node /\ 1 \in DOMAIN Order
    BY <1>s, Settings
  <2>m. resets \in 0 .. MaxFaults
    BY DEF TypeOK
  <2>n. /\ resets + restarts < MaxFaults /\ restarts' = restarts + 1
        /\ cmdbox' = NewFwFor(Order[1], Size(Run + 1)) /\ NodesSame /\ UNCHANGED <<fwbox, net>>
        /\ router' = [st |-> "running", i |-> 1] /\ report' = [n \in Node |-> "none"]
    BY <1>2 DEF RouterRestart, ramVars
  <2>4. restarts' \in 0 .. MaxFaults /\ restarts <= restarts' /\ Run' \in 1 .. Run' /\ Run' = Run + 1
    BY <1>r, <2>m, <2>n
  <2>2. cmdbox' \in Message
    <3>1. Run + 1 \in 1 .. (MaxFaults + 1)
      BY <1>r, <2>m, <2>n
    <3>q. QED
      BY <1>s, <2>1, <2>n, <3>1, Told1
  <2>3. cmdbox'.type = "NEW_FW" /\ cmdbox'.num = Size(Run')
    BY <2>4, <2>n DEF NewFwFor
  <2>5. \A x \in UnderWay' : Known(x)
    BY <2>n, <2>3, <2>4 DEF UnderWay
  <2>6. BoxInv' /\ RouterSurvives'
    BY <2>n, <2>3 DEF BoxInv, RouterSurvives
  <2>q. QED
    BY <1>u, <2>1, <2>n, <2>2, <2>4, <2>5, <2>6 DEF TypeOK
<1>3. CASE RootPoll
  <2>0. NodesSame /\ UNCHANGED <<router, report, restarts>> /\ fwbox' = Nothing /\ cmdbox' = Nothing
    BY <1>3 DEF RootPoll, ramVars, routerVars
  <2>1. BoxInv' /\ net' \subseteq Message
    BY <1>3 DEF RootPoll, BoxInv, TypeOK, send_firmware_packet, send_firmware_cmd_packet
  <2>2. \A x \in UnderWay' : Known(x)
    BY <1>3 DEF RootPoll, UnderWay, send_firmware_packet, send_firmware_cmd_packet
  <2>3. RouterSurvives'
    BY <2>0 DEF RouterSurvives
  <2>q. QED
    BY <1>r, <1>u, <2>0, <2>1, <2>2, <2>3 DEF TypeOK
<1>4. ASSUME NEW m \in net, MessageSuccess(m) PROVE BaseInv'
  <2>1. NodesSame /\ UNCHANGED <<fwbox, restarts>> /\ net' = net \ {m} /\ Advance("success")
    BY <1>4 DEF MessageSuccess, ramVars
  <2>2. \A x \in UnderWay' : Known(x)
    BY <1>r, <1>a, <2>1 DEF UnderWay
  <2>3. BoxInv'
    BY <1>a, <2>1 DEF BoxInv
  <2>4. net' \subseteq Message
    BY <2>1 DEF TypeOK
  <2>q. QED
    BY <1>a, <1>r, <1>u, <2>1, <2>2, <2>3, <2>4 DEF TypeOK
<1>5. ASSUME NEW m \in net, ServeRequest(m) PROVE BaseInv'
  <2>1. m.type = "REQ" /\ m.num \in 0 .. SlotSize /\ m.node \in Node
    BY <1>5, Messages DEF ServeRequest
  <2>2. net' = net \ {m} /\ NodesSame /\ UNCHANGED <<report, cmdbox, restarts>>
    BY <1>5 DEF ServeRequest, ramVars
  <2>3. net' \subseteq Message
    BY <2>2 DEF TypeOK
  <2>4. CASE m.num < Quantity
    <3>1. fwbox' = [type |-> "CHUNK", node |-> m.node, num |-> m.num, img |-> Run] /\ router' = router
      BY <1>5, <2>4 DEF ServeRequest
    <3>2. Run \in DOMAIN setting.images
      BY Runs
    <3>3. fwbox' \in Message
      BY <2>1, <3>1, <3>2 DEF Message
    <3>4. fwbox'.type = "CHUNK" /\ fwbox'.num = m.num /\ fwbox'.img = Run
      BY <3>1
    <3>5. \A x \in UnderWay' : Known(x)
      BY <1>r, <2>2, <2>4, <3>4 DEF UnderWay
    <3>6. BoxInv' /\ RouterSurvives'
      BY <2>2, <3>1, <3>4 DEF BoxInv, RouterSurvives
    <3>q. QED
      BY <1>r, <1>u, <2>2, <2>3, <3>1, <3>3, <3>5, <3>6 DEF TypeOK
  <2>5. CASE ~(m.num < Quantity)
    <3>1. fwbox' = fwbox /\ router' = [router EXCEPT !.st = "exited"]
      BY <1>5, <2>5 DEF ServeRequest
    <3>2. router' \in [st : {"running", "done", "exited"}, i : DOMAIN Order]
      BY <3>1 DEF TypeOK
    <3>3. PICK r \in 1 .. Run : m.num < Size(r)
      BY <2>1 DEF RequestInv, UnderWay
    <3>4. r # Run /\ r \in 1 .. restarts
      <4>1. r # Run
        BY <2>5, <3>3
      <4>q. QED
        BY <1>r, <3>3, <4>1
    <3>5. Size(r) > Quantity
      <4>1. Size(r) \in Nat /\ Quantity \in Nat
        BY <3>3, Runs
      <4>q. QED
        BY <2>1, <2>5, <3>3, <4>1
    <3>6. RouterSurvives'
      BY <2>2, <3>4, <3>5 DEF RouterSurvives
    <3>7. \A x \in UnderWay' : Known(x)
      BY <2>2, <3>1 DEF UnderWay
    <3>8. BoxInv'
      BY <2>2, <3>1 DEF BoxInv
    <3>q. QED
      BY <1>r, <1>u, <2>2, <2>3, <3>1, <3>2, <3>6, <3>7, <3>8 DEF TypeOK
  <2>q. QED
    BY <2>4, <2>5
<1>6. ASSUME NEW m \in net, Lose(m) PROVE BaseInv'
  <2>1. /\ net' = net \ {m} /\ NodesSame
        /\ UNCHANGED <<router, report, fwbox, cmdbox, restarts>>
    BY <1>6 DEF Lose, ramVars, routerVars, rootVars
  <2>2. \A x \in UnderWay' : Known(x)
    BY <2>1 DEF UnderWay
  <2>3. BoxInv' /\ RouterSurvives' /\ net' \subseteq Message
    BY <2>1 DEF BoxInv, RouterSurvives, TypeOK
  <2>q. QED
    BY <1>r, <1>u, <2>1, <2>2, <2>3 DEF TypeOK
<1>q. QED
  BY <1>1, <1>2, <1>3, <1>4, <1>5, <1>6

\* A step of one node, or a packet for it.
LEMMA NodeNext ==
  ASSUME BaseInv, NEW n \in Node,
         UNCHANGED <<setting, router, report, restarts, fwbox, cmdbox>>,
         NodeTypes', updated' \subseteq Node, resets' \in 0 .. MaxFaults, net' \subseteq Message,
         \A k \in Node : k # n => /\ st'[k] = st[k] /\ chunk_num'[k] = chunk_num[k]
                                  /\ quantity'[k] = quantity[k] /\ errors'[k] = errors[k],
         st'[n] = "idle" => chunk_num'[n] = 0 /\ errors'[n] = 0,
         st'[n] = "wait" => chunk_num'[n] >= 1,
         \/ quantity'[n] \in {quantity[n], 0}
         \/ \E r \in 1 .. Run : quantity'[n] = Size(r),
         \A x \in net' : \/ x \in net \/ x.type = "SUCCESS"
                         \/ x.type = "REQ" /\ \E r \in 1 .. Run : x.num < Size(r)
  PROVE  BaseInv'
<1> USE DEF BaseInv
<1>1. TypeOK'
  <2>1. Message' = Message /\ Content' = Content
    BY DEF Message, Content
  <2>q. QED
    BY <2>1 DEF TypeOK, NodeTypes
<1>2. BoxInv' /\ RouterSurvives'
  BY DEF BoxInv, RouterSurvives
<1>3. RestInv'
  BY DEF RestInv
<1>4. RequestInv'
  <2>1. \A r : Size(r)' = Size(r) /\ Run' = Run
    OBVIOUS
  <2>2. \A k \in Node : quantity'[k] = 0 \/ \E r \in 1 .. Run : quantity'[k] = Size(r)
    BY Zenon DEF RequestInv
  <2>3. \A k \in Node : st'[k] = "wait" => chunk_num'[k] >= 1
    BY Zenon DEF RequestInv
  <2>4. ASSUME NEW x \in UnderWay'
        PROVE  /\ x.type = "NEW_FW" => \E r \in 1 .. Run : x.num = Size(r)
               /\ x.type = "REQ" => \E r \in 1 .. Run : x.num < Size(r)
               /\ x.type = "CHUNK" => x.img \in 1 .. Run /\ x.num < Size(x.img)
    <3>1. \/ x \in UnderWay \/ x.type = "SUCCESS"
          \/ x.type = "REQ" /\ \E r \in 1 .. Run : x.num < Size(r)
      BY <2>4 DEF UnderWay
    <3>2. CASE x \in UnderWay
      BY <3>2, Zenon DEF RequestInv
    <3>3. CASE x.type = "SUCCESS"
      BY <3>3
    <3>4. CASE x.type = "REQ" /\ \E r \in 1 .. Run : x.num < Size(r)
      BY <3>4
    <3>q. QED
      BY <3>1, <3>2, <3>3, <3>4
  <2>q. QED
    BY <2>1, <2>2, <2>3, <2>4 DEF RequestInv
<1>q. QED
  BY <1>1, <1>2, <1>3, <1>4

\* The node's packet handlers.
LEMMA HandlerBase ==
  ASSUME BaseInv, NEW m \in net,
         NewFw(m) \/ FirmwareData(m) \/ FirmwareDataAtDeadline(m)
  PROVE  BaseInv'
<1> USE DEF BaseInv
<1> DEFINE n == m.node
<1>s. setting \in Setting /\ SlotSize \in Nat /\ MaxOffset \in Nat /\ MaxError \in Nat /\ W16 \in Nat
  BY Settings DEF TypeOK
<1>m. n \in Node /\ m \in Message
  BY Messages
<1>o. /\ UNCHANGED <<setting, router, report, restarts, fwbox, cmdbox, updated, resets>>
      /\ net' = net \ {m}
  BY DEF NewFw, FirmwareData, FirmwareDataAtDeadline, Store, routerVars, rootVars
<1>p. net' \subseteq Message /\ updated' \subseteq Node /\ resets' \in 0 .. MaxFaults
  BY <1>o DEF TypeOK
<1>y. NodeTypes
  BY DEF TypeOK, NodeTypes
<1>x. \A x \in net' : x \in net
  BY <1>o
<1>1. CASE NewFw(m)
  <2>0. /\ m.type = "NEW_FW" /\ quantity' = [quantity EXCEPT ![n] = m.num]
        /\ offset' = [offset EXCEPT ![n] = 0] /\ UNCHANGED <<chunk_num, errors, slot>>
        /\ \/ UNCHANGED <<st, page>> /\ st[n] \in OnList
           \/ st' = [st EXCEPT ![n] = "erase"] /\ page' = [page EXCEPT ![n] = 0]
    BY <1>1 DEF NewFw
  <2>1. m.num \in 0 .. SlotSize /\ \E r \in 1 .. Run : m.num = Size(r)
    BY <2>0, Messages DEF RequestInv, UnderWay
  <2>2. NodeTypes'
    <3>1. st' \in [Node -> {"idle", "trial"} \cup OnList \cup OffList]
      BY <1>m, <1>y, <2>0 DEF NodeTypes, OnList
    <3>2. page' \in [Node -> 0 .. SlotSize]
      <4>1. page \in [Node -> 0 .. SlotSize] /\ 0 \in 0 .. SlotSize
        BY <1>s, <1>y DEF NodeTypes
      <4>2. page' = page \/ page' = [page EXCEPT ![n] = 0]
        BY <2>0
      <4>q. QED
        BY <1>m, <4>1, <4>2
    <3>3. quantity' \in [Node -> 0 .. SlotSize]
      BY <1>m, <1>y, <2>0, <2>1 DEF NodeTypes
    <3>4. offset' \in [Node -> 0 .. (MaxOffset + 1)]
      BY <1>m, <1>s, <1>y, <2>0 DEF NodeTypes
    <3>5. Content' = Content
      BY <1>o DEF Content
    <3>q. QED
      BY <1>y, <2>0, <3>1, <3>2, <3>3, <3>4, <3>5 DEF NodeTypes
  <2>3. /\ \A k \in Node : k # n => /\ st'[k] = st[k] /\ chunk_num'[k] = chunk_num[k]
                                     /\ quantity'[k] = quantity[k] /\ errors'[k] = errors[k]
        /\ st'[n] \in OnList /\ (st'[n] = "wait" => st[n] = "wait")
        /\ quantity'[n] = m.num
    BY <1>m, <1>y, <2>0 DEF NodeTypes, OnList
  <2>4. /\ st'[n] # "idle"
        /\ st'[n] = "wait" => chunk_num'[n] >= 1
    BY <1>m, <2>0, <2>3 DEF RequestInv, OnList
  <2>q. QED
    BY <1>m, <1>o, <1>p, <1>x, <2>1, <2>2, <2>3, <2>4, NodeNext
<1>t. ASSUME Store(m)
      PROVE  /\ slot' \in [Node -> [Place -> Content]]
             /\ offset' \in [Node -> 0 .. (MaxOffset + 1)]
             /\ UNCHANGED <<page, quantity>>
  <2>0. /\ m.type = "CHUNK" /\ offset[n] <= MaxOffset /\ UNCHANGED <<page, quantity>>
        /\ slot' = [slot EXCEPT ![n][offset[n]] = Programmed(@, <<m.img, m.num>>)]
        /\ offset' = [offset EXCEPT ![n] = @ + 1]
    BY <1>t DEF Store
  <2>1. offset[n] \in 0 .. (MaxOffset + 1)
    BY <1>m, <1>y DEF NodeTypes
  <2>2. offset[n] \in Place /\ offset[n] + 1 \in 0 .. (MaxOffset + 1)
    BY <1>s, <2>0, <2>1
  <2>3. <<m.img, m.num>> \in Content
    BY <2>0, Messages DEF Content
  <2>4. Programmed(slot[n][offset[n]], <<m.img, m.num>>) \in Content
    BY <2>3 DEF Programmed, Content
  <2>5. slot' \in [Node -> [Place -> Content]]
    BY <1>m, <1>y, <2>0, <2>2, <2>4 DEF NodeTypes
  <2>6. offset' \in [Node -> 0 .. (MaxOffset + 1)]
    BY <1>m, <1>y, <2>0, <2>2 DEF NodeTypes
  <2>q. QED
    BY <2>0, <2>5, <2>6
<1>c. Content' = Content
  BY <1>o DEF Content
<1>2. CASE FirmwareData(m)
  <2>0. /\ Store(m) /\ UNCHANGED chunk_num /\ errors' = [errors EXCEPT ![n] = 0]
        /\ st' = IF st[n] = "wait" THEN [st EXCEPT ![n] = "delay"] ELSE st
    BY <1>2 DEF FirmwareData
  <2>1. errors' \in [Node -> 0 .. (MaxError + 1)]
    BY <1>m, <1>s, <1>y, <2>0 DEF NodeTypes
  <2>2. st' \in [Node -> {"idle", "trial"} \cup OnList \cup OffList]
    BY <1>m, <1>y, <2>0 DEF NodeTypes, OnList
  <2>3. NodeTypes'
    BY <1>c, <1>t, <1>y, <2>0, <2>1, <2>2 DEF NodeTypes
  <2>4. /\ \A k \in Node : k # n => st'[k] = st[k] /\ errors'[k] = errors[k]
        /\ st'[n] # "wait" /\ (st'[n] = "idle" => st[n] = "idle") /\ errors'[n] = 0
    BY <1>m, <1>y, <2>0 DEF NodeTypes
  <2>5. st'[n] = "idle" => chunk_num'[n] = 0
    BY <1>m, <2>0, <2>4 DEF RestInv
  <2>q. QED
    BY <1>m, <1>o, <1>p, <1>t, <1>x, <2>0, <2>3, <2>4, <2>5, NodeNext
<1>3. CASE FirmwareDataAtDeadline(m)
  <2>0. /\ Store(m) /\ errors' = [errors EXCEPT ![n] = 1] /\ st[n] = "wait"
        /\ st' = [st EXCEPT ![n] = "delay"] /\ chunk_num' = [chunk_num EXCEPT ![n] = @ - 1]
    BY <1>3 DEF FirmwareDataAtDeadline
  <2>1. errors' \in [Node -> 0 .. (MaxError + 1)]
    BY <1>m, <1>s, <1>y, <2>0 DEF NodeTypes
  <2>2. st' \in [Node -> {"idle", "trial"} \cup OnList \cup OffList]
    BY <1>m, <1>y, <2>0 DEF NodeTypes, OnList
  <2>3. chunk_num' \in [Node -> 0 .. (W16 - 1)]
    <3>1. chunk_num[n] \in 0 .. (W16 - 1) /\ chunk_num[n] >= 1
      BY <1>m, <1>y, <2>0 DEF NodeTypes, RequestInv
    <3>2. chunk_num[n] - 1 \in 0 .. (W16 - 1)
      BY <1>s, <3>1
    <3>q. QED
      BY <1>m, <1>y, <2>0, <3>2 DEF NodeTypes
  <2>4. NodeTypes'
    BY <1>c, <1>t, <1>y, <2>0, <2>1, <2>2, <2>3 DEF NodeTypes
  <2>5. /\ \A k \in Node : k # n => /\ st'[k] = st[k] /\ errors'[k] = errors[k]
                                     /\ chunk_num'[k] = chunk_num[k]
        /\ st'[n] = "delay"
    BY <1>m, <1>y, <2>0 DEF NodeTypes
  <2>q. QED
    BY <1>m, <1>o, <1>p, <1>t, <1>x, <2>0, <2>4, <2>5, NodeNext
<1>q. QED
  BY <1>1, <1>2, <1>3

\* fw_update_process, the trial and resets.
LEMMA ProcessBase ==
  ASSUME BaseInv, NEW n \in Node,
         fw_update_process(n) \/ Trial(n) \/ NodeReset(n)
  PROVE  BaseInv'
<1> USE DEF BaseInv
<1>o. UNCHANGED <<setting, router, report, restarts, fwbox, cmdbox>>
  BY DEF fw_update_process, EraseStep, RequestChunk, VerifySlot, TimeoutRetry, TimeoutAbort,
         TimeoutLast, Trial, TrialJoined, TrialRolledBack, NodeReset, routerVars, rootVars
<1>s. /\ setting \in Setting /\ SlotSize \in Nat /\ MaxOffset \in Nat /\ MaxError \in Nat
      /\ W16 \in Nat /\ SlotSize < W16 - 1 /\ SlotSize <= MaxOffset /\ MaxFaults \in Nat
  BY Settings DEF TypeOK
<1>y. /\ NodeTypes /\ net \subseteq Message /\ updated \subseteq Node
      /\ resets \in 0 .. MaxFaults
  BY DEF TypeOK, NodeTypes
<1>p. Content' = Content
  BY <1>o DEF Content
<1>c. ASSUME ClearRam(n), UNCHANGED slot,
             net' = net \/ net' = net \cup {[type |-> "SUCCESS", node |-> n]},
             updated' \subseteq Node, resets' \in 0 .. MaxFaults
      PROVE  BaseInv'
  <2>1. net' \subseteq Message
    BY <1>c, <1>y, SMTT(30) DEF Message
  <2>2. NodeTypes'
    <3>1. st' \in [Node -> {"idle", "trial"} \cup OnList \cup OffList]
      BY <1>c, <1>y DEF ClearRam, NodeTypes
    <3>2. page' \in [Node -> 0 .. SlotSize] /\ quantity' \in [Node -> 0 .. SlotSize]
      BY <1>c, <1>s, <1>y DEF ClearRam, NodeTypes
    <3>3. chunk_num' \in [Node -> 0 .. (W16 - 1)]
      BY <1>c, <1>s, <1>y DEF ClearRam, NodeTypes
    <3>4. offset' \in [Node -> 0 .. (MaxOffset + 1)]
      BY <1>c, <1>s, <1>y DEF ClearRam, NodeTypes
    <3>5. errors' \in [Node -> 0 .. (MaxError + 1)]
      BY <1>c, <1>s, <1>y DEF ClearRam, NodeTypes
    <3>q. QED
      BY <1>c, <1>p, <1>y, <3>1, <3>2, <3>3, <3>4, <3>5 DEF NodeTypes
  <2>3. /\ \A k \in Node : k # n => /\ st'[k] = st[k] /\ chunk_num'[k] = chunk_num[k]
                                     /\ quantity'[k] = quantity[k] /\ errors'[k] = errors[k]
        /\ st'[n] = "idle" /\ chunk_num'[n] = 0 /\ errors'[n] = 0 /\ quantity'[n] = 0
    BY <1>c, <1>y DEF ClearRam, NodeTypes
  <2>4. \A x \in net' : x \in net \/ x.type = "SUCCESS"
    BY <1>c
  <2>q. QED
    BY <1>c, <1>o, <2>1, <2>2, <2>3, <2>4, NodeNext
<1>w. ASSUME UNCHANGED <<net, updated, resets>>
      PROVE  /\ net' \subseteq Message /\ updated' \subseteq Node /\ resets' \in 0 .. MaxFaults
             /\ \A x \in net' : x \in net
  BY <1>w, <1>y, <1>o
<1>1. CASE EraseStep(n)
  <2>0. /\ st[n] = "erase" /\ page[n] < SlotSize
        /\ slot' = [slot EXCEPT ![n][page[n]] = Blank] /\ page' = [page EXCEPT ![n] = @ + 1]
        /\ UNCHANGED <<net, updated, resets, st, chunk_num, quantity, offset, errors>>
    BY <1>1 DEF EraseStep
  <2>1. page[n] \in 0 .. SlotSize
    BY <1>y DEF NodeTypes
  <2>2. page[n] \in Place /\ page[n] + 1 \in 0 .. SlotSize
    BY <1>s, <2>0, <2>1
  <2>3. slot' \in [Node -> [Place -> Content]]
    BY <1>y, <2>0, <2>2 DEF NodeTypes, Content
  <2>4. page' \in [Node -> 0 .. SlotSize]
    BY <1>y, <2>0, <2>2 DEF NodeTypes
  <2>5. NodeTypes'
    BY <1>p, <1>y, <2>0, <2>3, <2>4 DEF NodeTypes
  <2>q. QED
    BY <1>o, <1>w, <2>0, <2>5, NodeNext
<1>2. CASE RequestChunk(n)
  <2> DEFINE req == [type |-> "REQ", node |-> n, num |-> chunk_num[n]]
  <2>0. /\ chunk_num[n] < quantity[n] /\ net' = net \cup {req}
        /\ chunk_num' = [chunk_num EXCEPT ![n] = @ + 1] /\ st' = ToWait(n)
        /\ UNCHANGED <<page, quantity, offset, errors, slot, updated, resets>>
    BY <1>2 DEF RequestChunk, send_fw_chunk_req_packet
  <2>1. chunk_num[n] \in 0 .. (W16 - 1) /\ quantity[n] \in 0 .. SlotSize
    BY <1>y DEF NodeTypes
  <2>2. chunk_num[n] \in 0 .. SlotSize /\ chunk_num[n] + 1 \in 0 .. (W16 - 1) /\ quantity[n] # 0
    BY <1>s, <2>0, <2>1
  <2>3. PICK r \in 1 .. Run : quantity[n] = Size(r)
    BY <2>2 DEF RequestInv
  <2>4. req.type = "REQ" /\ req.num = chunk_num[n] /\ req \in Message
    BY <2>2 DEF Message
  <2>5. req.num < Size(r)
    BY <2>0, <2>3, <2>4
  <2>6. \A x \in net' : x \in net \/ (x.type = "REQ" /\ \E q \in 1 .. Run : x.num < Size(q))
    BY <2>0, <2>3, <2>4, <2>5, Zenon
  <2>7. st' \in [Node -> {"idle", "trial"} \cup OnList \cup OffList]
    BY <1>y, <2>0 DEF NodeTypes, ToWait, OnList, OffList
  <2>8. chunk_num' \in [Node -> 0 .. (W16 - 1)]
    BY <1>y, <2>0, <2>2 DEF NodeTypes
  <2>9. NodeTypes'
    BY <1>p, <1>y, <2>0, <2>7, <2>8 DEF NodeTypes
  <2>10. /\ \A k \in Node : k # n => st'[k] = st[k] /\ chunk_num'[k] = chunk_num[k]
         /\ chunk_num'[n] = chunk_num[n] + 1 /\ st'[n] \in {"wait", "wait_off"}
    BY <1>y, <2>0 DEF NodeTypes, ToWait
  <2>11. chunk_num'[n] >= 1
    BY <2>1, <2>10
  <2>12. net' \subseteq Message
    BY <1>y, <2>0, <2>4
  <2>q. QED
    BY <1>o, <1>y, <2>0, <2>6, <2>9, <2>10, <2>11, <2>12, NodeNext
<1>3. CASE VerifySlot(n) \/ TimeoutAbort(n)
  <2>0. /\ errors' = [errors EXCEPT ![n] = 0] /\ chunk_num' = [chunk_num EXCEPT ![n] = 0]
        /\ UNCHANGED <<net, page, quantity, offset, slot, updated, resets>>
        /\ \E next \in {"idle", "trial", "wait_off", "delay_off"} : st' = [st EXCEPT ![n] = next]
    BY <1>3 DEF VerifySlot, TimeoutAbort
  <2>1. st' \in [Node -> {"idle", "trial"} \cup OnList \cup OffList]
    BY <1>y, <2>0 DEF NodeTypes, OffList
  <2>2. chunk_num' \in [Node -> 0 .. (W16 - 1)]
    BY <1>s, <1>y, <2>0 DEF NodeTypes
  <2>3. errors' \in [Node -> 0 .. (MaxError + 1)]
    BY <1>s, <1>y, <2>0 DEF NodeTypes
  <2>4. NodeTypes'
    BY <1>p, <1>y, <2>0, <2>1, <2>2, <2>3 DEF NodeTypes
  <2>5. /\ \A k \in Node : k # n => /\ st'[k] = st[k] /\ chunk_num'[k] = chunk_num[k]
                                     /\ errors'[k] = errors[k]
        /\ st'[n] # "wait" /\ chunk_num'[n] = 0 /\ errors'[n] = 0
    BY <1>y, <2>0 DEF NodeTypes
  <2>q. QED
    BY <1>o, <1>w, <2>0, <2>4, <2>5, NodeNext
<1>4. CASE TimeoutRetry(n) \/ TimeoutLast(n)
  <2>0. /\ st' = ToDelay(n)
        /\ chunk_num' = Decremented(n) \/ chunk_num' = chunk_num
        /\ errors' = errors \/ (errors[n] <= MaxError /\ errors' = [errors EXCEPT ![n] = @ + 1])
        /\ UNCHANGED <<net, page, quantity, offset, slot, updated, resets>>
    BY <1>4 DEF TimeoutRetry, TimeoutLast
  <2>1. st' \in [Node -> {"idle", "trial"} \cup OnList \cup OffList]
    BY <1>y, <2>0 DEF NodeTypes, ToDelay, OnList, OffList
  <2>2. chunk_num' \in [Node -> 0 .. (W16 - 1)]
    <3>1. chunk_num[n] \in 0 .. (W16 - 1)
      BY <1>y DEF NodeTypes
    <3>2. (chunk_num[n] - 1) % W16 \in 0 .. (W16 - 1)
      BY <1>s, <3>1
    <3>q. QED
      BY <1>y, <2>0, <3>2 DEF NodeTypes, Decremented
  <2>3. errors' \in [Node -> 0 .. (MaxError + 1)]
    <3>1. errors[n] \in 0 .. (MaxError + 1)
      BY <1>y DEF NodeTypes
    <3>2. errors[n] <= MaxError => errors[n] + 1 \in 0 .. (MaxError + 1)
      BY <1>s, <3>1
    <3>q. QED
      BY <1>y, <2>0, <3>2 DEF NodeTypes
  <2>4. NodeTypes'
    BY <1>p, <1>y, <2>0, <2>1, <2>2, <2>3 DEF NodeTypes
  <2>5. /\ \A k \in Node : k # n => /\ st'[k] = st[k] /\ chunk_num'[k] = chunk_num[k]
                                     /\ errors'[k] = errors[k]
        /\ st'[n] \in {"delay", "delay_off"}
    BY <1>y, <2>0 DEF NodeTypes, ToDelay, Decremented
  <2>q. QED
    BY <1>o, <1>w, <2>0, <2>4, <2>5, NodeNext
<1>7. CASE TrialJoined(n)
  BY <1>7, <1>c, <1>y DEF TrialJoined
<1>8. CASE TrialRolledBack(n)
  BY <1>8, <1>c, <1>y DEF TrialRolledBack
<1>9. CASE NodeReset(n)
  <2>1. /\ restarts \in 0 .. MaxFaults
        /\ resets + restarts < MaxFaults /\ resets' = resets + 1
    BY <1>9 DEF NodeReset, TypeOK
  <2>2. resets' \in 0 .. MaxFaults
    BY <1>s, <1>y, <2>1
  <2>q. QED
    BY <1>9, <1>c, <1>y, <2>2 DEF NodeReset
<1>q. QED
  BY <1>1, <1>2, <1>3, <1>4, <1>7, <1>8, <1>9 DEF fw_update_process, Trial

LEMMA NextBase == BaseInv /\ [Next]_vars => BaseInv'
<1> SUFFICES ASSUME BaseInv, [Next]_vars PROVE BaseInv'
  OBVIOUS
<1>1. CASE UNCHANGED vars
  <2>1. UNCHANGED <<setting, router, report, restarts, fwbox, cmdbox, net, st, page,
                    chunk_num, quantity, offset, errors, slot, updated, resets>>
    BY <1>1 DEF vars, routerVars, rootVars, ramVars
  <2>2. TypeOK'
    BY <2>1 DEF BaseInv, TypeOK, Message, Content
  <2>3. RequestInv'
    BY <2>1 DEF BaseInv, RequestInv, UnderWay
  <2>q. QED
    BY <2>1, <2>2, <2>3 DEF BaseInv, BoxInv, RestInv, RouterSurvives
<1>2. CASE Next
  BY <1>2, RouterBase, HandlerBase, ProcessBase DEF Next, Receive
<1>q. QED
  BY <1>1, <1>2

LEMMA BaseInvariant == Spec => []BaseInv
BY InitBase, NextBase, PTL DEF Spec

\* The transfer's state keeps to its types: no counter passes its bound, and only
\* messages the protocol has are in a mailbox or on the air.
THEOREM TransferTypes == Spec => []TypeOK
BY BaseInvariant, PTL DEF BaseInv

\* Only NEW_FW puts a process on the list.
LEMMA StartedBy ==
  ASSUME TypeOK, [Next]_vars, NEW n \in Node, st'[n] = "erase", st[n] \notin OnList
  PROVE  \E m \in net : NewFw(m) /\ m.node = n
<1>s. st'[n] # st[n] /\ st \in [Node -> {"idle", "trial"} \cup OnList \cup OffList]
  BY DEF TypeOK, OnList
<1>1. CASE UNCHANGED vars
  BY <1>1, <1>s DEF vars
<1>2. CASE LimitReached \/ RouterRestart \/ RootPoll
  BY <1>2, <1>s DEF LimitReached, RouterRestart, RootPoll
<1>3. ASSUME NEW m \in net, Receive(m) \/ Lose(m) PROVE NewFw(m) /\ m.node = n
  <2>1. CASE MessageSuccess(m) \/ ServeRequest(m) \/ Lose(m)
    BY <1>s, <2>1 DEF MessageSuccess, ServeRequest, Lose
  <2>2. CASE FirmwareData(m) \/ FirmwareDataAtDeadline(m)
    BY <1>s, <2>2 DEF FirmwareData, FirmwareDataAtDeadline
  <2>3. CASE NewFw(m)
    BY <1>s, <2>3 DEF NewFw
  <2>q. QED
    BY <1>3, <2>1, <2>2, <2>3 DEF Receive
<1>4. ASSUME NEW k \in Node, fw_update_process(k) \/ Trial(k) \/ NodeReset(k) PROVE FALSE
  <2>1. CASE EraseStep(k)
    BY <1>s, <2>1 DEF EraseStep
  <2>2. CASE RequestChunk(k)
    BY <1>s, <2>2 DEF RequestChunk, ToWait
  <2>3. CASE VerifySlot(k) \/ TimeoutAbort(k)
    <3>1. \E next \in {"idle", "trial", "wait_off", "delay_off"} : st' = [st EXCEPT ![k] = next]
      BY <2>3 DEF VerifySlot, TimeoutAbort
    <3>q. QED
      BY <1>s, <3>1
  <2>4. CASE TimeoutRetry(k) \/ TimeoutLast(k)
    BY <1>s, <2>4 DEF TimeoutRetry, TimeoutLast, ToDelay
  <2>5. CASE Trial(k) \/ NodeReset(k)
    BY <1>s, <2>5 DEF Trial, TrialJoined, TrialRolledBack, NodeReset, ClearRam
  <2>q. QED
    BY <1>4, <2>1, <2>2, <2>3, <2>4, <2>5 DEF fw_update_process
<1>q. QED
  BY <1>1, <1>2, <1>3, <1>4 DEF Next

\* fw_update_process starts with fresh static counters however its last run ended -
\* verified, rolled back, given up or cut off by a reset - unless a second timer event
\* has re-entered it after its exit.
THEOREM TransferStartsFresh == Spec => StartsFresh
<1> DEFINE Fresh == \A n \in Node :
       st'[n] = "erase" /\ st[n] \notin OnList =>
         (chunk_num'[n] = 0 /\ errors'[n] = 0) \/ st[n] \in OffList
<1>1. BaseInv /\ [Next]_vars => [Fresh]_vars
  <2> SUFFICES ASSUME BaseInv, [Next]_vars, NEW n \in Node, st'[n] = "erase",
                      st[n] \notin OnList, st[n] \notin OffList
               PROVE  chunk_num'[n] = 0 /\ errors'[n] = 0
    OBVIOUS
  <2>1. PICK m \in net : NewFw(m) /\ m.node = n
    BY StartedBy DEF BaseInv
  <2>2. st[n] = "idle"
    BY <2>1 DEF BaseInv, TypeOK, NewFw
  <2>3. UNCHANGED <<chunk_num, errors>>
    BY <2>1 DEF NewFw
  <2>q. QED
    BY <2>2, <2>3 DEF BaseInv, RestInv
<1>q. QED
  BY <1>1, BaseInvariant, PTL DEF Spec, StartsFresh

\* fw_cmd_data_processing's os.exit is reached only in a router that was run again with
\* an image shorter than one of its earlier ones: late answers, losses, resets and the
\* re-entered process never ask for a chunk beyond the images the router was given.
THEOREM RouterStaysUp == Spec => []RouterSurvives
BY BaseInvariant, PTL DEF BaseInv
-----------------------------------------------------------------------------
(***************************************************************************)
(* Without a restart of the router, a node is told once to update, and its  *)
(* chunks go to erased flash.                                               *)
(***************************************************************************)
\* In the first run there is one image, and what is under way is about it.
LEMMA FirstRun ==
  ASSUME BaseInv, restarts = 0
  PROVE  /\ \A n \in Node : quantity[n] \in {0, Quantity}
         /\ \A m \in UnderWay : m.type = "NEW_FW" => m.num = Quantity
         /\ \A m \in UnderWay : m.type = "REQ" => m.num < Quantity
         /\ \A m \in UnderWay : m.type = "CHUNK" => m.img = 1 /\ m.num < Quantity
<1>1. Run = 1 /\ \A r \in 1 .. Run : r = Run
  OBVIOUS
<1>2. RequestInv
  BY DEF BaseInv
<1>3. \A n \in Node : quantity[n] \in {0, Quantity}
  BY <1>1, <1>2 DEF RequestInv
<1>4. \A m \in UnderWay : m.type = "NEW_FW" => m.num = Quantity
  BY <1>1, <1>2 DEF RequestInv
<1>5. \A m \in UnderWay : m.type = "REQ" => m.num < Quantity
  BY <1>1, <1>2 DEF RequestInv
<1>6. \A m \in UnderWay : m.type = "CHUNK" => m.img = 1 /\ m.num < Quantity
  BY <1>1, <1>2 DEF RequestInv
<1>q. QED
  BY <1>3, <1>4, <1>5, <1>6

\* A NEW_FW of one image, or a SUCCESS, is told apart by its node alone.
LEMMA SameMessage ==
  ASSUME NEW a \in Message, NEW b \in Message, a.type = b.type, a.node = b.node,
         a.type = "SUCCESS" \/ (a.type = "NEW_FW" /\ a.num = b.num)
  PROVE  a = b
BY DEF Message

\* Nothing of these types is under way for a node, unless a step adds it.
LEMMA NoneStays ==
  ASSUME NEW types \in SUBSET {"NEW_FW", "REQ", "CHUNK", "SUCCESS"}, NEW n,
         None(types, n),
         \A x \in UnderWay' : x \in UnderWay \/ x = Nothing \/ x.node # n \/ x.type \notin types
  PROVE  None(types, n)'
BY DEF None, Nothing

\* What StartInv asks of a step that does not move the router on.
LEMMA StartNext ==
  ASSUME StartInv, setting' = setting, router'.i = router.i, cmdbox' \notin net',
         \A n \in Node : None({"NEW_FW"}, n) => None({"NEW_FW"}, n)',
         \A n \in Node : \/ st'[n] = "idle" /\ None({"REQ", "CHUNK", "SUCCESS"}, n)'
                         \/ ~Future(n) /\ None({"NEW_FW"}, n)',
         \A n \in Node : st'[n] # "idle" => st[n] # "idle" \/ ~None({"NEW_FW"}, n)
  PROVE  StartInv'
<1>1. \A n \in Node : (Future(n)' <=> Future(n)) /\ (Told(n)' <=> Told(n))
  BY DEF Future, Told
<1>2. \A n \in Node : Future(n)' => None({"NEW_FW"}, n)'
  BY <1>1 DEF StartInv
<1>3. \A n \in Node : Future(n)' \/ ~None({"NEW_FW"}, n)' =>
        st'[n] = "idle" /\ None({"REQ", "CHUNK", "SUCCESS"}, n)'
  BY <1>1
<1>4. \A n \in Node : st'[n] # "idle" \/ ~None({"NEW_FW"}, n)' => Told(n)'
  BY <1>1 DEF StartInv
<1>q. QED
  BY <1>2, <1>3, <1>4 DEF StartInv

\* A step that takes messages away, or moves them from a mailbox to the air, and at
\* most ends a node's transfer or lets it go on.
LEMMA StartQuiet ==
  ASSUME StartInv, setting' = setting, router'.i = router.i, cmdbox' \notin net',
         \A x \in UnderWay' : x \in UnderWay \/ x = Nothing,
         \A n \in Node : st'[n] = "idle" \/ st[n] # "idle"
  PROVE  StartInv'
<1>1. ASSUME NEW n \in Node, NEW types \in SUBSET {"NEW_FW", "REQ", "CHUNK", "SUCCESS"},
             None(types, n)
      PROVE  None(types, n)'
  BY <1>1, NoneStays
<1>2. ASSUME NEW n \in Node
      PROVE  \/ st'[n] = "idle" /\ None({"REQ", "CHUNK", "SUCCESS"}, n)'
             \/ ~Future(n) /\ None({"NEW_FW"}, n)'
  <2>1. CASE Future(n) \/ ~None({"NEW_FW"}, n)
    <3>1. st[n] = "idle" /\ None({"REQ", "CHUNK", "SUCCESS"}, n)
      BY <2>1 DEF StartInv
    <3>q. QED
      BY <1>1, <3>1
  <2>2. CASE ~Future(n) /\ None({"NEW_FW"}, n)
    BY <1>1, <2>2
  <2>q. QED
    BY <2>1, <2>2
<1>3. \A n \in Node : None({"NEW_FW"}, n) => None({"NEW_FW"}, n)'
  BY <1>1
<1>q. QED
  BY <1>2, <1>3, StartNext

\* A step that adds a request, an answer or a success of a node whose turn has come.
LEMMA StartAdds ==
  ASSUME StartInv, NEW k \in Node, UNCHANGED <<setting, cmdbox>>, router'.i = router.i,
         cmdbox \notin net',
         st[k] # "idle" \/ ~None({"REQ", "CHUNK", "SUCCESS"}, k),
         \A x \in UnderWay' : x \in UnderWay
                              \/ (x.type \in {"REQ", "CHUNK", "SUCCESS"} /\ x.node = k),
         \A n \in Node : st'[n] = st[n] \/ n = k,
         st'[k] = "idle" \/ st[k] # "idle"
  PROVE  StartInv'
<1>1. ~Future(k) /\ None({"NEW_FW"}, k)
  BY DEF StartInv
<1>2. ASSUME NEW n \in Node, None({"NEW_FW"}, n) PROVE None({"NEW_FW"}, n)'
  BY <1>2, NoneStays
<1>3. ASSUME NEW n \in Node
      PROVE  \/ st'[n] = "idle" /\ None({"REQ", "CHUNK", "SUCCESS"}, n)'
             \/ ~Future(n) /\ None({"NEW_FW"}, n)'
  <2>1. CASE Future(n) \/ ~None({"NEW_FW"}, n)
    <3>1. st[n] = "idle" /\ None({"REQ", "CHUNK", "SUCCESS"}, n) /\ n # k
      BY <1>1, <2>1 DEF StartInv
    <3>2. None({"REQ", "CHUNK", "SUCCESS"}, n)'
      BY <3>1, NoneStays
    <3>q. QED
      BY <3>1, <3>2
  <2>2. CASE ~Future(n) /\ None({"NEW_FW"}, n)
    BY <1>2, <2>2
  <2>q. QED
    BY <2>1, <2>2
<1>4. \A n \in Node : None({"NEW_FW"}, n) => None({"NEW_FW"}, n)'
  BY <1>2
<1>q. QED
  BY <1>3, <1>4, StartNext

\* The router ends a device and tells the next one.
LEMMA StartAdvance ==
  ASSUME BaseInv, StartInv, NEW result, Advance(result),
         net' \subseteq net, UNCHANGED <<setting, fwbox, st>>
  PROVE  StartInv'
<1>s. setting \in Setting /\ router.i \in DOMAIN Order
  BY DEF BaseInv, TypeOK
<1>1. CASE router.i < Len(Order)
  <2> DEFINE next == Order[router.i + 1]
  <2>1. router.i + 1 \in DOMAIN Order /\ router.i \in Nat
    BY <1>1, <1>s, Settings
  <2>2. next \in Node /\ Future(next)
    <3>1. next \in Node
      BY <1>s, <2>1, Settings
    <3>2. router.i + 1 > router.i
      BY <2>1
    <3>q. QED
      BY <2>1, <3>1, <3>2, Zenon DEF Future
  <2>3. router'.i = router.i + 1 /\ cmdbox'.type = "NEW_FW" /\ cmdbox'.node = next
    BY <1>1 DEF Advance, BaseInv, TypeOK, NewFwFor
  <2>4. \A n \in Node : Future(n)' => Future(n) /\ n # next
    BY <1>s, <2>1, <2>3, Settings DEF Future
  <2>5. \A n \in Node : Told(n) \/ n = next => Told(n)'
    BY <1>s, <2>1, <2>3, Settings DEF Told
  <2>6. \A x \in UnderWay' : x \in UnderWay \/ x = cmdbox'
    BY DEF UnderWay
  <2>7. None({"NEW_FW"}, next) /\ st[next] = "idle" /\ None({"REQ", "CHUNK", "SUCCESS"}, next)
    BY <2>2 DEF StartInv
  <2>8. cmdbox' \notin net'
    BY <2>3, <2>7 DEF None, UnderWay
  <2>9. ASSUME NEW n \in Node, None({"REQ", "CHUNK", "SUCCESS"}, n)
        PROVE  None({"REQ", "CHUNK", "SUCCESS"}, n)'
    BY <2>3, <2>6, <2>9, NoneStays
  <2>10. ASSUME NEW n \in Node, None({"NEW_FW"}, n), n # next
         PROVE  None({"NEW_FW"}, n)'
    BY <2>3, <2>6, <2>10, NoneStays
  <2>11. \A n \in Node : Future(n)' => None({"NEW_FW"}, n)'
    BY <2>4, <2>10 DEF StartInv
  <2>12. \A n \in Node : Future(n)' \/ ~None({"NEW_FW"}, n)' =>
           st'[n] = "idle" /\ None({"REQ", "CHUNK", "SUCCESS"}, n)'
    BY <2>4, <2>7, <2>9, <2>10 DEF StartInv
  <2>13. \A n \in Node : st'[n] # "idle" \/ ~None({"NEW_FW"}, n)' => Told(n)'
    BY <2>5, <2>10 DEF StartInv
  <2>q. QED
    BY <2>8, <2>11, <2>12, <2>13 DEF StartInv
<1>2. CASE ~(router.i < Len(Order))
  <2>1. router'.i = router.i /\ cmdbox' = cmdbox
    BY <1>2 DEF Advance, BaseInv, TypeOK
  <2>2. \A x \in UnderWay' : x \in UnderWay
    BY <2>1 DEF UnderWay
  <2>3. cmdbox' \notin net' /\ \A n \in Node : st'[n] = "idle" \/ st[n] # "idle"
    BY <2>1 DEF StartInv
  <2>q. QED
    BY <2>1, <2>2, <2>3, StartQuiet
<1>q. QED
  BY <1>1, <1>2

\* Every step but a restart keeps StartInv.
LEMMA StartStep ==
  ASSUME BaseInv, StartInv, restarts = 0, Next, ~RouterRestart
  PROVE  StartInv'
<1> USE DEF BaseInv
<1>t. net \subseteq Message /\ cmdbox \notin net
  BY DEF TypeOK, StartInv
<1>1. CASE LimitReached
  BY <1>1, StartAdvance DEF LimitReached
<1>2. CASE RootPoll
  <2>1. /\ \A x \in UnderWay' : x \in UnderWay \/ x = Nothing
        /\ setting' = setting /\ router' = router /\ st' = st
    BY <1>2 DEF RootPoll, UnderWay, send_firmware_packet, send_firmware_cmd_packet, routerVars
  <2>2. cmdbox' \notin net'
    BY <1>2, <1>t DEF RootPoll, send_firmware_packet, send_firmware_cmd_packet, Message, Nothing
  <2>q. QED
    BY <2>1, <2>2, StartQuiet
<1>g. ASSUME UNCHANGED <<setting, router, fwbox, cmdbox>>, net' \subseteq net,
             \A n \in Node : st'[n] = "idle" \/ st[n] # "idle"
      PROVE  StartInv'
  <2>1. \A x \in UnderWay' : x \in UnderWay
    BY <1>g DEF UnderWay
  <2>q. QED
    BY <1>g, <1>t, <2>1, StartQuiet
<1>3. ASSUME NEW m \in net, Receive(m) \/ Lose(m) PROVE StartInv'
  <2>m. m.node \in Node /\ m \in Message
    BY Messages
  <2>1. CASE MessageSuccess(m)
    BY <2>1, StartAdvance DEF MessageSuccess
  <2>2. CASE ServeRequest(m)
    <3>1. /\ m.type = "REQ" /\ m.num < Quantity
      BY <2>2, FirstRun DEF ServeRequest, UnderWay
    <3>2. /\ fwbox' = [type |-> "CHUNK", node |-> m.node, num |-> m.num, img |-> Run]
          /\ net' = net \ {m} /\ UNCHANGED <<setting, router, cmdbox, st>>
      BY <2>2, <3>1 DEF ServeRequest
    <3>3. ~None({"REQ", "CHUNK", "SUCCESS"}, m.node)
      BY <3>1 DEF None, UnderWay
    <3>4. \A x \in UnderWay' : x \in UnderWay
                               \/ (x.type \in {"REQ", "CHUNK", "SUCCESS"} /\ x.node = m.node)
      BY <3>2 DEF UnderWay
    <3>5. st'[m.node] = "idle" \/ st[m.node] # "idle"
      <4>1. CASE st[m.node] = "idle"
        BY <3>2, <4>1
      <4>q. QED
        BY <4>1
    <3>q. QED
      BY <1>t, <2>m, <3>2, <3>3, <3>4, <3>5, StartAdds
  <2>3. CASE NewFw(m)
    <3>1. /\ net' = net \ {m} /\ UNCHANGED <<setting, router, fwbox, cmdbox>>
          /\ m.type = "NEW_FW" /\ \A n \in Node : n # m.node => st'[n] = st[n]
      BY <2>3 DEF NewFw, routerVars, rootVars, TypeOK
    <3>2. ~None({"NEW_FW"}, m.node)
      BY <3>1 DEF None, UnderWay
    <3>3. ~Future(m.node)
      BY <2>m, <3>2 DEF StartInv
    <3>4. None({"NEW_FW"}, m.node)'
      <4>1. SUFFICES ASSUME NEW x \in UnderWay', x.type = "NEW_FW", x.node = m.node
                     PROVE  FALSE
        BY DEF None
      <4>2. fwbox # x
        BY <4>1 DEF BoxInv, Nothing
      <4>3. x \in Message /\ (x \in net \/ x = cmdbox)
        BY <1>t, <3>1, <4>1, <4>2 DEF UnderWay, TypeOK, Nothing
      <4>4. x = m
        <5>1. x.num = m.num
          BY <3>1, <4>1, <4>3, FirstRun DEF UnderWay
        <5>q. QED
          BY <2>m, <3>1, <4>1, <4>3, <5>1, SameMessage
      <4>q. QED
        BY <1>t, <3>1, <4>1, <4>2, <4>4 DEF UnderWay
    <3>5. \A x \in UnderWay' : x \in UnderWay
      BY <3>1 DEF UnderWay
    <3>6. ASSUME NEW n \in Node, NEW types \in SUBSET {"NEW_FW", "REQ", "CHUNK", "SUCCESS"},
                 None(types, n)
          PROVE  None(types, n)'
      BY <3>5, <3>6, NoneStays
    <3>7. ASSUME NEW n \in Node
          PROVE  \/ st'[n] = "idle" /\ None({"REQ", "CHUNK", "SUCCESS"}, n)'
                 \/ ~Future(n) /\ None({"NEW_FW"}, n)'
      <4>1. CASE n = m.node
        BY <3>3, <3>4, <4>1
      <4>2. CASE n # m.node /\ (Future(n) \/ ~None({"NEW_FW"}, n))
        <5>1. st'[n] = "idle" /\ None({"REQ", "CHUNK", "SUCCESS"}, n)
          BY <3>1, <4>2 DEF StartInv
        <5>q. QED
          BY <3>6, <5>1
      <4>3. CASE ~Future(n) /\ None({"NEW_FW"}, n)
        BY <3>6, <4>3
      <4>q. QED
        BY <4>1, <4>2, <4>3
    <3>8. \A n \in Node : None({"NEW_FW"}, n) => None({"NEW_FW"}, n)'
      BY <3>6
    <3>9. \A n \in Node : st'[n] # "idle" => st[n] # "idle" \/ ~None({"NEW_FW"}, n)
      BY <3>1, <3>2
    <3>q. QED
      BY <1>t, <3>1, <3>7, <3>8, <3>9, StartNext
  <2>4. CASE FirmwareData(m)
    BY <2>4, <1>g DEF FirmwareData, Store, routerVars, rootVars, TypeOK
  <2>5. CASE FirmwareDataAtDeadline(m)
    BY <2>5, <1>g DEF FirmwareDataAtDeadline, Store, routerVars, rootVars, TypeOK
  <2>6. CASE Lose(m)
    BY <2>6, <1>g DEF Lose, routerVars, rootVars
  <2>q. QED
    BY <1>3, <2>1, <2>2, <2>3, <2>4, <2>5, <2>6 DEF Receive
<1>4. ASSUME NEW n \in Node, fw_update_process(n) \/ Trial(n) \/ NodeReset(n)
      PROVE  StartInv'
  <2>o. UNCHANGED <<setting, router, fwbox, cmdbox>>
    BY <1>4 DEF fw_update_process, EraseStep, RequestChunk, VerifySlot, TimeoutRetry,
         TimeoutAbort, TimeoutLast, Trial, TrialJoined, TrialRolledBack, NodeReset,
         routerVars, rootVars
  <2>1. CASE RequestChunk(n)
    <3>1. /\ net' = net \cup {[type |-> "REQ", node |-> n, num |-> chunk_num[n]]}
          /\ st[n] # "idle" /\ \A k \in Node : st'[k] = st[k] \/ k = n
      BY <2>1 DEF RequestChunk, send_fw_chunk_req_packet, LoopTop, TypeOK, ToWait
    <3>2. \A x \in UnderWay' : x \in UnderWay
                               \/ (x.type \in {"REQ", "CHUNK", "SUCCESS"} /\ x.node = n)
      BY <2>o, <3>1 DEF UnderWay
    <3>3. cmdbox \notin net'
      BY <1>t, <3>1 DEF BoxInv, Nothing
    <3>q. QED
      BY <2>o, <3>1, <3>2, <3>3, StartAdds
  <2>2. CASE TrialJoined(n)
    <3>1. /\ net' = net \cup {[type |-> "SUCCESS", node |-> n]}
          /\ st[n] # "idle" /\ \A k \in Node : st'[k] = st[k] \/ k = n
      BY <2>2 DEF TrialJoined, ClearRam, TypeOK
    <3>2. \A x \in UnderWay' : x \in UnderWay
                               \/ (x.type \in {"REQ", "CHUNK", "SUCCESS"} /\ x.node = n)
      BY <2>o, <3>1 DEF UnderWay
    <3>3. cmdbox \notin net'
      BY <1>t, <3>1 DEF BoxInv, Nothing
    <3>q. QED
      BY <2>o, <3>1, <3>2, <3>3, StartAdds
  <2>3. CASE EraseStep(n)
    BY <2>3, <2>o, <1>g DEF EraseStep
  <2>4. CASE VerifySlot(n)
    BY <2>4, <2>o, <1>g DEF VerifySlot, LoopTop, TypeOK
  <2>5. CASE TimeoutRetry(n)
    BY <2>5, <2>o, <1>g DEF TimeoutRetry, TypeOK, ToDelay, Waits
  <2>6. CASE TimeoutAbort(n)
    BY <2>6, <2>o, <1>g DEF TimeoutAbort, TypeOK, Waits
  <2>7. CASE TimeoutLast(n)
    BY <2>7, <2>o, <1>g DEF TimeoutLast, TypeOK, ToDelay, Waits
  <2>8. CASE TrialRolledBack(n)
    BY <2>8, <2>o, <1>g DEF TrialRolledBack, ClearRam, TypeOK
  <2>9. CASE NodeReset(n)
    BY <2>9, <2>o, <1>g DEF NodeReset, ClearRam, TypeOK
  <2>q. QED
    BY <1>4, <2>1, <2>2, <2>3, <2>4, <2>5, <2>6, <2>7, <2>8, <2>9
       DEF fw_update_process, Trial
<1>q. QED
  BY <1>1, <1>2, <1>3, <1>4 DEF Next

\* A process, a trial and a reset are one node's.
LEMMA OneNode ==
  ASSUME BaseInv, NEW n \in Node, fw_update_process(n) \/ Trial(n) \/ NodeReset(n)
  PROVE  /\ UNCHANGED <<setting, router, report, restarts, fwbox, cmdbox>>
         /\ \A k \in Node : k # n => /\ st'[k] = st[k] /\ offset'[k] = offset[k]
                                      /\ page'[k] = page[k] /\ slot'[k] = slot[k]
                                      /\ chunk_num'[k] = chunk_num[k]
                                      /\ quantity'[k] = quantity[k]
<1>1. UNCHANGED <<setting, router, report, restarts, fwbox, cmdbox>>
  BY DEF fw_update_process, EraseStep, RequestChunk, VerifySlot, TimeoutRetry,
         TimeoutAbort, TimeoutLast, Trial, TrialJoined, TrialRolledBack, NodeReset,
         routerVars, rootVars
<1>y. NodeTypes
  BY DEF BaseInv, TypeOK, NodeTypes
<1>2. \A k \in Node : k # n => st'[k] = st[k]
  BY <1>y DEF fw_update_process, EraseStep, RequestChunk, VerifySlot, TimeoutRetry,
         TimeoutAbort, TimeoutLast, Trial, TrialJoined, TrialRolledBack, NodeReset, ClearRam,
         ToWait, ToDelay, NodeTypes
<1>3. \A k \in Node : k # n => /\ offset'[k] = offset[k] /\ page'[k] = page[k]
                               /\ slot'[k] = slot[k] /\ quantity'[k] = quantity[k]
  BY <1>y DEF fw_update_process, EraseStep, RequestChunk, VerifySlot, TimeoutRetry,
         TimeoutAbort, TimeoutLast, Trial, TrialJoined, TrialRolledBack, NodeReset, ClearRam,
         NodeTypes
<1>4. \A k \in Node : k # n => chunk_num'[k] = chunk_num[k]
  BY <1>y DEF fw_update_process, EraseStep, RequestChunk, VerifySlot, TimeoutRetry,
         TimeoutAbort, TimeoutLast, Trial, TrialJoined, TrialRolledBack, NodeReset, ClearRam,
         Decremented, NodeTypes
<1>q. QED
  BY <1>1, <1>2, <1>3, <1>4

\* What ErasedInv asks of one node.
ErasedAt(n) ==
  /\ st[n] = "erase" =>
       /\ offset[n] = 0 /\ chunk_num[n] = 0 /\ None({"REQ", "CHUNK"}, n)
       /\ \A k \in Chunk : k < page[n] => slot[n][k] = Blank
  /\ st[n] \in {"wait", "delay"} => \A k \in Chunk : k >= offset[n] => slot[n][k] = Blank

\* A step that leaves a node alone, and adds no request and no answer of a node that
\* is still erasing.
LEMMA ErasedSame ==
  ASSUME NEW n \in Node, ErasedAt(n), UNCHANGED <<setting, restarts>>,
         st'[n] = st[n], offset'[n] = offset[n], page'[n] = page[n], slot'[n] = slot[n],
         chunk_num'[n] = chunk_num[n],
         st[n] = "erase" /\ None({"REQ", "CHUNK"}, n) => None({"REQ", "CHUNK"}, n)'
  PROVE  ErasedAt(n)'
BY DEF ErasedAt

\* Every step but a restart keeps ErasedInv.
LEMMA ErasedStep ==
  ASSUME BaseInv, StartInv, ErasedInv, restarts = 0, Next, ~RouterRestart
  PROVE  ErasedInv'
<1> USE DEF BaseInv
<1>e. \A n \in Node : ErasedAt(n)
  BY DEF ErasedInv, ErasedAt
<1>q0. SUFFICES \A n \in Node : ErasedAt(n)'
  BY DEF ErasedInv, ErasedAt
<1>s. /\ setting \in Setting /\ Quantity \in Nat /\ 1 <= Quantity /\ Quantity <= SlotSize
      /\ MaxOffset \in Nat /\ SlotSize \in Nat /\ SlotSize <= MaxOffset
  BY Settings, Runs DEF TypeOK
<1>g. ASSUME UNCHANGED <<setting, restarts, st, offset, page, slot, chunk_num>>,
             \A x \in UnderWay' : x \in UnderWay \/ x = Nothing \/ x.type = "NEW_FW"
                                  \/ (x.type = "CHUNK" /\ ~None({"REQ"}, x.node))
      PROVE  \A n \in Node : ErasedAt(n)'
  <2> TAKE n \in Node
  <2>1. ASSUME None({"REQ", "CHUNK"}, n) PROVE None({"REQ", "CHUNK"}, n)'
    <3>1. None({"REQ"}, n)
      BY <2>1 DEF None
    <3>q. QED
      BY <1>g, <2>1, <3>1, NoneStays
  <2>q. QED
    BY <1>e, <1>g, <2>1, ErasedSame
<1>1. CASE LimitReached
  <2>1. \A x \in UnderWay' : x \in UnderWay \/ x.type = "NEW_FW"
    BY <1>1 DEF LimitReached, Advance, UnderWay, NewFwFor
  <2>q. QED
    BY <1>1, <1>g, <2>1 DEF LimitReached, ramVars
<1>2. CASE RootPoll
  <2>1. \A x \in UnderWay' : x \in UnderWay \/ x = Nothing
    BY <1>2 DEF RootPoll, UnderWay, send_firmware_packet, send_firmware_cmd_packet
  <2>q. QED
    BY <1>2, <1>g, <2>1 DEF RootPoll, ramVars, routerVars
<1>3. ASSUME NEW m \in net, Receive(m) \/ Lose(m) PROVE \A n \in Node : ErasedAt(n)'
  <2>m. m.node \in Node /\ m \in Message
    BY Messages
  <2>1. CASE MessageSuccess(m)
    <3>1. \A x \in UnderWay' : x \in UnderWay \/ x.type = "NEW_FW"
      BY <2>1 DEF MessageSuccess, Advance, UnderWay, NewFwFor
    <3>q. QED
      BY <2>1, <1>g, <3>1 DEF MessageSuccess, ramVars
  <2>2. CASE ServeRequest(m)
    <3>1. ~None({"REQ"}, m.node)
      BY <2>2 DEF None, UnderWay, ServeRequest
    <3>2. \A x \in UnderWay' : x \in UnderWay \/ (x.type = "CHUNK" /\ x.node = m.node)
      BY <2>2 DEF ServeRequest, UnderWay
    <3>q. QED
      BY <2>2, <1>g, <3>1, <3>2 DEF ServeRequest, ramVars
  <2>3. CASE Lose(m)
    <3>1. \A x \in UnderWay' : x \in UnderWay
      BY <2>3 DEF Lose, UnderWay, rootVars
    <3>q. QED
      BY <2>3, <1>g, <3>1 DEF Lose, ramVars, routerVars
  <2>k. CASE NewFw(m) \/ Store(m)
    <3>1. UNCHANGED <<setting, restarts, fwbox, cmdbox>> /\ net' = net \ {m}
      BY <2>k DEF NewFw, Store, rootVars, routerVars
    <3>2. \A x \in UnderWay' : x \in UnderWay
      BY <3>1 DEF UnderWay
    <3>3. ASSUME NEW n \in Node, None({"REQ", "CHUNK"}, n) PROVE None({"REQ", "CHUNK"}, n)'
      BY <3>2, <3>3, NoneStays
    <3>4. CASE NewFw(m)
      <4>1. ~None({"NEW_FW"}, m.node)
        BY <3>4 DEF NewFw, None, UnderWay
      <4>2. st[m.node] = "idle" /\ None({"REQ", "CHUNK", "SUCCESS"}, m.node)
        BY <2>m, <4>1 DEF StartInv
      <4>3. None({"REQ", "CHUNK"}, m.node)
        BY <4>2 DEF None
      <4>4. /\ st' = [st EXCEPT ![m.node] = "erase"]
            /\ page' = [page EXCEPT ![m.node] = 0]
            /\ offset' = [offset EXCEPT ![m.node] = 0]
            /\ UNCHANGED <<slot, chunk_num>>
        BY <3>4, <4>2 DEF NewFw, OnList
      <4>8. chunk_num[m.node] = 0
        BY <2>m, <4>2 DEF RestInv
      <4>9. None({"REQ", "CHUNK"}, m.node)'
        BY <2>m, <3>3, <4>3
      <4>10. st'[m.node] = "erase" /\ page'[m.node] = 0 /\ offset'[m.node] = 0
        BY <2>m, <4>4 DEF TypeOK
      <4>11. \A k \in Chunk' : ~(k < 0)
        BY <1>s, <3>1
      <4>5. ErasedAt(m.node)'
        BY <4>4, <4>8, <4>9, <4>10, <4>11 DEF ErasedAt
      <4>6. ASSUME NEW n \in Node, n # m.node PROVE ErasedAt(n)'
        BY <1>e, <3>1, <3>3, <4>4, <4>6, ErasedSame DEF TypeOK
      <4>q. QED
        BY <4>5, <4>6
    <3>5. CASE Store(m) /\ (FirmwareData(m) \/ FirmwareDataAtDeadline(m))
      <4>1. ~None({"REQ", "CHUNK"}, m.node)
        BY <3>5 DEF Store, None, UnderWay
      <4>2. st[m.node] # "erase"
        BY <1>e, <2>m, <4>1 DEF ErasedAt
      <4>3. /\ UNCHANGED page
            /\ \A n \in Node : n # m.node => /\ st'[n] = st[n] /\ offset'[n] = offset[n]
                                              /\ slot'[n] = slot[n] /\ chunk_num'[n] = chunk_num[n]
            /\ offset'[m.node] = offset[m.node] + 1
            /\ \A k \in Place : k # offset[m.node] => slot'[m.node][k] = slot[m.node][k]
        BY <2>m, <3>5 DEF Store, FirmwareData, FirmwareDataAtDeadline, TypeOK
      <4>4. \/ st'[m.node] = st[m.node]
            \/ st'[m.node] = "delay" /\ st[m.node] = "wait"
        BY <2>m, <3>5 DEF FirmwareData, FirmwareDataAtDeadline, TypeOK
      <4>5. offset[m.node] \in 0 .. (MaxOffset + 1)
        BY <2>m DEF TypeOK
      <4>6. ErasedAt(m.node)'
        BY <1>e, <1>s, <2>m, <3>1, <4>2, <4>3, <4>4, <4>5 DEF ErasedAt
      <4>7. ASSUME NEW n \in Node, n # m.node PROVE ErasedAt(n)'
        BY <1>e, <3>1, <3>3, <4>3, <4>7, ErasedSame
      <4>q. QED
        BY <4>6, <4>7
    <3>q. QED
      BY <1>3, <2>1, <2>2, <2>3, <3>4, <3>5 DEF Receive, FirmwareData, FirmwareDataAtDeadline
  <2>q. QED
    BY <1>3, <2>1, <2>2, <2>3, <2>k DEF Receive, FirmwareData, FirmwareDataAtDeadline
<1>4. ASSUME NEW n \in Node, fw_update_process(n) \/ Trial(n) \/ NodeReset(n)
      PROVE  \A k \in Node : ErasedAt(k)'
  <2>o. /\ UNCHANGED <<setting, restarts, fwbox, cmdbox>>
        /\ \A k \in Node : k # n => /\ st'[k] = st[k] /\ offset'[k] = offset[k]
                                     /\ page'[k] = page[k] /\ slot'[k] = slot[k]
                                     /\ chunk_num'[k] = chunk_num[k]
    BY <1>4, OneNode
  <2>n. \A x \in net' : x \in net \/ x.node = n
    BY <1>4 DEF fw_update_process, EraseStep, RequestChunk, VerifySlot, TimeoutRetry,
         TimeoutAbort, TimeoutLast, Trial, TrialJoined, TrialRolledBack, NodeReset,
         send_fw_chunk_req_packet
  <2>u. \A x \in UnderWay' : x \in UnderWay \/ x.node = n
    BY <2>o, <2>n DEF UnderWay
  <2>1. ASSUME NEW k \in Node, k # n PROVE ErasedAt(k)'
    <3>1. ASSUME None({"REQ", "CHUNK"}, k) PROVE None({"REQ", "CHUNK"}, k)'
      BY <2>u, <2>1, <3>1, NoneStays
    <3>q. QED
      BY <1>e, <2>o, <2>1, <3>1, ErasedSame
  <2>2. CASE EraseStep(n)
    <3>0. page[n] \in 0 .. SlotSize /\ page[n] < SlotSize
      BY <2>2 DEF EraseStep, TypeOK
    <3>4. page[n] \in Place /\ Chunk \subseteq Place
      BY <1>s, <3>0
    <3>1. /\ UNCHANGED <<st, offset, net, chunk_num>>
          /\ page'[n] = page[n] + 1
          /\ slot'[n][page[n]] = Blank
          /\ \A k \in Chunk : k # page[n] => slot'[n][k] = slot[n][k]
      BY <2>2, <3>4 DEF EraseStep, TypeOK
    <3>2. None({"REQ", "CHUNK"}, n) <=> None({"REQ", "CHUNK"}, n)'
      BY <2>o, <3>1 DEF None, UnderWay
    <3>3. ErasedAt(n)'
      BY <1>e, <1>s, <2>2, <2>o, <3>0, <3>1, <3>2 DEF ErasedAt, EraseStep
    <3>q. QED
      BY <2>1, <3>3
  <2>3. CASE RequestChunk(n)
    <3>1. /\ UNCHANGED <<offset, page, slot>>
          /\ \/ st[n] = "delay_off" /\ st'[n] = "wait_off"
             \/ st[n] = "delay" /\ st'[n] = "wait"
             \/ st[n] = "erase" /\ page[n] = SlotSize /\ st'[n] = "wait"
      BY <2>3 DEF RequestChunk, LoopTop, TypeOK, ToWait
    <3>2. ErasedAt(n)'
      BY <1>e, <1>s, <2>o, <3>1 DEF ErasedAt
    <3>q. QED
      BY <2>1, <3>2
  <2>4. CASE TimeoutRetry(n) \/ TimeoutLast(n)
    <3>1. /\ UNCHANGED <<offset, page, slot>>
          /\ \/ st'[n] = "delay" /\ st[n] = "wait"
             \/ st'[n] = "delay_off"
      BY <2>4 DEF TimeoutRetry, TimeoutLast, TypeOK, ToDelay, Waits
    <3>2. ErasedAt(n)'
      BY <1>e, <2>o, <3>1 DEF ErasedAt
    <3>q. QED
      BY <2>1, <3>2
  <2>5. CASE VerifySlot(n) \/ TimeoutAbort(n) \/ Trial(n) \/ NodeReset(n)
    <3>1. st'[n] \in {"idle", "trial", "wait_off", "delay_off"}
      BY <2>5 DEF VerifySlot, TimeoutAbort, Trial, TrialJoined, TrialRolledBack, NodeReset,
           ClearRam, TypeOK
    <3>2. ErasedAt(n)'
      BY <3>1 DEF ErasedAt
    <3>q. QED
      BY <2>1, <3>2
  <2>q. QED
    BY <1>4, <2>2, <2>3, <2>4, <2>5 DEF fw_update_process
<1>q. QED
  BY <1>1, <1>2, <1>3, <1>4 DEF Next

TellInv == restarts = 0 => StartInv /\ ErasedInv

\* Only a restart of the router counts as one.
LEMMA RestartsOnly ==
  ASSUME BaseInv, [Next]_vars, restarts' = 0
  PROVE  restarts = 0 /\ ~RouterRestart
<1>1. restarts \in Nat
  BY Settings DEF BaseInv, TypeOK
<1>2. ~RouterRestart
  BY <1>1 DEF RouterRestart
<1>3. CASE UNCHANGED vars
  BY <1>2, <1>3 DEF vars, routerVars
<1>4. CASE LimitReached \/ RootPoll
  BY <1>2, <1>4 DEF LimitReached, RootPoll, routerVars
<1>5. ASSUME NEW m \in net, Receive(m) \/ Lose(m) PROVE restarts = 0
  BY <1>5 DEF Receive, Lose, MessageSuccess, ServeRequest, NewFw, FirmwareData,
     FirmwareDataAtDeadline, Store, routerVars
<1>6. ASSUME NEW n \in Node, fw_update_process(n) \/ Trial(n) \/ NodeReset(n)
      PROVE  restarts = 0
  BY <1>6 DEF fw_update_process, EraseStep, RequestChunk, VerifySlot, TimeoutRetry,
     TimeoutAbort, TimeoutLast, Trial, TrialJoined, TrialRolledBack, NodeReset, routerVars
<1>q. QED
  BY <1>2, <1>3, <1>4, <1>5, <1>6 DEF Next

LEMMA InitTell == Init => TellInv
<1> SUFFICES ASSUME Init PROVE StartInv /\ ErasedInv
  BY DEF TellInv
<1>s. setting \in Setting
  BY DEF Init
<1>1. UnderWay = {Nothing, cmdbox} /\ cmdbox.type = "NEW_FW" /\ cmdbox.node = Order[1]
  BY DEF Init, UnderWay, NewFwFor
<1>2. \A n \in Node : None({"REQ", "CHUNK", "SUCCESS"}, n)
  BY <1>1 DEF None, Nothing
<1>3. \A n \in Node : n # Order[1] => None({"NEW_FW"}, n)
  BY <1>1 DEF None, Nothing
<1>4. router.i = 1 /\ 1 \in DOMAIN Order
  BY <1>s, Settings DEF Init
<1>5. \A n \in Node : Future(n) => n # Order[1]
  <2>1. \A i, j \in DOMAIN Order : Order[i] = Order[j] => i = j
    BY <1>s, Settings
  <2>2. DOMAIN Order \subseteq Nat
    BY <1>s, Settings
  <2>3. \A j \in DOMAIN Order : j > 1 => Order[j] # Order[1]
    BY <1>4, <2>1, <2>2
  <2>q. QED
    BY <1>4, <2>3 DEF Future
<1>6. Told(Order[1])
  BY <1>s, <1>4, Settings DEF Told
<1>7. StartInv
  BY <1>2, <1>3, <1>5, <1>6 DEF StartInv, Init
<1>8. ErasedInv
  BY DEF ErasedInv, Init
<1>q. QED
  BY <1>7, <1>8

LEMMA NextTell == BaseInv /\ TellInv /\ [Next]_vars => TellInv'
<1> SUFFICES ASSUME BaseInv, TellInv, [Next]_vars, restarts' = 0
             PROVE  StartInv' /\ ErasedInv'
  BY DEF TellInv
<1>1. StartInv /\ ErasedInv /\ ~RouterRestart /\ restarts = 0
  BY RestartsOnly DEF TellInv
<1>2. CASE Next
  BY <1>1, <1>2, StartStep, ErasedStep
<1>3. CASE UNCHANGED vars
  <2>1. UNCHANGED <<setting, router, restarts, fwbox, cmdbox, net, st, page, offset, slot, chunk_num>>
    BY <1>3 DEF vars, routerVars, rootVars, ramVars
  <2>2. /\ \A x \in UnderWay' : x \in UnderWay \/ x = Nothing
        /\ cmdbox' \notin net'
        /\ \A n \in Node : st'[n] = "idle" \/ st[n] # "idle"
    BY <1>1, <2>1 DEF UnderWay, StartInv
  <2>3. StartInv'
    BY <1>1, <2>1, <2>2, StartQuiet
  <2>4. \A n \in Node : None({"REQ", "CHUNK"}, n) => None({"REQ", "CHUNK"}, n)'
    BY <2>1 DEF None, UnderWay
  <2>5. ErasedInv'
    BY <1>1, <2>1, <2>4 DEF ErasedInv
  <2>q. QED
    BY <2>3, <2>5
<1>q. QED
  BY <1>2, <1>3

LEMMA TellInvariant == Spec => []TellInv
BY BaseInvariant, InitTell, NextTell, PTL DEF Spec

\* A running transfer programs its chunks into erased flash only, as long as the router
\* is not run again: the erase loop is over before the first request leaves the node,
\* and no answer, however late, moves the offset back over what is programmed.
THEOREM ChunksGoToErasedFlash == Spec => WritesHitErased
<1> DEFINE Write == restarts' = 0 =>
       \A n \in Node :
         st[n] \in {"wait", "delay"} /\ offset'[n] > offset[n] /\ offset[n] \in Chunk
           => slot[n][offset[n]] = Blank
<1>1. BaseInv /\ TellInv /\ [Next]_vars => [Write]_vars
  <2> SUFFICES ASSUME BaseInv, TellInv, [Next]_vars, restarts' = 0,
                      NEW n \in Node, st[n] \in {"wait", "delay"}, offset[n] \in Chunk
               PROVE  slot[n][offset[n]] = Blank
    OBVIOUS
  <2>1. ErasedInv
    BY RestartsOnly DEF TellInv
  <2>2. offset[n] >= offset[n]
    BY DEF BaseInv, TypeOK
  <2>q. QED
    BY <2>1, <2>2 DEF ErasedInv
<1>q. QED
  BY <1>1, BaseInvariant, TellInvariant, PTL DEF Spec, WritesHitErased

-----------------------------------------------------------------------------
(***************************************************************************)
(* With answers in time as well, a node has one exchange at a time, and its *)
(* offset and its request counter agree.                                    *)
(***************************************************************************)
\* What CursorAgrees asks of one node.
CursorAt(n) ==
  st[n] \in {"wait", "delay"} =>
    /\ \/ st[n] = "wait" /\ offset[n] = chunk_num[n] - 1
       \/ st[n] = "delay" /\ offset[n] = chunk_num[n]
       \/ st[n] = "delay" /\ chunk_num[n] = Quantity /\ offset[n] = Quantity - 1
    /\ \A k \in Chunk : slot[n][k] = IF k < offset[n] THEN <<1, k>> ELSE Blank

\* A step that leaves a node alone.
LEMMA ExchangeSame ==
  ASSUME NEW n \in Node, ExchangeAt(n), CursorAt(n), UNCHANGED <<setting, restarts>>,
         \/ st'[n] = st[n] /\ offset'[n] = offset[n] /\ slot'[n] = slot[n]
            /\ chunk_num'[n] = chunk_num[n] /\ quantity'[n] = quantity[n]
         \/ st'[n] \notin {"wait", "delay", "delay_off"},
         \A x \in UnderWay' : x \in UnderWay \/ x = Nothing \/ x.node # n \/ x.type \notin Exchange
  PROVE  ExchangeAt(n)' /\ CursorAt(n)'
<1>1. CASE st'[n] \notin {"wait", "delay", "delay_off"}
  BY <1>1 DEF ExchangeAt, CursorAt
<1>2. CASE st'[n] = st[n] /\ offset'[n] = offset[n] /\ slot'[n] = slot[n]
           /\ chunk_num'[n] = chunk_num[n] /\ quantity'[n] = quantity[n]
  <2>1. CursorAt(n)'
    BY <1>2 DEF CursorAt
  <2>2. None({"REQ", "CHUNK"}, n) => None({"REQ", "CHUNK"}, n)'
    BY NoneStays DEF Exchange
  <2>3. ExchangeAt(n)'
    BY <1>2, <2>2 DEF ExchangeAt, Exchange, Nothing
  <2>q. QED
    BY <2>1, <2>3
<1>q. QED
  BY <1>1, <1>2

\* A step that only takes messages away or moves them to the air.
LEMMA OneStays ==
  ASSUME OneAtATime, fwbox' \notin net',
         \A x \in UnderWay' : x \in UnderWay \/ x.type \notin Exchange
  PROVE  OneAtATime'
BY DEF OneAtATime

\* Every step but a restart keeps the exchange.
LEMMA ExchangeStep ==
  ASSUME BaseInv, StartInv, ErasedInv, ~Late, restarts = 0, Next, ~RouterRestart,
         OneAtATime, \A n \in Node : ExchangeAt(n) /\ CursorAt(n)
  PROVE  OneAtATime' /\ \A n \in Node : ExchangeAt(n)' /\ CursorAt(n)'
<1> USE DEF BaseInv
<1>s. /\ setting \in Setting /\ Quantity \in Nat /\ 1 <= Quantity /\ Quantity <= SlotSize
      /\ MaxOffset \in Nat /\ SlotSize \in Nat /\ SlotSize <= MaxOffset
  BY Settings, Runs DEF TypeOK
<1>t. net \subseteq Message /\ fwbox \notin net
  BY DEF TypeOK, OneAtATime
<1>g. ASSUME UNCHANGED <<setting, restarts, st, offset, slot, chunk_num, quantity>>,
             fwbox' \notin net',
             \A x \in UnderWay' : x \in UnderWay \/ x = Nothing \/ x.type = "NEW_FW"
      PROVE  OneAtATime' /\ \A n \in Node : ExchangeAt(n)' /\ CursorAt(n)'
  <2>1. \A x \in UnderWay' : x \in UnderWay \/ x.type \notin Exchange
    BY <1>g DEF Exchange, Nothing
  <2>2. OneAtATime'
    BY <1>g, <2>1, OneStays
  <2>3. ASSUME NEW n \in Node PROVE ExchangeAt(n)' /\ CursorAt(n)'
    BY <1>g, <2>1, ExchangeSame
  <2>q. QED
    BY <2>2, <2>3
<1>1. CASE LimitReached
  <2>1. \A x \in UnderWay' : x \in UnderWay \/ x.type = "NEW_FW"
    BY <1>1 DEF LimitReached, Advance, UnderWay, NewFwFor
  <2>q. QED
    BY <1>1, <1>g, <1>t, <2>1 DEF LimitReached, ramVars
<1>2. CASE RootPoll
  <2>1. \A x \in UnderWay' : x \in UnderWay \/ x = Nothing
    BY <1>2 DEF RootPoll, UnderWay, send_firmware_packet, send_firmware_cmd_packet
  <2>2. fwbox' \notin net'
    BY <1>2, <1>t DEF RootPoll, send_firmware_packet, send_firmware_cmd_packet, Message, Nothing
  <2>q. QED
    BY <1>2, <1>g, <2>1, <2>2 DEF RootPoll, ramVars, routerVars
<1>3. ASSUME NEW m \in net, Receive(m) \/ Lose(m)
      PROVE  OneAtATime' /\ \A n \in Node : ExchangeAt(n)' /\ CursorAt(n)'
  <2>m. m.node \in Node /\ m \in Message /\ m \in UnderWay
    BY Messages DEF UnderWay
  <2>1. CASE MessageSuccess(m)
    <3>1. \A x \in UnderWay' : x \in UnderWay \/ x.type = "NEW_FW"
      BY <2>1 DEF MessageSuccess, Advance, UnderWay, NewFwFor
    <3>q. QED
      BY <2>1, <1>g, <1>t, <3>1 DEF MessageSuccess, ramVars
  <2>2. CASE ServeRequest(m)
    <3> DEFINE c == [type |-> "CHUNK", node |-> m.node, num |-> m.num, img |-> Run]
    <3>1. m.type = "REQ" /\ m.num < Quantity
      BY <2>2, <2>m, FirstRun DEF ServeRequest
    <3>2. /\ fwbox' = c /\ net' = net \ {m}
          /\ UNCHANGED <<setting, restarts, cmdbox, st, offset, slot, chunk_num, quantity>>
      BY <2>2, <3>1 DEF ServeRequest, ramVars
    <3>3. \A x \in UnderWay' : x = c \/ (x \in UnderWay /\ x # m)
      <4>1. cmdbox # m
        BY <3>1 DEF BoxInv, Nothing
      <4>q. QED
        BY <3>2, <4>1 DEF UnderWay
    <3>4. c.type = "CHUNK" /\ c.node = m.node /\ c.num = m.num
      OBVIOUS
    <3> HIDE DEF c
    <3>5. \A x \in UnderWay : x.type \in Exchange /\ x.node = m.node => x = m
      BY <2>m, <3>1 DEF OneAtATime, Exchange
    <3>6. fwbox' \notin net'
      BY <3>1, <3>2, <3>4, <3>5 DEF UnderWay, Exchange
    <3>7. OneAtATime'
      BY <3>3, <3>4, <3>5, <3>6 DEF OneAtATime, Exchange
    <3>8. ExchangeAt(m.node)' /\ CursorAt(m.node)'
      <4>1. ~None({"REQ", "CHUNK"}, m.node)
        BY <2>m, <3>1 DEF None
      <4>2. st[m.node] \notin {"delay", "delay_off"}
        BY <2>m, <4>1 DEF ExchangeAt
      <4>3. st[m.node] = "wait" => m.num = chunk_num[m.node] - 1
        BY <2>m, <3>1 DEF ExchangeAt, Exchange
      <4>4. ExchangeAt(m.node)'
        <5>1. CASE st[m.node] # "wait"
          BY <3>2, <4>2, <5>1 DEF ExchangeAt
        <5>2. CASE st[m.node] = "wait"
          <6>1. quantity[m.node] = Quantity /\ chunk_num[m.node] <= Quantity
            BY <2>m, <5>2 DEF ExchangeAt
          <6>2. \A x \in UnderWay' : x.type \in Exchange /\ x.node = m.node =>
                                     x.num = chunk_num[m.node] - 1
            BY <3>3, <3>4, <3>5, <4>3, <5>2
          <6>q. QED
            BY <3>2, <5>2, <6>1, <6>2 DEF ExchangeAt
        <5>q. QED
          BY <5>1, <5>2
      <4>5. CursorAt(m.node)'
        BY <2>m, <3>2 DEF CursorAt
      <4>q. QED
        BY <4>4, <4>5
    <3>9. ASSUME NEW n \in Node, n # m.node PROVE ExchangeAt(n)' /\ CursorAt(n)'
      BY <3>2, <3>3, <3>4, <3>9, ExchangeSame
    <3>q. QED
      BY <3>7, <3>8, <3>9
  <2>3. CASE Lose(m)
    <3>1. \A x \in UnderWay' : x \in UnderWay
      BY <2>3 DEF Lose, UnderWay, rootVars
    <3>q. QED
      BY <2>3, <1>g, <1>t, <3>1 DEF Lose, ramVars, routerVars, rootVars
  <2>4. CASE NewFw(m)
    <3>1. UNCHANGED <<setting, restarts, fwbox, cmdbox, chunk_num, slot>> /\ net' = net \ {m}
      BY <2>4 DEF NewFw, rootVars, routerVars
    <3>2. \A x \in UnderWay' : x \in UnderWay
      BY <3>1 DEF UnderWay
    <3>3. OneAtATime'
      BY <1>t, <3>1, <3>2, OneStays
    <3>4. ~None({"NEW_FW"}, m.node)
      BY <2>4 DEF NewFw, None, UnderWay
    <3>5. st[m.node] = "idle"
      BY <2>m, <3>4 DEF StartInv
    <3>6. st'[m.node] = "erase"
      BY <2>4, <2>m, <3>5 DEF NewFw, TypeOK, OnList
    <3>7. \A n \in Node : n # m.node => /\ st'[n] = st[n] /\ offset'[n] = offset[n]
                                         /\ quantity'[n] = quantity[n]
      BY <2>4 DEF NewFw, TypeOK
    <3>8. ASSUME NEW n \in Node PROVE ExchangeAt(n)' /\ CursorAt(n)'
      BY <3>1, <3>2, <3>6, <3>7, ExchangeSame
    <3>q. QED
      BY <3>3, <3>8
  <2>5. CASE FirmwareData(m)
    <3>1. /\ UNCHANGED <<setting, restarts, fwbox, cmdbox, chunk_num, quantity>>
          /\ net' = net \ {m}
          /\ m.type = "CHUNK"
      BY <2>5 DEF FirmwareData, Store, rootVars, routerVars
    <3>2. \A x \in UnderWay' : x \in UnderWay
      BY <3>1 DEF UnderWay
    <3>3. OneAtATime'
      BY <1>t, <3>1, <3>2, OneStays
    <3>4. \A n \in Node : n # m.node => /\ st'[n] = st[n] /\ offset'[n] = offset[n]
                                         /\ slot'[n] = slot[n]
      BY <2>5 DEF FirmwareData, Store, TypeOK
    <3>5. ASSUME NEW n \in Node, n # m.node PROVE ExchangeAt(n)' /\ CursorAt(n)'
      BY <3>1, <3>2, <3>4, <3>5, ExchangeSame
    <3>6. \A x \in UnderWay : x.type \in Exchange /\ x.node = m.node => x = m
      BY <2>m, <3>1 DEF OneAtATime, Exchange
    <3>7. m \notin UnderWay'
      <4>1. cmdbox # m
        BY <3>1 DEF BoxInv, Nothing
      <4>q. QED
        BY <1>t, <3>1, <4>1 DEF UnderWay
    <3>8. None({"REQ", "CHUNK"}, m.node)'
      BY <3>2, <3>6, <3>7 DEF None, Exchange
    <3>9. ~None({"REQ", "CHUNK"}, m.node)
      BY <2>m, <3>1 DEF None
    <3>10. st[m.node] \notin {"delay", "delay_off"}
      BY <2>m, <3>9 DEF ExchangeAt
    <3>11. CASE st[m.node] = "wait"
      <4>1. st'[m.node] = "delay"
        BY <2>5, <2>m, <3>11 DEF FirmwareData, TypeOK
      <4>2. /\ m.num = chunk_num[m.node] - 1 /\ offset[m.node] = m.num
            /\ m.num \in Chunk
        <5>1. m.num = chunk_num[m.node] - 1
          BY <2>m, <3>1, <3>11 DEF ExchangeAt, Exchange
        <5>2. m.num \in 0 .. SlotSize /\ m.num < Quantity
          BY <2>m, <3>1, Messages, FirstRun
        <5>3. offset[m.node] = chunk_num[m.node] - 1
          BY <2>m, <3>11 DEF CursorAt
        <5>q. QED
          BY <1>s, <5>1, <5>2, <5>3
      <4>3. slot[m.node][m.num] = Blank
        <5>1. \A k \in Chunk : slot[m.node][k] = IF k < offset[m.node] THEN <<1, k>> ELSE Blank
          BY <2>m, <3>11 DEF CursorAt
        <5>2. ~(m.num < offset[m.node])
          BY <1>s, <4>2
        <5>q. QED
          BY <4>2, <5>1, <5>2
      <4>4. /\ offset'[m.node] = chunk_num[m.node]
            /\ slot'[m.node][m.num] = <<1, m.num>>
            /\ \A k \in Chunk : k # m.num => slot'[m.node][k] = slot[m.node][k]
        <5>0. m.img = 1
          BY <2>m, <3>1, FirstRun
        <5>1. /\ slot' = [slot EXCEPT ![m.node][m.num] = Programmed(@, <<1, m.num>>)]
              /\ offset' = [offset EXCEPT ![m.node] = @ + 1]
          BY <2>5, <4>2, <5>0 DEF FirmwareData, Store
        <5>2. m.num \in Place /\ Programmed(slot[m.node][m.num], <<1, m.num>>) = <<1, m.num>>
          BY <1>s, <4>2, <4>3 DEF Programmed
        <5>3. offset'[m.node] = chunk_num[m.node]
          <6>1. chunk_num[m.node] \in 0 .. (W16 - 1)
            BY <2>m DEF TypeOK
          <6>2. offset'[m.node] = offset[m.node] + 1
            BY <2>m, <5>1 DEF TypeOK
          <6>q. QED
            BY <1>s, <4>2, <6>1, <6>2
        <5>4. slot'[m.node] = [slot[m.node] EXCEPT ![m.num] = <<1, m.num>>]
          BY <2>m, <5>1, <5>2 DEF TypeOK
        <5>5. slot[m.node] \in [Place -> Content]
          BY <2>m DEF TypeOK
        <5>6. \A k \in Place : slot'[m.node][k] = IF k = m.num THEN <<1, m.num>> ELSE slot[m.node][k]
          BY <5>4, <5>5
        <5>7. Chunk \subseteq Place
          BY <1>s
        <5>q. QED
          BY <5>2, <5>3, <5>6, <5>7
      <4>5. CursorAt(m.node)'
        <5>1. \A k \in Chunk : slot[m.node][k] = IF k < m.num THEN <<1, k>> ELSE Blank
          BY <2>m, <3>11, <4>2 DEF CursorAt
        <5>2. chunk_num[m.node] = m.num + 1
          BY <2>m, <4>2 DEF TypeOK
        <5>3. \A k \in Chunk : slot'[m.node][k] = IF k < offset'[m.node] THEN <<1, k>> ELSE Blank
          <6> SUFFICES ASSUME NEW k \in Chunk
                       PROVE  slot'[m.node][k] = IF k < m.num + 1 THEN <<1, k>> ELSE Blank
            BY <4>4, <5>2
          <6>1. k \in Int /\ m.num \in Int
            BY <1>s, <4>2
          <6>2. CASE k = m.num
            BY <4>4, <6>1, <6>2
          <6>3. CASE k # m.num
            <7>1. k < m.num + 1 <=> k < m.num
              BY <6>1, <6>3
            <7>q. QED
              BY <4>4, <5>1, <6>3, <7>1
          <6>q. QED
            BY <6>2, <6>3
        <5>q. QED
          BY <3>1, <4>1, <4>4, <5>3 DEF CursorAt
      <4>6. ExchangeAt(m.node)'
        BY <3>8, <4>1 DEF ExchangeAt
      <4>q. QED
        BY <3>3, <3>5, <4>5, <4>6
    <3>12. CASE st[m.node] # "wait"
      <4>1. st'[m.node] \notin {"wait", "delay", "delay_off"}
        BY <2>5, <3>10, <3>12 DEF FirmwareData
      <4>2. ExchangeAt(m.node)' /\ CursorAt(m.node)'
        BY <4>1 DEF ExchangeAt, CursorAt
      <4>q. QED
        BY <3>3, <3>5, <4>2
    <3>q. QED
      BY <3>11, <3>12
  <2>6. CASE FirmwareDataAtDeadline(m)
    BY <2>6 DEF FirmwareDataAtDeadline
  <2>q. QED
    BY <1>3, <2>1, <2>2, <2>3, <2>4, <2>5, <2>6 DEF Receive
<1>4. ASSUME NEW n \in Node, fw_update_process(n) \/ Trial(n) \/ NodeReset(n)
      PROVE  OneAtATime' /\ \A k \in Node : ExchangeAt(k)' /\ CursorAt(k)'
  <2>o. /\ UNCHANGED <<setting, restarts, fwbox, cmdbox>>
        /\ \A k \in Node : k # n => /\ st'[k] = st[k] /\ offset'[k] = offset[k]
                                     /\ chunk_num'[k] = chunk_num[k] /\ slot'[k] = slot[k]
                                     /\ quantity'[k] = quantity[k]
    BY <1>4, OneNode
  <2>n. \A x \in net' : x \in net \/ x.node = n
    BY <1>4 DEF fw_update_process, EraseStep, RequestChunk, VerifySlot, TimeoutRetry,
         TimeoutAbort, TimeoutLast, Trial, TrialJoined, TrialRolledBack, NodeReset,
         send_fw_chunk_req_packet
  <2>u. \A x \in UnderWay' : x \in UnderWay \/ x.node = n
    BY <2>o, <2>n DEF UnderWay
  <2>1. ASSUME NEW k \in Node, k # n PROVE ExchangeAt(k)' /\ CursorAt(k)'
    BY <2>o, <2>u, <2>1, ExchangeSame
  <2>2. CASE RequestChunk(n)
    <3> DEFINE req == [type |-> "REQ", node |-> n, num |-> chunk_num[n]]
    <3>1. /\ net' = net \cup {req} /\ UNCHANGED <<offset, slot, quantity>>
          /\ chunk_num'[n] = chunk_num[n] + 1 /\ chunk_num[n] < quantity[n]
          /\ \/ st[n] = "delay_off" /\ st'[n] = "wait_off"
             \/ st[n] = "delay" /\ st'[n] = "wait"
             \/ st[n] = "erase" /\ page[n] = SlotSize /\ st'[n] = "wait"
      BY <2>2 DEF RequestChunk, LoopTop, send_fw_chunk_req_packet, TypeOK, ToWait
    <3>2. req.type = "REQ" /\ req.node = n /\ req.num = chunk_num[n]
      OBVIOUS
    <3>3. \A x \in UnderWay' : x \in UnderWay \/ x = req
      BY <2>o, <3>1 DEF UnderWay
    <3> HIDE DEF req
    <3>4. None({"REQ", "CHUNK"}, n)
      BY <3>1 DEF ErasedInv, ExchangeAt
    <3>5. \A x \in UnderWay : x.type \in Exchange => x.node # n
      BY <3>4 DEF None, Exchange
    <3>6. fwbox' \notin net'
      BY <1>t, <2>o, <3>1, <3>2, <3>5 DEF UnderWay, BoxInv, Exchange, Nothing
    <3>7. OneAtATime'
      BY <3>2, <3>3, <3>5, <3>6 DEF OneAtATime
    <3>8. chunk_num[n] \in 0 .. (W16 - 1) /\ quantity[n] = Quantity
      <4>1. chunk_num[n] \in 0 .. (W16 - 1) /\ quantity[n] \in {0, Quantity}
        BY FirstRun DEF TypeOK
      <4>2. quantity[n] # 0
        BY <3>1, <4>1
      <4>q. QED
        BY <4>1, <4>2
    <3>9. ExchangeAt(n)'
      <4>1. CASE st'[n] = "wait_off"
        BY <4>1 DEF ExchangeAt
      <4>2. CASE st'[n] = "wait"
        <5>1. chunk_num'[n] - 1 = chunk_num[n] /\ chunk_num'[n] <= Quantity
          BY <1>s, <3>1, <3>8
        <5>2. \A x \in UnderWay' : x.type \in Exchange /\ x.node = n => x.num = chunk_num'[n] - 1
          BY <3>2, <3>3, <3>5, <5>1
        <5>q. QED
          BY <2>o, <3>1, <3>8, <4>2, <5>1, <5>2 DEF ExchangeAt
      <4>q. QED
        BY <3>1, <4>1, <4>2
    <3>10. CursorAt(n)'
      <4>3. CASE st'[n] = "wait_off"
        BY <4>3 DEF CursorAt
      <4>1. CASE st[n] = "delay"
        <5>1. offset[n] = chunk_num[n]
          BY <3>1, <3>8, <4>1, <1>s DEF CursorAt
        <5>2. \A k \in Chunk : slot[n][k] = IF k < offset[n] THEN <<1, k>> ELSE Blank
          BY <4>1 DEF CursorAt
        <5>q. QED
          BY <2>o, <3>1, <3>8, <5>1, <5>2, <1>s DEF CursorAt
      <4>2. CASE st[n] = "erase" /\ page[n] = SlotSize
        <5>1. offset[n] = 0 /\ chunk_num[n] = 0
          BY <4>2 DEF ErasedInv
        <5>2. \A k \in Chunk : slot[n][k] = Blank
          BY <1>s, <4>2 DEF ErasedInv
        <5>q. QED
          BY <1>s, <2>o, <3>1, <5>1, <5>2 DEF CursorAt
      <4>q. QED
        BY <3>1, <4>1, <4>2, <4>3
    <3>q. QED
      BY <2>1, <3>7, <3>9, <3>10
  <2>3. CASE TimeoutRetry(n) \/ TimeoutLast(n)
    <3>1. /\ UNCHANGED <<offset, slot, net>> /\ ~Expected(n)
          /\ \/ st'[n] = "delay" /\ st[n] = "wait"
             \/ st'[n] = "delay_off" /\ st[n] = "wait_off"
      BY <2>3 DEF TimeoutRetry, TimeoutLast, TypeOK, ToDelay, Waits
    <3>2. None({"REQ", "CHUNK"}, n)'
      BY <2>o, <3>1 DEF Expected, None, UnderWay, BoxInv, Nothing
    <3>3. ExchangeAt(n)'
      BY <3>1, <3>2 DEF ExchangeAt
    <3>7. CursorAt(n)'
      <4>1. CASE st'[n] = "delay_off"
        BY <4>1 DEF CursorAt
      <4>2. CASE st[n] = "wait" /\ st'[n] = "delay"
        <5>1. chunk_num[n] \in 0 .. (W16 - 1) /\ chunk_num[n] >= 1 /\ W16 \in Nat
          BY <1>s, <4>2, Settings DEF TypeOK, RequestInv
        <5>2. quantity[n] \in {0, Quantity}
          BY FirstRun
        <5>3. offset[n] = chunk_num[n] - 1
          BY <4>2 DEF CursorAt
        <5>4. \A k \in Chunk : slot[n][k] = IF k < offset[n] THEN <<1, k>> ELSE Blank
          BY <4>2 DEF CursorAt
        <5>5. CASE TimeoutRetry(n)
          <6>1. chunk_num'[n] = (chunk_num[n] - 1) % W16
            BY <5>5 DEF TimeoutRetry, Decremented, TypeOK
          <6>2. chunk_num'[n] = chunk_num[n] - 1
            BY <5>1, <6>1
          <6>q. QED
            BY <2>o, <3>1, <4>2, <5>3, <5>4, <6>2 DEF CursorAt
        <5>6. CASE TimeoutLast(n)
          <6>1. chunk_num' = chunk_num /\ chunk_num[n] >= quantity[n]
            BY <5>6 DEF TimeoutLast
          <6>2. chunk_num[n] = Quantity
            <7>1. chunk_num[n] <= Quantity
              BY <4>2 DEF ExchangeAt
            <7>2. quantity[n] = Quantity
              BY <4>2 DEF ExchangeAt
            <7>q. QED
              BY <1>s, <5>1, <6>1, <7>1, <7>2
          <6>q. QED
            BY <1>s, <2>o, <3>1, <4>2, <5>3, <5>4, <6>1, <6>2 DEF CursorAt
        <5>q. QED
          BY <2>3, <5>5, <5>6
      <4>q. QED
        BY <3>1, <4>1, <4>2
    <3>8. OneAtATime'
      <4>1. fwbox' \notin net' /\ UnderWay' = UnderWay
        BY <1>t, <2>o, <3>1 DEF UnderWay
      <4>q. QED
        BY <4>1, OneStays
    <3>q. QED
      BY <2>1, <3>3, <3>7, <3>8
  <2>4. CASE EraseStep(n) \/ VerifySlot(n) \/ TimeoutAbort(n) \/ Trial(n) \/ NodeReset(n)
    <3>1. \/ st'[n] \in {"idle", "erase", "trial", "wait_off"}
          \/ st'[n] = "delay_off" /\ LoopTop(n) /\ net' = net
      BY <2>4 DEF EraseStep, VerifySlot, TimeoutAbort, Trial, TrialJoined, TrialRolledBack,
           NodeReset, ClearRam, TypeOK
    <3>2. \A x \in net' : x \in net \/ x = [type |-> "SUCCESS", node |-> n]
      BY <2>4 DEF EraseStep, VerifySlot, TimeoutAbort, Trial, TrialJoined, TrialRolledBack,
           NodeReset
    <3>3. ExchangeAt(n)' /\ CursorAt(n)'
      <4>1. CASE st'[n] \in {"idle", "erase", "trial", "wait_off"}
        BY <4>1 DEF ExchangeAt, CursorAt
      <4>2. CASE st'[n] = "delay_off" /\ LoopTop(n) /\ net' = net
        <5>1. None({"REQ", "CHUNK"}, n)
          BY <4>2 DEF LoopTop, ErasedInv, ExchangeAt
        <5>2. None({"REQ", "CHUNK"}, n)'
          BY <2>o, <4>2, <5>1 DEF None, UnderWay
        <5>q. QED
          BY <4>2, <5>2 DEF ExchangeAt, CursorAt
      <4>q. QED
        BY <3>1, <4>1, <4>2
    <3>4. \A x \in UnderWay' : x \in UnderWay \/ x.type \notin Exchange
      BY <2>o, <3>2 DEF UnderWay, Exchange
    <3>5. fwbox' \notin net'
      BY <1>t, <2>o, <3>2 DEF BoxInv, Nothing
    <3>6. OneAtATime'
      BY <3>4, <3>5, OneStays
    <3>q. QED
      BY <2>1, <3>3, <3>6
  <2>q. QED
    BY <1>4, <2>2, <2>3, <2>4 DEF fw_update_process
<1>q. QED
  BY <1>1, <1>2, <1>3, <1>4 DEF Next

TimelyInv == restarts = 0 /\ ~Late => OneAtATime /\ \A n \in Node : ExchangeAt(n) /\ CursorAt(n)

LEMMA InitTimely == Init => TimelyInv
<1> SUFFICES ASSUME Init PROVE OneAtATime /\ \A n \in Node : ExchangeAt(n) /\ CursorAt(n)
  BY DEF TimelyInv
<1>1. OneAtATime
  BY DEF Init, OneAtATime, UnderWay, Nothing, Exchange
<1>2. \A n \in Node : ExchangeAt(n) /\ CursorAt(n)
  BY DEF Init, ExchangeAt, CursorAt
<1>q. QED
  BY <1>1, <1>2

LEMMA NextTimely == BaseInv /\ TellInv /\ TimelyInv /\ [Next]_vars => TimelyInv'
<1> SUFFICES ASSUME BaseInv, TellInv, TimelyInv, [Next]_vars, restarts' = 0, ~(Late')
             PROVE  OneAtATime' /\ \A n \in Node : ExchangeAt(n)' /\ CursorAt(n)'
  BY DEF TimelyInv
<1>1. restarts = 0 /\ ~RouterRestart
  BY RestartsOnly
<1>2. CASE UNCHANGED vars
  <2>1. UNCHANGED <<setting, fwbox, cmdbox, net, st, chunk_num, quantity, offset, slot, restarts>>
    BY <1>2 DEF vars, routerVars, rootVars, ramVars
  <2>2. OneAtATime /\ \A n \in Node : ExchangeAt(n) /\ CursorAt(n)
    BY <1>1, <2>1 DEF TimelyInv
  <2>3. fwbox' \notin net' /\ UnderWay' = UnderWay
    BY <2>1, <2>2 DEF OneAtATime, UnderWay
  <2>4. OneAtATime'
    BY <2>2, <2>3, OneStays
  <2>5. ASSUME NEW n \in Node PROVE ExchangeAt(n)' /\ CursorAt(n)'
    BY <2>1, <2>2, <2>3, ExchangeSame
  <2>q. QED
    BY <2>4, <2>5
<1>3. CASE Next
  <2>1. setting' = setting
    BY <1>3 DEF Next, LimitReached, RouterRestart, RootPoll, Receive, Lose, MessageSuccess,
       ServeRequest, NewFw, FirmwareData, FirmwareDataAtDeadline, Store, fw_update_process,
       EraseStep, RequestChunk, VerifySlot, TimeoutRetry, TimeoutAbort, TimeoutLast, Trial,
       TrialJoined, TrialRolledBack, NodeReset, routerVars
  <2>2. ~Late /\ OneAtATime /\ \A n \in Node : ExchangeAt(n) /\ CursorAt(n)
    BY <1>1, <2>1 DEF TimelyInv
  <2>q. QED
    BY <1>1, <1>3, <2>2, ExchangeStep DEF TellInv
<1>q. QED
  BY <1>2, <1>3

LEMMA TimelyInvariant == Spec => []TimelyInv
BY BaseInvariant, TellInvariant, InitTimely, NextTimely, PTL DEF Spec

\* The write offset, which no packet carries, and the request counter of
\* fw_update_process agree, and the slot holds exactly the chunks received so far, as
\* long as answers come within FW_DELAY and the router is not run again: losses, retries,
\* resets and the mailbox that is overwritten do not part them.
THEOREM OffsetFollowsRequests == Spec => []CursorAgrees
<1>1. TimelyInv => CursorAgrees
  BY DEF TimelyInv, CursorAgrees, CursorAt
<1>q. QED
  BY <1>1, TimelyInvariant, PTL

-----------------------------------------------------------------------------
(***************************************************************************)
(* What the router prints of each device.                                   *)
(***************************************************************************)
\* The devices from the current one on have no result yet.
ReportOpen ==
  router.st = "running" =>
    \A j \in DOMAIN Order : j >= router.i => report[Order[j]] = "none"

NoFailure == restarts = 0 /\ \A n \in Node : report[n] # "failed"

\* What ReportInv asks as long as no device has failed.
ReportOwn ==
  /\ \A n \in Node : report[n] = "success" => n \in updated
  /\ \A n \in Node : ~None({"SUCCESS"}, n) =>
       /\ n \in updated /\ st[n] = "idle"
       /\ router.st = "running" => n = Order[router.i]
  /\ \A j \in DOMAIN Order : j < router.i =>
       st[Order[j]] = "idle" /\ None({"NEW_FW"}, Order[j])

\* A step that does not move the router on.
LEMMA ReportSame ==
  ASSUME ReportOwn, UNCHANGED <<setting, router, report>>, setting \in Setting,
         updated \subseteq updated',
         \A n \in Node : None({"SUCCESS"}, n) /\ ~None({"SUCCESS"}, n)' =>
           n \in updated' /\ st'[n] = "idle" /\ (router.st = "running" => n = Order[router.i]),
         \A n \in Node : None({"NEW_FW"}, n) => None({"NEW_FW"}, n)',
         \A n \in Node : ~None({"SUCCESS"}, n) => st'[n] = "idle",
         \A j \in DOMAIN Order : j < router.i => st'[Order[j]] = "idle"
  PROVE  ReportOwn'
<1>1. \A n \in Node : report'[n] = "success" => n \in updated'
  BY DEF ReportOwn
<1>2. \A n \in Node : ~None({"SUCCESS"}, n)' =>
        /\ n \in updated' /\ st'[n] = "idle"
        /\ router'.st = "running" => n = Order'[router'.i]
  BY DEF ReportOwn
<1>3. \A n \in Node : \A j \in DOMAIN Order : j < router.i /\ n = Order[j] =>
        st'[n] = "idle" /\ None({"NEW_FW"}, n)'
  BY DEF ReportOwn
<1>4. \A j \in DOMAIN Order : Order[j] \in Node
  BY Settings
<1>q. QED
  BY <1>1, <1>2, <1>3, <1>4 DEF ReportOwn, None

\* The current device's result is booked, and the next device told.
LEMMA ReportAdvance ==
  ASSUME BaseInv, ReportOpen, NEW result \in {"success", "failed"}, Advance(result),
         setting' = setting
  PROVE  /\ ReportOpen'
         /\ report'[Order[router.i]] = result
         /\ \A n \in Node : n # Order[router.i] => report'[n] = report[n]
         /\ report[Order[router.i]] = "none"
<1>s. setting \in Setting /\ router.i \in DOMAIN Order /\ router.st = "running"
  BY DEF BaseInv, TypeOK, Advance
<1>1. Order[router.i] \in Node /\ router.i \in Nat /\ DOMAIN Order \subseteq Nat
  BY <1>s, Settings
<1>2. /\ report' = [report EXCEPT ![Order[router.i]] = result]
      /\ report \in [Node -> {"none", "success", "failed"}]
  BY DEF Advance, BaseInv, TypeOK
<1>3. report[Order[router.i]] = "none"
  BY <1>s, <1>1 DEF ReportOpen
<1>4. ReportOpen'
  <2>1. CASE router.i < Len(Order)
    <3>1. router'.i = router.i + 1
      BY <2>1 DEF Advance, BaseInv, TypeOK
    <3>2. ASSUME NEW j \in DOMAIN Order, j >= router.i + 1 PROVE report'[Order[j]] = "none"
      <4>1. j # router.i /\ j >= router.i
        BY <1>1, <3>2
      <4>2. Order[j] # Order[router.i] /\ Order[j] \in Node
        BY <1>s, <3>2, <4>1, Settings
      <4>q. QED
        BY <1>s, <1>2, <4>1, <4>2 DEF ReportOpen
    <3>q. QED
      BY <3>1, <3>2 DEF ReportOpen
  <2>2. CASE ~(router.i < Len(Order))
    <3>1. router'.st = "done"
      BY <2>2 DEF Advance, BaseInv, TypeOK
    <3>q. QED
      BY <3>1 DEF ReportOpen
  <2>q. QED
    BY <2>1, <2>2
<1>q. QED
  BY <1>1, <1>2, <1>3, <1>4

LEMMA ReportStep ==
  ASSUME BaseInv, TellInv, ReportInv, Next
  PROVE  ReportInv'
<1> USE DEF BaseInv
<1>s. /\ setting \in Setting /\ router.i \in DOMAIN Order
      /\ DOMAIN Order \subseteq Nat /\ \A j \in DOMAIN Order : Order[j] \in Node
  <2>1. setting \in Setting /\ router.i \in DOMAIN Order
    BY DEF TypeOK
  <2>q. QED
    BY <2>1, Settings
<1>i. ReportOpen /\ (NoFailure => ReportOwn)
  BY DEF ReportInv, ReportOpen, ReportOwn, NoFailure
<1>q0. SUFFICES ReportOpen' /\ (NoFailure' => ReportOwn')
  BY DEF ReportInv, ReportOpen, ReportOwn, NoFailure
<1>g. ASSUME UNCHANGED <<setting, router, report, restarts>>,
             updated \subseteq updated',
             NoFailure => 
               /\ \A n \in Node : None({"SUCCESS"}, n) /\ ~None({"SUCCESS"}, n)' =>
                    n \in updated' /\ st'[n] = "idle"
                    /\ (router.st = "running" => n = Order[router.i])
               /\ \A n \in Node : None({"NEW_FW"}, n) => None({"NEW_FW"}, n)'
               /\ \A n \in Node : ~None({"SUCCESS"}, n) => st'[n] = "idle"
               /\ \A j \in DOMAIN Order : j < router.i => st'[Order[j]] = "idle"
      PROVE  ReportOpen' /\ (NoFailure' => ReportOwn')
  <2>1. ReportOpen'
    BY <1>g, <1>i DEF ReportOpen
  <2>2. ASSUME NoFailure' PROVE ReportOwn'
    <3>1. NoFailure
      BY <1>g, <2>2 DEF NoFailure
    <3>q. QED
      BY <1>g, <1>i, <1>s, <3>1, ReportSame
  <2>q. QED
    BY <2>1, <2>2
<1>1. CASE LimitReached
  <2>1. ReportOpen' /\ report'[Order[router.i]] = "failed"
    BY <1>1, <1>i, ReportAdvance DEF LimitReached
  <2>2. ~NoFailure'
    BY <1>s, <2>1 DEF NoFailure
  <2>q. QED
    BY <2>1, <2>2
<1>2. CASE RouterRestart
  <2>1. ReportOpen'
    BY <1>2, <1>s DEF RouterRestart, ReportOpen
  <2>2. restarts' # 0
    <3>1. restarts \in Nat /\ restarts' = restarts + 1
      BY <1>2, Settings DEF RouterRestart, TypeOK
    <3>q. QED
      BY <3>1
  <2>q. QED
    BY <2>1, <2>2 DEF NoFailure
<1>3. CASE RootPoll
  <2>1. \A x \in UnderWay' : x \in UnderWay \/ x = Nothing
    BY <1>3 DEF RootPoll, UnderWay, send_firmware_packet, send_firmware_cmd_packet
  <2>2. ASSUME NEW n \in Node, NEW types \in SUBSET {"NEW_FW", "SUCCESS"}, None(types, n)
        PROVE  None(types, n)'
    BY <2>1, <2>2, NoneStays
  <2>3. UNCHANGED <<setting, router, report, restarts, st, updated>>
    BY <1>3 DEF RootPoll, routerVars
  <2>q. QED
    BY <1>g, <1>i, <2>2, <2>3 DEF ReportOwn
<1>4. ASSUME NEW m \in net, Receive(m) \/ Lose(m)
      PROVE  ReportOpen' /\ (NoFailure' => ReportOwn')
  <2>m. m.node \in Node /\ m \in Message /\ m \in UnderWay
    BY Messages DEF UnderWay
  <2>1. CASE MessageSuccess(m)
    <3>1. /\ ReportOpen' /\ report'[Order[router.i]] = "success"
          /\ \A n \in Node : n # Order[router.i] => report'[n] = report[n]
          /\ report[Order[router.i]] = "none"
      BY <2>1, <1>i, ReportAdvance DEF MessageSuccess
    <3>2. /\ net' = net \ {m} /\ m.type = "SUCCESS" /\ router.st = "running"
          /\ UNCHANGED <<setting, fwbox, st, updated, restarts>>
      BY <2>1 DEF MessageSuccess, Advance
    <3>3. ASSUME NoFailure' PROVE ReportOwn'
      <4>1. NoFailure
        <5>1. \A n \in Node : report[n] # "failed"
          BY <3>1, <3>3 DEF NoFailure
        <5>q. QED
          BY <3>2, <3>3, <5>1 DEF NoFailure
      <4>2. ~None({"SUCCESS"}, m.node)
        BY <2>m, <3>2 DEF None
      <4>3. m.node \in updated /\ st[m.node] = "idle" /\ m.node = Order[router.i]
        BY <1>i, <2>m, <3>2, <4>1, <4>2 DEF ReportOwn
      <4>4. StartInv
        BY <4>1 DEF TellInv, NoFailure
      <4>5. None({"NEW_FW"}, m.node)
        <5>1. ~None({"REQ", "CHUNK", "SUCCESS"}, m.node)
          BY <2>m, <3>2 DEF None
        <5>q. QED
          BY <2>m, <4>4, <5>1 DEF StartInv
      <4>6. \A n \in Node : report'[n] = "success" => n \in updated'
        BY <1>i, <3>1, <3>2, <4>1, <4>3 DEF ReportOwn
      <4>7. cmdbox' = cmdbox \/ cmdbox'.type = "NEW_FW"
        BY <2>1 DEF MessageSuccess, Advance, NewFwFor
      <4>8. \A n \in Node : None({"SUCCESS"}, n)'
        <5> SUFFICES ASSUME NEW n \in Node, NEW x \in UnderWay',
                            x.type = "SUCCESS", x.node = n
                     PROVE  FALSE
          BY DEF None
        <5>1. x \in net' /\ x \in net /\ x # m
          BY <3>2, <4>7 DEF UnderWay, BoxInv, Nothing
        <5>2. x \in Message /\ ~None({"SUCCESS"}, n)
          BY <5>1 DEF TypeOK, None, UnderWay
        <5>3. x.node = m.node
          BY <1>i, <3>2, <4>1, <4>3, <5>2 DEF ReportOwn
        <5>q. QED
          BY <2>m, <3>2, <5>1, <5>2, <5>3, SameMessage
      <4>9. \A n \in Node : \A j \in DOMAIN Order : j < router'.i /\ n = Order[j] =>
              st'[n] = "idle" /\ None({"NEW_FW"}, n)'
        <5> SUFFICES ASSUME NEW n \in Node, NEW j \in DOMAIN Order, j < router'.i, n = Order[j]
                     PROVE  st'[n] = "idle" /\ None({"NEW_FW"}, n)'
          OBVIOUS
        <5>1. \/ router'.i = router.i /\ cmdbox' = cmdbox
              \/ /\ router'.i = router.i + 1 /\ router.i + 1 \in DOMAIN Order
                 /\ cmdbox'.type = "NEW_FW" /\ cmdbox'.node = Order[router.i + 1]
          <6>1. CASE router.i < Len(Order)
            <7>1. router.i + 1 \in DOMAIN Order
              BY <1>s, <6>1, Settings
            <7>q. QED
              BY <2>1, <6>1, <7>1 DEF MessageSuccess, Advance, TypeOK, NewFwFor
          <6>2. CASE ~(router.i < Len(Order))
            BY <2>1, <6>2 DEF MessageSuccess, Advance, TypeOK
          <6>q. QED
            BY <6>1, <6>2
        <5>2. j < router.i \/ j = router.i
          BY <1>s, <5>1
        <5>3. st[n] = "idle" /\ None({"NEW_FW"}, n)
          BY <1>i, <4>1, <4>3, <4>5, <5>2 DEF ReportOwn
        <5>4. cmdbox' = cmdbox \/ (cmdbox'.type = "NEW_FW" /\ cmdbox'.node # n)
          <6>1. CASE router.i + 1 \in DOMAIN Order
            <7>1. j # router.i + 1
              BY <1>s, <5>2
            <7>2. Order[j] # Order[router.i + 1]
              BY <1>s, <6>1, <7>1, Settings
            <7>q. QED
              BY <5>1, <7>2
          <6>q. QED
            BY <5>1, <6>1
        <5>5. \A x \in UnderWay' : x \in UnderWay \/ x.node # n
          BY <3>2, <5>4 DEF UnderWay
        <5>6. None({"NEW_FW"}, n)'
          BY <5>3, <5>5, NoneStays
        <5>q. QED
          BY <3>2, <5>3, <5>6
      <4>q. QED
        BY <1>s, <3>2, <4>6, <4>8, <4>9 DEF ReportOwn, None
    <3>q. QED
      BY <3>1, <3>3
  <2>2. CASE ServeRequest(m)
    <3>1. CASE ~(m.num < Quantity)
      <4>1. router' = [router EXCEPT !.st = "exited"] /\ UNCHANGED restarts /\ m.type = "REQ"
        BY <2>2, <3>1 DEF ServeRequest
      <4>2. restarts # 0
        BY <2>m, <3>1, <4>1, FirstRun
      <4>3. router'.st = "exited"
        BY <4>1 DEF TypeOK
      <4>q. QED
        BY <4>1, <4>2, <4>3 DEF ReportOpen, NoFailure
    <3>2. m.num < Quantity => UNCHANGED <<setting, router, report, restarts, st, updated>>
      BY <2>2 DEF ServeRequest
    <3>3. \A x \in UnderWay' : x \in UnderWay \/ x.type = "CHUNK"
      BY <2>2 DEF ServeRequest, UnderWay
    <3>4. ASSUME NEW n \in Node, NEW types \in SUBSET {"NEW_FW", "SUCCESS"}, None(types, n)
          PROVE  None(types, n)'
      BY <3>3, <3>4, NoneStays
    <3>q. QED
      BY <1>g, <1>i, <3>1, <3>2, <3>4 DEF ReportOwn
  <2>3. CASE NewFw(m) \/ FirmwareData(m) \/ FirmwareDataAtDeadline(m) \/ Lose(m)
    <3>1. /\ UNCHANGED <<setting, router, report, restarts, updated, fwbox, cmdbox>>
          /\ net' = net \ {m}
      BY <2>3 DEF NewFw, FirmwareData, FirmwareDataAtDeadline, Store, Lose, routerVars, rootVars
    <3>2. \A x \in UnderWay' : x \in UnderWay
      BY <3>1 DEF UnderWay
    <3>3. ASSUME NEW n \in Node, NEW types \in SUBSET {"NEW_FW", "SUCCESS"}, None(types, n)
          PROVE  None(types, n)'
      BY <3>2, <3>3, NoneStays
    <3>4. ASSUME NoFailure, NEW n \in Node, st[n] = "idle", st'[n] # "idle"
          PROVE  None({"SUCCESS"}, n) /\ ~None({"NEW_FW"}, n)
      <4>1. NewFw(m) /\ n = m.node
        <5>1. st \in [Node -> {"idle", "trial"} \cup OnList \cup OffList]
          BY DEF TypeOK
        <5>2. CASE FirmwareData(m) \/ FirmwareDataAtDeadline(m) \/ Lose(m)
          BY <3>4, <5>1, <5>2 DEF FirmwareData, FirmwareDataAtDeadline, Lose
        <5>3. CASE NewFw(m)
          BY <3>4, <5>1, <5>3 DEF NewFw
        <5>q. QED
          BY <2>3, <5>2, <5>3
      <4>2. ~None({"NEW_FW"}, n)
        BY <2>m, <4>1 DEF NewFw, None
      <4>3. None({"REQ", "CHUNK", "SUCCESS"}, n)
        BY <3>4, <4>2 DEF TellInv, StartInv, NoFailure
      <4>q. QED
        BY <4>2, <4>3 DEF None
    <3>5. ASSUME NoFailure
          PROVE  /\ \A n \in Node : ~None({"SUCCESS"}, n) => st'[n] = "idle"
                 /\ \A j \in DOMAIN Order : j < router.i => st'[Order[j]] = "idle"
      BY <1>i, <1>s, <3>4, <3>5 DEF ReportOwn
    <3>q. QED
      BY <1>g, <3>1, <3>3, <3>5
  <2>q. QED
    BY <1>4, <2>1, <2>2, <2>3 DEF Receive
<1>5. ASSUME NEW n \in Node, fw_update_process(n) \/ Trial(n) \/ NodeReset(n)
      PROVE  ReportOpen' /\ (NoFailure' => ReportOwn')
  <2>o. UNCHANGED <<setting, router, report, restarts, fwbox, cmdbox>>
    BY <1>5 DEF fw_update_process, EraseStep, RequestChunk, VerifySlot, TimeoutRetry,
         TimeoutAbort, TimeoutLast, Trial, TrialJoined, TrialRolledBack, NodeReset,
         routerVars, rootVars
  <2>p. /\ \A k \in Node : k # n => st'[k] = st[k]
        /\ st[n] = "idle" => st'[n] = "idle"
    <3>1. st \in [Node -> {"idle", "trial"} \cup OnList \cup OffList]
      BY DEF TypeOK
    <3>2. CASE Trial(n) \/ NodeReset(n)
      BY <3>1, <3>2 DEF Trial, TrialJoined, TrialRolledBack, NodeReset, ClearRam
    <3>3. CASE fw_update_process(n)
      <4>1. st[n] # "idle"
        BY <3>3 DEF fw_update_process, EraseStep, RequestChunk, VerifySlot, TimeoutRetry,
           TimeoutAbort, TimeoutLast, LoopTop, Waits
      <4>q. QED
        BY <1>5, <4>1, OneNode
    <3>q. QED
      BY <1>5, <3>2, <3>3
  <2>u. updated \subseteq updated'
    BY <1>5 DEF fw_update_process, EraseStep, RequestChunk, VerifySlot, TimeoutRetry,
         TimeoutAbort, TimeoutLast, Trial, TrialJoined, TrialRolledBack, NodeReset
  <2>1. ASSUME NoFailure
        PROVE  /\ \A k \in Node : ~None({"SUCCESS"}, k) => st'[k] = "idle"
               /\ \A j \in DOMAIN Order : j < router.i => st'[Order[j]] = "idle"
    BY <1>i, <1>s, <2>p, <2>1 DEF ReportOwn
  <2>2. CASE TrialJoined(n)
    <3>1. /\ net' = net \cup {[type |-> "SUCCESS", node |-> n]} /\ n \in updated'
          /\ st[n] = "trial" /\ st'[n] = "idle"
      BY <2>2 DEF TrialJoined, ClearRam, TypeOK
    <3>2. \A x \in UnderWay' : x \in UnderWay \/ (x.type = "SUCCESS" /\ x.node = n)
      BY <2>o, <3>1 DEF UnderWay
    <3>3. ASSUME NEW k \in Node, None({"NEW_FW"}, k) PROVE None({"NEW_FW"}, k)'
      BY <3>2, <3>3, NoneStays
    <3>4. ASSUME NEW k \in Node, None({"SUCCESS"}, k), k # n PROVE None({"SUCCESS"}, k)'
      BY <3>2, <3>4, NoneStays
    <3>5. ASSUME NoFailure PROVE n = Order[router.i]
      <4>1. Told(n)
        BY <3>1, <3>5 DEF TellInv, StartInv, NoFailure
      <4>2. PICK j \in DOMAIN Order : j <= router.i /\ Order[j] = n
        BY <4>1 DEF Told
      <4>3. ~(j < router.i)
        BY <1>i, <3>1, <3>5, <4>2 DEF ReportOwn
      <4>4. j = router.i
        BY <1>s, <4>2, <4>3
      <4>q. QED
        BY <4>2, <4>4
    <3>q. QED
      BY <1>g, <2>o, <2>u, <2>1, <3>1, <3>3, <3>4, <3>5
  <2>3. CASE ~TrialJoined(n)
    <3>1. \A x \in net' : x \in net \/ x = [type |-> "REQ", node |-> n, num |-> chunk_num[n]]
      BY <1>5, <2>3 DEF fw_update_process, EraseStep, RequestChunk, VerifySlot, TimeoutRetry,
         TimeoutAbort, TimeoutLast, Trial, TrialRolledBack, NodeReset, send_fw_chunk_req_packet
    <3>2. \A x \in UnderWay' : x \in UnderWay \/ x.type = "REQ"
      BY <2>o, <3>1 DEF UnderWay
    <3>3. ASSUME NEW k \in Node, NEW types \in SUBSET {"NEW_FW", "SUCCESS"}, None(types, k)
          PROVE  None(types, k)'
      BY <3>2, <3>3, NoneStays
    <3>q. QED
      BY <1>g, <2>o, <2>u, <2>1, <3>3
  <2>q. QED
    BY <2>2, <2>3
<1>q. QED
  BY <1>1, <1>2, <1>3, <1>4, <1>5 DEF Next

LEMMA InitReport == Init => ReportInv
<1> SUFFICES ASSUME Init PROVE ReportInv
  OBVIOUS
<1>s. setting \in Setting
  BY DEF Init
<1>1. \A n \in Node : None({"SUCCESS"}, n)
  BY DEF Init, None, UnderWay, Nothing, NewFwFor
<1>2. \A j \in DOMAIN Order : Order[j] \in Node /\ ~(j < 1)
  BY <1>s, Settings
<1>q. QED
  BY <1>1, <1>2 DEF Init, ReportInv

LEMMA NextReport == BaseInv /\ TellInv /\ ReportInv /\ [Next]_vars => ReportInv'
<1> SUFFICES ASSUME BaseInv, TellInv, ReportInv, [Next]_vars PROVE ReportInv'
  OBVIOUS
<1>1. CASE UNCHANGED vars
  <2>1. UNCHANGED <<setting, router, report, restarts, fwbox, cmdbox, net, st, updated>>
    BY <1>1 DEF vars, routerVars, rootVars, ramVars
  <2>2. \A n \in Node : /\ None({"SUCCESS"}, n)' <=> None({"SUCCESS"}, n)
                        /\ None({"NEW_FW"}, n)' <=> None({"NEW_FW"}, n)
    BY <2>1 DEF None, UnderWay
  <2>3. \A j \in DOMAIN Order : Order[j] \in Node
    BY Settings DEF BaseInv, TypeOK
  <2>q. QED
    BY <2>1, <2>2, <2>3 DEF ReportInv, None
<1>2. CASE Next
  BY <1>2, ReportStep
<1>q. QED
  BY <1>1, <1>2

\* "Update device ... success" names a device that runs the new image, as long as no
\* device before it ran into the limit and the router is not run again: although any
\* success message will do, it can only be the current device's.
THEOREM SuccessNamesItsDevice == Spec => []SuccessIsOwn
<1>1. ReportInv => SuccessIsOwn
  BY DEF ReportInv, SuccessIsOwn
<1>2. Spec => []ReportInv
  BY BaseInvariant, TellInvariant, InitReport, NextReport, PTL DEF Spec
<1>q. QED
  BY <1>1, <1>2, PTL
==============================================================================
