---------------------------- MODULE RouterRxProofs ----------------------------
(***************************************************************************)
(* Theorems about RouterRx for every set of devices and packets, every      *)
(* length of the window and any number of lost bytes.                       *)
(***************************************************************************)
EXTENDS RouterRx, SequenceTheorems, WellFoundedInduction, TLAPS

-----------------------------------------------------------------------------
(* Tokens and lines.                                                        *)

\* The length of a window is a number.
LEMMA WindowType == Window \in Nat /\ Window >= 4
  BY RouterAssumption

\* What kind a token is.
LEMMA TokenKinds ==
  /\ {Head_, Tail_, Feed, Other, Zero, Junk} \subseteq Token
  /\ Head_.t = "head" /\ Tail_.t = "tail" /\ Feed.t = "feed" /\ Other.t = "other"
  /\ Zero.t = "zero" /\ Junk.t = "junk"
  /\ \A x \in Text : [t |-> "udm", text |-> x] \in Token
  /\ \A p \in Packet : \A i \in 1 .. Window - 2 : [t |-> "place", of |-> p, i |-> i] \in Token
  BY DEF Token, Head_, Tail_, Feed, Other, Zero, Junk

\* A nonempty set of positions has a first and a last one.
LEMMA MinOfNat ==
  ASSUME NEW S \in SUBSET Nat, S # {}
  PROVE  Min(S) \in S /\ \A x \in S : Min(S) <= x
<1>1. \E x \in S : \A y \in S : x <= y
  <2> DEFINE R == OpToRel(<, Nat)
  <2>1. IsWellFoundedOn(R, Nat)
    BY NatLessThanWellFounded
  <2>2. \A x, y \in Nat : <<x, y>> \in R <=> x < y
    BY DEF OpToRel
  <2> HIDE DEF R
  <2>3. PICK x \in S : \A y \in S : ~(<<y, x>> \in R)
    BY <2>1, WFMin
  <2>4. \A y \in S : ~(y < x)
    BY <2>2, <2>3, Zenon
  <2>5. \A y \in S : x <= y
    BY <2>4
  <2>q. QED
    BY <2>5
<1>q. QED
  BY <1>1 DEF Min

\* The same for the last position.
LEMMA MaxOfNat ==
  ASSUME NEW n \in Nat, NEW S \in SUBSET (1 .. n), S # {}
  PROVE  Max(S) \in S /\ \A x \in S : x <= Max(S)
<1> DEFINE T == {n - x : x \in S}
<1>0. \A z \in S : z \in Nat /\ z <= n
  OBVIOUS
<1>1. T \in SUBSET Nat /\ T # {}
  <2>1. \A z \in S : n - z \in Nat
    BY <1>0
  <2>2. T \subseteq Nat
    BY <2>1
  <2>3. PICK z \in S : TRUE
    OBVIOUS
  <2>4. n - z \in T
    OBVIOUS
  <2> QED
    BY <2>2, <2>4
<1>2. PICK y \in T : \A z \in T : y <= z
  <2> HIDE DEF T
  <2> QED
    BY <1>1, MinOfNat
<1>3. PICK x \in S : y = n - x
  BY <1>2
<1>4. \A z \in S : n - x <= n - z
  BY <1>2, <1>3
<1>5. \A z \in S : x >= z
  BY <1>0, <1>4
<1> QED
  BY <1>0, <1>5 DEF Max

\* A packet's line: header, places, end mark, the rest of the line.
LEMMA PacketTokens ==
  ASSUME NEW p \in Packet
  PROVE  LET s == dag_root_raw_print(p)
         IN  /\ s \in Seq(Token) /\ Len(s) = Window + 2
             /\ s[1] = Head_ /\ s[Window] = Tail_ /\ s[Window + 1] = Other
             /\ s[Window + 2] = Feed
             /\ \A k \in 2 .. Window - 1 : s[k] = [t |-> "place", of |-> p, i |-> k - 1]
<1> DEFINE places == [i \in 1 .. Window - 2 |-> [t |-> "place", of |-> p, i |-> i]]
<1>1. Window \in Nat /\ Window >= 4
  BY WindowType
<1>2. places \in Seq(Token) /\ Len(places) = Window - 2
  <2>1. places \in [1 .. Window - 2 -> Token]
    BY TokenKinds
  <2>2. Window - 2 \in Nat
    BY <1>1
  <2> HIDE DEF places
  <2>3. places \in Seq(Token) /\ DOMAIN places = 1 .. Window - 2
    BY <2>1, <2>2
  <2> QED
    BY <2>2, <2>3, LenProperties
<1>3. \A k \in 1 .. Window - 2 : places[k] = [t |-> "place", of |-> p, i |-> k]
  OBVIOUS
<1>4. dag_root_raw_print(p) = <<Head_>> \o places \o <<Tail_, Other, Feed>>
  BY DEF dag_root_raw_print
<1> HIDE DEF places
<1>5. <<Head_>> \in Seq(Token) /\ <<Tail_, Other, Feed>> \in Seq(Token)
  BY TokenKinds
<1>6. PICK s : s = <<Head_>> \o places
  OBVIOUS
<1>7. /\ s \in Seq(Token) /\ Len(s) = Window - 1 /\ s[1] = Head_
      /\ \A k \in 2 .. Window - 1 : s[k] = [t |-> "place", of |-> p, i |-> k - 1]
  <2>1. PICK h : h = <<Head_>>
    OBVIOUS
  <2>2. h \in Seq(Token) /\ Len(h) = 1 /\ h[1] = Head_
    BY <1>5, <2>1
  <2>3. /\ s \in Seq(Token) /\ Len(s) = Len(h) + Len(places)
        /\ \A k \in 1 .. Len(h) + Len(places) :
             s[k] = IF k <= Len(h) THEN h[k] ELSE places[k - Len(h)]
    <3>1. s = h \o places
      BY <1>6, <2>1
    <3> QED
      BY <1>2, <2>2, <3>1, ConcatProperties
  <2>4. Len(s) = Window - 1 /\ 1 + (Window - 2) = Window - 1
    BY <1>1, <1>2, <2>2, <2>3
  <2>5. s[1] = Head_
    BY <1>1, <1>2, <2>2, <2>3, <2>4
  <2>6. ASSUME NEW k \in 2 .. Window - 1
        PROVE  s[k] = [t |-> "place", of |-> p, i |-> k - 1]
    <3>1. k \in 1 .. 1 + (Window - 2) /\ ~(k <= 1) /\ k - 1 \in 1 .. Window - 2
      BY <1>1
    <3>2. s[k] = places[k - 1]
      BY <1>2, <2>2, <2>3, <3>1
    <3> QED
      BY <1>3, <3>1, <3>2
  <2> QED
    BY <2>3, <2>4, <2>5, <2>6
<1>8. PICK e : e = <<Tail_, Other, Feed>>
  OBVIOUS
<1>9. e \in Seq(Token) /\ Len(e) = 3 /\ e[1] = Tail_ /\ e[2] = Other /\ e[3] = Feed
  BY <1>5, <1>8
<1>10. PICK r : r = s \o e
  OBVIOUS
<1>11. /\ r \in Seq(Token) /\ Len(r) = Window - 1 + 3
       /\ \A k \in 1 .. Window - 1 + 3 :
            r[k] = IF k <= Window - 1 THEN s[k] ELSE e[k - (Window - 1)]
  <2>1. /\ r \in Seq(Token) /\ Len(r) = Len(s) + Len(e)
        /\ \A k \in 1 .. Len(s) + Len(e) :
             r[k] = IF k <= Len(s) THEN s[k] ELSE e[k - Len(s)]
    BY <1>7, <1>9, <1>10, ConcatProperties, Zenon
  <2>2. Len(s) = Window - 1 /\ Len(e) = 3
    BY <1>7, <1>9
  <2> QED
    BY <2>1, <2>2
<1>12. Len(r) = Window + 2 /\ r[1] = Head_
  BY <1>1, <1>7, <1>11
<1>13. r[Window] = Tail_ /\ r[Window + 1] = Other /\ r[Window + 2] = Feed
  <2>1. ASSUME NEW j \in 1 .. 3 PROVE r[Window - 1 + j] = e[j]
    <3>1. PICK k \in 1 .. Window - 1 + 3 :
            k = Window - 1 + j /\ ~(k <= Window - 1) /\ k - (Window - 1) = j
      BY <1>1
    <3> QED
      BY <1>11, <3>1
  <2>2. Window - 1 + 1 = Window /\ Window - 1 + 2 = Window + 1 /\ Window - 1 + 3 = Window + 2
    BY <1>1
  <2>3. r[Window] = e[1] /\ r[Window + 1] = e[2] /\ r[Window + 2] = e[3]
    BY <2>1, <2>2
  <2> QED
    BY <1>9, <2>3
<1>14. ASSUME NEW k \in 2 .. Window - 1
       PROVE  r[k] = [t |-> "place", of |-> p, i |-> k - 1]
  <2>1. k \in 1 .. Window - 1 + 3 /\ k <= Window - 1
    BY <1>1
  <2> QED
    BY <1>7, <1>11, <2>1, Zenon
<1>15. dag_root_raw_print(p) = r
  BY <1>4, <1>6, <1>8, <1>10
<1> QED
  BY <1>11, <1>12, <1>13, <1>14, <1>15

\* A message's line.
LEMMA MessageTokens ==
  ASSUME NEW x \in Text
  PROVE  LET s == Message(x)
         IN  /\ s \in Seq(Token) /\ Len(s) = IF x = "created" THEN 4 ELSE 2
             /\ s[1] = [t |-> "udm", text |-> x] /\ s[Len(s)] = Feed
             /\ \A k \in 2 .. Len(s) - 1 : s[k] = Other
<1> DEFINE u == [t |-> "udm", text |-> x]
<1>1. u \in Token /\ Other \in Token /\ Feed \in Token
  BY TokenKinds
<1>2. PICK a : a = <<u>>
  OBVIOUS
<1>3. PICK c : c = <<Feed>>
  OBVIOUS
<1>4. PICK b : b = IF x = "created" THEN <<Other, Other>> ELSE <<>>
  OBVIOUS
<1>5. Message(x) = a \o b \o c
  BY <1>2, <1>3, <1>4 DEF Message
<1> HIDE DEF u
<1>6. /\ a \in Seq(Token) /\ Len(a) = 1 /\ a[1] = u
      /\ c \in Seq(Token) /\ Len(c) = 1 /\ c[1] = Feed
  BY <1>1, <1>2, <1>3
<1>7. /\ b \in Seq(Token) /\ Len(b) = IF x = "created" THEN 2 ELSE 0
      /\ \A k \in 1 .. Len(b) : b[k] = Other
  <2>1. CASE x = "created"
    BY <1>1, <1>4, <2>1
  <2>2. CASE x # "created"
    BY <1>1, <1>4, <2>2
  <2> QED
    BY <2>1, <2>2
<1>8. PICK ab : ab = a \o b
  OBVIOUS
<1>9. /\ ab \in Seq(Token) /\ Len(ab) = 1 + Len(b) /\ ab[1] = u
      /\ \A k \in 2 .. Len(ab) : ab[k] = Other
  <2>1. /\ ab \in Seq(Token) /\ Len(ab) = Len(a) + Len(b)
        /\ \A k \in 1 .. Len(a) + Len(b) :
             ab[k] = IF k <= Len(a) THEN a[k] ELSE b[k - Len(a)]
    BY <1>6, <1>7, <1>8, ConcatProperties
  <2>2. Len(b) \in Nat
    BY <1>7
  <2> QED
    BY <1>6, <1>7, <2>1, <2>2
<1>10. PICK s : s = ab \o c
  OBVIOUS
<1>11. /\ s \in Seq(Token) /\ Len(s) = 2 + Len(b) /\ s[1] = u /\ s[Len(s)] = Feed
       /\ \A k \in 2 .. Len(s) - 1 : s[k] = Other
  <2>1. /\ s \in Seq(Token) /\ Len(s) = Len(ab) + Len(c)
        /\ \A k \in 1 .. Len(ab) + Len(c) :
             s[k] = IF k <= Len(ab) THEN ab[k] ELSE c[k - Len(ab)]
    BY <1>6, <1>9, <1>10, ConcatProperties
  <2>2. Len(ab) \in Nat /\ Len(b) \in Nat
    BY <1>7, <1>9
  <2> QED
    BY <1>6, <1>9, <2>1, <2>2
<1>12. Message(x) = s /\ Len(s) = IF x = "created" THEN 4 ELSE 2
  BY <1>5, <1>7, <1>8, <1>10, <1>11
<1> QED
  BY <1>11, <1>12 DEF u

IsPacket(what) == "packet" \in DOMAIN what

\* A line is a packet's or a message's.
LEMMA WhatKinds ==
  ASSUME NEW what \in What
  PROVE  \/ /\ IsPacket(what) /\ "text" \notin DOMAIN what
            /\ what.packet \in Packet /\ what = [packet |-> what.packet]
         \/ /\ ~IsPacket(what) /\ "text" \in DOMAIN what
            /\ what.text \in Text /\ what = [text |-> what.text]
  BY DEF What, IsPacket

\* What is common to all lines: a header or a start in front, and nowhere else, and a
\* line feed at the end, and nowhere else.
LEMMA FullTokens ==
  ASSUME NEW what \in What
  PROVE  LET s == Full(what)
         IN  /\ s \in Seq(Token) /\ Len(s) >= 2 /\ s[Len(s)] = Feed
             /\ s[1].t \in {"head", "udm"} /\ (s[1] = Head_ <=> IsPacket(what))
             /\ \A k \in 1 .. Len(s) - 1 : s[k] # Feed
             /\ \A k \in 2 .. Len(s) : s[k].t \notin {"head", "udm"}
             /\ \A k \in 1 .. Len(s) : s[k] = Tail_ => k = Window /\ IsPacket(what)
             /\ IsPacket(what) => s = dag_root_raw_print(what.packet)
             /\ ~IsPacket(what) => Len(s) <= 4
             /\ what = Sync => Len(s) = 2 /\ s[1] = [t |-> "udm", text |-> "sync"]
             /\ s[1] = [t |-> "udm", text |-> "sync"] => what = Sync
<1>0. Window \in Nat /\ Window >= 4
  BY WindowType
<1>1. CASE IsPacket(what)
  <2>1. PICK p \in Packet : p = what.packet /\ what = [packet |-> p]
    BY <1>1, WhatKinds
  <2>2. PICK s : s = dag_root_raw_print(p)
    OBVIOUS
  <2>3. /\ s \in Seq(Token) /\ Len(s) = Window + 2
        /\ s[1] = Head_ /\ s[Window] = Tail_ /\ s[Window + 1] = Other
        /\ s[Window + 2] = Feed
        /\ \A k \in 2 .. Window - 1 : s[k] = [t |-> "place", of |-> p, i |-> k - 1]
    BY <2>2, PacketTokens
  <2>4. Full(what) = s
    BY <1>1, <2>1, <2>2, WhatKinds DEF Full
  <2>5. \A k \in 1 .. Window + 2 :
          \/ k = 1 /\ s[k].t = "head"
          \/ k \in 2 .. Window - 1 /\ s[k].t = "place"
          \/ k = Window /\ s[k].t = "tail"
          \/ k = Window + 1 /\ s[k].t = "other"
          \/ k = Window + 2 /\ s[k].t = "feed"
    <3>1. ASSUME NEW k \in 2 .. Window - 1 PROVE s[k].t = "place"
      <4>1. s[k] = [t |-> "place", of |-> p, i |-> k - 1]
        BY <2>3
      <4> QED
        BY <4>1
    <3>2. s[1].t = "head" /\ s[Window].t = "tail" /\ s[Window + 1].t = "other"
            /\ s[Window + 2].t = "feed"
      BY <2>3, TokenKinds
    <3> QED
      BY <1>0, <3>1, <3>2
  <2>6. what # Sync
    BY <2>1, <1>1 DEF Sync, IsPacket
  <2>7. s[1] # [t |-> "udm", text |-> "sync"]
    BY <2>3 DEF Head_
  <2>8. /\ \A k \in 1 .. Len(s) - 1 : s[k] # Feed
        /\ \A k \in 2 .. Len(s) : s[k].t \notin {"head", "udm"}
        /\ \A k \in 1 .. Len(s) : s[k] = Tail_ => k = Window
    BY <1>0, <2>3, <2>5, TokenKinds
  <2>9. /\ Len(s) >= 2 /\ s[Len(s)] = Feed /\ s[1].t \in {"head", "udm"}
    BY <1>0, <2>3, TokenKinds
  <2> QED
    BY <1>1, <2>1, <2>2, <2>3, <2>4, <2>6, <2>7, <2>8, <2>9
<1>2. CASE ~IsPacket(what)
  <2>1. PICK x \in Text : x = what.text /\ what = [text |-> x]
    BY <1>2, WhatKinds
  <2>2. PICK s : s = Message(x)
    OBVIOUS
  <2>3. /\ s \in Seq(Token) /\ Len(s) = IF x = "created" THEN 4 ELSE 2
        /\ s[1] = [t |-> "udm", text |-> x] /\ s[Len(s)] = Feed
        /\ \A k \in 2 .. Len(s) - 1 : s[k] = Other
    BY <2>2, MessageTokens
  <2>4. Full(what) = s
    BY <1>2, <2>1, <2>2, WhatKinds DEF Full
  <2>5. \A k \in 1 .. Len(s) :
          \/ k = 1 /\ s[k].t = "udm"
          \/ k \in 2 .. Len(s) - 1 /\ s[k].t = "other"
          \/ k = Len(s) /\ s[k].t = "feed"
    BY <2>3, TokenKinds
  <2>6. what = Sync => x = "sync"
    BY <2>1 DEF Sync
  <2>7. s[1] = [t |-> "udm", text |-> "sync"] => what = Sync
    BY <2>1, <2>3 DEF Sync
  <2>8. s[1] # Head_ /\ s[1].t \in {"head", "udm"}
    BY <2>3 DEF Head_
  <2>9. /\ \A k \in 1 .. Len(s) - 1 : s[k] # Feed
        /\ \A k \in 2 .. Len(s) : s[k].t \notin {"head", "udm"}
        /\ \A k \in 1 .. Len(s) : s[k] # Tail_
        /\ Len(s) >= 2 /\ Len(s) <= 4
    BY <2>3, <2>5, TokenKinds
  <2> QED
    BY <1>2, <2>3, <2>4, <2>6, <2>7, <2>8, <2>9
<1> QED
  BY <1>1, <1>2

-----------------------------------------------------------------------------
(* The window.                                                              *)

\* The window buf is the old one and b, without the first off tokens.
Added(buf, off, b) ==
  /\ buf \in Seq(Token) /\ off \in Nat /\ Len(buf) = Len(buffer) + 1 - off
  /\ off = IF Len(buffer) + 1 > Window THEN Len(buffer) + 1 - Window ELSE 0
  /\ Len(buf) >= 1 /\ Len(buf) <= Window
  /\ \A k \in 1 .. Len(buf) - 1 : buf[k] = buffer[k + off]
  /\ buf[Len(buf)] = b

\* add_byte_to_buffer removes what is too much, and only from the front.
LEMMA AddByte ==
  ASSUME buffer \in Seq(Token), NEW b \in Token
  PROVE  \E off \in Nat : Added(add_byte_to_buffer(b), off, b)
<1>0. Window \in Nat /\ Window >= 4 /\ Len(buffer) \in Nat
  BY WindowType
<1>1. PICK all : all = Append(buffer, b)
  OBVIOUS
<1>2. /\ all \in Seq(Token) /\ Len(all) = Len(buffer) + 1 /\ all[Len(buffer) + 1] = b
      /\ \A k \in 1 .. Len(buffer) : all[k] = buffer[k]
  BY <1>1, AppendProperties
<1>3. CASE Len(all) > Window
  <2>1. PICK off \in Nat : off = Len(buffer) + 1 - Window
    BY <1>0, <1>2, <1>3
  <2>2. PICK buf : buf = SubSeq(all, off + 1, Len(all))
    OBVIOUS
  <2>3. add_byte_to_buffer(b) = buf
    <3>1. Len(all) - Window + 1 = off + 1
      BY <1>0, <1>2, <2>1
    <3>2. add_byte_to_buffer(b) = SubSeq(all, Len(all) - Window + 1, Len(all))
      BY <1>1, <1>3 DEF add_byte_to_buffer
    <3> QED
      BY <2>2, <3>1, <3>2
  <2>4. /\ buf \in Seq(Token) /\ Len(buf) = Window
        /\ \A k \in 1 .. Window : buf[k] = all[k + off]
    <3>1. /\ buf \in Seq(Token)
          /\ Len(buf) = IF off + 1 <= Len(all) THEN Len(all) - (off + 1) + 1 ELSE 0
          /\ \A k \in 1 .. Len(all) - (off + 1) + 1 : buf[k] = all[(off + 1) + k - 1]
      <4>1. /\ off + 1 \in 1 .. Len(all) + 1 /\ Len(all) \in off + 1 - 1 .. Len(all)
        BY <1>0, <1>2, <1>3, <2>1
      <4> QED
        BY <1>2, <2>2, <4>1, SubSeqProperties
    <3>2. Len(all) - (off + 1) + 1 = Window /\ off + 1 <= Len(all)
      BY <1>0, <1>2, <1>3, <2>1
    <3>3. Len(buf) = Window
      BY <3>1, <3>2
    <3>4. ASSUME NEW k \in 1 .. Window PROVE buf[k] = all[k + off]
      <4>1. buf[k] = all[(off + 1) + k - 1]
        BY <3>1, <3>2
      <4>2. (off + 1) + k - 1 = k + off
        BY <1>0
      <4> QED
        BY <4>1, <4>2
    <3> QED
      BY <3>1, <3>3, <3>4
  <2>5. Added(buf, off, b)
    <3>1. Window = Len(buffer) + 1 - off
      BY <1>0, <2>1
    <3>2. ASSUME NEW k \in 1 .. Window - 1 PROVE buf[k] = buffer[k + off]
      <4>1. k + off \in 1 .. Len(buffer) /\ k \in 1 .. Window
        BY <1>0, <2>1
      <4> QED
        BY <1>2, <2>4, <4>1
    <3>3. buf[Window] = b
      <4>1. Window + off = Len(buffer) + 1 /\ Window \in 1 .. Window
        BY <1>0, <2>1
      <4> QED
        BY <1>2, <2>4, <4>1
    <3>4. off = IF Len(buffer) + 1 > Window THEN Len(buffer) + 1 - Window ELSE 0
      BY <1>2, <1>3, <2>1
    <3>5. /\ Len(buf) = Len(buffer) + 1 - off /\ Len(buf) = Window
          /\ Len(buf) >= 1 /\ Len(buf) <= Window
      BY <1>0, <2>4, <3>1
    <3>6. \A k \in 1 .. Len(buf) - 1 : buf[k] = buffer[k + off]
      BY <3>2, <3>5
    <3>7. buf[Len(buf)] = b
      BY <3>3, <3>5
    <3>8. buf \in Seq(Token) /\ off \in Nat
      BY <2>1, <2>4
    <3> QED
      BY <3>4, <3>5, <3>6, <3>7, <3>8, Zenon DEF Added
  <2> QED
    BY <2>3, <2>5
<1>4. CASE ~(Len(all) > Window)
  <2>1. add_byte_to_buffer(b) = all
    BY <1>1, <1>4 DEF add_byte_to_buffer
  <2>2. Added(all, 0, b)
    BY <1>0, <1>2, <1>4 DEF Added
  <2> QED
    BY <2>1, <2>2
<1> QED
  BY <1>3, <1>4

\* A message starts and a line feed follows.
MessageIn(buf) ==
  \E i, j \in 1 .. Len(buf) : i < j /\ buf[i].t = "udm" /\ buf[j] = Feed

\* What the pattern finds: nothing without a message, else all from the first start to
\* the last line feed.
LEMMA FindMessageFinds ==
  ASSUME NEW buf \in Seq(Token)
  PROVE  /\ ~MessageIn(buf) => FindMessage(buf) = <<>>
         /\ MessageIn(buf) =>
              \E i, j \in 1 .. Len(buf) :
                /\ i < j /\ buf[i].t = "udm" /\ buf[j] = Feed
                /\ \A k \in 1 .. Len(buf) : buf[k].t = "udm" => i <= k
                /\ \A k \in 1 .. Len(buf) : buf[k] = Feed => k <= j
                /\ FindMessage(buf) \in Seq(Token) /\ Len(FindMessage(buf)) = j - i + 1
                /\ \A k \in 1 .. j - i + 1 : FindMessage(buf)[k] = buf[i + k - 1]
<1> DEFINE starts == {i \in DOMAIN buf : buf[i].t = "udm"}
           feeds  == {i \in DOMAIN buf : buf[i] = Feed}
<1>1. DOMAIN buf = 1 .. Len(buf) /\ Len(buf) \in Nat
  BY LenProperties
<1>2. FindMessage(buf) = IF \E i \in starts, j \in feeds : i < j
                           THEN SubSeq(buf, Min(starts), Max(feeds)) ELSE <<>>
  BY DEF FindMessage
<1>3. (\E i \in starts, j \in feeds : i < j) <=> MessageIn(buf)
  BY <1>1 DEF MessageIn
<1>4. ASSUME MessageIn(buf)
      PROVE  \E i, j \in 1 .. Len(buf) :
                /\ i < j /\ buf[i].t = "udm" /\ buf[j] = Feed
                /\ \A k \in 1 .. Len(buf) : buf[k].t = "udm" => i <= k
                /\ \A k \in 1 .. Len(buf) : buf[k] = Feed => k <= j
                /\ FindMessage(buf) \in Seq(Token) /\ Len(FindMessage(buf)) = j - i + 1
                /\ \A k \in 1 .. j - i + 1 : FindMessage(buf)[k] = buf[i + k - 1]
  <2>1. PICK i0 \in starts, j0 \in feeds : i0 < j0
    BY <1>3, <1>4
  <2>2. starts \in SUBSET Nat /\ starts # {} /\ feeds \in SUBSET (1 .. Len(buf)) /\ feeds # {}
    BY <1>1, <2>1
  <2>3. PICK i \in starts : i = Min(starts) /\ \A k \in starts : i <= k
    <3> HIDE DEF starts
    <3> QED
      BY <2>2, MinOfNat
  <2>4. PICK j \in feeds : j = Max(feeds) /\ \A k \in feeds : k <= j
    <3> HIDE DEF feeds
    <3> QED
      BY <1>1, <2>2, MaxOfNat
  <2>5. /\ i \in 1 .. Len(buf) /\ j \in 1 .. Len(buf) /\ i0 \in 1 .. Len(buf)
        /\ j0 \in 1 .. Len(buf) /\ buf[i].t = "udm" /\ buf[j] = Feed
    BY <1>1
  <2>6. i < j
    <3>1. i <= i0 /\ j0 <= j
      BY <2>3, <2>4
    <3> QED
      BY <1>1, <2>1, <2>5, <3>1
  <2>7. /\ \A k \in 1 .. Len(buf) : buf[k].t = "udm" => i <= k
        /\ \A k \in 1 .. Len(buf) : buf[k] = Feed => k <= j
    BY <1>1, <2>3, <2>4
  <2>8. FindMessage(buf) = SubSeq(buf, i, j)
    BY <1>2, <1>3, <1>4, <2>3, <2>4
  <2> HIDE DEF starts, feeds
  <2>9. PICK s : s = SubSeq(buf, i, j)
    OBVIOUS
  <2>10. /\ s \in Seq(Token) /\ Len(s) = j - i + 1
         /\ \A k \in 1 .. j - i + 1 : s[k] = buf[i + k - 1]
    <3>1. i \in 1 .. Len(buf) + 1 /\ j \in i - 1 .. Len(buf)
      BY <1>1, <2>5, <2>6
    <3> QED
      BY <1>1, <2>5, <2>6, <2>9, <3>1, SubSeqProperties
  <2> QED
    BY <2>5, <2>6, <2>7, <2>8, <2>9, <2>10
<1> QED
  BY <1>2, <1>3, <1>4

\* clean_buffer only appends zeros.
LEMMA CleanBuffer ==
  ASSUME NEW buf \in Seq(Token)
  PROVE  /\ clean_buffer(buf) \in Seq(Token) /\ Len(clean_buffer(buf)) = 2 * Len(buf)
         /\ \A k \in 1 .. 2 * Len(buf) :
              clean_buffer(buf)[k] = IF k <= Len(buf) THEN buf[k] ELSE Zero
<1>1. Len(buf) \in Nat /\ Zero \in Token
  BY TokenKinds
<1>2. PICK z : z = [i \in 1 .. Len(buf) |-> Zero]
  OBVIOUS
<1>3. z \in [1 .. Len(buf) -> Token]
  BY <1>1, <1>2
<1>4. z \in Seq(Token) /\ DOMAIN z = 1 .. Len(buf)
  BY <1>1, <1>3
<1>5. Len(z) = Len(buf) /\ \A k \in 1 .. Len(buf) : z[k] = Zero
  BY <1>1, <1>2, <1>4, LenProperties
<1>6. PICK s : s = buf \o z
  OBVIOUS
<1>7. /\ s \in Seq(Token) /\ Len(s) = Len(buf) + Len(z)
      /\ \A k \in 1 .. Len(buf) + Len(z) : s[k] = IF k <= Len(buf) THEN buf[k] ELSE z[k - Len(buf)]
  BY <1>4, <1>6, ConcatProperties
<1>8. clean_buffer(buf) = s
  BY <1>2, <1>6 DEF clean_buffer
<1> QED
  BY <1>1, <1>5, <1>7, <1>8

\* What the router takes the window for.
PacketRead(buf) == IF FindPacket(buf) THEN packet_parse(buf) ELSE Nothing.packet

\* The three outcomes of packet_parse.
LEMMA ParseCases ==
  ASSUME NEW buf \in Seq(Token)
  PROVE  /\ PacketRead(buf) \in Packet \cup {Nothing.packet, Mixed}
         /\ (\E k \in 2 .. Window - 1 : k <= Len(buf) /\ buf[k].t \in {"udm", "feed", "other"})
              => PacketRead(buf) = Nothing.packet
         /\ \A p \in Packet :
              (/\ FindPacket(buf)
               /\ \A k \in 2 .. Window - 1 : buf[k] = [t |-> "place", of |-> p, i |-> k - 1])
                => PacketRead(buf) = p
<1>0. Window \in Nat /\ Window >= 4
  BY WindowType
<1>1. CASE ~FindPacket(buf)
  BY <1>1 DEF PacketRead
<1>2. CASE FindPacket(buf)
  <2> DEFINE body == SubSeq(buf, 2, Window - 1)
             Fits(p) == \A i \in DOMAIN body : body[i] = [t |-> "place", of |-> p, i |-> i]
             Strange == \E i \in DOMAIN body : body[i].t \in {"udm", "feed", "other"}
  <2>1. PacketRead(buf) = CASE Strange -> Nothing.packet
                            [] \E p \in Packet : Fits(p) -> CHOOSE p \in Packet : Fits(p)
                            [] OTHER -> Mixed
    BY <1>2 DEF PacketRead, packet_parse
  <2>2. Len(buf) = Window
    BY <1>2 DEF FindPacket
  <2>3. /\ body \in Seq(Token) /\ Len(body) = Window - 2
        /\ \A i \in 1 .. Window - 2 : body[i] = buf[i + 1]
    <3>1. \A i \in 2 .. Window - 1 : buf[i] \in Token
      BY <1>0, <2>2
    <3>2. /\ body \in Seq(Token)
          /\ Len(body) = IF 2 <= Window - 1 THEN (Window - 1) - 2 + 1 ELSE 0
          /\ \A i \in 1 .. (Window - 1) - 2 + 1 : body[i] = buf[2 + i - 1]
      BY <1>0, <3>1, SubSeqProperties
    <3>3. (Window - 1) - 2 + 1 = Window - 2 /\ 2 <= Window - 1
      BY <1>0
    <3> HIDE DEF body
    <3>4. ASSUME NEW i \in 1 .. Window - 2 PROVE body[i] = buf[i + 1]
      <4>1. body[i] = buf[2 + i - 1]
        BY <3>2, <3>3
      <4>2. 2 + i - 1 = i + 1
        BY <1>0
      <4> QED
        BY <4>1, <4>2
    <3> QED
      BY <3>2, <3>3, <3>4
  <2>4. DOMAIN body = 1 .. Window - 2
    <3> HIDE DEF body
    <3> QED
      BY <2>3, LenProperties
  <2> HIDE DEF body
  <2>5. PacketRead(buf) \in Packet \cup {Nothing.packet, Mixed}
    <3>1. CASE Strange
      BY <2>1, <3>1
    <3>2. CASE ~Strange /\ \E p \in Packet : Fits(p)
      <4>1. PacketRead(buf) = CHOOSE p \in Packet : Fits(p)
        BY <2>1, <3>2
      <4> HIDE DEF Fits
      <4> QED
        BY <3>2, <4>1
    <3>3. CASE ~Strange /\ ~\E p \in Packet : Fits(p)
      BY <2>1, <3>3
    <3> QED
      BY <3>1, <3>2, <3>3
  <2>6. ASSUME NEW k \in 2 .. Window - 1, buf[k].t \in {"udm", "feed", "other"}
        PROVE  PacketRead(buf) = Nothing.packet
    <3>1. k - 1 \in 1 .. Window - 2 /\ (k - 1) + 1 = k
      BY <1>0
    <3>2. body[k - 1] = buf[k]
      BY <2>3, <3>1
    <3>3. Strange
      BY <2>4, <2>6, <3>1, <3>2
    <3> QED
      BY <2>1, <3>3
  <2>7. ASSUME NEW p \in Packet,
               \A k \in 2 .. Window - 1 : buf[k] = [t |-> "place", of |-> p, i |-> k - 1]
        PROVE  PacketRead(buf) = p
    <3>1. ASSUME NEW i \in 1 .. Window - 2
          PROVE  body[i] = [t |-> "place", of |-> p, i |-> i]
      <4>1. i + 1 \in 2 .. Window - 1 /\ (i + 1) - 1 = i
        BY <1>0
      <4>2. buf[i + 1] = [t |-> "place", of |-> p, i |-> (i + 1) - 1]
        BY <2>7, <4>1
      <4> QED
        BY <2>3, <4>1, <4>2
    <3>2. ~Strange
      <4> SUFFICES ASSUME NEW i \in 1 .. Window - 2 PROVE body[i].t \notin {"udm", "feed", "other"}
        BY <2>4
      <4>1. body[i] = [t |-> "place", of |-> p, i |-> i]
        BY <3>1
      <4>2. body[i].t = "place"
        BY <4>1
      <4> QED
        BY <4>2
    <3>3. Fits(p)
      BY <2>4, <3>1
    <3>4. ASSUME NEW q \in Packet, Fits(q) PROVE q = p
      <4>1. 1 \in 1 .. Window - 2
        BY <1>0
      <4>2. body[1] = [t |-> "place", of |-> q, i |-> 1] /\ body[1] = [t |-> "place", of |-> p, i |-> 1]
        BY <2>4, <3>3, <3>4, <4>1
      <4>3. body[1].of = q /\ body[1].of = p
        BY <4>2
      <4> QED
        BY <4>3
    <3>5. PacketRead(buf) = CHOOSE q \in Packet : Fits(q)
      BY <2>1, <3>2, <3>3
    <3> HIDE DEF Fits
    <3> QED
      BY <3>3, <3>4, <3>5
  <2> QED
    BY <2>5, <2>6, <2>7
<1> QED
  BY <1>1, <1>2

\* What the router reads ends the cycle, which takes an end mark, or goes into the
\* window; the window is cleaned when it holds a message.
ReadBy(buf, off, b) ==
  /\ Added(buf, off, b)
  /\ did'.packet = PacketRead(buf)
  /\ did'.sync = (FindMessage(buf) = Message("sync"))
  /\ did'.sync \in BOOLEAN
  /\ \/ /\ FindPacket(buf) /\ b = Tail_
        /\ buffer' = <<>> /\ age' = 0
     \/ /\ age' = IF age < Window THEN age + 1 ELSE age
        /\ mode' = mode
        /\ \/ ~MessageIn(buf) /\ buffer' = buf
           \/ MessageIn(buf) /\ buffer' = clean_buffer(buf)

\* A turn of main_cycle's loop with a byte does that.
LEMMA ReadIs ==
  ASSUME buffer \in Seq(Token), NEW b \in Token, Read(b)
  PROVE  \E buf, off : ReadBy(buf, off, b)
<1>1. PICK buf : buf = add_byte_to_buffer(b)
  OBVIOUS
<1>2. PICK off \in Nat : Added(buf, off, b)
  BY <1>1, AddByte
<1>3. PICK packet : packet = PacketRead(buf)
  OBVIOUS
<1>4. PICK message : message = FindMessage(buf)
  OBVIOUS
<1>5. PICK ends \in BOOLEAN : ends = (mode # "list" /\ packet.type \in {"SUCCESS", "MOTION"})
  OBVIOUS
<1>6. /\ did' = [packet |-> packet, sync |-> message = Message("sync")]
      /\ IF mode = "list"
           THEN packet_processing_see_adresses(packet)
           ELSE packet_processing(packet)
      /\ buffer' = IF ends THEN <<>>
                   ELSE IF message # <<>> THEN clean_buffer(buf) ELSE buf
      /\ age' = IF ends THEN 0 ELSE IF age < Window THEN age + 1 ELSE age
  BY <1>1, <1>3, <1>4, <1>5, Zenon DEF Read, PacketRead
<1>7. did'.packet = packet /\ did'.sync = (message = Message("sync")) /\ did'.sync \in BOOLEAN
  BY <1>6
<1>8. buf \in Seq(Token)
  BY <1>2 DEF Added
<1>9. CASE ends
  <2>1. FindPacket(buf)
    <3>1. PacketRead(buf).type # "none"
      BY <1>3, <1>5, <1>9
    <3> QED
      BY <3>1 DEF PacketRead, Nothing
  <2>2. b = Tail_
    BY <1>2, <2>1 DEF Added, FindPacket
  <2> QED
    BY <1>2, <1>3, <1>4, <1>6, <1>7, <1>9, <2>1, <2>2 DEF ReadBy
<1>10. CASE ~ends
  <2>1. mode' = mode
    <3>1. CASE mode = "list"
      BY <1>6, <3>1 DEF packet_processing_see_adresses
    <3>2. CASE mode # "list"
      <4>1. packet.type # "SUCCESS" /\ packet.type # "MOTION"
        BY <1>5, <1>10, <3>2
      <4>2. UNCHANGED routerVars
        BY <1>6, <3>2, <4>1 DEF packet_processing
      <4> QED
        BY <4>2 DEF routerVars
    <3> QED
      BY <3>1, <3>2
  <2>2. message # <<>> <=> MessageIn(buf)
    <3>1. CASE MessageIn(buf)
      <4>1. PICK i, j \in 1 .. Len(buf) : i < j /\ message \in Seq(Token) /\ Len(message) = j - i + 1
        BY <1>4, <1>8, <3>1, FindMessageFinds
      <4>2. Len(message) # 0
        BY <1>8, <4>1
      <4> QED
        BY <3>1, <4>2
    <3>2. CASE ~MessageIn(buf)
      BY <1>4, <1>8, <3>2, FindMessageFinds
    <3> QED
      BY <3>1, <3>2
  <2> QED
    BY <1>2, <1>3, <1>4, <1>6, <1>7, <1>10, <2>1, <2>2 DEF ReadBy
<1> QED
  BY <1>9, <1>10

-----------------------------------------------------------------------------
(* The lines under way.                                                     *)

\* What a line says about the window in front of it.
Clear == \A i \in DOMAIN buffer : i + Window > Len(buffer) + 1 => buffer[i].t # "udm"

\* The line in front loses its next token b, after n others; whole says whether the
\* router reads it.
Consumed(n, b, whole) ==
  /\ tx # <<>> /\ Len(tx) \in Nat /\ Len(tx) >= 1
  /\ tx[1] \in LineType /\ tx[1].what \in What
  /\ n \in Nat /\ n = Gone(tx[1]) /\ n < Len(Full(tx[1].what))
  /\ b = Full(tx[1].what)[n + 1] /\ b \in Token /\ b = Head(Head(tx).rest)
  /\ tx[1].fresh <=> n = 0
  /\ \/ /\ n + 1 = Len(Full(tx[1].what)) /\ b = Feed
        /\ Len(tx') = Len(tx) - 1
        /\ \A k \in 1 .. Len(tx) - 1 : tx'[k] = tx[k + 1]
     \/ /\ n + 1 < Len(Full(tx[1].what)) /\ b # Feed
        /\ Len(tx') = Len(tx)
        /\ \A k \in 2 .. Len(tx) : tx'[k] = tx[k]
        /\ tx'[1].what = tx[1].what /\ Gone(tx'[1]) = n + 1 /\ tx'[1].fresh = FALSE
        /\ tx'[1].whole = (tx[1].whole /\ whole)
        /\ tx'[1].clean = IF n = 0 THEN Clear ELSE tx[1].clean
        /\ tx'[1].late = IF n = 0 THEN age = Window ELSE tx[1].late

\* A line without its next token.
LEMMA LineRest ==
  ASSUME NEW line \in LineType, LineOK(line), NEW whole \in BOOLEAN
  PROVE  /\ Gone(line) \in Nat /\ Gone(line) < Len(Full(line.what))
         /\ Head(line.rest) = Full(line.what)[Gone(line) + 1] /\ Head(line.rest) \in Token
         /\ line.fresh <=> Gone(line) = 0
         /\ Rest(line, whole) = <<>> =>
              Gone(line) + 1 = Len(Full(line.what)) /\ Head(line.rest) = Feed
         /\ Rest(line, whole) # <<>> =>
              \E l \in LineType :
                /\ Rest(line, whole) = <<l>> /\ LineOK(l)
                /\ Gone(line) + 1 < Len(Full(line.what)) /\ Head(line.rest) # Feed
                /\ l.what = line.what /\ Gone(l) = Gone(line) + 1 /\ l.fresh = FALSE
                /\ l.whole = (line.whole /\ whole)
                /\ l.clean = IF line.fresh THEN Clear ELSE line.clean
                /\ l.late = IF line.fresh THEN age = Window ELSE line.late
<1>1. /\ line.rest \in Seq(Token) /\ line.what \in What /\ line.fresh \in BOOLEAN
      /\ line.clean \in BOOLEAN /\ line.late \in BOOLEAN /\ line.whole \in BOOLEAN
  BY DEF LineType
<1>2. PICK s : s = Full(line.what)
  OBVIOUS
<1>3. /\ s \in Seq(Token) /\ Len(s) \in Nat /\ Len(s) >= 2 /\ s[Len(s)] = Feed
      /\ \A k \in 1 .. Len(s) - 1 : s[k] # Feed
  BY <1>1, <1>2, FullTokens
<1>4. PICK r : r = line.rest
  OBVIOUS
<1>5. /\ r \in Seq(Token) /\ r # <<>> /\ Len(r) \in Nat /\ Len(r) >= 1
  BY <1>1, <1>4 DEF LineOK
<1>6. PICK n : n = Len(s) - Len(r)
  OBVIOUS
<1>7. Gone(line) = n
  BY <1>2, <1>4, <1>6 DEF Gone
<1>8. /\ n \in Nat /\ n < Len(s) /\ (line.fresh <=> n = 0)
      /\ \A k \in DOMAIN r : r[k] = s[n + k]
  <2>1. /\ Gone(line) >= 0 /\ (line.fresh <=> Gone(line) = 0)
        /\ \A k \in DOMAIN line.rest : line.rest[k] = Full(line.what)[Gone(line) + k]
    BY DEF LineOK
  <2>2. n >= 0 /\ n \in Nat /\ n < Len(s)
    BY <1>3, <1>5, <1>6, <1>7, <2>1
  <2>3. line.fresh <=> n = 0
    BY <1>7, <2>1
  <2>4. \A k \in DOMAIN r : r[k] = s[n + k]
    BY <1>2, <1>4, <1>7, <2>1
  <2> QED
    BY <2>2, <2>3, <2>4
<1>9. \A k \in 1 .. Len(r) : r[k] = s[n + k]
  BY <1>5, <1>8, LenProperties
<1>10. Head(r) = s[n + 1] /\ Head(r) \in Token
  BY <1>5, <1>9
<1>11. PICK l : l = [line EXCEPT !.rest = Tail(@), !.fresh = FALSE,
                                 !.clean = IF line.fresh THEN Clear ELSE @,
                                 !.late = IF line.fresh THEN age = Window ELSE @,
                                 !.whole = @ /\ whole]
  OBVIOUS
<1>12. Rest(line, whole) = IF l.rest = <<>> THEN <<>> ELSE <<l>>
  BY <1>11, Zenon DEF Rest, Clear
<1>13. /\ l.rest = Tail(r) /\ l.fresh = FALSE /\ l.what = line.what
       /\ l.clean = (IF line.fresh THEN Clear ELSE line.clean)
       /\ l.late = (IF line.fresh THEN age = Window ELSE line.late)
       /\ l.whole = (line.whole /\ whole)
  BY <1>4, <1>11 DEF LineType
<1>14. Tail(r) \in Seq(Token) /\ Len(Tail(r)) = Len(r) - 1
         /\ \A k \in 1 .. Len(r) - 1 : Tail(r)[k] = r[k + 1]
  BY <1>5, HeadTailProperties
<1>15. l \in LineType
  <2>1. Clear \in BOOLEAN /\ (age = Window) \in BOOLEAN
    BY DEF Clear
  <2>2. PICK c \in BOOLEAN : c = (IF line.fresh THEN Clear ELSE line.clean)
    BY <1>1, <2>1
  <2>3. PICK e \in BOOLEAN : e = (IF line.fresh THEN age = Window ELSE line.late)
    BY <1>1, <2>1
  <2>4. PICK w \in BOOLEAN : w = (line.whole /\ whole)
    BY <1>1
  <2>5. l = [rest |-> Tail(r), what |-> line.what, fresh |-> FALSE, clean |-> c, late |-> e,
             whole |-> w]
    <3>1. l = [line EXCEPT !.rest = Tail(r), !.fresh = FALSE, !.clean = c, !.late = e, !.whole = w]
      BY <1>4, <1>11, <2>2, <2>3, <2>4, Zenon
    <3> QED
      BY <3>1 DEF LineType
  <2> QED
    BY <1>1, <1>14, <2>5 DEF LineType
<1>16. CASE l.rest = <<>>
  <2>1. Len(r) = 1
    BY <1>5, <1>13, <1>14, <1>16
  <2>2. n + 1 = Len(s) /\ Head(r) = Feed
    BY <1>3, <1>6, <1>10, <2>1
  <2> QED
    BY <1>2, <1>4, <1>7, <1>8, <1>10, <1>12, <1>16, <2>2
<1>17. CASE l.rest # <<>>
  <2>1. Len(r) > 1
    <3>1. Len(Tail(r)) # 0
      BY <1>13, <1>14, <1>17, EmptySeq
    <3> QED
      BY <1>5, <1>14, <3>1
  <2>2. n + 1 < Len(s) /\ Head(r) # Feed
    <3>1. n + 1 \in 1 .. Len(s) - 1
      BY <1>3, <1>5, <1>6, <1>8, <2>1
    <3> QED
      BY <1>3, <1>8, <1>10, <3>1
  <2>3. Gone(l) = n + 1
    <3>1. Gone(l) = Len(s) - (Len(r) - 1)
      BY <1>2, <1>13, <1>14 DEF Gone
    <3> QED
      BY <1>3, <1>5, <1>6, <3>1
  <2>4. LineOK(l)
    <3>1. ASSUME NEW k \in 1 .. Len(r) - 1 PROVE Tail(r)[k] = s[(n + 1) + k]
      <4>1. k + 1 \in 1 .. Len(r) /\ n + (k + 1) = (n + 1) + k
        BY <1>5, <1>8
      <4> QED
        BY <1>9, <1>14, <4>1
    <3>2. DOMAIN l.rest = 1 .. Len(r) - 1
      BY <1>13, <1>14, LenProperties
    <3>3. \A k \in DOMAIN l.rest : l.rest[k] = Full(l.what)[Gone(l) + k]
      BY <1>2, <1>13, <2>3, <3>1, <3>2
    <3>4. Gone(l) >= 0 /\ (l.fresh <=> Gone(l) = 0)
      BY <1>8, <1>13, <2>3
    <3> QED
      BY <1>13, <1>17, <3>3, <3>4 DEF LineOK
  <2>5. Rest(line, whole) = <<l>>
    BY <1>12, <1>17
  <2> HIDE DEF Gone, LineOK, Clear, LineType
  <2> QED
    BY <1>2, <1>4, <1>7, <1>8, <1>10, <1>13, <1>15, <2>2, <2>3, <2>4, <2>5
<1> QED
  BY <1>16, <1>17

\* A sequence with one more element in front.
LEMMA PutInFront ==
  ASSUME NEW S, NEW x \in S, NEW s \in Seq(S), NEW u, u = <<x>> \o s
  PROVE  /\ u \in Seq(S) /\ Len(u) = Len(s) + 1 /\ u[1] = x
         /\ \A k \in 2 .. Len(s) + 1 : u[k] = s[k - 1]
  OBVIOUS

\* The same with two elements.
LEMMA PutTwoInFront ==
  ASSUME NEW S, NEW x \in S, NEW y \in S, NEW s \in Seq(S), NEW u, u = <<x, y>> \o s
  PROVE  /\ u \in Seq(S) /\ Len(u) = Len(s) + 2 /\ u[1] = x /\ u[2] = y
         /\ \A k \in 3 .. Len(s) + 2 : u[k] = s[k - 2]
  OBVIOUS

\* The lines after a token of the line in front was read or lost.
LEMMA TxConsumed ==
  ASSUME TxInv, tx # <<>>, NEW whole \in BOOLEAN, tx' = Rest(Head(tx), whole) \o Tail(tx)
  PROVE  TxInv' /\ \E n, b : Consumed(n, b, whole)
<1>1. /\ tx \in Seq(LineType) /\ Len(tx) \in Nat /\ Len(tx) >= 1 /\ DOMAIN tx = 1 .. Len(tx)
      /\ Head(tx) = tx[1]
  BY DEF TxInv
<1>2. /\ \A k \in 1 .. Len(tx) : tx[k] \in LineType /\ LineOK(tx[k])
      /\ \A k \in 1 .. Len(tx) : k > 1 /\ ~tx[k].fresh => ~tx[k].whole
      /\ \A k \in 1 .. Len(tx) : tx[k].what = Sync => k = Len(tx)
  <2>1. \A k \in 1 .. Len(tx) : tx[k] \in LineType
    BY <1>1
  <2> QED
    BY <1>1, <2>1 DEF TxInv
<1>3. PICK line \in LineType : line = tx[1] /\ LineOK(line)
  <2>1. 1 \in 1 .. Len(tx)
    BY <1>1
  <2> QED
    BY <1>2, <2>1
<1>4. PICK rest : rest = Tail(tx)
  OBVIOUS
<1>5. /\ rest \in Seq(LineType) /\ Len(rest) = Len(tx) - 1
      /\ \A k \in 1 .. Len(tx) - 1 : rest[k] = tx[k + 1]
  BY <1>1, <1>4, HeadTailProperties
<1>6. line.what \in What
  BY DEF LineType
<1>7. PICK n, b : n = Gone(line) /\ b = Head(line.rest)
  OBVIOUS
<1>8. /\ n \in Nat /\ n < Len(Full(line.what)) /\ b = Full(line.what)[n + 1] /\ b \in Token
      /\ line.fresh <=> n = 0
  BY <1>3, <1>7, LineRest
<1>9. CASE Rest(line, whole) = <<>>
  <2>1. tx' = rest
    <3>1. tx' = <<>> \o rest
      BY <1>1, <1>3, <1>4, <1>9
    <3> QED
      BY <1>5, <3>1, ConcatEmptySeq
  <2>2. n + 1 = Len(Full(line.what)) /\ b = Feed
    BY <1>3, <1>7, <1>9, LineRest
  <2>3. Consumed(n, b, whole)
    BY <1>1, <1>3, <1>5, <1>6, <1>7, <1>8, <2>1, <2>2 DEF Consumed
  <2>4. DOMAIN rest = 1 .. Len(tx) - 1
    BY <1>5, LenProperties
  <2>5. ASSUME NEW k \in 1 .. Len(tx) - 1
        PROVE  /\ LineOK(rest[k])
               /\ k > 1 /\ ~rest[k].fresh => ~rest[k].whole
               /\ rest[k].what = Sync => k = Len(tx) - 1
    <3>1. k + 1 \in 1 .. Len(tx) /\ k + 1 > 1
      BY <1>1
    <3>2. rest[k] = tx[k + 1]
      BY <1>5
    <3>3. rest[k].what = Sync => k + 1 = Len(tx)
      BY <1>2, <3>1, <3>2
    <3>4. LineOK(rest[k]) /\ (~rest[k].fresh => ~rest[k].whole)
      BY <1>2, <3>1, <3>2
    <3>5. rest[k].what = Sync => k = Len(tx) - 1
      <4>1. \A i, m \in Int : i + 1 = m => i = m - 1
        OBVIOUS
      <4>2. k \in Int /\ Len(tx) \in Int
        BY <1>1
      <4> QED
        BY <3>3, <4>1, <4>2, Zenon
    <3> QED
      BY <3>4, <3>5
  <2>6. TxInv'
    BY <1>5, <2>1, <2>4, <2>5 DEF TxInv
  <2> QED
    BY <2>3, <2>6
<1>10. CASE Rest(line, whole) # <<>>
  <2>1. PICK l \in LineType :
          /\ Rest(line, whole) = <<l>> /\ LineOK(l)
          /\ Gone(line) + 1 < Len(Full(line.what)) /\ Head(line.rest) # Feed
          /\ l.what = line.what /\ Gone(l) = Gone(line) + 1 /\ l.fresh = FALSE
          /\ l.whole = (line.whole /\ whole)
          /\ l.clean = IF line.fresh THEN Clear ELSE line.clean
          /\ l.late = IF line.fresh THEN age = Window ELSE line.late
    BY <1>3, <1>10, LineRest
  <2>2. tx' = <<l>> \o rest
    BY <1>1, <1>3, <1>4, <2>1
  <2>3. /\ tx' \in Seq(LineType) /\ Len(tx') = Len(tx) /\ tx'[1] = l
        /\ \A k \in 2 .. Len(tx) : tx'[k] = tx[k]
    <3>1. /\ tx' \in Seq(LineType) /\ Len(tx') = Len(rest) + 1 /\ tx'[1] = l
          /\ \A k \in 2 .. Len(rest) + 1 : tx'[k] = rest[k - 1]
      <4>1. PICK u : u = <<l>> \o rest
        OBVIOUS
      <4>2. /\ u \in Seq(LineType) /\ Len(u) = Len(rest) + 1 /\ u[1] = l
            /\ \A k \in 2 .. Len(rest) + 1 : u[k] = rest[k - 1]
        BY <1>5, <4>1, PutInFront
      <4>3. tx' = u
        BY <2>2, <4>1
      <4> QED
        BY <4>2, <4>3, Zenon
    <3>2. Len(rest) + 1 = Len(tx)
      BY <1>1, <1>5
    <3>3. ASSUME NEW k \in 2 .. Len(tx) PROVE tx'[k] = tx[k]
      <4>1. k - 1 \in 1 .. Len(tx) - 1 /\ (k - 1) + 1 = k
        BY <1>1
      <4>2. tx'[k] = rest[k - 1]
        BY <3>1, <3>2
      <4>3. rest[k - 1] = tx[(k - 1) + 1]
        BY <1>5, <4>1
      <4> QED
        BY <4>1, <4>2, <4>3
    <3> QED
      BY <3>1, <3>2, <3>3
  <2>4. Consumed(n, b, whole)
    <3>1. /\ tx'[1].what = tx[1].what /\ Gone(tx'[1]) = n + 1 /\ tx'[1].fresh = FALSE
          /\ tx'[1].whole = (tx[1].whole /\ whole)
      BY <1>3, <1>7, <2>1, <2>3
    <3>2. tx'[1].clean = IF n = 0 THEN Clear ELSE tx[1].clean
      BY <1>3, <1>8, <2>1, <2>3
    <3>3. tx'[1].late = IF n = 0 THEN age = Window ELSE tx[1].late
      BY <1>3, <1>8, <2>1, <2>3
    <3>4. n + 1 < Len(Full(tx[1].what)) /\ b # Feed
      BY <1>3, <1>7, <2>1
    <3>5. /\ tx # <<>> /\ Len(tx) \in Nat /\ Len(tx) >= 1
          /\ tx[1] \in LineType /\ tx[1].what \in What
          /\ n \in Nat /\ n = Gone(tx[1]) /\ n < Len(Full(tx[1].what))
          /\ b = Full(tx[1].what)[n + 1] /\ b \in Token /\ b = Head(Head(tx).rest)
          /\ tx[1].fresh <=> n = 0
      BY <1>1, <1>3, <1>6, <1>7, <1>8
    <3> QED
      BY <2>3, <3>1, <3>2, <3>3, <3>4, <3>5, Zenon DEF Consumed
  <2>5. DOMAIN tx' = 1 .. Len(tx)
    BY <2>3, LenProperties
  <2>6. ASSUME NEW k \in 1 .. Len(tx)
        PROVE  /\ LineOK(tx'[k])
               /\ k > 1 /\ ~tx'[k].fresh => ~tx'[k].whole
               /\ tx'[k].what = Sync => k = Len(tx)
    <3>1. CASE k = 1
      <4>1. LineOK(tx'[k]) /\ ~(k > 1)
        BY <2>1, <2>3, <3>1
      <4>2. tx[1].what = Sync => 1 = Len(tx)
        <5>1. 1 \in 1 .. Len(tx)
          BY <1>1
        <5> QED
          BY <1>2, <5>1, Zenon
      <4>3. tx'[k].what = tx[1].what
        BY <1>3, <2>1, <2>3, <3>1
      <4> QED
        BY <3>1, <4>1, <4>2, <4>3
    <3>2. CASE k > 1
      <4>1. k \in 2 .. Len(tx)
        BY <1>1, <3>2
      <4>2. tx'[k] = tx[k]
        BY <2>3, <4>1
      <4> QED
        BY <1>2, <4>2
    <3>3. k = 1 \/ k > 1
      BY <1>1
    <3> QED
      BY <3>1, <3>2, <3>3, Zenon
  <2>7. TxInv'
    BY <2>3, <2>5, <2>6 DEF TxInv
  <2> QED
    BY <2>4, <2>7
<1> QED
  BY <1>9, <1>10

\* A line that was not begun.
LEMMA FreshLine ==
  ASSUME NEW what \in What
  PROVE  LET l == Line(Full(what), what)
         IN  /\ l \in LineType /\ LineOK(l) /\ l.what = what /\ l.fresh = TRUE
             /\ l.clean = TRUE /\ l.late = FALSE /\ l.whole = TRUE
<1>1. PICK s : s = Full(what)
  OBVIOUS
<1>2. s \in Seq(Token) /\ Len(s) >= 2 /\ Len(s) \in Nat
  BY <1>1, FullTokens
<1>3. PICK l : l = Line(s, what)
  OBVIOUS
<1>4. /\ l \in LineType /\ l.rest = s /\ l.what = what /\ l.fresh = TRUE
      /\ l.clean = TRUE /\ l.late = FALSE /\ l.whole = TRUE
  BY <1>2, <1>3 DEF Line, LineType
<1>5. Gone(l) = 0
  BY <1>1, <1>2, <1>4 DEF Gone
<1>6. \A k \in DOMAIN s : s[k] = s[0 + k]
  BY <1>2
<1>7. LineOK(l)
  BY <1>1, <1>2, <1>4, <1>5, <1>6 DEF LineOK
<1> QED
  BY <1>1, <1>3, <1>4, <1>7

\* The same, for the lines that the root prints.
LEMMA PrintedLines ==
  /\ \A p \in Packet : \E l \in LineType : PacketLine(p) = l /\ LineOK(l) /\ l.fresh /\ ~l.late
       /\ IsPacket(l.what) /\ l.what # Sync
  /\ \A x \in Text : \E l \in LineType : MessageLine(x) = l /\ LineOK(l) /\ l.fresh /\ ~l.late
       /\ l.what = [text |-> x] /\ (l.what = Sync <=> x = "sync")
<1>1. ASSUME NEW p \in Packet
      PROVE  \E l \in LineType : PacketLine(p) = l /\ LineOK(l) /\ l.fresh /\ ~l.late
               /\ IsPacket(l.what) /\ l.what # Sync
  <2>1. PICK what : what = [packet |-> p]
    OBVIOUS
  <2>2. what \in What /\ IsPacket(what) /\ what # Sync /\ what.packet = p /\ "text" \notin DOMAIN what
    BY <2>1 DEF What, IsPacket, Sync
  <2>3. PacketLine(p) = Line(Full(what), what)
    BY <2>1, <2>2 DEF PacketLine, Full
  <2> QED
    BY <2>2, <2>3, FreshLine
<1>2. ASSUME NEW x \in Text
      PROVE  \E l \in LineType : MessageLine(x) = l /\ LineOK(l) /\ l.fresh /\ ~l.late
               /\ l.what = [text |-> x] /\ (l.what = Sync <=> x = "sync")
  <2>1. PICK what : what = [text |-> x]
    OBVIOUS
  <2>2. what \in What /\ what.text = x /\ "text" \in DOMAIN what
    BY <2>1 DEF What
  <2>3. what = Sync <=> x = "sync"
    BY <2>1 DEF Sync
  <2>4. MessageLine(x) = Line(Full(what), what)
    BY <2>1, <2>2 DEF MessageLine, Full
  <2> QED
    <3>1. PICK l : l = Line(Full(what), what)
      OBVIOUS
    <3>2. l \in LineType /\ LineOK(l) /\ l.what = what /\ l.fresh = TRUE /\ l.late = FALSE
      BY <2>2, <3>1, FreshLine, Zenon
    <3> QED
      BY <2>1, <2>3, <2>4, <3>1, <3>2
<1> QED
  BY <1>1, <1>2

\* Nothing is left, and the root prints.
Printed ==
  /\ tx = <<>> /\ Len(tx') >= 1 /\ \A k \in DOMAIN tx' : tx'[k].fresh /\ ~tx'[k].late
  /\ UNCHANGED <<mode, buffer, age, lost>> /\ got' = NoLine /\ did' = Nothing

\* What the root's main loop prints.
LEMMA TxPrinted ==
  ASSUME rpl_initialize \/ udp_data_receiver
  PROVE  TxInv' /\ Printed
<1>1. ASSUME NEW l \in LineType, RootPrints(<<l>>), LineOK(l), l.fresh, ~l.late
      PROVE  TxInv' /\ Printed
  <2>1. tx' = <<l>>
    BY <1>1 DEF RootPrints
  <2>2. tx' \in Seq(LineType) /\ Len(tx') = 1 /\ DOMAIN tx' = {1} /\ tx'[1] = l
    BY <2>1
  <2> QED
    BY <1>1, <2>2 DEF TxInv, Printed, RootPrints, routerVars
<1>2. CASE udp_data_receiver
  <2>1. CASE \E p \in Packet : RootPrints(<<PacketLine(p)>>)
    <3>1. PICK p \in Packet : RootPrints(<<PacketLine(p)>>)
      BY <2>1
    <3>2. PICK l \in LineType : PacketLine(p) = l /\ LineOK(l) /\ l.fresh /\ ~l.late
      BY PrintedLines
    <3> QED
      BY <1>1, <3>1, <3>2
  <2>2. CASE RootPrints(<<MessageLine("info")>>)
    <3>1. "info" \in Text
      BY DEF Text
    <3>2. PICK l \in LineType : MessageLine("info") = l /\ LineOK(l) /\ l.fresh /\ ~l.late
      BY <3>1, PrintedLines
    <3> QED
      BY <1>1, <2>2, <3>2
  <2> QED
    BY <1>2, <2>1, <2>2 DEF udp_data_receiver
<1>3. CASE rpl_initialize
  <2>1. "created" \in Text /\ "sync" \in Text
    BY DEF Text
  <2>2. PICK l \in LineType :
          MessageLine("created") = l /\ LineOK(l) /\ l.fresh /\ ~l.late /\ l.what # Sync
    BY <2>1, PrintedLines
  <2>3. PICK m \in LineType : MessageLine("sync") = m /\ LineOK(m) /\ m.fresh /\ ~m.late
    BY <2>1, PrintedLines
  <2>4. tx' = <<l, m>> /\ RootPrints(<<l, m>>)
    BY <1>3, <2>2, <2>3 DEF rpl_initialize, RootPrints
  <2>5. /\ tx' \in Seq(LineType) /\ Len(tx') = 2 /\ DOMAIN tx' = {1, 2}
        /\ tx'[1] = l /\ tx'[2] = m
    BY <2>4
  <2> QED
    BY <2>2, <2>3, <2>4, <2>5 DEF TxInv, Printed, RootPrints, routerVars
<1> QED
  BY <1>2, <1>3

\* What is left of an interrupted line.
LEMMA PieceOK ==
  ASSUME NEW line \in LineType, LineOK(line), ~line.fresh
  PROVE  LET l == Piece(line)
         IN  /\ l \in LineType /\ LineOK(l) /\ l.what = line.what /\ l.fresh = FALSE
             /\ l.clean = line.clean /\ l.late = line.late /\ l.whole = FALSE
<1>1. PICK l : l = Piece(line)
  OBVIOUS
<1>2. /\ l.rest = line.rest /\ l.what = line.what /\ l.fresh = line.fresh
      /\ l.clean = line.clean /\ l.late = line.late /\ l.whole = FALSE /\ l \in LineType
  BY <1>1 DEF Piece, LineType
<1>3. Gone(l) = Gone(line)
  BY <1>2 DEF Gone
<1>4. line.fresh \in BOOLEAN
  BY DEF LineType
<1>5. LineOK(l)
  BY <1>2, <1>3 DEF LineOK
<1>6. l.fresh = FALSE
  BY <1>2, <1>4
<1> QED
  BY <1>1, <1>2, <1>5, <1>6

\* A message of the interrupt goes in front.
Interrupted ==
  /\ tx # <<>> /\ ~tx[1].fresh
  /\ Len(tx') = Len(tx) + 1 /\ tx'[1].fresh /\ ~tx'[1].late /\ tx'[1].what = Info
  /\ \A k \in 1 .. Len(tx) :
       /\ tx'[k + 1].what = tx[k].what
       /\ tx'[k + 1].clean = tx[k].clean /\ tx'[k + 1].late = tx[k].late
  /\ UNCHANGED <<mode, buffer, age, lost>> /\ got' = NoLine /\ did' = Nothing

\* What the root's interrupt prints.
LEMMA TxInterrupted ==
  ASSUME TxInv, uart_data_receiver
  PROVE  TxInv' /\ Interrupted
<1>1. /\ tx # <<>> /\ ~Head(tx).fresh /\ tx' = <<MessageLine("info"), Piece(Head(tx))>> \o Tail(tx)
      /\ UNCHANGED <<mode, buffer, age, lost>> /\ got' = NoLine /\ did' = Nothing
  BY DEF uart_data_receiver, routerVars
<1>2. /\ tx \in Seq(LineType) /\ Len(tx) \in Nat /\ Len(tx) >= 1 /\ DOMAIN tx = 1 .. Len(tx)
      /\ Head(tx) = tx[1] /\ 1 \in 1 .. Len(tx)
  BY <1>1 DEF TxInv
<1>3. /\ \A k \in 1 .. Len(tx) : LineOK(tx[k])
      /\ \A k \in 1 .. Len(tx) : k > 1 /\ ~tx[k].fresh => ~tx[k].whole
      /\ \A k \in 1 .. Len(tx) : tx[k].what = Sync => k = Len(tx)
  BY <1>2 DEF TxInv
<1>4. PICK line \in LineType : line = tx[1] /\ LineOK(line) /\ ~line.fresh
  <2>1. tx[1] \in LineType
    BY <1>2
  <2> QED
    BY <1>1, <1>2, <1>3, <2>1, Zenon
<1>5. PICK m \in LineType : /\ MessageLine("info") = m /\ LineOK(m) /\ m.fresh /\ ~m.late
                            /\ m.what = Info /\ m.what # Sync
  <2>1. "info" \in Text
    BY DEF Text
  <2> QED
    BY <2>1, PrintedLines DEF Info
<1>6. PICK l \in LineType : /\ l = Piece(line) /\ LineOK(l) /\ l.what = line.what /\ l.fresh = FALSE
                            /\ l.clean = line.clean /\ l.late = line.late /\ l.whole = FALSE
  BY <1>4, PieceOK
<1>7. PICK rest : rest = Tail(tx)
  OBVIOUS
<1>8. /\ rest \in Seq(LineType) /\ Len(rest) = Len(tx) - 1
      /\ \A k \in 1 .. Len(tx) - 1 : rest[k] = tx[k + 1]
  BY <1>2, <1>7, HeadTailProperties
<1>9. tx' = <<m, l>> \o rest
  BY <1>1, <1>2, <1>4, <1>5, <1>6, <1>7
<1>10. /\ tx' \in Seq(LineType) /\ Len(tx') = Len(rest) + 2 /\ tx'[1] = m /\ tx'[2] = l
       /\ \A k \in 3 .. Len(rest) + 2 : tx'[k] = rest[k - 2]
  <2>1. PICK u : u = <<m, l>> \o rest
    OBVIOUS
  <2>2. /\ u \in Seq(LineType) /\ Len(u) = Len(rest) + 2 /\ u[1] = m /\ u[2] = l
        /\ \A k \in 3 .. Len(rest) + 2 : u[k] = rest[k - 2]
    BY <1>8, <2>1, PutTwoInFront
  <2>3. tx' = u
    BY <1>9, <2>1
  <2> QED
    BY <2>2, <2>3, Zenon
<1>11. Len(rest) + 2 = Len(tx) + 1
  BY <1>2, <1>8
<1>12. ASSUME NEW k \in 2 .. Len(tx) PROVE tx'[k + 1] = tx[k]
  <2>1. k + 1 \in 3 .. Len(rest) + 2 /\ (k + 1) - 2 = k - 1 /\ k - 1 \in 1 .. Len(tx) - 1
          /\ (k - 1) + 1 = k
    BY <1>2, <1>11
  <2>2. tx'[k + 1] = rest[(k + 1) - 2]
    BY <1>10, <2>1
  <2>3. rest[k - 1] = tx[(k - 1) + 1]
    BY <1>8, <2>1
  <2> QED
    BY <2>1, <2>2, <2>3
<1>13. ASSUME NEW k \in 1 .. Len(tx)
       PROVE  /\ tx'[k + 1].what = tx[k].what /\ tx'[k + 1].clean = tx[k].clean
              /\ tx'[k + 1].late = tx[k].late
              /\ LineOK(tx'[k + 1]) /\ (~tx'[k + 1].fresh => ~tx'[k + 1].whole)
              /\ tx'[k + 1].what = Sync => k = Len(tx)
  <2>1. CASE k = 1
    <3>1. tx'[k + 1] = l
      BY <1>10, <2>1
    <3>2. line.what = Sync => k = Len(tx)
      BY <1>3, <1>4, <2>1
    <3> QED
      BY <1>4, <1>6, <2>1, <3>1, <3>2
  <2>2. CASE k > 1
    <3>1. k \in 2 .. Len(tx)
      BY <1>2, <2>2
    <3>2. tx'[k + 1] = tx[k]
      BY <1>12, <3>1
    <3> QED
      BY <1>3, <2>2, <3>2
  <2>3. k = 1 \/ k > 1
    BY <1>2
  <2> QED
    BY <2>1, <2>2, <2>3, Zenon
<1>14. DOMAIN tx' = 1 .. Len(tx) + 1 /\ Len(tx') = Len(tx) + 1
  BY <1>10, <1>11, LenProperties
<1>15. ASSUME NEW k \in 1 .. Len(tx) + 1
       PROVE  /\ LineOK(tx'[k]) /\ (k > 1 /\ ~tx'[k].fresh => ~tx'[k].whole)
              /\ tx'[k].what = Sync => k = Len(tx) + 1
  <2>1. CASE k = 1
    BY <1>5, <1>10, <2>1
  <2>2. CASE k > 1
    <3>1. k - 1 \in 1 .. Len(tx) /\ (k - 1) + 1 = k
      BY <1>2, <2>2
    <3>2. /\ LineOK(tx'[k]) /\ (~tx'[k].fresh => ~tx'[k].whole)
          /\ tx'[k].what = Sync => k - 1 = Len(tx)
      <4>1. /\ LineOK(tx'[(k - 1) + 1]) /\ (~tx'[(k - 1) + 1].fresh => ~tx'[(k - 1) + 1].whole)
            /\ tx'[(k - 1) + 1].what = Sync => k - 1 = Len(tx)
        BY <1>13, <3>1, Zenon
      <4> QED
        BY <3>1, <4>1
    <3>3. k - 1 = Len(tx) => k = Len(tx) + 1
      BY <1>2
    <3> QED
      BY <3>2, <3>3, Zenon
  <2>3. k = 1 \/ k > 1
    BY <1>2
  <2> QED
    BY <2>1, <2>2, <2>3, Zenon
<1>16. TxInv'
  BY <1>10, <1>14, <1>15 DEF TxInv
<1>17. Interrupted
  BY <1>1, <1>2, <1>5, <1>10, <1>13, <1>14 DEF Interrupted
<1> QED
  BY <1>16, <1>17

\* A cycle begins with an empty window, in the middle of a line perhaps.
Restarted ==
  /\ buffer' = <<>> /\ age' = 0 /\ lost' = lost /\ got' = NoLine /\ did' = Nothing
  /\ Len(tx') = Len(tx)
  /\ \A k \in 1 .. Len(tx) :
       /\ tx'[k].what = tx[k].what /\ tx'[k].clean = tx[k].clean
       /\ tx'[k].late = tx[k].late /\ (~tx'[k].fresh => ~tx'[k].whole)

\* The lines when a cycle begins.
LEMMA TxRestarted ==
  ASSUME TxInv, NewCycle
  PROVE  TxInv' /\ Restarted
<1>1. /\ tx \in Seq(LineType) /\ Len(tx) \in Nat /\ DOMAIN tx = 1 .. Len(tx)
      /\ \A k \in 1 .. Len(tx) : tx[k] \in LineType
  BY DEF TxInv
<1>2. /\ \A k \in 1 .. Len(tx) : LineOK(tx[k])
      /\ \A k \in 1 .. Len(tx) : k > 1 /\ ~tx[k].fresh => ~tx[k].whole
      /\ \A k \in 1 .. Len(tx) : tx[k].what = Sync => k = Len(tx)
  BY <1>1 DEF TxInv
<1>3. /\ buffer' = <<>> /\ age' = 0 /\ lost' = lost /\ got' = NoLine /\ did' = Nothing
      /\ tx' = IF tx # <<>> /\ ~Head(tx).fresh THEN <<Piece(Head(tx))>> \o Tail(tx) ELSE tx
  BY DEF NewCycle
<1>4. CASE tx # <<>> /\ ~Head(tx).fresh
  <2>1. 1 \in 1 .. Len(tx) /\ Head(tx) = tx[1]
    BY <1>1, <1>4
  <2>2. PICK line \in LineType : line = tx[1] /\ LineOK(line) /\ ~line.fresh
    BY <1>1, <1>2, <1>4, <2>1
  <2>3. PICK l \in LineType :
          /\ l = Piece(line) /\ LineOK(l) /\ l.what = line.what /\ l.fresh = FALSE
          /\ l.clean = line.clean /\ l.late = line.late /\ l.whole = FALSE
    BY <2>2, PieceOK
  <2>4. PICK rest : rest = Tail(tx)
    OBVIOUS
  <2>5. /\ rest \in Seq(LineType) /\ Len(rest) = Len(tx) - 1
        /\ \A k \in 1 .. Len(tx) - 1 : rest[k] = tx[k + 1]
    BY <1>1, <1>4, <2>4, HeadTailProperties
  <2>6. PICK u : u = <<l>> \o rest
    OBVIOUS
  <2>7. /\ u \in Seq(LineType) /\ Len(u) = Len(rest) + 1 /\ u[1] = l
        /\ \A k \in 2 .. Len(rest) + 1 : u[k] = rest[k - 1]
    BY <2>5, <2>6, PutInFront
  <2>8. tx' = u
    BY <1>3, <1>4, <2>1, <2>2, <2>3, <2>4, <2>6
  <2>9. Len(rest) + 1 = Len(tx)
    BY <1>1, <2>5
  <2>10. ASSUME NEW k \in 1 .. Len(tx)
         PROVE  /\ u[k].what = tx[k].what /\ u[k].clean = tx[k].clean /\ u[k].late = tx[k].late
                /\ LineOK(u[k]) /\ (~u[k].fresh => ~u[k].whole)
    <3>1. CASE k = 1
      BY <2>2, <2>3, <2>7, <3>1
    <3>2. CASE k > 1
      <4>1. k \in 2 .. Len(rest) + 1 /\ k - 1 \in 1 .. Len(tx) - 1 /\ (k - 1) + 1 = k
        BY <1>1, <2>9, <3>2
      <4>2. u[k] = tx[k]
        BY <2>5, <2>7, <4>1
      <4> QED
        BY <1>2, <3>2, <4>2
    <3>3. k = 1 \/ k > 1
      BY <1>1
    <3> QED
      BY <3>1, <3>2, <3>3, Zenon
  <2>11. DOMAIN u = 1 .. Len(tx) /\ Len(u) = Len(tx)
    BY <2>7, <2>9, LenProperties
  <2>12. \A k \in 1 .. Len(tx) : u[k].what = Sync => k = Len(tx)
    BY <1>2, <2>10
  <2>13. TxInv'
    BY <2>7, <2>8, <2>10, <2>11, <2>12 DEF TxInv
  <2> QED
    BY <1>3, <2>8, <2>10, <2>11, <2>13 DEF Restarted
<1>5. CASE ~(tx # <<>> /\ ~Head(tx).fresh)
  <2>1. tx' = tx
    BY <1>3, <1>5
  <2>2. ASSUME NEW k \in 1 .. Len(tx) PROVE ~tx[k].fresh => ~tx[k].whole
    <3>1. CASE k = 1
      <4>1. tx # <<>> /\ Head(tx) = tx[1]
        BY <1>1, <3>1
      <4> QED
        BY <1>5, <3>1, <4>1
    <3>2. CASE k > 1
      BY <1>2, <3>2
    <3>3. k = 1 \/ k > 1
      BY <1>1
    <3> QED
      BY <3>1, <3>2, <3>3, Zenon
  <2>3. TxInv'
    BY <1>1, <1>2, <2>1 DEF TxInv
  <2> QED
    BY <1>3, <2>1, <2>2, <2>3 DEF Restarted
<1> QED
  BY <1>4, <1>5

-----------------------------------------------------------------------------
(* What a step is.                                                          *)

\* The router reads a byte.
ReadStep(n, b, buf, off) ==
  /\ mode # "down" /\ Consumed(n, b, TRUE) /\ ReadBy(buf, off, b)
  /\ lost' = lost /\ got' = Completed(tx[1])

\* Nobody reads it.
DropStep(n, b) ==
  /\ mode = "down" /\ Consumed(n, b, FALSE)
  /\ UNCHANGED <<mode, buffer, age, lost>> /\ got' = NoLine /\ did' = Nothing

\* A token lost one of its characters, and c is left of it.
DamageStep(n, b, c, buf, off) ==
  /\ mode # "down" /\ Consumed(n, b, FALSE) /\ ReadBy(buf, off, c)
  /\ c.t \in {"junk", "udm", "other"} /\ c # [t |-> "udm", text |-> "sync"]
  /\ lost' = lost + 1 /\ lost' # 0 /\ got' = NoLine

\* A token of a single character is lost.
LoseStep(n, b) ==
  /\ Consumed(n, b, FALSE) /\ b.t \notin {"head", "udm"}
  /\ UNCHANGED <<mode, buffer, age>> /\ lost' = lost + 1 /\ lost' # 0
  /\ got' = NoLine /\ did' = Nothing

\* Every step is one of these.
LEMMA StepKinds ==
  ASSUME buffer \in Seq(Token), lost \in Nat, TxInv, Next
  PROVE  /\ TxInv'
         /\ \/ Printed
            \/ Interrupted
            \/ Restarted
            \/ \E n, b, buf, off : ReadStep(n, b, buf, off)
            \/ \E n, b : DropStep(n, b)
            \/ \E n, b, c, buf, off : DamageStep(n, b, c, buf, off)
            \/ \E n, b : LoseStep(n, b)
<1>1. CASE rpl_initialize \/ udp_data_receiver
  BY <1>1, TxPrinted
<1>2. CASE uart_data_receiver
  BY <1>2, TxInterrupted
<1>3. CASE Byte
  <2>1. /\ mode # "down" /\ tx # <<>> /\ Read(Head(Head(tx).rest)) /\ got' = Completed(Head(tx))
        /\ tx' = Rest(Head(tx), TRUE) \o Tail(tx) /\ lost' = lost
    BY <1>3 DEF Byte
  <2>2. PICK n, b : TxInv' /\ Consumed(n, b, TRUE)
    BY <2>1, TxConsumed
  <2>3. b \in Token /\ b = Head(Head(tx).rest)
    BY <2>2 DEF Consumed
  <2>4. PICK buf, off : ReadBy(buf, off, b)
    BY <2>1, <2>3, ReadIs
  <2>5. Head(tx) = tx[1]
    BY <2>1 DEF TxInv
  <2>6. ReadStep(n, b, buf, off)
    BY <2>1, <2>2, <2>4, <2>5 DEF ReadStep
  <2> QED
    BY <2>2, <2>6
<1>4. CASE Drop
  <2>1. /\ mode = "down" /\ tx # <<>> /\ tx' = Rest(Head(tx), FALSE) \o Tail(tx)
        /\ UNCHANGED <<mode, buffer, age, lost>> /\ got' = NoLine /\ did' = Nothing
    BY <1>4 DEF Drop, routerVars
  <2>2. PICK n, b : TxInv' /\ Consumed(n, b, FALSE)
    BY <2>1, TxConsumed
  <2>3. DropStep(n, b)
    BY <2>1, <2>2 DEF DropStep
  <2> QED
    BY <2>2, <2>3
<1>5. CASE Lose
  <2>1. /\ mode # "down" /\ tx # <<>> /\ lost' = lost + 1 /\ got' = NoLine
        /\ tx' = Rest(Head(tx), FALSE) \o Tail(tx)
    BY <1>5 DEF Lose
  <2>2. lost' # 0
    BY <2>1
  <2>3. PICK n, b : TxInv' /\ Consumed(n, b, FALSE)
    BY <2>1, TxConsumed
  <2>4. b \in Token /\ b = Head(Head(tx).rest)
    BY <2>3 DEF Consumed
  <2>5. CASE \E c \in Damaged(b) : Read(c)
    <3>1. PICK c \in Damaged(b) : Read(c)
      BY <2>5
    <3>2. c = Junk \/ c = Other \/ c = [t |-> "udm", text |-> "info"]
      BY DEF Damaged
    <3>3. c \in Token /\ c.t \in {"junk", "udm", "other"} /\ c # [t |-> "udm", text |-> "sync"]
      BY <3>2, TokenKinds DEF Junk, Other, Text
    <3>4. PICK buf, off : ReadBy(buf, off, c)
      BY <3>1, <3>3, ReadIs
    <3>5. DamageStep(n, b, c, buf, off)
      BY <2>1, <2>2, <2>3, <3>3, <3>4 DEF DamageStep
    <3> QED
      BY <2>3, <3>5
  <2>6. CASE Damaged(b) = {} /\ did' = Nothing /\ UNCHANGED <<routerVars, buffer, age>>
    <3>1. b.t \notin {"head", "udm"}
      BY <2>6 DEF Damaged
    <3>2. UNCHANGED <<mode, buffer, age>>
      BY <2>6 DEF routerVars
    <3>3. LoseStep(n, b)
      BY <2>1, <2>2, <2>3, <2>6, <3>1, <3>2 DEF LoseStep
    <3> QED
      BY <2>3, <3>3
  <2> QED
    BY <1>5, <2>4, <2>5, <2>6 DEF Lose
<1>6. CASE Start \/ lanes_io_input \/ LimitReached \/ Stop
  <2>1. NewCycle
    BY <1>6 DEF Start, lanes_io_input, LimitReached, Stop
  <2> QED
    BY <2>1, TxRestarted
<1> QED
  BY <1>1, <1>2, <1>3, <1>4, <1>5, <1>6 DEF Next

-----------------------------------------------------------------------------
(* Types.                                                                   *)

\* The router's own variables.
RouterTypes ==
  /\ mode \in {"down", "main", "list", "fw"}
  /\ device_list \in Seq(Device) /\ update_device_list \in Seq(Device)
  /\ Range(update_device_list) \subseteq Range(device_list)
  /\ todo \in Seq(Device) /\ (todo = <<>> <=> mode # "fw")

\* The window.
WindowTypes ==
  /\ buffer \in Seq(Token) /\ Len(buffer) <= 2 * Window
  /\ age \in 0 .. Window
  /\ did.packet \in Packet \cup {Nothing.packet, Mixed} /\ did.sync \in BOOLEAN

\* The range of a longer list.
LEMMA RangeOfAppend ==
  ASSUME NEW S, NEW s \in Seq(S), NEW x \in S
  PROVE  Range(Append(s, x)) = Range(s) \cup {x}
<1>1. /\ Append(s, x) \in Seq(S) /\ Len(Append(s, x)) = Len(s) + 1
      /\ \A k \in 1 .. Len(s) : Append(s, x)[k] = s[k]
      /\ Append(s, x)[Len(s) + 1] = x
  BY AppendProperties
<1>2. /\ DOMAIN s = 1 .. Len(s) /\ DOMAIN Append(s, x) = 1 .. Len(s) + 1 /\ Len(s) \in Nat
  BY <1>1, LenProperties
<1>3. PICK u : u = Append(s, x)
  OBVIOUS
<1>4. \A y : (\E k \in 1 .. Len(s) + 1 : u[k] = y) <=> (\E k \in 1 .. Len(s) : s[k] = y) \/ y = x
  BY <1>1, <1>2, <1>3
<1> QED
  BY <1>2, <1>3, <1>4 DEF Range

\* The ends of a cycle and of the program.
LEMMA ExitTypes ==
  /\ Exit => RouterTypes'
  /\ RouterTypes /\ EndCycle => RouterTypes'
<1>1. ASSUME Exit PROVE RouterTypes'
  <2>1. mode' = "down" /\ todo' = <<>> /\ device_list' = <<>> /\ update_device_list' = <<>>
    BY <1>1 DEF Exit
  <2> QED
    BY <2>1 DEF RouterTypes
<1>2. ASSUME RouterTypes, EndCycle PROVE RouterTypes'
  <2>1. CASE Len(todo) > 1
    <3>1. todo' = Tail(todo) /\ UNCHANGED <<mode, device_list, update_device_list>>
      BY <1>2, <2>1 DEF EndCycle
    <3>2. todo \in Seq(Device) /\ todo # <<>> /\ mode = "fw"
      BY <1>2, <2>1 DEF RouterTypes
    <3>3. Tail(todo) \in Seq(Device) /\ Len(Tail(todo)) = Len(todo) - 1
      BY <3>2
    <3>4. Tail(todo) # <<>>
      <4>1. Len(todo) \in Nat /\ Len(Tail(todo)) # 0
        BY <2>1, <3>2, <3>3
      <4> QED
        BY <3>3, <4>1, EmptySeq
    <3> QED
      BY <1>2, <3>1, <3>2, <3>3, <3>4 DEF RouterTypes
  <2>2. CASE ~(Len(todo) > 1)
    BY <1>1, <1>2, <2>2 DEF EndCycle
  <2> QED
    BY <2>1, <2>2
<1> QED
  BY <1>1, <1>2

\* What the router does about a packet.
LEMMA ReadTypes ==
  ASSUME RouterTypes, buffer \in Seq(Token), NEW b \in Token, Read(b)
  PROVE  RouterTypes'
<1>1. PICK packet : /\ packet \in Packet \cup {Nothing.packet, Mixed}
                    /\ IF mode = "list"
                         THEN packet_processing_see_adresses(packet)
                         ELSE packet_processing(packet)
  <2>1. PICK buf : buf = add_byte_to_buffer(b)
    OBVIOUS
  <2>2. buf \in Seq(Token)
    BY <2>1, AddByte DEF Added
  <2>3. IF mode = "list"
          THEN packet_processing_see_adresses(PacketRead(buf))
          ELSE packet_processing(PacketRead(buf))
    BY <2>1, Zenon DEF Read, PacketRead
  <2> QED
    BY <2>2, <2>3, ParseCases
<1>2. CASE mode = "list"
  <2>1. packet_processing_see_adresses(packet)
    BY <1>1, <1>2
  <2>2. CASE packet.type = "STATUS" /\ packet.from \notin Range(device_list)
    <3>1. packet.from \in Device
      BY <1>1, <2>2, PacketAssumption DEF Nothing, Mixed
    <3>2. PICK d \in Device : d = packet.from
      BY <3>1
    <3>3. /\ device_list' = Append(device_list, d) /\ UNCHANGED <<mode, todo>>
          /\ update_device_list' =
               IF packet.ota THEN Append(update_device_list, d) ELSE update_device_list
      BY <2>1, <2>2, <3>2 DEF packet_processing_see_adresses
    <3>4. /\ device_list' \in Seq(Device) /\ update_device_list' \in Seq(Device)
      BY <3>3 DEF RouterTypes
    <3>5. Range(device_list') = Range(device_list) \cup {d}
      BY <3>3, RangeOfAppend DEF RouterTypes
    <3>6. Range(update_device_list') \subseteq Range(update_device_list) \cup {d}
      <4>1. CASE packet.ota
        BY <3>3, <4>1, RangeOfAppend DEF RouterTypes
      <4>2. CASE ~packet.ota
        BY <3>3, <4>2
      <4> QED
        BY <4>1, <4>2
    <3> QED
      BY <3>3, <3>4, <3>5, <3>6 DEF RouterTypes
  <2>3. CASE ~(packet.type = "STATUS" /\ packet.from \notin Range(device_list))
    BY <2>1, <2>3 DEF packet_processing_see_adresses, RouterTypes
  <2> QED
    BY <2>2, <2>3
<1>3. CASE mode # "list"
  <2>1. packet_processing(packet)
    BY <1>1, <1>3
  <2>2. EndCycle \/ Exit \/ UNCHANGED routerVars
    BY <2>1 DEF packet_processing
  <2>3. CASE UNCHANGED routerVars
    BY <2>3 DEF routerVars, RouterTypes
  <2> QED
    BY <2>2, <2>3, ExitTypes
<1> QED
  BY <1>2, <1>3

\* The window after a byte was read.
LEMMA ReadByTypes ==
  ASSUME WindowTypes, NEW b, NEW buf, NEW off, ReadBy(buf, off, b)
  PROVE  WindowTypes'
<1>1. /\ buf \in Seq(Token) /\ Len(buf) <= Window /\ Len(buf) \in Nat /\ Window \in Nat
      /\ age \in 0 .. Window
  BY WindowType DEF ReadBy, Added, WindowTypes
<1>2. did'.packet \in Packet \cup {Nothing.packet, Mixed} /\ did'.sync \in BOOLEAN
  BY <1>1, ParseCases DEF ReadBy
<1>3. buffer' = <<>> \/ buffer' = buf \/ buffer' = clean_buffer(buf)
  BY DEF ReadBy
<1>4. buffer' \in Seq(Token) /\ Len(buffer') <= 2 * Window
  <2>1. CASE buffer' = <<>>
    BY <1>1, <2>1
  <2>2. CASE buffer' = buf
    BY <1>1, <2>2
  <2>3. CASE buffer' = clean_buffer(buf)
    BY <1>1, <2>3, CleanBuffer
  <2> QED
    BY <1>3, <2>1, <2>2, <2>3
<1>5. age' \in 0 .. Window
  BY <1>1 DEF ReadBy
<1> QED
  BY <1>2, <1>4, <1>5 DEF WindowTypes

\* What the types of this module come to.
LEMMA TypesSplit ==
  TypeOK <=> RouterTypes /\ WindowTypes /\ lost \in 0 .. MaxLost
  BY DEF TypeOK, RouterTypes, WindowTypes

\* Every step keeps the types.
LEMMA TypesStep ==
  ASSUME TypeOK, TxInv, [Next]_vars
  PROVE  TypeOK' /\ TxInv'
<1>0. /\ RouterTypes /\ WindowTypes /\ lost \in 0 .. MaxLost /\ MaxLost \in Nat /\ lost \in Nat
      /\ buffer \in Seq(Token)
  BY TypesSplit, RouterAssumption DEF WindowTypes
<1>1. CASE UNCHANGED vars
  BY <1>1 DEF vars, routerVars, historyVars, TypeOK, TxInv
<1>2. CASE Next
  <2>1. Nothing.packet \in Packet \cup {Nothing.packet, Mixed} /\ Nothing.sync \in BOOLEAN
    BY DEF Nothing
  <2>2. RouterTypes'
    <3>1. CASE UNCHANGED routerVars
      BY <1>0, <3>1 DEF RouterTypes, routerVars
    <3>2. CASE rpl_initialize \/ udp_data_receiver \/ uart_data_receiver \/ Drop
      BY <3>1, <3>2
        DEF rpl_initialize, udp_data_receiver, RootPrints, uart_data_receiver, Drop
    <3>3. CASE Byte
      <4>1. Read(Head(Head(tx).rest)) /\ tx # <<>> /\ tx' = Rest(Head(tx), TRUE) \o Tail(tx)
        BY <3>3 DEF Byte
      <4>2. Head(Head(tx).rest) \in Token
        BY <4>1, TxConsumed DEF Consumed
      <4> QED
        BY <1>0, <4>1, <4>2, ReadTypes
    <3>4. CASE Lose
      <4>1. CASE \E b \in Damaged(Head(Head(tx).rest)) : Read(b)
        <5>1. PICK b \in Damaged(Head(Head(tx).rest)) : Read(b)
          BY <4>1
        <5>2. b = Junk \/ b = Other \/ b = [t |-> "udm", text |-> "info"]
          BY DEF Damaged
        <5>3. b \in Token
          BY <5>2, TokenKinds DEF Text
        <5> QED
          BY <1>0, <5>1, <5>3, ReadTypes
      <4>2. CASE UNCHANGED <<routerVars, buffer, age>>
        BY <3>1, <4>2
      <4> QED
        BY <3>4, <4>1, <4>2 DEF Lose
    <3>5. CASE Start
      <4>1. /\ \/ mode' \in {"main", "list"} /\ todo' = <<>>
               \/ mode' = "fw" /\ \E d \in Device : todo' = <<d>>
            /\ UNCHANGED <<device_list, update_device_list>>
        BY <3>5 DEF Start
      <4>2. todo' \in Seq(Device) /\ (todo' = <<>> <=> mode' # "fw")
              /\ mode' \in {"down", "main", "list", "fw"}
        <5>1. CASE mode' \in {"main", "list"} /\ todo' = <<>>
          BY <5>1
        <5>2. CASE mode' = "fw" /\ \E d \in Device : todo' = <<d>>
          <6>1. PICK d \in Device : todo' = <<d>>
            BY <5>2
          <6>2. <<d>> \in Seq(Device) /\ <<d>> # <<>>
            OBVIOUS
          <6> QED
            BY <5>2, <6>1, <6>2
        <5> QED
          BY <4>1, <5>1, <5>2
      <4> QED
        BY <1>0, <4>1, <4>2 DEF RouterTypes
    <3>6. CASE lanes_io_input
      <4>1. CASE update_device_list = <<>>
        BY <3>6, <4>1, ExitTypes DEF lanes_io_input
      <4>2. CASE update_device_list # <<>>
        BY <1>0, <3>6, <4>2 DEF lanes_io_input, RouterTypes
      <4> QED
        BY <4>1, <4>2
    <3>7. CASE LimitReached \/ Stop
      BY <1>0, <3>7, ExitTypes DEF LimitReached, Stop
    <3> QED
      BY <1>2, <3>2, <3>3, <3>4, <3>5, <3>6, <3>7 DEF Next
  <2>3. /\ TxInv'
        /\ \/ Printed
           \/ Interrupted
           \/ Restarted
           \/ \E n, b, buf, off : ReadStep(n, b, buf, off)
           \/ \E n, b : DropStep(n, b)
           \/ \E n, b, c, buf, off : DamageStep(n, b, c, buf, off)
           \/ \E n, b : LoseStep(n, b)
    BY <1>0, <1>2, StepKinds
  <2>4. WindowTypes'
    <3>1. CASE did' = Nothing /\ UNCHANGED <<buffer, age>>
      BY <1>0, <2>1, <3>1 DEF WindowTypes
    <3>2. CASE Restarted
      <4>1. buffer' = <<>> /\ age' = 0 /\ did' = Nothing /\ Window \in Nat
        BY <3>2, WindowType DEF Restarted
      <4>2. <<>> \in Seq(Token) /\ Len(<<>>) = 0
        OBVIOUS
      <4> QED
        BY <2>1, <4>1, <4>2 DEF WindowTypes
    <3>3. CASE \E n, b, buf, off : ReadStep(n, b, buf, off)
      BY <1>0, <3>3, ReadByTypes DEF ReadStep
    <3>4. CASE \E n, b, c, buf, off : DamageStep(n, b, c, buf, off)
      BY <1>0, <3>4, ReadByTypes DEF DamageStep
    <3> QED
      BY <2>3, <3>1, <3>2, <3>3, <3>4 DEF Printed, Interrupted, DropStep, LoseStep
  <2>5. lost' \in 0 .. MaxLost
    <3>1. lost' = lost \/ (lost' = lost + 1 /\ lost < MaxLost)
      BY <1>2
        DEF Next, rpl_initialize, udp_data_receiver, RootPrints, uart_data_receiver, Byte, Drop,
            Lose, Start, lanes_io_input, LimitReached, Stop, NewCycle
    <3> QED
      BY <1>0, <3>1
  <2>6. TypeOK'
    BY <2>2, <2>4, <2>5 DEF TypeOK, RouterTypes, WindowTypes
  <2> QED
    BY <2>3, <2>6
<1> QED
  BY <1>1, <1>2

\* The initial state.
LEMMA InitTypes ==
  ASSUME Init
  PROVE  TypeOK /\ TxInv
<1>1. /\ mode = "down" /\ buffer = <<>> /\ device_list = <<>> /\ update_device_list = <<>>
      /\ todo = <<>> /\ tx = <<>> /\ lost = 0 /\ age = 0 /\ did = Nothing
  BY DEF Init
<1>2. RouterTypes
  BY <1>1 DEF RouterTypes
<1>3. WindowTypes
  BY <1>1, WindowType DEF WindowTypes, Nothing
<1>4. lost \in 0 .. MaxLost
  BY <1>1, RouterAssumption
<1>5. TxInv
  BY <1>1 DEF TxInv
<1> QED
  BY <1>2, <1>3, <1>4, <1>5, TypesSplit

\* Every variable of the router and of the line has its type.
THEOREM RouterTypeCorrect == Spec => [](TypeOK /\ TxInv)
<1>1. Init => TypeOK /\ TxInv
  BY InitTypes
<1>2. TypeOK /\ TxInv /\ [Next]_vars => (TypeOK /\ TxInv)'
  BY TypesStep
<1> QED
  BY <1>1, <1>2, PTL DEF Spec

-----------------------------------------------------------------------------
(* The window clears.                                                       *)

\* The two windows that a byte can leave behind, when the cycle goes on: nothing in the
\* second one behind the first is more than a zero.
WindowAfter(buf) ==
  /\ buffer' \in Seq(Token) /\ Len(buffer') >= Len(buf)
  /\ DOMAIN buffer' = 1 .. Len(buffer')
  /\ \A k \in 1 .. Len(buffer') : buffer'[k] = IF k <= Len(buf) THEN buf[k] ELSE Zero
  /\ \/ ~MessageIn(buf) /\ Len(buffer') = Len(buf)
     \/ MessageIn(buf) /\ Len(buffer') = 2 * Len(buf)

LEMMA ReadWindow ==
  ASSUME NEW b, NEW buf, NEW off, ReadBy(buf, off, b)
  PROVE  \/ buffer' = <<>> /\ age' = 0 /\ FindPacket(buf) /\ b = Tail_
         \/ /\ age' = IF age < Window THEN age + 1 ELSE age
            /\ mode' = mode /\ WindowAfter(buf)
<1>1. buf \in Seq(Token) /\ Len(buf) \in Nat /\ DOMAIN buf = 1 .. Len(buf)
  BY DEF ReadBy, Added
<1>2. CASE ~MessageIn(buf) /\ buffer' = buf
  <2>1. \A k \in 1 .. Len(buf) : buf[k] = IF k <= Len(buf) THEN buf[k] ELSE Zero
    BY <1>1
  <2>2. Len(buf) >= Len(buf)
    BY <1>1
  <2>3. WindowAfter(buf)
    BY <1>1, <1>2, <2>1, <2>2, Zenon DEF WindowAfter
  <2> QED
    BY <1>2, <2>3 DEF ReadBy
<1>3. CASE MessageIn(buf) /\ buffer' = clean_buffer(buf)
  <2>1. PICK u : u = clean_buffer(buf)
    OBVIOUS
  <2>2. /\ u \in Seq(Token) /\ Len(u) = 2 * Len(buf)
        /\ \A k \in 1 .. 2 * Len(buf) : u[k] = IF k <= Len(buf) THEN buf[k] ELSE Zero
    BY <1>1, <2>1, CleanBuffer
  <2>3. DOMAIN u = 1 .. Len(u) /\ Len(u) >= Len(buf)
    BY <1>1, <2>2, LenProperties
  <2>4. WindowAfter(buf)
    BY <1>3, <2>1, <2>2, <2>3 DEF WindowAfter
  <2> QED
    BY <1>3, <2>4 DEF ReadBy
<1>4. CASE ~((~MessageIn(buf) /\ buffer' = buf) \/ (MessageIn(buf) /\ buffer' = clean_buffer(buf)))
  BY <1>4 DEF ReadBy
<1> QED
  BY <1>2, <1>3, <1>4

\* A byte that is read keeps the window in order.
LEMMA ReadKeepsWindow ==
  ASSUME TypeOK, WindowInv, mode # "down", NEW b, NEW buf, NEW off, ReadBy(buf, off, b)
  PROVE  WindowInv'
<1>1. CASE buffer' = <<>> /\ age' = 0
  <2>1. Len(buffer') = 0 /\ DOMAIN buffer' = {}
    BY <1>1
  <2> QED
    BY <1>1, <2>1 DEF WindowInv
<1>2. CASE /\ age' = IF age < Window THEN age + 1 ELSE age
           /\ mode' = mode /\ WindowAfter(buf)
  <2>1. /\ age \in 0 .. Window /\ age <= Len(buffer) /\ Len(buffer) \in Nat /\ Window \in Nat
        /\ Window >= 4 /\ buffer \in Seq(Token)
    BY WindowType DEF TypeOK, WindowInv
  <2>2. /\ Len(buf) \in Nat /\ off \in Nat /\ Len(buf) = Len(buffer) + 1 - off
        /\ off = IF Len(buffer) + 1 > Window THEN Len(buffer) + 1 - Window ELSE 0
    BY DEF ReadBy, Added
  <2>3. age' \in Nat /\ age' <= Len(buf)
    <3>1. PICK m \in Nat : m = Len(buffer)
      BY <2>1
    <3>2. CASE m + 1 > Window
      <4>1. off = m + 1 - Window
        BY <2>2, <3>1, <3>2
      <4>2. Len(buf) = Window
        BY <2>1, <2>2, <3>1, <4>1
      <4> QED
        BY <1>2, <2>1, <4>2
    <3>3. CASE ~(m + 1 > Window)
      <4>1. Len(buf) = m + 1
        BY <2>1, <2>2, <3>1, <3>3
      <4> QED
        BY <1>2, <2>1, <3>1, <4>1
    <3> QED
      BY <3>2, <3>3
  <2>4. Len(buffer') \in Nat /\ Len(buffer') >= Len(buf)
    <3>1. buffer' \in Seq(Token) /\ Len(buffer') >= Len(buf)
      BY <1>2 DEF WindowAfter
    <3> QED
      BY <3>1, LenProperties
  <2>5. age' <= Len(buffer')
    BY <2>2, <2>3, <2>4
  <2>6. ASSUME NEW i \in DOMAIN buffer', NEW j \in DOMAIN buffer',
               i < j, buffer'[i].t = "udm", buffer'[j] = Feed
        PROVE  Len(buffer') - j >= age'
    <3>1. i \in 1 .. Len(buffer') /\ j \in 1 .. Len(buffer')
      BY <1>2 DEF WindowAfter
    <3>2. /\ buffer'[i] = IF i <= Len(buf) THEN buf[i] ELSE Zero
          /\ buffer'[j] = IF j <= Len(buf) THEN buf[j] ELSE Zero
      BY <1>2, <3>1 DEF WindowAfter
    <3>3. j <= Len(buf) /\ buf[j] = Feed
      BY <2>6, <3>2, TokenKinds
    <3>4. i <= Len(buf) /\ buf[i].t = "udm"
      BY <2>2, <2>6, <3>1, <3>2, <3>3
    <3>5. MessageIn(buf)
      <4>1. i \in 1 .. Len(buf) /\ j \in 1 .. Len(buf)
        BY <2>2, <3>1, <3>3, <3>4
      <4> QED
        BY <2>6, <3>3, <3>4, <4>1 DEF MessageIn
    <3>6. Len(buffer') = 2 * Len(buf)
      BY <1>2, <3>5 DEF WindowAfter
    <3>7. j \in Nat /\ Len(buf) \in Nat /\ age' <= Len(buf)
      BY <2>2, <2>3, <3>1
    <3>8. Len(buffer') - j >= Len(buf)
      BY <3>3, <3>6, <3>7
    <3>9. age' \in Nat
      BY <2>3
    <3> QED
      BY <2>4, <3>7, <3>8, <3>9
  <2> QED
    BY <1>2, <2>5, <2>6 DEF WindowInv
<1> QED
  BY <1>1, <1>2, ReadWindow

\* Every step keeps the window in order.
LEMMA WindowStep ==
  ASSUME TypeOK, TxInv, WindowInv, [Next]_vars
  PROVE  WindowInv'
<1>1. CASE UNCHANGED <<mode, buffer, age>>
  BY <1>1 DEF WindowInv
<1>2. CASE Restarted
  <2>1. buffer' = <<>> /\ age' = 0
    BY <1>2 DEF Restarted
  <2>2. Len(buffer') = 0 /\ DOMAIN buffer' = {}
    BY <2>1
  <2> QED
    BY <2>1, <2>2 DEF WindowInv
<1>3. CASE \E n, b, buf, off : ReadStep(n, b, buf, off)
  BY <1>3, ReadKeepsWindow DEF ReadStep
<1>4. CASE \E n, b, c, buf, off : DamageStep(n, b, c, buf, off)
  BY <1>4, ReadKeepsWindow DEF DamageStep
<1>5. CASE Next
  <2>1. buffer \in Seq(Token) /\ lost \in Nat
    BY RouterAssumption DEF TypeOK
  <2> QED
    BY <1>1, <1>2, <1>3, <1>4, <1>5, <2>1, StepKinds DEF Printed, Interrupted, DropStep, LoseStep
<1>6. CASE UNCHANGED vars
  BY <1>1, <1>6 DEF vars, routerVars, historyVars
<1> QED
  BY <1>5, <1>6

\* The first half of OpenInv.
OpenMessages ==
  \A i \in DOMAIN buffer :
    buffer[i].t = "udm" /\ (\A j \in DOMAIN buffer : i < j => buffer[j] # Feed)
      => tx # <<>> /\ (~tx[1].fresh \/ tx[1].what = Info)

\* The second half.
LateLines == \A k \in DOMAIN tx : tx[k].late /\ tx[k].what # Info => tx[k].clean

\* A line that begins in a cycle that has filled its window begins behind no message.
LEMMA LateIsClear ==
  ASSUME TypeOK, WindowInv, OpenMessages, age = Window, tx[1].fresh, tx[1].what # Info
  PROVE  Clear
<1> SUFFICES ASSUME NEW i \in DOMAIN buffer, i + Window > Len(buffer) + 1, buffer[i].t = "udm"
             PROVE  FALSE
  BY DEF Clear
<1>1. /\ buffer \in Seq(Token) /\ DOMAIN buffer = 1 .. Len(buffer) /\ Len(buffer) \in Nat
      /\ Window \in Nat
  BY WindowType DEF TypeOK
<1>2. PICK j \in DOMAIN buffer : i < j /\ buffer[j] = Feed
  BY DEF OpenMessages
<1>3. Len(buffer) - j >= Window
  BY <1>2 DEF WindowInv
<1> QED
  BY <1>1, <1>2, <1>3

\* Every step without a loss keeps this.
LEMMA OpenStep ==
  ASSUME TypeOK, TxInv, WindowInv, OpenInv, [Next]_vars
  PROVE  OpenInv'
<1> SUFFICES ASSUME lost' = 0 PROVE OpenMessages' /\ LateLines'
  BY DEF OpenInv, OpenMessages, LateLines
<1>0. /\ buffer \in Seq(Token) /\ lost \in Nat
      /\ tx \in Seq(LineType) /\ DOMAIN tx = 1 .. Len(tx) /\ Len(tx) \in Nat
  BY RouterAssumption DEF TypeOK, TxInv
<1>1. CASE UNCHANGED vars
  BY <1>1 DEF vars, routerVars, historyVars, OpenInv, OpenMessages, LateLines
<1>2. CASE Next
  <2>1. DOMAIN tx' = 1 .. Len(tx') /\ Len(tx') \in Nat
    BY <1>0, <1>2, StepKinds DEF TxInv
  <2>2. CASE Printed
    <3>1. lost = 0 /\ tx = <<>> /\ buffer' = buffer
      BY <2>2 DEF Printed
    <3>2. \A i \in DOMAIN buffer : buffer[i].t = "udm" => \E j \in DOMAIN buffer : i < j /\ buffer[j] = Feed
      BY <3>1 DEF OpenInv
    <3>3. OpenMessages'
      BY <3>1, <3>2 DEF OpenMessages
    <3>4. LateLines'
      BY <2>2 DEF Printed, LateLines
    <3> QED
      BY <3>3, <3>4
  <2>3. CASE Interrupted
    <3>1. OpenMessages'
      <4>1. Len(tx') = Len(tx) + 1 /\ tx'[1].what = Info
        BY <2>3 DEF Interrupted
      <4>2. tx' # <<>>
        BY <1>0, <4>1
      <4> QED
        BY <4>1, <4>2 DEF OpenMessages
    <3>2. ASSUME NEW k \in 1 .. Len(tx'), tx'[k].late, tx'[k].what # Info PROVE tx'[k].clean
      <4>1. Len(tx') = Len(tx) + 1 /\ ~tx'[1].late /\ lost = 0
        BY <2>3 DEF Interrupted
      <4>2. k # 1
        BY <3>2, <4>1
      <4>3. k - 1 \in 1 .. Len(tx) /\ (k - 1) + 1 = k
        BY <1>0, <4>1, <4>2
      <4>4. /\ tx'[(k - 1) + 1].what = tx[k - 1].what
            /\ tx'[(k - 1) + 1].clean = tx[k - 1].clean /\ tx'[(k - 1) + 1].late = tx[k - 1].late
        BY <2>3, <4>3, Zenon DEF Interrupted
      <4>5. tx[k - 1].late /\ tx[k - 1].what # Info
        BY <3>2, <4>3, <4>4
      <4>6. tx[k - 1].clean
        BY <1>0, <4>1, <4>3, <4>5 DEF OpenInv
      <4> QED
        BY <4>3, <4>4, <4>6
    <3> QED
      BY <2>1, <3>1, <3>2 DEF LateLines
  <2>4. CASE Restarted
    <3>1. OpenMessages'
      <4>1. DOMAIN buffer' = {}
        BY <2>4 DEF Restarted
      <4> QED
        BY <4>1 DEF OpenMessages
    <3>2. ASSUME NEW k \in 1 .. Len(tx'), tx'[k].late, tx'[k].what # Info PROVE tx'[k].clean
      <4>1. /\ lost = 0 /\ k \in 1 .. Len(tx) /\ tx'[k].what = tx[k].what
            /\ tx'[k].clean = tx[k].clean /\ tx'[k].late = tx[k].late
        BY <2>4 DEF Restarted
      <4> QED
        BY <1>0, <3>2, <4>1 DEF OpenInv
    <3> QED
      BY <2>1, <3>1, <3>2 DEF LateLines
  <2>5. ASSUME NEW n, NEW b, NEW whole, Consumed(n, b, whole), lost = 0
        PROVE  LateLines'
    <3>1. OpenMessages /\ LateLines
      BY <2>5 DEF OpenInv, OpenMessages, LateLines
    <3> SUFFICES ASSUME NEW k \in 1 .. Len(tx'), tx'[k].late, tx'[k].what # Info
                 PROVE  tx'[k].clean
      BY <2>1 DEF LateLines
    <3>2. CASE Len(tx') = Len(tx) - 1 /\ \A m \in 1 .. Len(tx) - 1 : tx'[m] = tx[m + 1]
      <4>1. k + 1 \in 1 .. Len(tx) /\ tx'[k] = tx[k + 1]
        BY <1>0, <3>2
      <4> QED
        BY <1>0, <3>1, <4>1 DEF LateLines
    <3>3. CASE /\ Len(tx') = Len(tx) /\ \A m \in 2 .. Len(tx) : tx'[m] = tx[m]
               /\ tx'[1].what = tx[1].what
               /\ tx'[1].clean = IF n = 0 THEN Clear ELSE tx[1].clean
               /\ tx'[1].late = IF n = 0 THEN age = Window ELSE tx[1].late
      <4>1. CASE k = 1
        <5>1. CASE n = 0
          <6>1. tx[1].fresh /\ tx[1].what # Info /\ age = Window
            BY <2>5, <3>3, <4>1, <5>1 DEF Consumed
          <6>2. Clear
            BY <3>1, <6>1, LateIsClear
          <6> QED
            BY <3>3, <4>1, <5>1, <6>2
        <5>2. CASE n # 0
          BY <1>0, <3>1, <3>3, <4>1, <5>2 DEF LateLines
        <5> QED
          BY <5>1, <5>2
      <4>2. CASE k # 1
        <5>1. k \in 2 .. Len(tx) /\ k \in 1 .. Len(tx)
          BY <1>0, <3>3, <4>2
        <5>2. tx'[k] = tx[k]
          BY <3>3, <5>1
        <5> QED
          BY <1>0, <3>1, <5>1, <5>2 DEF LateLines
      <4> QED
        BY <4>1, <4>2
    <3> QED
      BY <2>5, <3>2, <3>3 DEF Consumed
  <2>6. ASSUME NEW n, NEW b, NEW buf, NEW off, ReadStep(n, b, buf, off)
        PROVE  OpenMessages' /\ LateLines'
    <3>1. Consumed(n, b, TRUE) /\ ReadBy(buf, off, b) /\ lost = 0
      BY <2>6 DEF ReadStep
    <3>2. LateLines'
      BY <2>5, <3>1
    <3>3. CASE buffer' = <<>>
      BY <3>2, <3>3 DEF OpenMessages
    <3>4. CASE WindowAfter(buf)
      <4>1. CASE b = Feed
        <5> SUFFICES ASSUME NEW i \in DOMAIN buffer', buffer'[i].t = "udm"
                     PROVE  \E j \in DOMAIN buffer' : i < j /\ buffer'[j] = Feed
          BY <3>2 DEF OpenMessages
        <5>1. /\ buf[Len(buf)] = Feed /\ Len(buf) \in Nat /\ Len(buf) >= 1
          BY <3>1, <4>1 DEF ReadBy, Added
        <5>2. /\ Len(buf) \in DOMAIN buffer' /\ buffer'[Len(buf)] = Feed
              /\ i \in 1 .. Len(buffer') /\ Len(buffer') \in Nat
          <6>1. /\ buffer' \in Seq(Token) /\ Len(buffer') >= Len(buf)
                /\ DOMAIN buffer' = 1 .. Len(buffer')
                /\ \A k \in 1 .. Len(buffer') : buffer'[k] = IF k <= Len(buf) THEN buf[k] ELSE Zero
            BY <3>4 DEF WindowAfter
          <6>2. Len(buffer') \in Nat
            BY <6>1, LenProperties
          <6>3. Len(buf) \in 1 .. Len(buffer') /\ Len(buf) <= Len(buf)
            BY <5>1, <6>1, <6>2
          <6> QED
            BY <5>1, <6>1, <6>2, <6>3
        <5>3. buffer'[i] = IF i <= Len(buf) THEN buf[i] ELSE Zero
          BY <3>4, <5>2 DEF WindowAfter
        <5>4. i <= Len(buf) /\ i # Len(buf)
          BY <5>1, <5>3, TokenKinds
        <5> QED
          BY <5>1, <5>2, <5>4
      <4>2. CASE b # Feed
        <5>1. Len(tx') = Len(tx) /\ tx'[1].fresh = FALSE /\ Len(tx) >= 1
          BY <3>1, <4>2 DEF Consumed
        <5>2. tx' # <<>>
          BY <1>0, <5>1
        <5> QED
          BY <3>2, <5>1, <5>2 DEF OpenMessages
      <4> QED
        BY <4>1, <4>2
    <3> QED
      BY <3>1, <3>3, <3>4, ReadWindow
  <2>7. ASSUME NEW n, NEW b, DropStep(n, b)
        PROVE  OpenMessages' /\ LateLines'
    <3>1. Consumed(n, b, FALSE) /\ lost = 0 /\ buffer' = buffer /\ buffer = <<>>
      BY <2>7 DEF DropStep, WindowInv
    <3>2. OpenMessages'
      BY <3>1 DEF OpenMessages
    <3> QED
      BY <2>5, <3>1, <3>2
  <2> QED
    BY <1>0, <1>2, <2>2, <2>3, <2>4, <2>6, <2>7, StepKinds DEF DamageStep, LoseStep
<1> QED
  BY <1>1, <1>2

\* The token with which a line is complete.
EndToken(what) == IF IsPacket(what) THEN Tail_ ELSE Feed

\* What a line is taken for when its last token is read.
LEMMA CompletedLine ==
  ASSUME NEW b, tx # <<>>, tx[1].what \in What, b = Head(Head(tx).rest)
  PROVE  /\ Completed(tx[1]) # NoLine => tx[1].whole
         /\ Completed(tx[1]) # NoLine => b = EndToken(tx[1].what)
         /\ tx[1].whole /\ b = EndToken(tx[1].what) =>
              /\ Completed(tx[1]).what = tx[1].what /\ Completed(tx[1]).clean = tx[1].clean
              /\ Completed(tx[1]).late = tx[1].late
<1>3. "text" \in DOMAIN tx[1].what <=> ~IsPacket(tx[1].what)
  BY WhatKinds
<1>4. b = Head(tx[1].rest)
  <2>1. Head(tx) = tx[1]
    OBVIOUS
  <2> QED
    BY <2>1
<1>5. Completed(tx[1]) = IF tx[1].whole /\ b = EndToken(tx[1].what)
                           THEN [what |-> tx[1].what, clean |-> tx[1].clean, late |-> tx[1].late]
                           ELSE NoLine
  <2>1. (IF "text" \in DOMAIN tx[1].what THEN Feed ELSE Tail_)
          = EndToken(tx[1].what)
    BY <1>3 DEF EndToken
  <2> QED
    BY <1>4, <2>1, Zenon DEF Completed
<1> QED
  BY <1>5

\* Nothing is completed.
LEMMA NoLineIs == NoLine.clean = TRUE /\ NoLine.late = FALSE /\ ~IsPacket(NoLine.what) /\ NoLine.what # Sync
  BY DEF NoLine, IsPacket, Sync

\* A line that was completed late began behind no message.
LEMMA ClearsStep ==
  ASSUME TypeOK, TxInv, OpenInv, WindowClears, [Next]_vars
  PROVE  WindowClears'
<1>1. CASE UNCHANGED vars
  BY <1>1 DEF vars, historyVars, WindowClears
<1>2. CASE got' = NoLine
  BY <1>2, NoLineIs DEF WindowClears
<1>3. ASSUME NEW n, NEW b, NEW buf, NEW off, ReadStep(n, b, buf, off)
      PROVE  WindowClears'
  <2>1. Consumed(n, b, TRUE) /\ lost' = lost /\ got' = Completed(tx[1])
    BY <1>3 DEF ReadStep
  <2>2. CASE Completed(tx[1]) # NoLine
    <3>1. got'.what = tx[1].what /\ got'.clean = tx[1].clean /\ got'.late = tx[1].late
      <4>1. tx # <<>> /\ tx[1].what \in What /\ b = Head(Head(tx).rest)
        BY <2>1 DEF Consumed
      <4>2. tx[1].whole /\ b = EndToken(tx[1].what)
        BY <2>2, <4>1, CompletedLine
      <4> QED
        BY <2>1, <4>1, <4>2, CompletedLine
    <3>2. 1 \in DOMAIN tx
      BY <2>1 DEF Consumed, TxInv
    <3>3. lost = 0 /\ tx[1].late /\ tx[1].what # Info => tx[1].clean
      BY <3>2 DEF OpenInv
    <3> QED
      BY <2>1, <3>1, <3>3 DEF WindowClears, Info
  <2> QED
    BY <1>2, <2>1, <2>2
<1>4. CASE Next
  <2>1. buffer \in Seq(Token) /\ lost \in Nat
    BY RouterAssumption DEF TypeOK
  <2> QED
    BY <1>2, <1>3, <1>4, <2>1, StepKinds
      DEF Printed, Interrupted, Restarted, DropStep, DamageStep, LoseStep
<1> QED
  BY <1>1, <1>4

\* The initial state.
LEMMA InitWindow ==
  ASSUME Init
  PROVE  WindowInv /\ OpenInv /\ WindowClears
<1>1. mode = "down" /\ buffer = <<>> /\ age = 0 /\ tx = <<>> /\ got = NoLine
  BY DEF Init
<1>2. DOMAIN buffer = {} /\ Len(buffer) = 0 /\ DOMAIN tx = {}
  BY <1>1
<1> QED
  BY <1>1, <1>2, NoLineIs DEF WindowInv, OpenInv, WindowClears

\* clean_buffer, which only puts zeros behind the window, is enough: in a cycle that has
\* filled its window no packet and no request for the time begins behind an old message,
\* as long as no byte is lost.
THEOREM RouterWindowClears == Spec => []WindowClears
<1> DEFINE Inv == TypeOK /\ TxInv /\ WindowInv /\ OpenInv /\ WindowClears
<1>1. Init => Inv
  BY InitTypes, InitWindow
<1>2. Inv /\ [Next]_vars => Inv'
  BY TypesStep, WindowStep, OpenStep, ClearsStep
<1>3. Inv => WindowClears
  OBVIOUS
<1> QED
  BY <1>1, <1>2, <1>3, PTL DEF Spec

-----------------------------------------------------------------------------
(* Lines that are read in one piece.                                        *)

\* The first n tokens of what are the end of the window, and no message is before them.
EndsWith(buf, what, n) ==
  /\ n <= Len(buf) /\ Len(buf) <= Window
  /\ \A k \in 1 .. n : buf[Len(buf) - n + k] = Full(what)[k]
  /\ \A i \in 1 .. Len(buf) - n : buf[i].t # "udm"

\* One more token of the line in front.
LEMMA PieceRead ==
  ASSUME TypeOK, TxInv, PieceInv, NEW n, NEW b, NEW buf, NEW off, Consumed(n, b, TRUE),
         Added(buf, off, b), tx[1].whole, n + 1 <= Window, IF n = 0 THEN Clear ELSE tx[1].clean
  PROVE  EndsWith(buf, tx[1].what, n + 1)
<1>1. PICK m \in Nat : m = Len(buffer)
  BY DEF TypeOK
<1>2. /\ n \in Nat /\ n = Gone(tx[1]) /\ b = Full(tx[1].what)[n + 1] /\ (tx[1].fresh <=> n = 0)
      /\ tx # <<>>
  BY DEF Consumed
<1>3. Window \in Nat /\ Window >= 4 /\ DOMAIN buffer = 1 .. m
  BY <1>1, WindowType DEF TypeOK
<1>4. PICK s : s = Full(tx[1].what)
  OBVIOUS
<1>5. PICK p \in Nat : p = Len(buf)
  BY DEF Added
<1>6. /\ off \in Nat /\ p = m + 1 - off /\ off = (IF m + 1 > Window THEN m + 1 - Window ELSE 0)
      /\ p >= 1 /\ p <= Window /\ buf[p] = b
      /\ \A k \in 1 .. p - 1 : buf[k] = buffer[k + off]
  BY <1>1, <1>5 DEF Added
<1>7. CASE n = 0
  <2>1. Clear
    BY <1>7
  <2>2. ASSUME NEW i \in 1 .. p - 1 PROVE buf[i].t # "udm"
    <3>1. i + off \in 1 .. m /\ (i + off) + Window > m + 1
      <4>1. i \in Nat /\ i >= 1 /\ i <= p - 1
        OBVIOUS
      <4>2. i + off >= 1 /\ i + off <= m
        BY <1>6, <4>1
      <4>3. off + Window >= m + 1
        <5>1. CASE m + 1 > Window
          BY <1>3, <1>6, <5>1
        <5>2. CASE ~(m + 1 > Window)
          BY <1>3, <1>6, <5>2
        <5> QED
          BY <5>1, <5>2
      <4>4. i + off + Window > m + 1
        BY <1>3, <1>6, <4>1, <4>3
      <4> QED
        BY <1>6, <4>1, <4>2, <4>4
    <3>2. buffer[i + off].t # "udm"
      BY <1>1, <1>3, <2>1, <3>1 DEF Clear
    <3> QED
      BY <1>6, <3>2
  <2>3. ASSUME NEW k \in 1 .. 1 PROVE buf[p - 1 + k] = s[k]
    <3>1. k = 1 /\ p - 1 + k = p
      OBVIOUS
    <3> QED
      BY <1>2, <1>4, <1>6, <1>7, <3>1
  <2>4. n + 1 = 1
    BY <1>7
  <2> QED
    BY <1>4, <1>5, <1>6, <2>2, <2>3, <2>4 DEF EndsWith
<1>8. CASE n # 0
  <2>1. ~tx[1].fresh /\ n < Window /\ tx[1].clean
    BY <1>2, <1>3, <1>8
  <2>2. /\ n <= m /\ m <= Window
        /\ \A k \in 1 .. n : buffer[m - n + k] = s[k]
        /\ \A i \in 1 .. m - n : buffer[i].t # "udm"
    BY <1>1, <1>2, <1>4, <2>1 DEF PieceInv
  <2>3. n + 1 <= p /\ p - 1 = m - off
    BY <1>2, <1>3, <1>6, <2>1, <2>2
  <2>4. ASSUME NEW k \in 1 .. n + 1 PROVE buf[p - (n + 1) + k] = s[k]
    <3>1. CASE k = n + 1
      <4>1. p - (n + 1) + k = p
        BY <1>2, <3>1
      <4> QED
        BY <1>2, <1>4, <1>6, <3>1, <4>1
    <3>2. CASE k # n + 1
      <4>1. k \in 1 .. n /\ p - (n + 1) + k \in 1 .. p - 1
        BY <1>2, <2>3, <3>2
      <4>2. (p - (n + 1) + k) + off = m - n + k
        <5>1. off \in Nat /\ p = m + 1 - off
          BY <1>6
        <5> QED
          BY <1>2, <5>1
      <4>3. buf[p - (n + 1) + k] = buffer[(p - (n + 1) + k) + off]
        BY <1>6, <4>1
      <4> QED
        BY <2>2, <4>1, <4>2, <4>3
    <3> QED
      BY <3>1, <3>2
  <2>5. ASSUME NEW i \in 1 .. p - (n + 1) PROVE buf[i].t # "udm"
    <3>1. i \in 1 .. p - 1 /\ i + off \in 1 .. m - n
      <4>1. off \in Nat /\ p = m + 1 - off
        BY <1>6
      <4> QED
        BY <1>2, <4>1
    <3>2. buf[i] = buffer[i + off]
      BY <1>6, <3>1
    <3> QED
      BY <2>2, <3>1, <3>2
  <2> QED
    BY <1>4, <1>5, <1>6, <2>3, <2>4, <2>5 DEF EndsWith
<1> QED
  BY <1>7, <1>8

\* In such a window no message is found before the line's end.
LEMMA PieceHasNoMessage ==
  ASSUME NEW buf \in Seq(Token), NEW what \in What, NEW n \in Nat, n < Len(Full(what)),
         EndsWith(buf, what, n)
  PROVE  ~MessageIn(buf)
<1> SUFFICES ASSUME NEW i \in 1 .. Len(buf), NEW j \in 1 .. Len(buf),
                    i < j, buf[i].t = "udm", buf[j] = Feed
             PROVE  FALSE
  BY DEF MessageIn
<1>1. PICK p \in Nat : p = Len(buf)
  OBVIOUS
<1>2. PICK s : s = Full(what)
  OBVIOUS
<1>3. /\ s \in Seq(Token) /\ Len(s) \in Nat /\ n < Len(s)
      /\ \A k \in 1 .. Len(s) - 1 : s[k] # Feed
  <2>1. s \in Seq(Token)
    BY <1>2, FullTokens
  <2>2. \A k \in 1 .. Len(s) - 1 : s[k] # Feed
    BY <1>2, FullTokens, Zenon
  <2>3. Len(s) \in Nat
    BY <2>1, LenProperties
  <2> QED
    BY <1>2, <2>1, <2>2, <2>3
<1>4. /\ n <= p /\ \A k \in 1 .. n : buf[p - n + k] = s[k]
      /\ \A k \in 1 .. p - n : buf[k].t # "udm"
  BY <1>1, <1>2 DEF EndsWith
<1>5. ~(i <= p - n)
  BY <1>1, <1>4
<1>6. j - (p - n) \in 1 .. n /\ p - n + (j - (p - n)) = j /\ j - (p - n) \in 1 .. Len(s) - 1
  BY <1>1, <1>3, <1>4, <1>5
<1>7. buf[j] = s[j - (p - n)]
  BY <1>4, <1>6
<1> QED
  BY <1>3, <1>6, <1>7

\* Every step keeps the line in front where it is.
LEMMA PieceStep ==
  ASSUME TypeOK, TxInv, PieceInv, [Next]_vars
  PROVE  PieceInv'
<1>0. /\ buffer \in Seq(Token) /\ lost \in Nat
      /\ tx \in Seq(LineType) /\ DOMAIN tx = 1 .. Len(tx) /\ Len(tx) \in Nat
  BY RouterAssumption DEF TypeOK, TxInv
<1>1. CASE UNCHANGED vars
  BY <1>1 DEF vars, historyVars, PieceInv
<1>2. CASE tx' = <<>> \/ tx'[1].fresh \/ ~tx'[1].whole
  BY <1>2 DEF PieceInv
<1>3. CASE Next
  <2>1. tx' \in Seq(LineType) /\ DOMAIN tx' = 1 .. Len(tx') /\ Len(tx') \in Nat
    BY <1>0, <1>3, StepKinds DEF TxInv
  <2>2. CASE Printed
    <3>1. tx'[1].fresh
      BY <2>1, <2>2 DEF Printed
    <3> QED
      BY <1>2, <3>1
  <2>3. CASE Interrupted
    BY <1>2, <2>3 DEF Interrupted
  <2>4. CASE Restarted
    <3>1. CASE tx' = <<>>
      BY <1>2, <3>1
    <3>2. CASE tx' # <<>>
      <4>1. 1 \in 1 .. Len(tx)
        BY <1>0, <2>1, <2>4, <3>2, EmptySeq DEF Restarted
      <4>2. ~tx'[1].fresh => ~tx'[1].whole
        BY <2>4, <4>1 DEF Restarted
      <4> QED
        BY <1>2, <4>2
    <3> QED
      BY <3>1, <3>2
  <2>5. ASSUME NEW n, NEW b, NEW whole, Consumed(n, b, whole), n + 1 = Len(Full(tx[1].what))
        PROVE  PieceInv'
    <3>1. Len(tx') = Len(tx) - 1 /\ \A k \in 1 .. Len(tx) - 1 : tx'[k] = tx[k + 1]
      <4>1. b = Feed \/ n + 1 < Len(Full(tx[1].what))
        BY <2>5 DEF Consumed
      <4>2. ~(n + 1 < Len(Full(tx[1].what)))
        <5>1. PICK u : u = n + 1
          OBVIOUS
        <5>2. u \in Nat
          BY <2>5, <5>1 DEF Consumed
        <5> QED
          BY <2>5, <5>1, <5>2
      <4> QED
        BY <2>5, <4>2 DEF Consumed
    <3>2. CASE tx' = <<>>
      BY <1>2, <3>2
    <3>3. CASE tx' # <<>>
      <4>1. 1 \in 1 .. Len(tx) - 1 /\ 2 \in 1 .. Len(tx)
        BY <1>0, <2>1, <3>1, <3>3, EmptySeq
      <4>2. tx'[1] = tx[2]
        BY <3>1, <4>1
      <4>3. ~tx[2].fresh => ~tx[2].whole
        BY <1>0, <4>1 DEF TxInv
      <4> QED
        BY <1>2, <4>2, <4>3
    <3> QED
      BY <3>2, <3>3
  <2>6. ASSUME NEW n, NEW b, Consumed(n, b, FALSE)
        PROVE  PieceInv'
    <3>1. CASE n + 1 = Len(Full(tx[1].what))
      BY <2>5, <2>6, <3>1
    <3>2. CASE n + 1 # Len(Full(tx[1].what))
      <4>1. tx'[1].whole = (tx[1].whole /\ FALSE)
        BY <2>6, <3>2 DEF Consumed
      <4> QED
        BY <1>2, <4>1
    <3> QED
      BY <3>1, <3>2
  <2>7. ASSUME NEW n, NEW b, NEW buf, NEW off, ReadStep(n, b, buf, off)
        PROVE  PieceInv'
    <3>1. Consumed(n, b, TRUE) /\ ReadBy(buf, off, b) /\ Added(buf, off, b)
      BY <2>7 DEF ReadStep, ReadBy
    <3>2. CASE n + 1 = Len(Full(tx[1].what))
      BY <2>5, <3>1, <3>2
    <3>3. CASE n + 1 # Len(Full(tx[1].what))
      <4>1. /\ n + 1 < Len(Full(tx[1].what)) /\ tx[1].what \in What /\ n \in Nat
            /\ b = Full(tx[1].what)[n + 1] /\ tx'[1].what = tx[1].what /\ Gone(tx'[1]) = n + 1
            /\ tx'[1].whole = (tx[1].whole /\ TRUE)
            /\ tx'[1].clean = IF n = 0 THEN Clear ELSE tx[1].clean
        BY <3>1, <3>3 DEF Consumed
      <4> SUFFICES ASSUME tx'[1].whole, tx'[1].clean, n + 1 < Window
                   PROVE  EndsWith(buffer', tx[1].what, n + 1)
        BY <4>1 DEF PieceInv, EndsWith
      <4>2. EndsWith(buf, tx[1].what, n + 1)
        <5>1. n + 1 <= Window
          BY <4>1, WindowType
        <5> QED
          BY <3>1, <4>1, <5>1, PieceRead
      <4>3. ~MessageIn(buf)
        <5>1. buf \in Seq(Token) /\ n + 1 \in Nat
          BY <3>1, <4>1 DEF Added
        <5> QED
          BY <4>1, <4>2, <5>1, PieceHasNoMessage
      <4>4. b # Tail_
        <5>1. n + 1 \in 1 .. Len(Full(tx[1].what)) /\ n + 1 # Window
          <6>1. Len(Full(tx[1].what)) \in Nat
            BY <4>1, FullTokens
          <6> QED
            BY <4>1, <6>1, WindowType
        <5> QED
          BY <4>1, <5>1, FullTokens
      <4>5. buffer' = buf
        BY <3>1, <4>3, <4>4 DEF ReadBy
      <4> QED
        BY <4>2, <4>5
    <3> QED
      BY <3>2, <3>3
  <2> QED
    BY <1>0, <1>3, <2>2, <2>3, <2>4, <2>6, <2>7, StepKinds DEF DropStep, DamageStep, LoseStep
<1> QED
  BY <1>1, <1>3

-----------------------------------------------------------------------------
(* The request for the time.                                                *)

\* The start of a request.
SyncStart == [t |-> "udm", text |-> "sync"]

\* Every step keeps what may follow the start of a request.
LEMMA SyncEndStep ==
  ASSUME TypeOK, TxInv, WindowInv, SyncEndInv, [Next]_vars
  PROVE  SyncEndInv'
<1>0. /\ buffer \in Seq(Token) /\ lost \in Nat
      /\ tx \in Seq(LineType) /\ DOMAIN tx = 1 .. Len(tx) /\ Len(tx) \in Nat
  BY RouterAssumption DEF TypeOK, TxInv
<1>1. CASE UNCHANGED vars
  BY <1>1 DEF vars, historyVars, SyncEndInv
<1>2. CASE tx' = <<>> \/ tx'[1].fresh \/ buffer' = <<>>
  BY <1>2 DEF SyncEndInv
<1>3. CASE Next
  <2>1. tx' \in Seq(LineType) /\ DOMAIN tx' = 1 .. Len(tx') /\ Len(tx') \in Nat
    BY <1>0, <1>3, StepKinds DEF TxInv
  <2>2. CASE Printed
    <3>1. tx'[1].fresh
      BY <2>1, <2>2 DEF Printed
    <3> QED
      BY <1>2, <3>1
  <2>3. CASE Interrupted
    BY <1>2, <2>3 DEF Interrupted
  <2>4. CASE Restarted
    BY <1>2, <2>4 DEF Restarted
  <2>5. ASSUME NEW c, NEW buf, NEW off, ReadBy(buf, off, c), buffer' # <<>>,
               buffer'[Len(buffer')] = SyncStart
        PROVE  c = SyncStart
    <3>1. WindowAfter(buf)
      BY <2>5, ReadWindow
    <3>2. Len(buf) \in Nat /\ Len(buf) >= 1 /\ buf[Len(buf)] = c
      BY <2>5 DEF ReadBy, Added
    <3>3. Len(buffer') \in Nat /\ Len(buffer') >= Len(buf) /\ Len(buffer') \in 1 .. Len(buffer')
      <4>1. buffer' \in Seq(Token) /\ Len(buffer') >= Len(buf)
        BY <3>1 DEF WindowAfter
      <4>2. Len(buffer') \in Nat
        BY <4>1, LenProperties
      <4> QED
        BY <3>2, <4>1, <4>2
    <3>4. buffer'[Len(buffer')] = IF Len(buffer') <= Len(buf) THEN buf[Len(buffer')] ELSE Zero
      BY <3>1, <3>3 DEF WindowAfter
    <3>5. SyncStart # Zero
      BY DEF SyncStart, Zero
    <3>6. Len(buffer') <= Len(buf)
      BY <2>5, <3>4, <3>5
    <3>7. Len(buffer') = Len(buf)
      BY <3>2, <3>3, <3>6
    <3> QED
      BY <2>5, <3>2, <3>4, <3>6, <3>7
  <2>6. ASSUME NEW n, NEW b, NEW buf, NEW off, ReadStep(n, b, buf, off)
        PROVE  SyncEndInv'
    <3> SUFFICES ASSUME buffer' # <<>>, buffer'[Len(buffer')] = SyncStart
                 PROVE  tx' = <<>> \/ tx'[1].fresh \/ (tx'[1].what = Sync /\ tx'[1].whole)
      BY DEF SyncEndInv, SyncStart
    <3>1. Consumed(n, b, TRUE) /\ ReadBy(buf, off, b)
      BY <2>6 DEF ReadStep
    <3>2. b = SyncStart /\ b # Feed
      BY <2>5, <3>1, TokenKinds DEF SyncStart
    <3>3. /\ n \in Nat /\ n < Len(Full(tx[1].what)) /\ b = Full(tx[1].what)[n + 1]
          /\ tx[1].what \in What /\ (tx[1].fresh <=> n = 0)
      BY <3>1 DEF Consumed
    <3>4. n = 0
      <4>1. Full(tx[1].what) \in Seq(Token)
        BY <3>3, FullTokens
      <4>2. n + 1 \in 1 .. Len(Full(tx[1].what)) /\ (n # 0 => n + 1 \in 2 .. Len(Full(tx[1].what)))
        BY <3>3, <4>1
      <4>3. b.t = "udm"
        BY <3>2 DEF SyncStart
      <4> QED
        BY <3>3, <4>2, <4>3, FullTokens
    <3>5. tx[1].what = Sync
      BY <3>2, <3>3, <3>4, FullTokens DEF SyncStart
    <3>6. tx[1].whole
      <4>1. 1 \in DOMAIN tx /\ tx[1].fresh
        BY <3>1, <3>3, <3>4 DEF Consumed, TxInv
      <4>2. LineOK(tx[1])
        BY <4>1 DEF TxInv
      <4> QED
        BY <4>1, <4>2 DEF LineOK
    <3>7. tx'[1].what = tx[1].what /\ tx'[1].whole = (tx[1].whole /\ TRUE)
      BY <3>1, <3>2 DEF Consumed
    <3> QED
      BY <3>5, <3>6, <3>7
  <2>7. ASSUME NEW n, NEW b, NEW c, NEW buf, NEW off, DamageStep(n, b, c, buf, off)
        PROVE  SyncEndInv'
    BY <2>5, <2>7 DEF DamageStep, SyncEndInv, SyncStart
  <2>8. ASSUME NEW n, NEW b, DropStep(n, b)
        PROVE  SyncEndInv'
    BY <1>2, <2>8 DEF DropStep, WindowInv
  <2>9. ASSUME NEW n, NEW b, LoseStep(n, b)
        PROVE  SyncEndInv'
    <3> SUFFICES ASSUME buffer # <<>>, buffer[Len(buffer)] = SyncStart
                 PROVE  tx' = <<>>
      BY <2>9 DEF LoseStep, SyncEndInv, SyncStart
    <3>1. Consumed(n, b, FALSE) /\ b.t \notin {"head", "udm"}
      BY <2>9 DEF LoseStep
    <3>2. /\ n \in Nat /\ n < Len(Full(tx[1].what)) /\ b = Full(tx[1].what)[n + 1]
          /\ tx[1].what \in What /\ (tx[1].fresh <=> n = 0) /\ tx # <<>>
      BY <3>1 DEF Consumed
    <3>3. n # 0
      BY <3>1, <3>2, FullTokens
    <3>4. tx[1].what = Sync
      BY <3>2, <3>3 DEF SyncEndInv, SyncStart
    <3>5. n + 1 = Len(Full(tx[1].what)) /\ ~(n + 1 < Len(Full(tx[1].what)))
      <4>1. Len(Full(tx[1].what)) = 2
        BY <3>2, <3>4, FullTokens
      <4> QED
        BY <3>2, <3>3, <4>1
    <3>6. Len(tx') = Len(tx) - 1
      BY <3>1, <3>5 DEF Consumed
    <3>7. Len(tx) = 1
      <4>1. 1 \in DOMAIN tx
        BY <3>1 DEF Consumed, TxInv
      <4> QED
        BY <3>4, <4>1 DEF TxInv
    <3>8. Len(tx') = 0
      BY <3>6, <3>7
    <3> QED
      BY <2>1, <3>8, EmptySeq
  <2> QED
    BY <1>0, <1>3, <2>2, <2>3, <2>4, <2>6, <2>7, <2>8, <2>9, StepKinds
<1> QED
  BY <1>1, <1>3

\* The message of a request.
LEMMA SyncMessage ==
  /\ Message("sync") = <<SyncStart, Feed>>
  /\ Len(Message("sync")) = 2 /\ Message("sync")[1] = SyncStart /\ Message("sync")[2] = Feed
<1>1. "sync" \in Text /\ "sync" # "created"
  BY DEF Text
<1>2. /\ Message("sync") \in Seq(Token) /\ Len(Message("sync")) = 2
      /\ Message("sync")[1] = SyncStart /\ Message("sync")[2] = Feed
  BY <1>1, MessageTokens DEF SyncStart
<1>3. Message("sync") = <<SyncStart, Feed>>
  BY <1>2
<1> QED
  BY <1>2, <1>3

\* A request that began behind no message is found.
LEMMA SyncIsFound ==
  ASSUME NEW buf \in Seq(Token), EndsWith(buf, Sync, 2)
  PROVE  FindMessage(buf) = Message("sync")
<1>1. Sync \in What
  BY DEF Sync, What, Text
<1>2. PICK s : s = Full(Sync)
  OBVIOUS
<1>3. Len(s) = 2 /\ s[1] = SyncStart /\ s[2] = Feed
  <2>1. Len(s) = 2 /\ s[1] = SyncStart /\ s[Len(s)] = Feed
    BY <1>1, <1>2, FullTokens DEF SyncStart
  <2> QED
    BY <2>1
<1>4. PICK p \in Nat : p = Len(buf)
  OBVIOUS
<1>5. /\ 2 <= p /\ \A k \in 1 .. 2 : buf[p - 2 + k] = s[k]
      /\ \A i \in 1 .. p - 2 : buf[i].t # "udm"
  BY <1>2, <1>4 DEF EndsWith
<1>6. buf[p - 1] = SyncStart /\ buf[p] = Feed
  <2>1. 1 \in 1 .. 2 /\ 2 \in 1 .. 2 /\ p - 2 + 1 = p - 1 /\ p - 2 + 2 = p
    BY <1>4
  <2>2. buf[p - 2 + 1] = s[1] /\ buf[p - 2 + 2] = s[2]
    BY <1>5, <2>1
  <2> QED
    BY <1>3, <2>1, <2>2
<1>7. p - 1 \in 1 .. p /\ p \in 1 .. p /\ p - 1 < p
  BY <1>4, <1>5
<1>8. MessageIn(buf)
  BY <1>4, <1>6, <1>7 DEF MessageIn, SyncStart
<1>9. PICK i, j \in 1 .. p :
        /\ i < j /\ buf[i].t = "udm" /\ buf[j] = Feed
        /\ \A k \in 1 .. p : buf[k].t = "udm" => i <= k
        /\ \A k \in 1 .. p : buf[k] = Feed => k <= j
        /\ FindMessage(buf) \in Seq(Token) /\ Len(FindMessage(buf)) = j - i + 1
        /\ \A k \in 1 .. j - i + 1 : FindMessage(buf)[k] = buf[i + k - 1]
  <2>1. \E i, j \in 1 .. Len(buf) :
        /\ i < j /\ buf[i].t = "udm" /\ buf[j] = Feed
        /\ \A k \in 1 .. Len(buf) : buf[k].t = "udm" => i <= k
        /\ \A k \in 1 .. Len(buf) : buf[k] = Feed => k <= j
        /\ FindMessage(buf) \in Seq(Token) /\ Len(FindMessage(buf)) = j - i + 1
        /\ \A k \in 1 .. j - i + 1 : FindMessage(buf)[k] = buf[i + k - 1]
    BY <1>8, FindMessageFinds, Zenon
  <2> QED
    BY <1>4, <2>1, Zenon
<1>10. j = p
  <2>1. p <= j
    BY <1>6, <1>7, <1>9
  <2> QED
    BY <1>4, <1>9, <2>1
<1>11. i = p - 1
  <2>1. ~(i \in 1 .. p - 2)
    BY <1>5, <1>9
  <2> QED
    BY <1>4, <1>9, <1>10, <2>1
<1>12. PICK m : m = FindMessage(buf)
  OBVIOUS
<1>13. m \in Seq(Token) /\ Len(m) = 2 /\ m[1] = SyncStart /\ m[2] = Feed
  <2>1. j - i + 1 = 2 /\ i + 1 - 1 = p - 1 /\ i + 2 - 1 = p
    BY <1>4, <1>10, <1>11
  <2>2. m[1] = buf[i + 1 - 1] /\ m[2] = buf[i + 2 - 1]
    <3>1. \A k \in 1 .. j - i + 1 : m[k] = buf[i + k - 1]
      BY <1>9, <1>12
    <3>2. 1 \in 1 .. j - i + 1 /\ 2 \in 1 .. j - i + 1
      BY <2>1
    <3> QED
      BY <3>1, <3>2, Zenon
  <2> QED
    BY <1>6, <1>9, <1>12, <2>1, <2>2
<1>14. m = <<SyncStart, Feed>>
  BY <1>13
<1> QED
  BY <1>12, <1>14, SyncMessage

\* In a cycle that has filled its window only the line feed of a request completes one.
LEMMA SyncIsNew ==
  ASSUME TypeOK, WindowInv, NEW b, NEW buf, NEW off, ReadBy(buf, off, b),
         FindMessage(buf) = Message("sync"), age' = Window
  PROVE  b = Feed /\ buffer # <<>> /\ buffer[Len(buffer)] = SyncStart
<1>1. PICK m \in Nat : m = Len(buffer)
  BY DEF TypeOK
<1>2. PICK p \in Nat : p = Len(buf)
  BY DEF ReadBy, Added
<1>3. /\ off \in Nat /\ p = m + 1 - off /\ p <= Window /\ p >= 1 /\ buf[p] = b
      /\ \A k \in 1 .. p - 1 : buf[k] = buffer[k + off]
  BY <1>1, <1>2 DEF ReadBy, Added
<1>4. /\ Window \in Nat /\ Window >= 4 /\ age \in Nat /\ age >= Window - 1
      /\ DOMAIN buffer = 1 .. m /\ buf \in Seq(Token)
  <2>1. Window \in Nat /\ Window >= 4 /\ age \in 0 .. Window /\ DOMAIN buffer = 1 .. m
    BY <1>1, WindowType DEF TypeOK
  <2>2. age' = 0 \/ age' = IF age < Window THEN age + 1 ELSE age
    BY DEF ReadBy
  <2> QED
    BY <2>1, <2>2 DEF ReadBy, Added
<1>5. MessageIn(buf)
  <2>1. FindMessage(buf) # <<>>
    BY SyncMessage
  <2> QED
    BY <1>4, <2>1, FindMessageFinds
<1>6. PICK i, j \in 1 .. p :
        /\ i < j /\ buf[i].t = "udm" /\ buf[j] = Feed
        /\ Len(FindMessage(buf)) = j - i + 1
        /\ \A k \in 1 .. j - i + 1 : FindMessage(buf)[k] = buf[i + k - 1]
  <2>1. \E i, j \in 1 .. Len(buf) :
        /\ i < j /\ buf[i].t = "udm" /\ buf[j] = Feed
        /\ Len(FindMessage(buf)) = j - i + 1
        /\ \A k \in 1 .. j - i + 1 : FindMessage(buf)[k] = buf[i + k - 1]
    BY <1>4, <1>5, FindMessageFinds, Zenon
  <2> QED
    BY <1>2, <2>1, Zenon
<1>7. j = i + 1 /\ buf[i] = SyncStart
  <2>1. j - i + 1 = 2
    BY <1>6, SyncMessage
  <2>2. 1 \in 1 .. j - i + 1 /\ i + 1 - 1 = i
    BY <1>6, <2>1
  <2>3. FindMessage(buf)[1] = buf[i + 1 - 1]
    BY <1>6, <2>2
  <2> QED
    BY <1>6, <2>1, <2>2, <2>3, SyncMessage
<1>8. j = p
  <2> SUFFICES ASSUME j # p PROVE FALSE
    OBVIOUS
  <2>1. /\ i \in 1 .. p - 1 /\ j \in 1 .. p - 1 /\ i + off \in 1 .. m /\ j + off \in 1 .. m
        /\ i + off < j + off
    BY <1>3, <1>6
  <2>2. buffer[i + off].t = "udm" /\ buffer[j + off] = Feed
    BY <1>3, <1>6, <2>1
  <2>3. m - (j + off) >= age
    BY <1>1, <1>4, <2>1, <2>2 DEF WindowInv
  <2> QED
    BY <1>3, <1>4, <2>1, <2>3
<1>9. b = Feed
  BY <1>3, <1>6, <1>8
<1>10. i \in 1 .. p - 1 /\ i + off = m /\ m >= 1
  BY <1>3, <1>6, <1>7, <1>8
<1>11. buffer[m] = SyncStart
  BY <1>3, <1>7, <1>10
<1>12. buffer # <<>>
  BY <1>1, <1>10
<1> QED
  BY <1>1, <1>9, <1>11, <1>12

\* Every step answers a request that it completes, and no other.
LEMMA SyncStep ==
  ASSUME TypeOK, TxInv, WindowInv, PieceInv, SyncEndInv, SyncAnswered, [Next]_vars
  PROVE  SyncAnswered'
<1>1. CASE UNCHANGED vars
  BY <1>1 DEF vars, historyVars, SyncAnswered
<1>2. CASE got' = NoLine /\ did' = Nothing
  <2>1. Nothing.sync = FALSE
    BY DEF Nothing
  <2> QED
    BY <1>2, <2>1, NoLineIs DEF SyncAnswered, Sync
<1>3. ASSUME NEW n, NEW b, NEW buf, NEW off, ReadStep(n, b, buf, off)
      PROVE  SyncAnswered'
  <2>1. Consumed(n, b, TRUE) /\ ReadBy(buf, off, b) /\ got' = Completed(tx[1])
    BY <1>3 DEF ReadStep
  <2>2. /\ n \in Nat /\ n < Len(Full(tx[1].what)) /\ b = Full(tx[1].what)[n + 1]
        /\ tx[1].what \in What /\ (tx[1].fresh <=> n = 0) /\ tx # <<>>
        /\ b = Head(Head(tx).rest)
    BY <2>1 DEF Consumed
  <2>3. did'.sync = (FindMessage(buf) = Message("sync")) /\ Added(buf, off, b) /\ buf \in Seq(Token)
    BY <2>1 DEF ReadBy, Added
  <2>4. ASSUME got'.clean, got'.what = Sync PROVE did'.sync
    <3>1. Completed(tx[1]) # NoLine
      BY <2>1, <2>4, NoLineIs
    <3>2. tx[1].whole /\ tx[1].what = Sync /\ tx[1].clean
      <4>1. tx[1].whole /\ b = EndToken(tx[1].what)
        BY <2>2, <3>1, CompletedLine
      <4> QED
        BY <2>1, <2>2, <2>4, <4>1, CompletedLine
    <3>3. ~IsPacket(tx[1].what)
      BY <3>2 DEF IsPacket, Sync
    <3>4. b = Feed
      <4>1. b = EndToken(tx[1].what)
        BY <2>2, <3>1, CompletedLine
      <4> QED
        BY <3>3, <4>1 DEF EndToken
    <3>5. n + 1 = 2
      <4>1. Len(Full(tx[1].what)) = 2 /\ Full(tx[1].what)[1] = SyncStart
        BY <2>2, <3>2, FullTokens DEF SyncStart
      <4>2. SyncStart # Feed
        BY DEF SyncStart, Feed
      <4> QED
        <5>1. n = 0 => n + 1 = 1
          OBVIOUS
        <5>2. n # 0
          BY <2>2, <3>4, <4>1, <4>2, <5>1
        <5> QED
          BY <2>2, <4>1, <5>2
    <3>6. n + 1 <= Window /\ n # 0
      BY <2>2, <3>5, WindowType
    <3>7. EndsWith(buf, tx[1].what, n + 1)
      BY <2>1, <2>3, <3>2, <3>6, PieceRead
    <3>8. FindMessage(buf) = Message("sync")
      BY <2>3, <3>2, <3>5, <3>7, SyncIsFound
    <3> QED
      BY <2>3, <3>8
  <2>5. ASSUME did'.sync, age' = Window PROVE got'.what = Sync
    <3>1. b = Feed /\ buffer # <<>> /\ buffer[Len(buffer)] = SyncStart
      BY <2>1, <2>3, <2>5, SyncIsNew
    <3>2. n # 0
      <4>1. Full(tx[1].what)[1].t \in {"head", "udm"}
        BY <2>2, FullTokens
      <4> QED
        <5>1. n = 0 => n + 1 = 1
          OBVIOUS
        <5>2. n = 0 => Full(tx[1].what)[1] = Feed
          BY <2>2, <3>1, <5>1
        <5> QED
          BY <4>1, <5>2, TokenKinds
    <3>3. tx[1].what = Sync /\ tx[1].whole
      BY <2>2, <3>1, <3>2 DEF SyncEndInv, SyncStart
    <3>4. ~IsPacket(tx[1].what)
      BY <3>3 DEF IsPacket, Sync
    <3>5. b = EndToken(tx[1].what)
      BY <3>1, <3>4 DEF EndToken
    <3> QED
      BY <2>1, <2>2, <3>3, <3>5, CompletedLine
  <2> QED
    BY <2>4, <2>5 DEF SyncAnswered, Sync
<1>4. ASSUME NEW n, NEW b, NEW c, NEW buf, NEW off, DamageStep(n, b, c, buf, off)
      PROVE  SyncAnswered'
  <2>1. got' = NoLine /\ ReadBy(buf, off, c) /\ c.t \in {"junk", "udm", "other"}
    BY <1>4 DEF DamageStep
  <2>2. c # Feed
    BY <2>1, TokenKinds
  <2>3. ~(did'.sync /\ age' = Window)
    <3>1. did'.sync = (FindMessage(buf) = Message("sync"))
      BY <2>1 DEF ReadBy
    <3> QED
      BY <2>1, <2>2, <3>1, SyncIsNew
  <2> QED
    BY <2>1, <2>3, NoLineIs DEF SyncAnswered, Sync
<1>5. CASE Next
  <2>1. buffer \in Seq(Token) /\ lost \in Nat
    BY RouterAssumption DEF TypeOK
  <2> QED
    BY <1>2, <1>3, <1>4, <1>5, <2>1, StepKinds
      DEF Printed, Interrupted, Restarted, DropStep, LoseStep
<1> QED
  BY <1>1, <1>5

\* The initial state.
LEMMA InitLines ==
  ASSUME Init
  PROVE  PieceInv /\ SyncEndInv /\ SyncAnswered /\ HeaderInv /\ PacketsHandledOnce
<1>1. buffer = <<>> /\ tx = <<>> /\ got = NoLine /\ did = Nothing
  BY DEF Init
<1>2. DOMAIN buffer = {} /\ Nothing.sync = FALSE
  BY <1>1 DEF Nothing
<1>3. PieceInv /\ SyncEndInv /\ HeaderInv
  BY <1>1, <1>2 DEF PieceInv, SyncEndInv, HeaderInv
<1>4. SyncAnswered
  BY <1>1, <1>2, NoLineIs DEF SyncAnswered, Sync
<1>5. PacketsHandledOnce
  BY <1>1, NoLineIs DEF PacketsHandledOnce, IsPacket
<1> QED
  BY <1>3, <1>4, <1>5

\* The root's only request for the time is answered if the window held no other message,
\* and in a cycle that has filled its window it is answered once, whatever is lost.
THEOREM RouterAnswersSync == Spec => []SyncAnswered
<1> DEFINE Inv == TypeOK /\ TxInv /\ WindowInv /\ PieceInv /\ SyncEndInv /\ SyncAnswered
<1>1. Init => Inv
  BY InitTypes, InitWindow, InitLines
<1>2. Inv /\ [Next]_vars => Inv'
  BY TypesStep, WindowStep, PieceStep, SyncEndStep, SyncStep
<1>3. Inv => SyncAnswered
  OBVIOUS
<1> QED
  BY <1>1, <1>2, <1>3, PTL DEF Spec

-----------------------------------------------------------------------------
(* Packets.                                                                 *)

\* A window that holds a packet's line up to its end mark is that packet.
LEMMA PacketIsFound ==
  ASSUME NEW buf \in Seq(Token), NEW p \in Packet, Len(buf) = Window,
         \A k \in 1 .. Window : buf[k] = dag_root_raw_print(p)[k]
  PROVE  PacketRead(buf) = p
<1>1. Window \in Nat /\ Window >= 4
  BY WindowType
<1>2. PICK s : s = dag_root_raw_print(p)
  OBVIOUS
<1>3. /\ s[1] = Head_ /\ s[Window] = Tail_
      /\ \A k \in 2 .. Window - 1 : s[k] = [t |-> "place", of |-> p, i |-> k - 1]
  BY <1>2, PacketTokens
<1>4. FindPacket(buf)
  BY <1>1, <1>2, <1>3 DEF FindPacket
<1>5. \A k \in 2 .. Window - 1 : buf[k] = [t |-> "place", of |-> p, i |-> k - 1]
  <2> SUFFICES ASSUME NEW k \in 2 .. Window - 1
               PROVE  buf[k] = [t |-> "place", of |-> p, i |-> k - 1]
    OBVIOUS
  <2>1. k \in 1 .. Window
    BY <1>1
  <2> QED
    BY <1>2, <1>3, <2>1
<1> QED
  BY <1>4, <1>5, ParseCases

\* A packet that began behind no message and was read in one piece is handled.
WholePacketsHandled == got.clean /\ "packet" \in DOMAIN got.what => did.packet = got.what.packet

\* Nothing but such packets is handled.
OnlyWholePackets == did.packet # Nothing.packet => got.what = [packet |-> did.packet]

\* The end mark of a packet that is read.
LEMMA EndMark ==
  ASSUME NEW n, NEW b, Consumed(n, b, TRUE), b = Tail_
  PROVE  /\ n + 1 = Window /\ n \in Nat /\ IsPacket(tx[1].what) /\ tx[1].what.packet \in Packet
         /\ tx[1].what = [packet |-> tx[1].what.packet]
         /\ Full(tx[1].what) = dag_root_raw_print(tx[1].what.packet)
<1>1. /\ n \in Nat /\ n < Len(Full(tx[1].what)) /\ b = Full(tx[1].what)[n + 1]
      /\ tx[1].what \in What
  BY DEF Consumed
<1>2. n + 1 \in 1 .. Len(Full(tx[1].what))
  <2>1. Len(Full(tx[1].what)) \in Nat
    BY <1>1, FullTokens
  <2> QED
    BY <1>1, <2>1
<1> QED
  BY <1>1, <1>2, FullTokens, WhatKinds

\* Every step handles a packet that it completes.
LEMMA HandledStep ==
  ASSUME TypeOK, TxInv, PieceInv, WholePacketsHandled, [Next]_vars
  PROVE  WholePacketsHandled'
<1>1. CASE UNCHANGED vars
  BY <1>1 DEF vars, historyVars, WholePacketsHandled
<1>2. CASE got' = NoLine
  BY <1>2, NoLineIs DEF WholePacketsHandled, IsPacket
<1>3. ASSUME NEW n, NEW b, NEW buf, NEW off, ReadStep(n, b, buf, off)
      PROVE  WholePacketsHandled'
  <2> SUFFICES ASSUME got'.clean, IsPacket(got'.what) PROVE did'.packet = got'.what.packet
    BY DEF WholePacketsHandled, IsPacket
  <2>1. Consumed(n, b, TRUE) /\ ReadBy(buf, off, b) /\ got' = Completed(tx[1])
    BY <1>3 DEF ReadStep
  <2>2. Completed(tx[1]) # NoLine
    BY <2>1, NoLineIs
  <2>3. tx[1].whole /\ got'.what = tx[1].what /\ tx[1].clean /\ b = EndToken(tx[1].what)
    <3>1. tx # <<>> /\ tx[1].what \in What /\ b = Head(Head(tx).rest)
      BY <2>1 DEF Consumed
    <3>2. tx[1].whole /\ b = EndToken(tx[1].what)
      BY <2>2, <3>1, CompletedLine
    <3> QED
      BY <2>1, <3>1, <3>2, CompletedLine
  <2>4. b = Tail_
    BY <2>3 DEF EndToken
  <2>5. PICK p \in Packet : p = tx[1].what.packet /\ Full(tx[1].what) = dag_root_raw_print(p)
    BY <2>1, <2>4, EndMark
  <2>6. n + 1 = Window /\ n \in Nat /\ Window \in Nat /\ Window >= 4
    BY <2>1, <2>4, EndMark, WindowType
  <2>7. Added(buf, off, b) /\ did'.packet = PacketRead(buf) /\ buf \in Seq(Token) /\ Len(buf) \in Nat
    BY <2>1 DEF ReadBy, Added
  <2>8. n + 1 <= Window /\ n # 0
    BY <2>6
  <2>9. EndsWith(buf, tx[1].what, n + 1)
    BY <2>1, <2>3, <2>7, <2>8, PieceRead
  <2>10. Len(buf) = Window
    BY <2>6, <2>7, <2>9 DEF EndsWith
  <2>11. ASSUME NEW k \in 1 .. Window PROVE buf[k] = dag_root_raw_print(p)[k]
    <3>1. Len(buf) - (n + 1) + k = k /\ k \in 1 .. n + 1
      BY <2>6, <2>10
    <3>2. buf[Len(buf) - (n + 1) + k] = Full(tx[1].what)[k]
      BY <2>9, <3>1 DEF EndsWith
    <3> QED
      BY <2>5, <3>1, <3>2
  <2>12. PacketRead(buf) = p
    BY <2>7, <2>10, <2>11, PacketIsFound
  <2> QED
    BY <2>3, <2>5, <2>7, <2>12
<1>4. CASE Next
  <2>1. buffer \in Seq(Token) /\ lost \in Nat
    BY RouterAssumption DEF TypeOK
  <2> QED
    BY <1>2, <1>3, <1>4, <2>1, StepKinds
      DEF Printed, Interrupted, Restarted, DropStep, DamageStep, LoseStep
<1> QED
  BY <1>1, <1>4

\* A packet that the root printed in one piece and the router read in one cycle is
\* handled, whatever was lost or interrupted before it, unless the window held a message
\* when it began.
THEOREM RouterHandlesPackets == Spec => []WholePacketsHandled
<1> DEFINE Inv == TypeOK /\ TxInv /\ PieceInv /\ WholePacketsHandled
<1>1. Init => Inv
  BY InitTypes, InitLines DEF PacketsHandledOnce, WholePacketsHandled
<1>2. Inv /\ [Next]_vars => Inv'
  BY TypesStep, PieceStep, HandledStep
<1>3. Inv => WholePacketsHandled
  OBVIOUS
<1> QED
  BY <1>1, <1>2, <1>3, PTL DEF Spec

\* What HeaderInv says of the header at i.
Headed(i) ==
  \/ \E j \in DOMAIN buffer : i < j /\ buffer[j].t \in {"udm", "feed", "other"}
  \/ tx # <<>> /\ tx[1].fresh /\ tx[1].what = Info
  \/ /\ tx # <<>> /\ ~tx[1].fresh /\ tx[1].whole /\ IsPacket(tx[1].what)
     /\ \/ Len(buffer) - i >= Gone(tx[1])
        \/ /\ Len(buffer) - i = Gone(tx[1]) - 1
           /\ \A k \in 1 .. Gone(tx[1]) - 1 : buffer[i + k] = Full(tx[1].what)[k + 1]

LEMMA HeaderIs == HeaderInv <=> (lost = 0 => \A i \in DOMAIN buffer : buffer[i] = Head_ => Headed(i))
  BY DEF HeaderInv, Headed, IsPacket

\* A byte that is read keeps the headers in order.
LEMMA ReadKeepsHeaders ==
  ASSUME TypeOK, TxInv, HeaderInv, lost = 0, NEW n, NEW b, NEW buf, NEW off,
         ReadStep(n, b, buf, off), WindowAfter(buf),
         NEW i \in DOMAIN buffer', buffer'[i] = Head_
  PROVE  Headed(i)'
<1>1. Consumed(n, b, TRUE) /\ Added(buf, off, b)
  BY DEF ReadStep, ReadBy
<1>2. PICK m \in Nat : m = Len(buffer)
  BY DEF TypeOK
<1>3. PICK p \in Nat : p = Len(buf)
  BY <1>1 DEF Added
<1>4. /\ off \in Nat /\ p = m + 1 - off /\ p >= 1 /\ buf[p] = b
      /\ \A k \in 1 .. p - 1 : buf[k] = buffer[k + off]
  BY <1>1, <1>2, <1>3 DEF Added
<1>5. PICK q \in Nat : q = Len(buffer')
  <2>1. buffer' \in Seq(Token)
    BY DEF WindowAfter
  <2> QED
    BY <2>1, LenProperties
<1>6. /\ DOMAIN buffer' = 1 .. q /\ (q = p \/ q = 2 * p)
      /\ \A k \in 1 .. q : buffer'[k] = IF k <= p THEN buf[k] ELSE Zero
  BY <1>3, <1>5 DEF WindowAfter
<1>7. i \in 1 .. p /\ buf[i] = Head_
  <2>1. i \in 1 .. q
    BY <1>6
  <2>2. buffer'[i] = IF i <= p THEN buf[i] ELSE Zero
    BY <1>6, <2>1
  <2>3. Head_ # Zero
    BY DEF Head_, Zero
  <2>4. i <= p /\ buf[i] = Head_
    BY <2>2, <2>3
  <2> QED
    BY <1>5, <2>1, <2>4
<1>8. \A k \in 1 .. p : k \in DOMAIN buffer' /\ buffer'[k] = buf[k]
  <2> SUFFICES ASSUME NEW k \in 1 .. p PROVE k \in 1 .. q /\ k <= p
    BY <1>6
  <2> QED
    BY <1>3, <1>5, <1>6
<1>9. PICK s : s = Full(tx[1].what)
  OBVIOUS
<1>10. /\ n \in Nat /\ n < Len(s) /\ b = s[n + 1] /\ (tx[1].fresh <=> n = 0) /\ n = Gone(tx[1])
       /\ tx # <<>> /\ tx[1].what \in What /\ Len(tx) \in Nat /\ Len(tx) >= 1
  BY <1>1, <1>9 DEF Consumed
<1>11. ASSUME b # Feed
       PROVE  /\ tx' # <<>> /\ tx'[1].what = tx[1].what /\ Gone(tx'[1]) = n + 1
              /\ tx'[1].fresh = FALSE /\ tx'[1].whole = (tx[1].whole /\ TRUE)
  <2>1. /\ Len(tx') = Len(tx) /\ tx'[1].what = tx[1].what /\ Gone(tx'[1]) = n + 1
        /\ tx'[1].fresh = FALSE /\ tx'[1].whole = (tx[1].whole /\ TRUE)
    BY <1>1, <1>11 DEF Consumed
  <2>2. tx' # <<>>
    BY <1>10, <2>1
  <2> QED
    BY <2>1, <2>2
<1>12. CASE i = p
  <2>1. b = Head_ /\ b # Feed
    BY <1>4, <1>7, <1>12, TokenKinds
  <2>2. n = 0
    <3>1. Len(s) \in Nat
      BY <1>9, <1>10, FullTokens
    <3>2. n # 0 => n + 1 \in 2 .. Len(s)
      BY <1>10, <3>1
    <3>3. b.t = "head"
      BY <2>1, TokenKinds
    <3> QED
      BY <1>9, <1>10, <3>2, <3>3, FullTokens
  <2>3. IsPacket(tx[1].what)
    <3>1. s[1] = Head_
      BY <1>10, <2>1, <2>2
    <3> QED
      BY <1>9, <1>10, <3>1, FullTokens
  <2>4. tx[1].whole
    <3>1. 1 \in DOMAIN tx
      BY <1>10 DEF TxInv
    <3>2. LineOK(tx[1])
      BY <3>1 DEF TxInv
    <3> QED
      BY <1>10, <2>2, <3>2 DEF LineOK
  <2>5. Gone(tx'[1]) = 1
    BY <1>11, <2>1, <2>2
  <2>6. q - i >= 1 \/ q - i = 1 - 1
    BY <1>3, <1>4, <1>6, <1>12
  <2>7. \A k \in 1 .. 1 - 1 : buffer'[i + k] = Full(tx'[1].what)[k + 1]
    OBVIOUS
  <2> QED
    BY <1>5, <1>11, <2>1, <2>3, <2>4, <2>5, <2>6, <2>7 DEF Headed
<1>13. CASE i # p
  <2>1. i \in 1 .. p - 1 /\ i + off \in 1 .. m
    BY <1>4, <1>7, <1>13
  <2>2. buffer[i + off] = Head_ /\ i + off \in DOMAIN buffer /\ DOMAIN buffer = 1 .. m
    <3>1. DOMAIN buffer = 1 .. m
      BY <1>2, LenProperties DEF TypeOK
    <3>2. buf[i] = buffer[i + off]
      BY <1>4, <2>1
    <3> QED
      BY <1>7, <2>1, <3>1, <3>2
  <2>3. Headed(i + off)
    BY <2>2, HeaderIs
  <2>4. ASSUME b.t \in {"udm", "feed", "other"} PROVE Headed(i)'
    <3>1. p \in DOMAIN buffer' /\ buffer'[p] = b /\ i < p
      BY <1>4, <1>8, <2>1
    <3> QED
      BY <2>4, <3>1 DEF Headed
  <2>5. CASE \E j \in DOMAIN buffer : i + off < j /\ buffer[j].t \in {"udm", "feed", "other"}
    <3>1. PICK j \in 1 .. m : i + off < j /\ buffer[j].t \in {"udm", "feed", "other"}
      BY <2>2, <2>5
    <3>2. j - off \in 1 .. p - 1 /\ j - off \in 1 .. p /\ (j - off) + off = j /\ i < j - off
      BY <1>4, <2>1, <3>1
    <3>3. buf[j - off] = buffer[j]
      BY <1>4, <3>2
    <3>4. j - off \in DOMAIN buffer' /\ buffer'[j - off] = buffer[j]
      BY <1>8, <3>2, <3>3
    <3> QED
      BY <3>1, <3>2, <3>4 DEF Headed
  <2>6. CASE tx[1].fresh /\ tx[1].what = Info
    <3>1. s = Message("info")
      BY <1>9, <2>6 DEF Full, Info
    <3>2. s[1] = [t |-> "udm", text |-> "info"]
      BY <3>1, MessageTokens DEF Text
    <3>3. b.t = "udm"
      BY <1>10, <2>6, <3>2
    <3> QED
      BY <2>4, <3>3
  <2>7. CASE /\ ~tx[1].fresh /\ tx[1].whole /\ IsPacket(tx[1].what)
             /\ \/ m - (i + off) >= n
                \/ /\ m - (i + off) = n - 1
                   /\ \A k \in 1 .. n - 1 : buffer[(i + off) + k] = s[k + 1]
    <3>1. PICK pp \in Packet : s = dag_root_raw_print(pp)
      BY <1>9, <1>10, <2>7, FullTokens, WhatKinds
    <3>2. /\ Len(s) = Window + 2 /\ s[Window + 1] = Other /\ s[Window + 2] = Feed
          /\ Window \in Nat /\ Window >= 4
      BY <3>1, PacketTokens, WindowType
    <3>3. CASE n + 1 > Window
      <4>1. n + 1 = Window + 1 \/ n + 1 = Window + 2
        BY <1>10, <3>2, <3>3
      <4>2. b = Other \/ b = Feed
        BY <1>10, <3>2, <4>1
      <4> QED
        BY <2>4, <4>2, TokenKinds
    <3>4. CASE ~(n + 1 > Window)
      <4>1. b # Feed
        <5>1. n + 1 \in 1 .. Len(s) - 1
          BY <1>10, <3>2, <3>4
        <5> QED
          BY <1>9, <1>10, <5>1, FullTokens
      <4>2. /\ tx' # <<>> /\ ~tx'[1].fresh /\ tx'[1].whole /\ IsPacket(tx'[1].what)
            /\ Gone(tx'[1]) = n + 1 /\ Full(tx'[1].what) = s
        BY <1>9, <1>11, <2>7, <4>1
      <4>3. CASE q - i >= n + 1
        BY <1>5, <4>2, <4>3 DEF Headed
      <4>4. CASE ~(q - i >= n + 1)
        <5>1. q = p /\ m - (i + off) = n - 1
          <6>1. m - (i + off) >= n \/ m - (i + off) = n - 1
            BY <2>7
          <6>2. i \in 1 .. p - 1 /\ p = m + 1 - off /\ off \in Nat
            BY <1>4, <2>1
          <6> QED
            BY <1>6, <1>10, <4>4, <6>1, <6>2
        <5>2. \A k \in 1 .. n - 1 : buffer[(i + off) + k] = s[k + 1]
          <6>1. ~(m - (i + off) >= n)
            BY <1>4, <1>10, <2>1, <5>1
          <6> QED
            BY <2>7, <6>1
        <5>3. q - i = (n + 1) - 1 /\ i + n = p
          <6>1. i \in 1 .. p - 1 /\ p = m + 1 - off /\ off \in Nat
            BY <1>4, <2>1
          <6>2. n \in Nat /\ i \in Nat
            BY <1>10, <6>1
          <6>3. i + n = p
            BY <5>1, <6>1, <6>2
          <6> QED
            BY <5>1, <6>1, <6>2, <6>3
        <5>4. ASSUME NEW k \in 1 .. (n + 1) - 1 PROVE buffer'[i + k] = s[k + 1]
          <6>1. CASE k = n
            <7>1. i + k = p /\ p \in 1 .. p
              BY <1>4, <5>3, <6>1
            <7>2. buffer'[p] = b
              BY <1>4, <1>8, <7>1
            <7> QED
              BY <1>10, <6>1, <7>1, <7>2
          <6>2. CASE k # n
            <7>1. k \in 1 .. n - 1 /\ i + k \in 1 .. p - 1 /\ i + k \in 1 .. p
              <8>1. n \in Nat /\ i \in 1 .. p - 1
                BY <1>10, <2>1
              <8>2. k <= n - 1
                BY <6>2, <8>1
              <8> QED
                BY <5>3, <8>1, <8>2
            <7>2. (i + k) + off = (i + off) + k
              BY <1>4, <2>1
            <7>3. buffer'[i + k] = buf[i + k] /\ buf[i + k] = buffer[(i + k) + off]
              BY <1>4, <1>8, <7>1
            <7> QED
              BY <5>2, <7>1, <7>2, <7>3
          <6> QED
            BY <6>1, <6>2
        <5> QED
          BY <1>5, <4>2, <5>3, <5>4 DEF Headed
      <4> QED
        BY <4>3, <4>4
    <3> QED
      BY <3>3, <3>4
  <2> QED
    BY <1>2, <1>9, <1>10, <2>3, <2>5, <2>6, <2>7 DEF Headed
<1> QED
  BY <1>12, <1>13

\* Every step without a loss keeps the headers in order.
LEMMA HeaderStep ==
  ASSUME TypeOK, TxInv, WindowInv, HeaderInv, [Next]_vars
  PROVE  HeaderInv'
<1>0. buffer \in Seq(Token) /\ lost \in Nat
  BY RouterAssumption DEF TypeOK
<1>1. CASE UNCHANGED vars
  BY <1>1 DEF vars, historyVars, HeaderInv
<1>2. CASE buffer' = <<>> \/ lost' # 0
  BY <1>2 DEF HeaderInv
<1>3. CASE Printed
  <2>1. tx = <<>> /\ buffer' = buffer /\ lost' = lost
    BY <1>3 DEF Printed
  <2>2. lost = 0 => \A i \in DOMAIN buffer : buffer[i] = Head_ =>
          \E j \in DOMAIN buffer : i < j /\ buffer[j].t \in {"udm", "feed", "other"}
    BY <2>1 DEF HeaderInv
  <2> QED
    BY <2>1, <2>2 DEF HeaderInv
<1>4. CASE Interrupted
  <2>1. tx'[1].fresh /\ tx'[1].what = Info /\ Len(tx') = Len(tx) + 1 /\ tx \in Seq(LineType)
    BY <1>4 DEF Interrupted, TxInv
  <2>2. tx' # <<>>
    BY <2>1
  <2> QED
    BY <2>1, <2>2 DEF HeaderInv
<1>5. CASE Restarted
  BY <1>2, <1>5 DEF Restarted
<1>6. ASSUME NEW n, NEW b, NEW buf, NEW off, ReadStep(n, b, buf, off)
      PROVE  HeaderInv'
  <2>1. ReadBy(buf, off, b) /\ lost' = lost
    BY <1>6 DEF ReadStep
  <2>2. CASE buffer' = <<>>
    BY <1>2, <2>2
  <2>3. CASE WindowAfter(buf)
    <3>1. ASSUME lost = 0, NEW i \in DOMAIN buffer', buffer'[i] = Head_ PROVE Headed(i)'
      BY <1>6, <2>3, <3>1, ReadKeepsHeaders
    <3> QED
      BY <2>1, <3>1 DEF HeaderInv, Headed, IsPacket
  <2> QED
    BY <2>1, <2>2, <2>3, ReadWindow
<1>7. CASE \E n, b : DropStep(n, b)
  BY <1>2, <1>7 DEF DropStep, WindowInv
<1>8. CASE Next
  BY <1>0, <1>2, <1>3, <1>4, <1>5, <1>6, <1>7, <1>8, StepKinds DEF DamageStep, LoseStep
<1> QED
  BY <1>1, <1>8

\* Every step without a loss handles nothing but the packet that it completes.
LEMMA OnlyStep ==
  ASSUME TypeOK, TxInv, HeaderInv, lost = 0 => OnlyWholePackets, [Next]_vars
  PROVE  (lost = 0 => OnlyWholePackets)'
<1>1. CASE UNCHANGED vars
  BY <1>1 DEF vars, historyVars, OnlyWholePackets
<1>2. CASE did' = Nothing \/ lost' # 0
  BY <1>2 DEF OnlyWholePackets
<1>3. ASSUME NEW n, NEW b, NEW buf, NEW off, ReadStep(n, b, buf, off)
      PROVE  (lost = 0 => OnlyWholePackets)'
  <2>1. /\ Consumed(n, b, TRUE) /\ Added(buf, off, b) /\ got' = Completed(tx[1]) /\ lost' = lost
        /\ did'.packet = PacketRead(buf)
    BY <1>3 DEF ReadStep, ReadBy
  <2> SUFFICES ASSUME lost = 0, PacketRead(buf) # Nothing.packet
               PROVE  got'.what = [packet |-> PacketRead(buf)]
    BY <2>1 DEF OnlyWholePackets
  <2>2. PICK m \in Nat : m = Len(buffer)
    BY DEF TypeOK
  <2>3. /\ Window \in Nat /\ Window >= 4 /\ buf \in Seq(Token) /\ DOMAIN buffer = 1 .. m
    BY <2>1, <2>2, WindowType DEF TypeOK, Added
  <2>4. FindPacket(buf)
    BY DEF PacketRead
  <2>5. Len(buf) = Window /\ buf[1] = Head_ /\ buf[Window] = Tail_
    BY <2>4 DEF FindPacket
  <2>6. /\ off \in Nat /\ Window = m + 1 - off /\ buf[Window] = b
        /\ \A k \in 1 .. Window - 1 : buf[k] = buffer[k + off]
    BY <2>1, <2>2, <2>5 DEF Added
  <2>7. b = Tail_
    BY <2>5, <2>6
  <2>8. PICK p \in Packet : /\ p = tx[1].what.packet /\ tx[1].what = [packet |-> p]
                            /\ Full(tx[1].what) = dag_root_raw_print(p)
    BY <2>1, <2>7, EndMark
  <2>9. n + 1 = Window /\ n \in Nat /\ IsPacket(tx[1].what)
    BY <2>1, <2>7, EndMark
  <2>10. /\ n = Gone(tx[1]) /\ (tx[1].fresh <=> n = 0) /\ tx # <<>> /\ tx[1].what \in What
         /\ b = Head(Head(tx).rest)
    BY <2>1 DEF Consumed
  <2>11. 1 + off \in 1 .. m /\ 1 \in 1 .. Window - 1
    BY <2>3, <2>6
  <2>12. buffer[1 + off] = Head_
    BY <2>5, <2>6, <2>11
  <2>13. Headed(1 + off)
    BY <2>3, <2>11, <2>12, HeaderIs
  <2>14. ~\E j \in DOMAIN buffer : 1 + off < j /\ buffer[j].t \in {"udm", "feed", "other"}
    <3> SUFFICES ASSUME NEW j \in 1 .. m, 1 + off < j, buffer[j].t \in {"udm", "feed", "other"}
                 PROVE  FALSE
      BY <2>3
    <3>1. j - off \in 2 .. Window - 1 /\ j - off \in 1 .. Window - 1 /\ (j - off) + off = j
            /\ j - off <= Window
      BY <2>3, <2>6
    <3>2. buf[j - off] = buffer[j]
      BY <2>6, <3>1
    <3> QED
      BY <2>3, <2>5, <3>1, <3>2, ParseCases
  <2>15. ~tx[1].fresh
    BY <2>3, <2>9, <2>10
  <2>16. m - (1 + off) = n - 1 /\ ~(m - (1 + off) >= n)
    BY <2>3, <2>6, <2>9
  <2>17. tx[1].whole /\ \A k \in 1 .. n - 1 : buffer[(1 + off) + k] = Full(tx[1].what)[k + 1]
    BY <2>2, <2>10, <2>13, <2>14, <2>15, <2>16 DEF Headed
  <2>18. ASSUME NEW k \in 1 .. Window PROVE buf[k] = dag_root_raw_print(p)[k]
    <3>1. PICK s : s = dag_root_raw_print(p)
      OBVIOUS
    <3>2. s[1] = Head_ /\ s[Window] = Tail_
      BY <3>1, PacketTokens
    <3>3. CASE k = 1 \/ k = Window
      BY <2>5, <3>1, <3>2, <3>3
    <3>4. CASE ~(k = 1 \/ k = Window)
      <4>1. k - 1 \in 1 .. n - 1 /\ k \in 1 .. Window - 1 /\ (1 + off) + (k - 1) = k + off
              /\ (k - 1) + 1 = k
        BY <2>3, <2>6, <2>9, <3>4
      <4>2. buffer[(1 + off) + (k - 1)] = s[(k - 1) + 1]
        BY <2>8, <2>17, <3>1, <4>1
      <4>3. buf[k] = buffer[k + off]
        BY <2>6, <4>1
      <4> QED
        BY <3>1, <4>1, <4>2, <4>3
    <3> QED
      BY <3>3, <3>4
  <2>19. PacketRead(buf) = p
    BY <2>3, <2>5, <2>18, PacketIsFound
  <2>20. b = EndToken(tx[1].what)
    BY <2>7, <2>9 DEF EndToken
  <2>21. got'.what = tx[1].what
    BY <2>1, <2>10, <2>17, <2>20, CompletedLine
  <2> QED
    BY <2>8, <2>19, <2>21
<1>4. CASE Next
  <2>1. buffer \in Seq(Token) /\ lost \in Nat
    BY RouterAssumption DEF TypeOK
  <2> QED
    BY <1>2, <1>3, <1>4, <2>1, StepKinds
      DEF Printed, Interrupted, Restarted, DropStep, DamageStep, LoseStep
<1> QED
  BY <1>1, <1>4

\* As long as no byte is lost, a packet that the root printed in one piece is handled
\* once, with its end mark, and nothing else is handled, whatever is interrupted, cleaned
\* or restarted around it.
THEOREM RouterHandlesPacketsOnce == Spec => [](lost = 0 => PacketsHandledOnce)
<1> DEFINE Inv == /\ TypeOK /\ TxInv /\ WindowInv /\ PieceInv /\ HeaderInv
                  /\ WholePacketsHandled /\ (lost = 0 => OnlyWholePackets)
<1>1. Init => Inv
  BY InitTypes, InitWindow, InitLines DEF PacketsHandledOnce, WholePacketsHandled, OnlyWholePackets
<1>2. Inv /\ [Next]_vars => Inv'
  BY TypesStep, WindowStep, PieceStep, HeaderStep, HandledStep, OnlyStep
<1>3. Inv => (lost = 0 => PacketsHandledOnce)
  BY DEF PacketsHandledOnce, WholePacketsHandled, OnlyWholePackets
<1> QED
  BY <1>1, <1>2, <1>3, PTL DEF Spec
=============================================================================
