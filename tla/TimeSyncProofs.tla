---------------------------- MODULE TimeSyncProofs ----------------------------
(***************************************************************************)
(* Theorems about time synchronisation, for every length of a second, every *)
(* width of the integers and every number of requests.                      *)
(*                                                                          *)
(* The arithmetic of the code, with its carries, borrows and wrap-arounds,  *)
(* is first shown to be that of Total, the milliseconds of a time, as long  *)
(* as the clocks are in the range of their integers (EpochInRange).  The    *)
(* invariant then speaks about Total alone: a clock is the rtc plus the     *)
(* total of its offset, the root's as well as the node's.                   *)
(***************************************************************************)
EXTENDS TimeSync, TLAPS

-----------------------------------------------------------------------------
(* Division.                                                                *)

\* The remainder of a division is in its range.
LEMMA ModType == \A x \in Int, w \in Nat \ {0} : x % w \in 0 .. (w - 1)
  OBVIOUS

\* Quotient and remainder make up the number.
LEMMA DivMod == \A x \in Int, w \in Nat \ {0} : x = w * (x \div w) + (x % w)
  OBVIOUS

\* The quotient is an integer, and is not negative if the number is not.
LEMMA DivType ==
  \A x \in Int, w \in Nat \ {0} : x \div w \in Int /\ (0 <= x => 0 <= x \div w)
  OBVIOUS

\* A number in range is its own remainder.
LEMMA ModSmall == \A x \in Int, w \in Nat \ {0} : 0 <= x /\ x < w => x % w = x
  OBVIOUS

\* A number below zero wraps around.
LEMMA ModUnder == \A x \in Int, w \in Nat \ {0} : 0 - w <= x /\ x < 0 => x % w = x + w
  OBVIOUS

\* There is only one quotient and one remainder.
LEMMA DivUnique ==
  \A w \in Nat \ {0}, q \in Int : \A r \in 0 .. (w - 1) :
    (w * q + r) \div w = q /\ (w * q + r) % w = r
  OBVIOUS

\* Every number has both.
LEMMA DivExists ==
  ASSUME NEW x \in Int, NEW w \in Nat \ {0}
  PROVE  \E q \in Int, r \in 0 .. (w - 1) : r = x % w /\ x = w * q + r
<1>1. x \div w \in Int /\ x % w \in 0 .. (w - 1)
  BY ModType, DivType
<1>2. x = w * (x \div w) + (x % w)
  BY DivMod
<1> QED
  BY <1>1, <1>2

\* A multiple of the divisor does not change the remainder.
LEMMA ModShift == \A w \in Nat \ {0}, q \in Int, x \in Int : (w * q + x) % w = x % w
<1> SUFFICES ASSUME NEW w \in Nat \ {0}, NEW q \in Int, NEW x \in Int
             PROVE  (w * q + x) % w = x % w
  OBVIOUS
<1>1. PICK p \in Int, r \in 0 .. (w - 1) : p = x \div w /\ r = x % w
  BY ModType, DivType
<1>2. x = w * p + r
  BY <1>1, DivMod
<1>3. PICK k \in Int : k = q + p
  OBVIOUS
<1>4. w * q + x = w * k + r
  BY <1>2, <1>3
<1>5. (w * k + r) % w = r
  BY DivUnique
<1> QED
  BY <1>1, <1>4, <1>5

\* A product with a smaller factor is smaller.
LEMMA MulLess == \A m \in Nat \ {0}, a \in Int, b \in Int : a * m < b * m => a < b
<1> SUFFICES ASSUME NEW m \in Nat \ {0}, NEW a \in Int, NEW b \in Int, b <= a
             PROVE  b * m <= a * m
  OBVIOUS
<1>1. PICK d \in Nat : a = b + d
  OBVIOUS
<1>2. a * m = b * m + d * m
  BY <1>1
<1>3. d * m >= 0
  OBVIOUS
<1> QED
  BY <1>2, <1>3

-----------------------------------------------------------------------------
(* Readings and times.                                                      *)

\* The milliseconds of a time determine it within a second.
LEMMA TimeTotal ==
  ASSUME NEW time \in Time
  PROVE  /\ time.s \in 0 .. (W32 - 1) /\ time.ms \in 0 .. (Ms - 1)
         /\ Total(time) \in Nat /\ time.s * Ms \in Nat
         /\ Total(time) = time.s * Ms + time.ms
<1>1. time.s \in 0 .. (W32 - 1) /\ time.ms \in 0 .. (Ms - 1)
  BY DEF Time
<1>2. time.s * Ms \in Nat
  BY <1>1, SyncAssumption
<1> QED
  BY <1>1, <1>2, SyncAssumption DEF Total

\* A time of whole range is below the width of the seconds.
LEMMA InRange ==
  ASSUME NEW s \in Int, s * Ms < W32 * Ms, 0 <= s
  PROVE  s % W32 = s
<1>1. s < W32
  BY MulLess, SyncAssumption
<1> QED
  BY <1>1, ModSmall, SyncAssumption

\* Two calls t ms apart: the reading is right, a ms ahead, or the rest of a second
\* behind.
LEMMA TornReading ==
  ASSUME NEW x \in Nat, NEW t \in {0, 1}
  PROVE  \E s \in Nat, ms \in 0 .. (Ms - 1) :
           /\ s = x \div Ms /\ ms = (x + t) % Ms
           /\ s * Ms <= x /\ s * Ms + ms - x \in TornBy
           /\ t = 0 => s * Ms + ms = x
<1>0. Ms \in Nat \ {0} /\ t \in Int
  BY SyncAssumption
<1>1. PICK q \in Nat : \E r \in 0 .. (Ms - 1) : q = x \div Ms /\ r = x % Ms
  <2>1. x \div Ms \in Nat
    BY <1>0, DivType
  <2>2. x % Ms \in 0 .. (Ms - 1)
    BY <1>0, ModType
  <2> QED
    BY <2>1, <2>2
<1>2. PICK r \in 0 .. (Ms - 1) : q = x \div Ms /\ r = x % Ms
  BY <1>1
<1>3. x = Ms * q + r /\ q * Ms = Ms * q /\ Ms * q \in Nat
  BY <1>0, <1>2, DivMod
<1>4. (x + t) % Ms \in 0 .. (Ms - 1)
  BY <1>0, ModType
<1>5. PICK y \in 0 .. (Ms - 1) : y = (x + t) % Ms
  BY <1>4
<1>6. \/ y = r + t
      \/ t = 1 /\ y = r + t - Ms
  <2>1. CASE r + t < Ms
    <3>1. x + t = Ms * q + (r + t) /\ r + t \in 0 .. (Ms - 1)
      BY <1>0, <1>3, <2>1
    <3>2. PICK k \in 0 .. (Ms - 1) : k = r + t
      BY <3>1
    <3>3. (Ms * q + k) % Ms = k
      BY <1>0, DivUnique
    <3> QED
      BY <1>5, <3>1, <3>2, <3>3
  <2>2. CASE ~(r + t < Ms)
    <3>1. r = Ms - 1 /\ t = 1
      BY <1>0, <2>2
    <3>2. PICK k \in Int : k = q + 1
      OBVIOUS
    <3>3. x + t = Ms * k + 0 /\ 0 \in 0 .. (Ms - 1)
      BY <1>0, <1>3, <3>1, <3>2
    <3>4. (Ms * k + 0) % Ms = 0
      BY <1>0, <3>3, DivUnique
    <3> QED
      BY <1>0, <1>5, <3>1, <3>3, <3>4
  <2> QED
    BY <2>1, <2>2
<1>7. /\ q * Ms <= x /\ q * Ms + y - x \in TornBy
      /\ t = 0 => q * Ms + y = x
  <2>1. q * Ms + y - x = y - r
    BY <1>0, <1>3
  <2> QED
    BY <1>0, <1>3, <1>6, <2>1 DEF TornBy
<1> QED
  BY <1>2, <1>4, <1>5, <1>7

\* The rtc of a device that is up for x ms.
LEMMA ReadingTotal ==
  ASSUME NEW x \in Nat, NEW t \in {0, 1}
  PROVE  /\ Reading(x, t).s \in Nat /\ Reading(x, t).ms \in 0 .. (Ms - 1)
         /\ Total(Reading(x, t)) = Reading(x, t).s * Ms + Reading(x, t).ms
         /\ Total(Reading(x, t)) - x \in TornBy
         /\ Total(Reading(x, t)) \in Nat
         /\ t = 0 => Total(Reading(x, t)) = x
<1>1. /\ Reading(x, t).s = x \div Ms /\ Reading(x, t).ms = (x + t) % Ms
      /\ Total(Reading(x, t)) = Reading(x, t).s * Ms + Reading(x, t).ms
  BY DEF Reading, Total
<1>2. PICK s \in Nat, ms \in 0 .. (Ms - 1) :
        /\ s = x \div Ms /\ ms = (x + t) % Ms
        /\ s * Ms <= x /\ s * Ms + ms - x \in TornBy
        /\ t = 0 => s * Ms + ms = x
  BY TornReading
<1>3. s * Ms \in Nat /\ s * Ms + ms \in Nat
  BY SyncAssumption
<1> QED
  BY <1>1, <1>2, <1>3

\* get_epoch_time adds up: the carry is exact, and the seconds do not wrap in range.
LEMMA ShiftedTotal ==
  ASSUME NEW rtc, rtc.s \in Nat, rtc.ms \in 0 .. (Ms - 1), NEW off \in Time
  PROVE  /\ Shifted(rtc, off) \in Time
         /\ Total(rtc) + Total(off) < W32 * Ms =>
              Total(Shifted(rtc, off)) = Total(rtc) + Total(off)
<1> DEFINE m == rtc.ms + off.ms
           s == rtc.s + off.s
<1>1. /\ Ms \in Nat \ {0} /\ W32 \in Nat \ {0} /\ W16 \in Nat \ {0}
      /\ 2 * Ms < W16
  BY SyncAssumption
<1>2. off.s \in 0 .. (W32 - 1) /\ off.ms \in 0 .. (Ms - 1)
  BY TimeTotal
<1>3. s \in Nat /\ m \in 0 .. (2 * Ms - 2)
  BY <1>1, <1>2
<1>4. m % W16 = m
  BY <1>1, <1>3, ModSmall
<1>5. Shifted(rtc, off) = IF m >= Ms THEN [s |-> ((s % W32) + 1) % W32, ms |-> m - Ms]
                          ELSE [s |-> s % W32, ms |-> m]
  BY <1>4 DEF Shifted
<1>6. s % W32 \in 0 .. (W32 - 1) /\ ((s % W32) + 1) % W32 \in 0 .. (W32 - 1)
  <2>1. s % W32 \in 0 .. (W32 - 1)
    BY <1>1, <1>3, ModType, SMTT(30)
  <2>2. (s % W32) + 1 \in Int
    BY <1>1, <2>1
  <2> QED
    BY <1>1, <2>1, <2>2, ModType
<1>7. Total(rtc) + Total(off) = s * Ms + m /\ s * Ms \in Nat
  <2>1. rtc.s * Ms + off.s * Ms = s * Ms /\ rtc.s * Ms \in Nat /\ off.s * Ms \in Nat
    BY <1>1, <1>2
  <2> QED
    BY <1>1, <1>2, <2>1 DEF Total
<1>8. Shifted(rtc, off) \in Time
  <2> HIDE DEF m, s
  <2>1. CASE m >= Ms
    BY <1>1, <1>3, <1>5, <1>6, <2>1 DEF Time
  <2>2. CASE ~(m >= Ms)
    BY <1>1, <1>3, <1>5, <1>6, <2>2 DEF Time
  <2> QED
    BY <2>1, <2>2
<1>9. ASSUME Total(rtc) + Total(off) < W32 * Ms
      PROVE  Total(Shifted(rtc, off)) = Total(rtc) + Total(off)
  <2> HIDE DEF m, s
  <2>0. W32 * Ms \in Nat
    BY <1>1
  <2>1. s % W32 = s
    <3>1. s * Ms < W32 * Ms
      BY <1>1, <1>3, <1>7, <1>9, <2>0
    <3> QED
      BY <1>3, <3>1, InRange
  <2>2. CASE m >= Ms
    <3>1. (s + 1) * Ms = s * Ms + Ms
      BY <1>1, <1>3
    <3>2. (s + 1) * Ms < W32 * Ms
      BY <1>1, <1>3, <1>7, <1>9, <2>0, <2>2, <3>1
    <3>3. (s + 1) % W32 = s + 1
      BY <1>3, <3>2, InRange
    <3>4. Total(Shifted(rtc, off)) = (s + 1) * Ms + (m - Ms)
      BY <1>5, <2>1, <2>2, <3>3 DEF Total
    <3> QED
      BY <1>1, <1>3, <1>7, <3>1, <3>4
  <2>3. CASE ~(m >= Ms)
    <3>1. Total(Shifted(rtc, off)) = s * Ms + m
      BY <1>5, <2>1, <2>3 DEF Total
    <3> QED
      BY <1>7, <3>1
  <2> QED
    BY <2>2, <2>3
<1> QED
  BY <1>8, <1>9

\* set_epoch_time subtracts: the borrow is exact for a reading that is not later.
LEMMA SetTotal ==
  ASSUME NEW rtc, rtc.s \in Nat, rtc.ms \in 0 .. (Ms - 1), NEW new \in Time
  PROVE  /\ set_epoch_time(new, rtc) \in Time
         /\ Total(rtc) <= Total(new) =>
              Total(set_epoch_time(new, rtc)) = Total(new) - Total(rtc)
<1> DEFINE d == new.ms - rtc.ms
           s == new.s - rtc.s
<1>1. Ms \in Nat \ {0} /\ W32 \in Nat \ {0}
  BY SyncAssumption
<1>2. /\ new.s \in 0 .. (W32 - 1) /\ new.ms \in 0 .. (Ms - 1)
  BY TimeTotal
<1>3. s \in Int /\ s < W32 /\ d \in (1 - Ms) .. (Ms - 1)
  BY <1>1, <1>2
<1>4. set_epoch_time(new, rtc) = IF d < 0 THEN [s |-> (s - 1) % W32, ms |-> d + Ms]
                                 ELSE [s |-> s % W32, ms |-> d]
  BY <1>1, <1>3 DEF set_epoch_time
<1>5. s % W32 \in 0 .. (W32 - 1) /\ (s - 1) % W32 \in 0 .. (W32 - 1)
  <2>1. s \in Int /\ s - 1 \in Int
    BY <1>3
  <2> HIDE DEF s
  <2> QED
    BY <1>1, <2>1, ModType
<1>6. Total(new) - Total(rtc) = s * Ms + d /\ s * Ms \in Int
  <2>1. new.s * Ms - rtc.s * Ms = s * Ms /\ rtc.s * Ms \in Nat /\ new.s * Ms \in Nat
    BY <1>1, <1>2
  <2> QED
    BY <1>1, <1>2, <2>1 DEF Total
<1>7. set_epoch_time(new, rtc) \in Time
  <2> HIDE DEF d, s
  <2>1. CASE d < 0
    BY <1>1, <1>3, <1>4, <1>5, <2>1 DEF Time
  <2>2. CASE ~(d < 0)
    BY <1>1, <1>3, <1>4, <1>5, <2>2 DEF Time
  <2> QED
    BY <2>1, <2>2
<1>8. ASSUME Total(rtc) <= Total(new)
      PROVE  Total(set_epoch_time(new, rtc)) = Total(new) - Total(rtc)
  <2>0. s * Ms + d >= 0
    <3>1. Total(rtc) \in Int /\ Total(new) \in Int
      BY <1>1, <1>2 DEF Total
    <3> QED
      BY <1>6, <1>8, <3>1
  <2> HIDE DEF d, s
  <2>1. CASE d < 0
    <3>1. (s - 1) * Ms = s * Ms - Ms
      BY <1>1, <1>3
    <3>2. 0 * Ms = 0 /\ 0 * Ms < s * Ms
      BY <1>1, <1>3, <1>6, <2>0, <2>1
    <3>3. 0 < s
      BY <1>1, <1>3, <3>2, MulLess
    <3>4. (s - 1) % W32 = s - 1
      BY <1>1, <1>3, <3>3, ModSmall
    <3>5. Total(set_epoch_time(new, rtc)) = (s - 1) * Ms + (d + Ms)
      BY <1>4, <2>1, <3>4 DEF Total
    <3> QED
      BY <1>1, <1>3, <1>6, <3>1, <3>5
  <2>2. CASE ~(d < 0)
    <3>1. (0 - 1) * Ms = 0 - Ms /\ (0 - 1) * Ms < s * Ms
      BY <1>1, <1>3, <1>6, <2>0
    <3>2. 0 - 1 < s
      BY <1>1, <1>3, <3>1, MulLess
    <3>3. s % W32 = s
      BY <1>1, <1>3, <3>2, ModSmall
    <3>4. Total(set_epoch_time(new, rtc)) = s * Ms + d
      BY <1>4, <2>2, <3>3 DEF Total
    <3> QED
      BY <1>6, <3>4
  <2> QED
    BY <2>1, <2>2
<1> QED
  BY <1>7, <1>8

\* Half of the transit time is taken off exactly, whole seconds and rest.
LEMMA MinusTotal ==
  ASSUME NEW time \in Time, NEW half \in Nat
  PROVE  /\ Minus(time, half) \in Time
         /\ half <= Total(time) => Total(Minus(time, half)) = Total(time) - half
<1> DEFINE k == IF half > Ms THEN (half - 1) \div Ms ELSE 0
           h == half - k * Ms
<1>1. /\ Ms \in Nat \ {0} /\ W32 \in Nat \ {0} /\ W16 \in Nat \ {0} /\ 2 * Ms < W16
  BY SyncAssumption
<1>2. /\ time.s \in 0 .. (W32 - 1) /\ time.ms \in 0 .. (Ms - 1)
      /\ Total(time) = time.s * Ms + time.ms /\ time.s * Ms \in Nat
  BY TimeTotal
<1>3. k \in Nat /\ k * Ms \in Nat /\ h \in 0 .. Ms
  <2>1. CASE half > Ms
    <3>1. half - 1 \in Nat
      BY <1>1, <2>1
    <3>2. PICK x \in Nat : x = half - 1
      BY <3>1
    <3>3. PICK q \in Nat, r \in 0 .. (Ms - 1) : q = x \div Ms /\ r = x % Ms
      <4>1. x \div Ms \in Nat
        BY <1>1, DivType
      <4>2. x % Ms \in 0 .. (Ms - 1)
        BY <1>1, ModType
      <4> QED
        BY <4>1, <4>2
    <3>4. x = Ms * q + r /\ Ms * q = q * Ms /\ q * Ms \in Nat
      BY <1>1, <3>3, DivMod
    <3>5. k = q
      BY <2>1, <3>2, <3>3
    <3>6. half - q * Ms = r + 1
      BY <1>1, <3>2, <3>4
    <3> QED
      BY <1>1, <3>4, <3>5, <3>6
  <2>2. CASE ~(half > Ms)
    <3>1. k = 0
      BY <2>2
    <3> HIDE DEF k
    <3>2. k * Ms = 0
      BY <1>1, <3>1
    <3> QED
      BY <1>1, <2>2, <3>1, <3>2
  <2> QED
    BY <2>1, <2>2
<1>4. half = k * Ms + h
  <2> HIDE DEF k
  <2> QED
    BY <1>3
<1>5. Minus(time, half) = IF h > time.ms
        THEN [s |-> (time.s - k - 1) % W32, ms |-> (time.ms + Ms - h) % W16]
        ELSE [s |-> (time.s - k) % W32, ms |-> time.ms - h]
  BY DEF Minus
<1> HIDE DEF k, h
<1>6. /\ (time.s - k) % W32 \in 0 .. (W32 - 1)
      /\ (time.s - k - 1) % W32 \in 0 .. (W32 - 1)
  <2>1. time.s - k \in Int /\ time.s - k - 1 \in Int
    BY <1>2, <1>3
  <2> QED
    BY <1>1, <2>1, ModType
<1>7. h > time.ms => (time.ms + Ms - h) % W16 = time.ms + Ms - h
                       /\ time.ms + Ms - h \in 0 .. (Ms - 1)
  <2> SUFFICES ASSUME h > time.ms
               PROVE  (time.ms + Ms - h) % W16 = time.ms + Ms - h
                       /\ time.ms + Ms - h \in 0 .. (Ms - 1)
    OBVIOUS
  <2>1. time.ms + Ms - h \in 0 .. (Ms - 1)
    BY <1>1, <1>2, <1>3
  <2>2. PICK y \in 0 .. (Ms - 1) : y = time.ms + Ms - h
    BY <2>1
  <2>3. y % W16 = y
    BY <1>1, ModSmall
  <2> QED
    BY <2>1, <2>2, <2>3
<1>8. Minus(time, half) \in Time
  <2>1. CASE h > time.ms
    BY <1>5, <1>6, <1>7, <2>1 DEF Time
  <2>2. CASE ~(h > time.ms)
    <3>1. time.ms - h \in 0 .. (Ms - 1)
      BY <1>1, <1>2, <1>3, <2>2
    <3> QED
      BY <1>5, <1>6, <2>2, <3>1 DEF Time
  <2> QED
    BY <2>1, <2>2
<1>9. ASSUME half <= Total(time)
      PROVE  Total(Minus(time, half)) = Total(time) - half
  <2>1. k * Ms + h <= time.s * Ms + time.ms
    BY <1>2, <1>4, <1>9
  <2>2. (time.s - k) * Ms = time.s * Ms - k * Ms
    BY <1>1, <1>2, <1>3
  <2>3. PICK s \in Int : s = time.s - k
    BY <1>2, <1>3
  <2>4. s * Ms \in Int /\ s * Ms + time.ms - h >= 0 /\ s < W32
    BY <1>1, <1>2, <1>3, <2>1, <2>2, <2>3
  <2>5. Total(time) - half = s * Ms + time.ms - h
    BY <1>1, <1>2, <1>3, <1>4, <2>2, <2>3
  <2>6. CASE h > time.ms
    <3>1. 0 * Ms = 0 /\ 0 * Ms < s * Ms
      BY <1>1, <1>2, <1>3, <2>4, <2>6
    <3>2. 0 < s
      BY <1>1, <3>1, MulLess
    <3>3. (s - 1) % W32 = s - 1
      BY <1>1, <2>4, <3>2, ModSmall
    <3>4. (s - 1) * Ms = s * Ms - Ms
      BY <1>1
    <3>5. Total(Minus(time, half)) = (s - 1) * Ms + (time.ms + Ms - h)
      BY <1>5, <1>7, <2>3, <2>6, <3>3 DEF Total
    <3> QED
      BY <1>1, <1>2, <1>3, <2>4, <2>5, <3>4, <3>5
  <2>7. CASE ~(h > time.ms)
    <3>1. (0 - 1) * Ms = 0 - Ms /\ (0 - 1) * Ms < s * Ms
      BY <1>1, <1>2, <1>3, <2>4
    <3>2. 0 - 1 < s
      BY <1>1, <3>1, MulLess
    <3>3. s % W32 = s
      BY <1>1, <2>4, <3>2, ModSmall
    <3>4. Total(Minus(time, half)) = s * Ms + (time.ms - h)
      BY <1>5, <2>3, <2>7, <3>3 DEF Total
    <3> QED
      BY <1>1, <1>2, <1>3, <2>4, <2>5, <3>4
  <2> QED
    BY <2>6, <2>7
<1> QED
  BY <1>8, <1>9

-----------------------------------------------------------------------------
(* The two results of an exchange.                                          *)

\* Half of a transit time is a uint16_t, and really half of it as long as it fits
\* in one and the answer is not older than the request.
LEMMA TransitTotal ==
  ASSUME NEW req \in Time, NEW res \in Time
  PROVE  /\ calculate_transit_time(req, res) \in 0 .. (W16 - 1)
         /\ LET gone == Total(res) - Total(req)
            IN  0 <= gone /\ gone < 2 * W16 /\ 2 * W16 <= W32 =>
                  gone <= 2 * calculate_transit_time(req, res) + 1
<1> DEFINE a == res.s - req.s
           b == res.ms - req.ms
           gone == Total(res) - Total(req)
<1>1. Ms \in Nat \ {0} /\ W32 \in Nat \ {0} /\ W16 \in Nat \ {0}
  BY SyncAssumption
<1>2. /\ a \in Int /\ b \in Int /\ gone \in Int
      /\ gone = a * Ms + b /\ a * Ms \in Int
  <2>1. /\ res.s \in Int /\ res.ms \in Int /\ req.s \in Int /\ req.ms \in Int
        /\ Total(res) = res.s * Ms + res.ms /\ Total(req) = req.s * Ms + req.ms
        /\ res.s * Ms \in Nat /\ req.s * Ms \in Nat
    BY TimeTotal
  <2>2. a * Ms = res.s * Ms - req.s * Ms
    BY <1>1, <2>1
  <2> QED
    BY <2>1, <2>2
<1>3. calculate_transit_time(req, res) =
        (((((a % W32) * Ms) + (b % W32)) % W32) \div 2) % W16
  BY DEF calculate_transit_time
<1> HIDE DEF a, b, gone
<1>4. PICK p \in Int, u \in 0 .. (W32 - 1) : u = a % W32 /\ a = W32 * p + u
  BY <1>1, <1>2, DivExists
<1>5. PICK q \in Int, v \in 0 .. (W32 - 1) : v = b % W32 /\ b = W32 * q + v
  BY <1>1, <1>2, DivExists
<1>6. PICK y \in Nat : y = u * Ms + v
  BY <1>1
<1>7. y % W32 = gone % W32
  <2>1. a * Ms = W32 * (p * Ms) + u * Ms
    BY <1>1, <1>4
  <2>2. PICK k \in Int : k = p * Ms + q
    BY <1>1
  <2>3. W32 * k = W32 * (p * Ms) + W32 * q
    BY <1>1, <2>2
  <2>4. PICK c \in Int, d \in Int, e \in Int, f \in Int :
          c = W32 * (p * Ms) /\ d = u * Ms /\ e = W32 * q /\ f = W32 * k
    BY <1>1
  <2>5. gone = W32 * k + y
    <3>1. a * Ms = c + d /\ f = c + e /\ b = e + v /\ y = d + v
      BY <1>5, <1>6, <2>1, <2>3, <2>4
    <3>2. gone = f + y
      BY <1>2, <3>1
    <3> QED
      BY <2>4, <3>2
  <2>6. y \in Int /\ W32 \in Nat \ {0}
    BY <1>1
  <2>7. (W32 * k + y) % W32 = y % W32
    BY <2>6, ModShift, Zenon
  <2> QED
    BY <2>5, <2>7
<1>8. PICK g \in 0 .. (W32 - 1) : g = gone % W32
  BY <1>1, <1>2, ModType
<1>9. PICK e \in Nat : e = g \div 2 /\ 2 * e <= g /\ g <= 2 * e + 1
  OBVIOUS
<1>10. calculate_transit_time(req, res) = e % W16
  BY <1>3, <1>4, <1>5, <1>6, <1>7, <1>8, <1>9
<1>11. e % W16 \in 0 .. (W16 - 1)
  BY <1>1, ModType
<1>12. ASSUME 0 <= gone, gone < 2 * W16, 2 * W16 <= W32
       PROVE  gone <= 2 * calculate_transit_time(req, res) + 1
  <2>1. g = gone
    BY <1>1, <1>2, <1>8, <1>12, ModSmall
  <2>2. e % W16 = e
    BY <1>1, <1>2, <1>9, <1>12, <2>1, ModSmall
  <2> QED
    BY <1>2, <1>9, <1>10, <2>1, <2>2
<1> QED
  BY <1>10, <1>11, <1>12 DEF gone

\* The difference that is sent is the one that was made, or stands for one out of
\* range.
LEMMA DiffTotal ==
  ASSUME NEW new \in Time, NEW res \in Time
  PROVE  /\ calculate_diff_time(new, res) \in -(W16 \div 2) .. (W16 \div 2 - 1)
         /\ res.s + MaxDiff < W32 =>
              LET sent == calculate_diff_time(new, res)
                  made == Total(new) - Total(res)
              IN  \/ sent = made
                  \/ sent = W16 \div 2 - 1 /\ made \notin 0 .. (MaxDiff * Ms)
<1> DEFINE a == new.s - res.s
           b == new.ms - res.ms
           made == Total(new) - Total(res)
           half == W16 \div 2
           top == MaxDiff * Ms
<1>1. /\ Ms \in Nat \ {0} /\ W32 \in Nat \ {0} /\ MaxDiff \in Nat
      /\ half \in Nat /\ top \in Nat /\ top < half
  BY SyncAssumption
<1>2. /\ a \in (1 - W32) .. (W32 - 1) /\ b \in (1 - Ms) .. (Ms - 1)
      /\ res.s \in Nat /\ new.s \in Nat
      /\ made \in Int /\ made = a * Ms + b /\ a * Ms \in Int
  <2>1. /\ res.s \in 0 .. (W32 - 1) /\ res.ms \in 0 .. (Ms - 1)
        /\ new.s \in 0 .. (W32 - 1) /\ new.ms \in 0 .. (Ms - 1)
        /\ Total(res) = res.s * Ms + res.ms /\ Total(new) = new.s * Ms + new.ms
        /\ res.s * Ms \in Nat /\ new.s * Ms \in Nat
    BY TimeTotal
  <2>2. a * Ms = new.s * Ms - res.s * Ms
    BY <1>1, <2>1
  <2> QED
    BY <1>1, <2>1, <2>2
<1>3. PICK s \in 0 .. (W32 - 1) : s = a % W32
  <2>1. a \in Int
    BY <1>2
  <2> HIDE DEF a
  <2> QED
    BY <1>1, <2>1, ModType
<1>4. PICK ms \in Int : ms = s * Ms + b
  BY <1>1, <1>2
<1>5. calculate_diff_time(new, res) =
        IF s > MaxDiff \/ ms > top \/ ms < -top THEN half - 1 ELSE ms
  BY <1>3, <1>4 DEF calculate_diff_time
<1>6. res.s + MaxDiff < W32 => s = a \/ (a < 0 /\ s > MaxDiff)
  <2>1. CASE a >= 0
    BY <1>1, <1>2, <1>3, <2>1, ModSmall
  <2>2. CASE a < 0
    <3>1. a % W32 = a + W32
      BY <1>1, <1>2, <2>2, ModUnder
    <3> QED
      BY <1>1, <1>2, <1>3, <2>2, <3>1
  <2> QED
    BY <1>2, <2>1, <2>2
<1> HIDE DEF a, b, made, half, top
<1>7. calculate_diff_time(new, res) \in -half .. (half - 1)
  BY <1>1, <1>4, <1>5
<1>8. a < 0 => made < 0
  <2> SUFFICES ASSUME a < 0 PROVE made < 0
    OBVIOUS
  <2>1. PICK d \in Nat : a = 0 - 1 - d
    BY <1>2
  <2>2. a * Ms = 0 - Ms - d * Ms /\ d * Ms \in Nat
    BY <1>1, <2>1
  <2> QED
    BY <1>1, <1>2, <2>2
<1>9. s = a /\ s > MaxDiff => made > top
  <2> SUFFICES ASSUME s = a, s > MaxDiff PROVE made > top
    OBVIOUS
  <2>1. PICK d \in Nat : a = MaxDiff + 1 + d
    BY <1>1, <1>2
  <2>2. a * Ms = top + Ms + d * Ms /\ d * Ms \in Nat
    BY <1>1, <2>1 DEF top
  <2> QED
    BY <1>1, <1>2, <2>2
<1>10. s = a => ms = made
  BY <1>2, <1>4
<1>11. ASSUME res.s + MaxDiff < W32
       PROVE  \/ calculate_diff_time(new, res) = made
              \/ calculate_diff_time(new, res) = half - 1 /\ made \notin 0 .. top
  BY <1>1, <1>2, <1>4, <1>5, <1>6, <1>8, <1>9, <1>10, <1>11
<1>12. calculate_diff_time(new, res) \in -(W16 \div 2) .. (W16 \div 2 - 1)
  BY <1>7 DEF half
<1>13. res.s + MaxDiff < W32 =>
         \/ calculate_diff_time(new, res) = Total(new) - Total(res)
         \/ /\ calculate_diff_time(new, res) = W16 \div 2 - 1
            /\ Total(new) - Total(res) \notin 0 .. (MaxDiff * Ms)
  BY <1>11 DEF made, half, top
<1> QED
  BY <1>12, <1>13

-----------------------------------------------------------------------------
(* Types.                                                                   *)

\* A reading takes at most one tick.
LEMMA GapsBits == Gaps \subseteq {0, 1}
  BY DEF Gaps

\* An empty report is in the range of the int16_t.
LEMMA ZeroReport == 0 \in -(W16 \div 2) .. (W16 \div 2 - 1)
<1>1. PICK h \in Int : h = W16 \div 2 /\ 0 < h
  <2>1. MaxDiff * Ms \in Nat /\ W16 \div 2 \in Int
    BY SyncAssumption
  <2> QED
    BY <2>1, SyncAssumption
<1>2. 0 \in -h .. (h - 1)
  BY <1>1
<1> QED
  BY <1>1, <1>2

\* The clocks show times.
LEMMA EpochType ==
  ASSUME now \in Nat, offset \in Time, root_offset \in Time, NEW t \in {0, 1}
  PROVE  get_epoch_time(t) \in Time /\ root_time(t) \in Time
<1>1. Reading(now, t).s \in Nat /\ Reading(now, t).ms \in 0 .. (Ms - 1)
  BY ReadingTotal
<1>2. RootUp + now \in Nat
  BY SyncAssumption
<1>3. Reading(RootUp + now, t).s \in Nat /\ Reading(RootUp + now, t).ms \in 0 .. (Ms - 1)
  BY <1>2, ReadingTotal
<1> QED
  BY <1>1, <1>3, ShiftedTotal DEF get_epoch_time, root_time

\* The router sets the root's clock to whole seconds.
LEMMA WholeSecond ==
  ASSUME NEW e \in Epochs
  PROVE  [s |-> e, ms |-> 0] \in Time /\ Total([s |-> e, ms |-> 0]) = e * Ms /\ e * Ms \in Nat
<1>1. e \in 0 .. (W32 - 1) /\ Ms \in Nat \ {0} /\ W32 \in Nat
  BY SyncAssumption
<1>2. 0 \in 0 .. (Ms - 1) /\ e * Ms \in Nat
  BY <1>1
<1> QED
  BY <1>1, <1>2 DEF Time, Total

\* An offset that TIME_SET computes is one.
LEMMA RootOffsetType ==
  ASSUME now \in Nat, NEW e \in Epochs, NEW t \in {0, 1}
  PROVE  NewRootOffset(e, t) \in Time
<1>1. RootUp + now \in Nat
  BY SyncAssumption
<1>2. Reading(RootUp + now, t).s \in Nat /\ Reading(RootUp + now, t).ms \in 0 .. (Ms - 1)
  BY <1>1, ReadingTotal
<1> QED
  BY <1>2, WholeSecond, SetTotal DEF NewRootOffset

\* Seconds of one offset and milliseconds of another make up an offset.
LEMMA MixedType ==
  ASSUME NEW old \in Time, NEW new \in Time
  PROVE  /\ [s |-> old.s, ms |-> new.ms] \in Time
         /\ Total([s |-> old.s, ms |-> new.ms]) = old.s * Ms + new.ms
  BY DEF Time, Total

\* An answer that is accepted, with what it sets the clock to.
Accepted(t1, t2, half, new) ==
  /\ half = calculate_transit_time(packet.local, get_epoch_time(t1)) /\ half <= Limit
  /\ new = Minus(packet.root, half)
  /\ offset' = set_epoch_time(new, Reading(now, t2))
  /\ last' = [base |-> Total(new) - now, gap |-> t2]
  /\ agreed' = (packet.set = sets)
  /\ report' = [sent |-> calculate_diff_time(new, get_epoch_time(t1)),
                made |-> Total(new) - Total(get_epoch_time(t1))]

\* An answer is dropped, or is accepted.
LEMMA Handler ==
  ASSUME TypeOK, time_data_handler
  PROVE  /\ packet.type = "response" /\ packet' = Nothing
         /\ UNCHANGED <<now, root_offset, syncs, sets>>
         /\ \/ UNCHANGED <<offset, last, agreed, report>>
            \/ \E t1, t2 \in Gaps, half \in 0 .. Limit, new \in Time :
                 Accepted(t1, t2, half, new)
<1>1. PICK t1 \in Gaps, t2 \in Gaps :
        LET res  == get_epoch_time(t1)
            half == calculate_transit_time(packet.local, res)
            new  == Minus(packet.root, half)
        IN  IF half > Limit
            THEN UNCHANGED <<offset, last, agreed, report>>
            ELSE /\ offset' = set_epoch_time(new, Reading(now, t2))
                 /\ last' = [base |-> Total(new) - now, gap |-> t2]
                 /\ agreed' = (packet.set = sets)
                 /\ report' = [sent |-> calculate_diff_time(new, res),
                               made |-> Total(new) - Total(res)]
  BY DEF time_data_handler
<1> DEFINE res  == get_epoch_time(t1)
           half == calculate_transit_time(packet.local, res)
           new  == Minus(packet.root, half)
<1>2. /\ packet.type = "response" /\ packet' = Nothing
      /\ UNCHANGED <<now, root_offset, syncs, sets>>
  BY DEF time_data_handler
<1>3. /\ packet.local \in Time /\ packet.root \in Time /\ now \in Nat /\ offset \in Time
      /\ root_offset \in Time /\ t1 \in {0, 1}
  BY <1>2, GapsBits, SyncAssumption DEF TypeOK
<1>4. res \in Time
  BY <1>3, EpochType
<1>5. half \in 0 .. (W16 - 1)
  BY <1>3, <1>4, TransitTotal
<1>6. half \in Nat
  BY <1>5, SyncAssumption
<1>7. new \in Time
  BY <1>3, <1>6, MinusTotal
<1>8. CASE half > Limit
  BY <1>1, <1>2, <1>8
<1>9. CASE ~(half > Limit)
  <2>1. half \in 0 .. Limit /\ half <= Limit
    BY <1>6, <1>9, SyncAssumption
  <2>2. Accepted(t1, t2, half, new)
    BY <1>1, <1>9, <2>1 DEF Accepted
  <2> HIDE DEF half, new
  <2>3. \E u1, u2 \in Gaps, h \in 0 .. Limit, n \in Time : Accepted(u1, u2, h, n)
    BY <1>7, <2>1, <2>2
  <2> QED
    BY <1>2, <2>3
<1> QED
  BY <1>8, <1>9

\* Every step keeps the types.
LEMMA TypesNext == TypeOK /\ [Next]_vars => TypeOK'
<1> SUFFICES ASSUME TypeOK, [Next]_vars PROVE TypeOK'
  OBVIOUS
<1>0. /\ now \in Nat /\ offset \in Time /\ root_offset \in Time
      /\ MaxNow \in Nat /\ MaxSyncs \in Nat /\ MaxSets \in Nat
      /\ now \in 0 .. MaxNow /\ syncs \in 0 .. MaxSyncs /\ sets \in 0 .. MaxSets
      /\ 0 \in Gaps
  BY SyncAssumption DEF TypeOK, Gaps
<1>1. CASE send_time_sync_req_packet
  <2>1. PICK t \in Gaps :
          packet' = [type |-> "request", local |-> get_epoch_time(t), sent |-> now]
    BY <1>1 DEF send_time_sync_req_packet
  <2>2. get_epoch_time(t) \in Time
    BY <1>0, EpochType, GapsBits
  <2>3. /\ syncs' \in 0 .. MaxSyncs /\ report' = NoReport
        /\ UNCHANGED <<now, offset, root_offset, sets, last, agreed>>
    BY <1>0, <1>1 DEF send_time_sync_req_packet
  <2>4. now \in 0 .. now
    BY <1>0
  <2> QED
    BY <2>1, <2>2, <2>3, <2>4, ZeroReport DEF TypeOK, NoReport
<1>2. CASE send_time_sync_resp_packet
  <2>1. PICK t \in Gaps : packet' = Response(root_time(t))
    BY <1>2 DEF send_time_sync_resp_packet
  <2>2. root_time(t) \in Time
    BY <1>0, EpochType, GapsBits
  <2>3. /\ packet.type = "request"
        /\ UNCHANGED <<now, offset, root_offset, syncs, sets, last, agreed, report>>
    BY <1>2 DEF send_time_sync_resp_packet
  <2>4. /\ packet'.type = "response" /\ packet'.local = packet.local
        /\ packet'.sent = packet.sent /\ packet'.root = root_time(t) /\ packet'.set = sets
    BY <2>1 DEF Response
  <2>5. sets \in 0 .. sets
    BY <1>0
  <2> QED
    BY <2>2, <2>3, <2>4, <2>5 DEF TypeOK
<1>3. CASE time_data_handler
  <2>1. /\ packet' = Nothing /\ UNCHANGED <<now, root_offset, syncs, sets>>
        /\ \/ UNCHANGED <<offset, last, agreed, report>>
           \/ \E t1, t2 \in Gaps, half \in 0 .. Limit, new \in Time :
                Accepted(t1, t2, half, new)
    BY <1>3, Handler
  <2>2. CASE UNCHANGED <<offset, last, agreed, report>>
    BY <2>1, <2>2 DEF TypeOK, Nothing
  <2>3. CASE \E t1, t2 \in Gaps, half \in 0 .. Limit, new \in Time :
               Accepted(t1, t2, half, new)
    <3>1. PICK t1 \in Gaps, t2 \in Gaps, half \in 0 .. Limit, new \in Time :
            Accepted(t1, t2, half, new)
      BY <2>3
    <3>2. get_epoch_time(t1) \in Time
      BY <1>0, EpochType, GapsBits
    <3>3. /\ Reading(now, t2).s \in Nat /\ Reading(now, t2).ms \in 0 .. (Ms - 1)
      BY <1>0, ReadingTotal, GapsBits
    <3>4. offset' \in Time
      BY <3>1, <3>3, SetTotal DEF Accepted
    <3>5. Total(new) \in Nat /\ Total(get_epoch_time(t1)) \in Nat
      BY <3>2, TimeTotal
    <3>6. report'.sent \in -(W16 \div 2) .. (W16 \div 2 - 1)
      BY <3>1, <3>2, DiffTotal DEF Accepted
    <3>7. report'.made \in Int
      BY <3>1, <3>5 DEF Accepted
    <3>8. last'.base \in Int /\ last'.gap \in Gaps
      BY <1>0, <3>1, <3>5 DEF Accepted
    <3>9. agreed' \in BOOLEAN
      BY <3>1 DEF Accepted
    <3> QED
      BY <1>0, <2>1, <3>4, <3>6, <3>7, <3>8, <3>9 DEF TypeOK, Nothing
  <2> QED
    BY <2>1, <2>2, <2>3
<1>4. CASE TimeSet \/ TimeSetInAnswer
  <2>1. \E e \in Epochs, t \in Gaps : root_offset' = NewRootOffset(e, t)
    BY <1>4 DEF TimeSet, TimeSetInAnswer
  <2>2. root_offset' \in Time
    BY <1>0, <2>1, RootOffsetType, GapsBits
  <2>3. sets' = sets + 1 /\ sets' \in 0 .. MaxSets
    BY <1>0, <1>4 DEF TimeSet, TimeSetInAnswer
  <2>4. \A x \in 0 .. sets : x \in 0 .. sets'
    BY <1>0, <2>3
  <2>5. agreed' \in BOOLEAN /\ UNCHANGED <<now, offset, syncs, last>>
    BY <1>4 DEF TimeSet, TimeSetInAnswer
  <2>6. report' = report \/ report' = NoReport
    BY <1>4 DEF TimeSet, TimeSetInAnswer
  <2>7. CASE TimeSet
    <3>1. packet' = packet
      BY <2>7 DEF TimeSet
    <3> QED
      BY <2>2, <2>3, <2>4, <2>5, <2>6, <3>1, ZeroReport DEF TypeOK, NoReport
  <2>8. CASE TimeSetInAnswer
    <3>1. PICK e \in Epochs, t2 \in Gaps :
            packet' = Response(Shifted(Reading(RootUp + now, t2),
                                       [s |-> root_offset.s, ms |-> root_offset'.ms]))
      BY <2>8 DEF TimeSetInAnswer
    <3>2. PICK mix : mix = [s |-> root_offset.s, ms |-> root_offset'.ms] /\ mix \in Time
      BY <1>0, <2>2, MixedType
    <3>3. RootUp + now \in Nat
      BY <1>0, SyncAssumption
    <3>4. /\ Reading(RootUp + now, t2).s \in Nat
          /\ Reading(RootUp + now, t2).ms \in 0 .. (Ms - 1)
      BY <3>3, ReadingTotal, GapsBits
    <3>5. Shifted(Reading(RootUp + now, t2), mix) \in Time
      BY <3>2, <3>4, ShiftedTotal
    <3>6. /\ packet'.type = "response" /\ packet'.local = packet.local
          /\ packet'.sent = packet.sent /\ packet'.set = sets /\ packet'.root \in Time
      BY <3>1, <3>2, <3>5 DEF Response
    <3>7. packet.type = "request" /\ sets \in 0 .. sets
      BY <1>0, <2>8 DEF TimeSetInAnswer
    <3> QED
      BY <2>2, <2>3, <2>4, <2>5, <2>6, <3>6, <3>7, ZeroReport DEF TypeOK, NoReport
  <2> QED
    BY <1>4, <2>7, <2>8
<1>5. CASE LosePacket
  BY <1>5 DEF TypeOK, LosePacket, Nothing
<1>6. CASE Tick
  <2>1. /\ now' = now + 1 /\ now' \in 0 .. MaxNow /\ report' = NoReport
        /\ UNCHANGED <<offset, root_offset, packet, syncs, sets, last, agreed>>
    BY <1>0, <1>6 DEF Tick
  <2>2. \A x \in 0 .. now : x \in 0 .. now'
    BY <1>0, <2>1
  <2> QED
    BY <2>1, <2>2, ZeroReport DEF TypeOK, NoReport
<1>7. CASE UNCHANGED vars
  BY <1>7 DEF TypeOK, vars
<1> QED
  BY <1>1, <1>2, <1>3, <1>4, <1>5, <1>6, <1>7 DEF Next

\* The node starts with a clock that was never set.
LEMMA TypesInit == Init => TypeOK
<1> SUFFICES ASSUME Init PROVE TypeOK
  OBVIOUS
<1>1. /\ 0 \in 0 .. MaxNow /\ 0 \in 0 .. MaxSyncs /\ 0 \in 0 .. MaxSets
      /\ [s |-> 0, ms |-> 0] \in Time /\ 0 \in Gaps
  BY SyncAssumption DEF Time, Gaps
<1>2. report.sent = 0 /\ report.made = 0 /\ packet.type = "none"
  BY DEF Init, Nothing, NoReport
<1>3. /\ last.base = 0 /\ last.gap = 0 /\ now = 0 /\ syncs = 0 /\ sets = 0
      /\ offset = [s |-> 0, ms |-> 0] /\ root_offset = [s |-> 0, ms |-> 0]
  BY DEF Init
<1>4. /\ report.sent \in -(W16 \div 2) .. (W16 \div 2 - 1) /\ report.made \in Int
  BY <1>2, ZeroReport
<1>5. /\ now \in 0 .. MaxNow /\ offset \in Time /\ root_offset \in Time
      /\ syncs \in 0 .. MaxSyncs /\ sets \in 0 .. MaxSets
  BY <1>1, <1>3
<1>6. last.base \in Int /\ last.gap \in Gaps
  BY <1>1, <1>3
<1>7. agreed \in BOOLEAN
  BY DEF Init
<1>8. /\ packet.type \in {"none", "request", "response"}
      /\ packet.type # "none" => packet.local \in Time /\ packet.sent \in 0 .. now
      /\ packet.type = "response" => packet.root \in Time /\ packet.set \in 0 .. sets
  BY <1>2
<1> QED
  BY <1>4, <1>5, <1>6, <1>7, <1>8, Zenon DEF TypeOK

\* Every variable keeps its type, whatever the range of the clocks: a time never shows
\* a full second of milliseconds, and the report fits its int16_t.
THEOREM SyncTypes == Spec => []TypeOK
  BY TypesInit, TypesNext, PTL DEF Spec

-----------------------------------------------------------------------------
(* The clocks.                                                              *)

\* The numbers that the range of the clocks leaves.
LEMMA Ranges ==
  ASSUME EpochInRange
  PROVE  /\ 3 * Limit + 1 + 2 * Ms <= RootUp
         /\ Top \in Int /\ Top <= W32 * Ms /\ RootUp + MaxNow + 5 * Ms <= Top
         /\ \A e \in Epochs : /\ e * Ms \in Nat /\ RootUp + MaxNow + 1 <= e * Ms
                              /\ e * Ms + MaxNow + 5 * Ms <= Top
<1>1. Ms \in Nat /\ W32 \in Nat /\ MaxDiff \in Nat
  BY SyncAssumption
<1>2. PICK top \in Int : top = (W32 - MaxDiff) * Ms
  BY <1>1
<1>3. (W32 - MaxDiff) * Ms = W32 * Ms - MaxDiff * Ms /\ MaxDiff * Ms \in Nat
        /\ W32 * Ms \in Nat
  BY <1>1
<1>4. Top \in Int /\ Top <= W32 * Ms
  BY <1>2, <1>3 DEF Top
<1>5. \A e \in Epochs : e * Ms \in Nat
  BY WholeSecond
<1> QED
  BY <1>4, <1>5 DEF EpochInRange

\* The node's clock is the rtc plus the offset, but for a torn reading, and far enough
\* from the width of the seconds.
LEMMA EpochTotal ==
  ASSUME EpochInRange, TypeOK, OffsetInv, NEW t \in {0, 1}
  PROVE  LET time == get_epoch_time(t)
         IN  /\ time \in Time /\ Total(time) \in Nat /\ Total(offset) \in Nat
             /\ Total(time) - now - Total(offset) \in TornBy
             /\ t = 0 => Total(time) = now + Total(offset)
             /\ time.s + MaxDiff < W32
<1> DEFINE time == get_epoch_time(t)
           read == Reading(now, t)
<1>1. /\ now \in Nat /\ now <= MaxNow /\ offset \in Time /\ Ms \in Nat \ {0}
      /\ MaxNow \in Nat /\ W32 \in Nat \ {0} /\ MaxDiff \in Nat
  BY SyncAssumption DEF TypeOK
<1>2. /\ read.s \in Nat /\ read.ms \in 0 .. (Ms - 1)
      /\ Total(read) \in Nat /\ Total(read) - now \in TornBy
      /\ t = 0 => Total(read) = now
  BY <1>1, ReadingTotal
<1>3. /\ Total(offset) \in Nat /\ Total(offset) + MaxNow + 2 * Ms <= Top
  BY <1>1, TimeTotal DEF OffsetInv
<1>4. Top \in Int /\ Top <= W32 * Ms
  BY Ranges
<1>5. time = Shifted(read, offset)
  BY DEF get_epoch_time
<1> HIDE DEF time, read
<1>6. Total(read) <= now + 1
  BY <1>1, <1>2 DEF TornBy
<1>7. Total(read) + Total(offset) < Top /\ Total(read) + Total(offset) < W32 * Ms
  <2>1. W32 * Ms \in Int
    BY <1>1
  <2> QED
    BY <1>1, <1>2, <1>3, <1>4, <1>6, <2>1
<1>8. time \in Time /\ Total(time) = Total(read) + Total(offset)
  BY <1>1, <1>2, <1>5, <1>7, ShiftedTotal
<1>9. /\ time.s \in Nat /\ time.ms \in Nat /\ Total(time) = time.s * Ms + time.ms
      /\ time.s * Ms \in Nat
  BY <1>1, <1>8, TimeTotal
<1>10. time.s + MaxDiff < W32
  <2>1. time.s * Ms < (W32 - MaxDiff) * Ms
    BY <1>2, <1>3, <1>4, <1>7, <1>8, <1>9 DEF Top
  <2>2. time.s < W32 - MaxDiff
    BY <1>1, <1>9, <2>1, MulLess
  <2> QED
    BY <1>1, <1>9, <2>2
<1>11. Total(time) - now - Total(offset) = Total(read) - now
  BY <1>1, <1>2, <1>3, <1>8
<1>12. Total(time) - now - Total(offset) \in TornBy
  BY <1>2, <1>11
<1>13. Total(time) \in Nat /\ (t = 0 => Total(time) = now + Total(offset))
  BY <1>1, <1>2, <1>3, <1>8
<1> QED
  BY <1>3, <1>8, <1>10, <1>12, <1>13 DEF time

\* What the root's clock shows, whole or with the seconds of its offset and the
\* milliseconds of another one.
LEMMA RootTotal ==
  ASSUME EpochInRange, TypeOK, RootInv, NEW t \in {0, 1}, NEW off \in Time,
         off.s = root_offset.s
  PROVE  LET time == Shifted(Reading(RootUp + now, t), off)
         IN  /\ RootUp + now + 1 <= Total(time) + Ms
             /\ Total(time) + MaxNow + 3 * Ms <= Top + now
             /\ off = root_offset =>
                  /\ Total(time) - (RootUp + now + Total(root_offset)) \in TornBy
                  /\ t = 0 => Total(time) = RootUp + now + Total(root_offset)
<1> DEFINE x == RootUp + now
           read == Reading(x, t)
           time == Shifted(read, off)
<1>1. /\ now \in Nat /\ now <= MaxNow /\ root_offset \in Time /\ Ms \in Nat \ {0}
      /\ MaxNow \in Nat /\ W32 \in Nat \ {0} /\ RootUp \in Nat /\ x \in Nat
  BY SyncAssumption DEF TypeOK
<1>2. /\ read.s \in Nat /\ read.ms \in 0 .. (Ms - 1)
      /\ Total(read) \in Nat /\ Total(read) - x \in TornBy
      /\ t = 0 => Total(read) = x
  <2> HIDE DEF x
  <2> QED
    BY <1>1, ReadingTotal
<1>3. /\ Total(root_offset) \in Nat /\ Total(off) \in Nat
      /\ Total(off) < Total(root_offset) + Ms
  <2>1. /\ Total(root_offset) = root_offset.s * Ms + root_offset.ms
        /\ root_offset.s * Ms \in Nat /\ root_offset.ms \in Nat
        /\ Total(root_offset) \in Nat
    BY <1>1, TimeTotal
  <2>2. /\ Total(off) = root_offset.s * Ms + off.ms /\ off.ms \in 0 .. (Ms - 1)
        /\ Total(off) \in Nat
    BY TimeTotal
  <2> QED
    BY <1>1, <2>1, <2>2
<1>4. Total(root_offset) + RootUp + MaxNow + 4 * Ms <= Top
  BY DEF RootInv
<1>5. Top \in Int /\ Top <= W32 * Ms /\ W32 * Ms \in Int
  BY <1>1, Ranges
<1> HIDE DEF time, read
<1>6. Total(read) <= x + 1 /\ x + 1 <= Total(read) + Ms
  BY <1>1, <1>2 DEF TornBy
<1>7. Total(read) + Total(off) < W32 * Ms
  BY <1>1, <1>2, <1>3, <1>4, <1>5, <1>6
<1>8. Total(time) = Total(read) + Total(off)
  BY <1>2, <1>7, ShiftedTotal DEF time
<1>9. /\ RootUp + now + 1 <= Total(time) + Ms
      /\ Total(time) + MaxNow + 3 * Ms <= Top + now
  BY <1>1, <1>2, <1>3, <1>4, <1>5, <1>6, <1>8
<1>10. off = root_offset =>
         /\ Total(time) - (RootUp + now + Total(root_offset)) \in TornBy
         /\ t = 0 => Total(time) = RootUp + now + Total(root_offset)
  <2> SUFFICES ASSUME off = root_offset
               PROVE  /\ Total(time) - (RootUp + now + Total(root_offset)) \in TornBy
                      /\ t = 0 => Total(time) = RootUp + now + Total(root_offset)
    OBVIOUS
  <2>1. Total(time) - (RootUp + now + Total(root_offset)) = Total(read) - x
    BY <1>1, <1>2, <1>3, <1>8
  <2>2. t = 0 => Total(time) = RootUp + now + Total(root_offset)
    BY <1>1, <1>2, <1>8
  <2> QED
    BY <1>2, <2>1, <2>2
<1> QED
  BY <1>9, <1>10 DEF time, read

\* The offset that TIME_SET gives the root keeps its clock in range.
LEMMA RootSet ==
  ASSUME EpochInRange, TypeOK, NEW e \in Epochs, NEW t \in {0, 1}
  PROVE  Total(NewRootOffset(e, t)) + RootUp + MaxNow + 4 * Ms <= Top
<1> DEFINE x == RootUp + now
           read == Reading(x, t)
           new == [s |-> e, ms |-> 0]
<1>1. /\ now \in Nat /\ now <= MaxNow /\ Ms \in Nat \ {0} /\ MaxNow \in Nat
      /\ RootUp \in Nat /\ x \in Nat
  BY SyncAssumption DEF TypeOK
<1>2. /\ read.s \in Nat /\ read.ms \in 0 .. (Ms - 1)
      /\ Total(read) \in Nat /\ Total(read) - x \in TornBy
  <2> HIDE DEF x
  <2> QED
    BY <1>1, ReadingTotal
<1>3. new \in Time /\ Total(new) = e * Ms /\ e * Ms \in Nat
  BY WholeSecond
<1>4. /\ RootUp + MaxNow + 1 <= e * Ms /\ e * Ms + MaxNow + 5 * Ms <= Top /\ Top \in Int
  BY Ranges
<1>5. NewRootOffset(e, t) = set_epoch_time(new, read)
  BY DEF NewRootOffset
<1> HIDE DEF read, new
<1>6. Total(read) <= x + 1 /\ x + 1 <= Total(read) + Ms
  BY <1>1, <1>2 DEF TornBy
<1>7. Total(read) <= Total(new)
  BY <1>1, <1>2, <1>3, <1>4, <1>6
<1>8. Total(NewRootOffset(e, t)) = Total(new) - Total(read)
  BY <1>2, <1>3, <1>5, <1>7, SetTotal
<1> QED
  BY <1>1, <1>2, <1>3, <1>4, <1>6, <1>8

\* How long an exchange took, as its handler sees it.
LEMMA ExchangeTime ==
  ASSUME EpochInRange, TransitInRange, TypeOK, OffsetInv, PacketInv,
         packet.type = "response", NEW t \in {0, 1}, NEW half \in 0 .. Limit,
         half = calculate_transit_time(packet.local, get_epoch_time(t))
  PROVE  now - packet.sent <= 2 * half + 1 + Ms
<1>1. /\ now \in Nat /\ packet.sent \in Nat /\ packet.sent <= now
      /\ Ms \in Nat \ {0} /\ W16 \in Nat /\ W32 \in Nat /\ MaxTransit \in Nat
      /\ half \in Nat /\ packet.local \in Time
  BY SyncAssumption DEF TypeOK
<1>2. PICK e3 \in TornBy : e3 = Total(get_epoch_time(t)) - now - Total(offset)
  BY EpochTotal
<1>3. PICK e4 \in TornBy : e4 = Total(packet.local) - packet.sent - Total(offset)
  BY DEF PacketInv
<1>4. /\ Total(get_epoch_time(t)) \in Nat /\ Total(packet.local) \in Nat
      /\ get_epoch_time(t) \in Time /\ Total(offset) \in Nat
  BY <1>1, EpochTotal, TimeTotal
<1>5. \A e \in TornBy : e \in Int /\ 1 - Ms <= e /\ e <= 1
  BY <1>1 DEF TornBy
<1>6. PICK gone \in Int : gone = Total(get_epoch_time(t)) - Total(packet.local)
  BY <1>4
<1>7. gone = (now + e3) - (packet.sent + e4)
  BY <1>1, <1>2, <1>3, <1>4, <1>5, <1>6
<1>8. now <= packet.sent + MaxTransit
  BY DEF PacketInv
<1>9. gone <= 2 * half + 1
  <2>1. CASE gone < 0
    BY <1>1, <2>1
  <2>2. CASE 0 <= gone
    <3>1. gone < 2 * W16 /\ 2 * W16 <= W32
      BY <1>1, <1>5, <1>7, <1>8 DEF TransitInRange
    <3> QED
      BY <1>1, <1>4, <1>6, <2>2, <3>1, TransitTotal
  <2> QED
    BY <2>1, <2>2
<1> QED
  BY <1>1, <1>5, <1>7, <1>9

\* The offset that an accepted answer sets.
LEMMA NewOffset ==
  ASSUME EpochInRange, TransitInRange, TypeOK, OffsetInv, PacketInv,
         packet.type = "response",
         NEW t1 \in {0, 1}, NEW t2 \in {0, 1}, NEW half \in 0 .. Limit, NEW new,
         half = calculate_transit_time(packet.local, get_epoch_time(t1)),
         new = Minus(packet.root, half)
  PROVE  LET off == set_epoch_time(new, Reading(now, t2))
         IN  \E x \in packet.sent .. now, e2 \in TornBy :
               /\ off \in Time /\ Total(off) \in Nat /\ Total(new) \in Nat
               /\ Total(packet.root) \in Nat
               /\ t2 = 0 => e2 = 0
               /\ packet.set = sets =>
                    Total(packet.root) - (RootUp + x + Total(root_offset)) \in TornBy
               /\ Total(new) = Total(packet.root) - half
               /\ Total(off) = Total(new) - now - e2
               /\ Total(off) + MaxNow + 2 * Ms <= Top
<1> DEFINE off  == set_epoch_time(new, Reading(now, t2))
           read == Reading(now, t2)
<1>1. /\ now \in Nat /\ now <= MaxNow /\ Ms \in Nat \ {0} /\ MaxNow \in Nat
      /\ RootUp \in Nat /\ half \in Nat /\ half <= Limit /\ Limit \in Nat
      /\ packet.root \in Time /\ packet.sent \in Nat
  BY SyncAssumption DEF TypeOK
<1>2. PICK x \in packet.sent .. now :
         /\ RootUp + x + 1 <= Total(packet.root) + Ms
         /\ Total(packet.root) + MaxNow + 3 * Ms <= Top + x
         /\ packet.set = sets =>
              Total(packet.root) - (RootUp + x + Total(root_offset)) \in TornBy
  BY DEF PacketInv
<1>3. now - packet.sent <= 2 * half + 1 + Ms
  BY ExchangeTime
<1>4. PICK e2 \in TornBy : e2 = Total(read) - now
  BY <1>1, ReadingTotal
<1>5. /\ read.s \in Nat /\ read.ms \in 0 .. (Ms - 1) /\ Total(read) \in Nat
      /\ t2 = 0 => Total(read) = now
  BY <1>1, ReadingTotal
<1>6. off = set_epoch_time(new, read)
  OBVIOUS
<1> HIDE DEF read, off
<1>7. /\ Total(packet.root) \in Nat /\ x \in Nat /\ packet.sent <= x /\ x <= now
      /\ e2 \in Int /\ 1 - Ms <= e2 /\ e2 <= 1
  BY <1>1, TimeTotal DEF TornBy
<1>8. 3 * Limit + 1 + 2 * Ms <= RootUp /\ Top \in Int
  BY Ranges
<1>9. RootUp + now <= Total(packet.root) + 2 * half + 2 * Ms
  BY <1>1, <1>2, <1>3, <1>7
<1>10. new \in Time /\ Total(new) = Total(packet.root) - half
  <2>1. half <= Total(packet.root)
    BY <1>1, <1>2, <1>7, <1>8
  <2> QED
    BY <1>1, <2>1, MinusTotal
<1>11. Total(new) \in Nat
  BY <1>10, TimeTotal
<1>12. off \in Time /\ Total(off) = Total(new) - Total(read)
  <2>1. Total(read) = now + e2
    BY <1>1, <1>4, <1>5, <1>7
  <2>2. Total(read) <= Total(new)
    BY <1>1, <1>7, <1>8, <1>9, <1>10, <2>1
  <2> QED
    BY <1>5, <1>6, <1>10, <2>2, SetTotal
<1>13. Total(off) \in Nat
  BY <1>12, TimeTotal
<1>14. /\ t2 = 0 => e2 = 0
       /\ Total(off) = Total(new) - now - e2
  BY <1>1, <1>4, <1>5, <1>7, <1>10, <1>11, <1>12
<1>15. Total(off) + MaxNow + 2 * Ms <= Top
  BY <1>1, <1>2, <1>7, <1>8, <1>10, <1>14
<1> QED
  BY <1>2, <1>7, <1>10, <1>11, <1>12, <1>13, <1>14, <1>15 DEF off

\* Inductive: a clock is the rtc plus the total of its offset, and a packet under way
\* carries what the clocks showed when it was sent.
SyncInv == TypeOK /\ OffsetInv /\ RootInv /\ PacketInv /\ ReportIsHonest

\* Nothing is set, under way or reported when the node starts.
LEMMA SyncInit == EpochInRange /\ Init => OffsetInv /\ RootInv /\ PacketInv /\ ReportIsHonest
<1> SUFFICES ASSUME EpochInRange, Init
             PROVE  OffsetInv /\ RootInv /\ PacketInv /\ ReportIsHonest
  OBVIOUS
<1>1. /\ Total(offset) = 0 /\ Total(root_offset) = 0 /\ last.base = 0
      /\ packet.type = "none" /\ report.sent = 0 /\ report.made = 0
  BY SyncAssumption DEF Init, Total, Nothing, NoReport
<1>2. RootUp + MaxNow + 5 * Ms <= Top /\ Top \in Int
  BY Ranges
<1>3. RootUp \in Nat /\ MaxNow \in Nat /\ Ms \in Nat
  BY SyncAssumption
<1> QED
  BY <1>1, <1>2, <1>3 DEF OffsetInv, RootInv, PacketInv, ReportIsHonest

\* A new answer carries what the root's clock shows.
LEMMA AnswerNext ==
  ASSUME SyncInv, packet.type = "request", NEW time, packet' = Response(time),
         UNCHANGED <<now, offset>>,
         RootUp + now + 1 <= Total(time) + Ms,
         Total(time) + MaxNow + 3 * Ms <= Top + now,
         \/ sets' # sets
         \/ /\ root_offset' = root_offset
            /\ Total(time) - (RootUp + now + Total(root_offset)) \in TornBy
  PROVE  PacketInv'
<1>1. TypeOK /\ PacketInv
  BY DEF SyncInv
<1>2. /\ packet'.type = "response" /\ packet'.local = packet.local
      /\ packet'.sent = packet.sent /\ packet'.root = time /\ packet'.set = sets
  BY DEF Response
<1>3. now \in packet.sent .. now
  BY <1>1, SyncAssumption DEF TypeOK
<1>4. /\ Total(packet'.local) - packet'.sent - Total(offset') \in TornBy
      /\ now' <= packet'.sent + MaxTransit
  BY <1>1, <1>2 DEF PacketInv
<1>5. packet'.set = sets' =>
        Total(packet'.root) - (RootUp + now + Total(root_offset')) \in TornBy
  BY <1>2
<1>6. now \in packet'.sent .. now'
  BY <1>2, <1>3
<1>7. /\ RootUp + now + 1 <= Total(packet'.root) + Ms
      /\ Total(packet'.root) + MaxNow + 3 * Ms <= Top + now
  BY <1>2
<1>8. (packet.type # "none" =>
        /\ Total(packet.local) - packet.sent - Total(offset) \in TornBy
        /\ now <= packet.sent + MaxTransit)'
  BY <1>4
<1>9. (packet.type = "response" =>
        \E x \in packet.sent .. now :
          /\ RootUp + x + 1 <= Total(packet.root) + Ms
          /\ Total(packet.root) + MaxNow + 3 * Ms <= Top + x
          /\ packet.set = sets =>
               Total(packet.root) - (RootUp + x + Total(root_offset)) \in TornBy)'
  BY <1>5, <1>6, <1>7
<1> QED
  BY <1>8, <1>9 DEF PacketInv

\* Every step keeps the invariant.
LEMMA SyncNext == EpochInRange /\ TransitInRange /\ SyncInv /\ [Next]_vars => SyncInv'
<1> SUFFICES ASSUME EpochInRange, TransitInRange, SyncInv, [Next]_vars PROVE SyncInv'
  OBVIOUS
<1>0. TypeOK /\ OffsetInv /\ RootInv /\ PacketInv /\ ReportIsHonest /\ TypeOK'
  BY TypesNext DEF SyncInv
<1>a. /\ now \in Nat /\ now <= MaxNow /\ RootUp \in Nat /\ Ms \in Nat \ {0}
      /\ MaxNow \in Nat /\ MaxTransit \in Nat /\ sets \in Nat /\ root_offset \in Time
  BY <1>0, SyncAssumption DEF TypeOK
<1>b. report' = NoReport \/ report' = report => ReportIsHonest'
  <2>1. report' = report => ReportIsHonest'
    BY <1>0 DEF ReportIsHonest
  <2>2. report' = NoReport => ReportIsHonest'
    BY DEF ReportIsHonest, NoReport
  <2> QED
    BY <2>1, <2>2
<1> SUFFICES OffsetInv' /\ RootInv' /\ PacketInv' /\ ReportIsHonest'
  BY <1>0 DEF SyncInv
<1>1. CASE send_time_sync_req_packet
  <2>1. PICK t \in Gaps :
          packet' = [type |-> "request", local |-> get_epoch_time(t), sent |-> now]
    BY <1>1 DEF send_time_sync_req_packet
  <2>2. report' = NoReport /\ UNCHANGED <<now, offset, root_offset, last>>
    BY <1>1 DEF send_time_sync_req_packet
  <2>3. Total(get_epoch_time(t)) - now - Total(offset) \in TornBy
    BY <1>0, EpochTotal, GapsBits
  <2>4. packet'.type = "request" /\ packet'.local = get_epoch_time(t) /\ packet'.sent = now
    BY <2>1
  <2>5. /\ Total(packet'.local) - packet'.sent - Total(offset') \in TornBy
        /\ now' <= packet'.sent + MaxTransit
    BY <1>a, <2>2, <2>3, <2>4 DEF Total
  <2>6. PacketInv'
    BY <2>4, <2>5 DEF PacketInv
  <2> QED
    BY <1>0, <1>b, <2>2, <2>6 DEF OffsetInv, RootInv, Total
<1>2. CASE send_time_sync_resp_packet
  <2>1. PICK t \in Gaps : packet' = Response(root_time(t))
    BY <1>2 DEF send_time_sync_resp_packet
  <2>2. /\ packet.type = "request"
        /\ UNCHANGED <<now, offset, root_offset, sets, last, report>>
    BY <1>2 DEF send_time_sync_resp_packet
  <2>3. PICK time : time = root_time(t)
    OBVIOUS
  <2>4. time = Shifted(Reading(RootUp + now, t), root_offset)
    BY <2>3 DEF root_time
  <2>5. /\ RootUp + now + 1 <= Total(time) + Ms
        /\ Total(time) + MaxNow + 3 * Ms <= Top + now
        /\ Total(time) - (RootUp + now + Total(root_offset)) \in TornBy
    BY <1>0, <1>a, <2>4, RootTotal, GapsBits
  <2>6. packet' = Response(time)
    BY <2>1, <2>3
  <2>7. PacketInv'
    BY <2>2, <2>5, <2>6, AnswerNext
  <2> QED
    BY <1>0, <1>b, <2>2, <2>7 DEF OffsetInv, RootInv, Total
<1>3. CASE time_data_handler
  <2>1. /\ packet.type = "response" /\ packet' = Nothing
        /\ UNCHANGED <<now, root_offset, syncs, sets>>
        /\ \/ UNCHANGED <<offset, last, agreed, report>>
           \/ \E t1, t2 \in Gaps, half \in 0 .. Limit, new \in Time :
                Accepted(t1, t2, half, new)
    BY <1>0, <1>3, Handler
  <2>2. PacketInv' /\ RootInv'
    BY <1>0, <2>1 DEF PacketInv, RootInv, Nothing, Total
  <2>3. CASE UNCHANGED <<offset, last, agreed, report>>
    BY <1>0, <2>1, <2>2, <2>3 DEF OffsetInv, ReportIsHonest, Total
  <2>4. CASE \E t1, t2 \in Gaps, half \in 0 .. Limit, new \in Time :
               Accepted(t1, t2, half, new)
    <3>1. PICK t1 \in Gaps, t2 \in Gaps, half \in 0 .. Limit, new \in Time :
            Accepted(t1, t2, half, new)
      BY <2>4
    <3>2. /\ half = calculate_transit_time(packet.local, get_epoch_time(t1))
          /\ new = Minus(packet.root, half)
          /\ offset' = set_epoch_time(new, Reading(now, t2))
          /\ last'.base = Total(new) - now /\ last'.gap = t2
          /\ report'.sent = calculate_diff_time(new, get_epoch_time(t1))
          /\ report'.made = Total(new) - Total(get_epoch_time(t1))
      BY <3>1 DEF Accepted
    <3>3. PICK e2 \in TornBy :
            /\ Total(offset') \in Nat /\ Total(new) \in Nat
            /\ t2 = 0 => e2 = 0
            /\ Total(offset') = Total(new) - now - e2
            /\ Total(offset') + MaxNow + 2 * Ms <= Top
      BY <1>0, <2>1, <3>2, NewOffset, GapsBits
    <3>4. e2 \in Int /\ t2 \in {0, 1}
      BY <1>a, GapsBits DEF TornBy
    <3>5. Total(offset') - last'.base = 0 - e2
      BY <1>a, <3>2, <3>3, <3>4
    <3>6. 0 - e2 = 0 \/ (last'.gap = 1 /\ 0 - e2 \in {-1, Ms - 1})
      BY <1>a, <3>2, <3>3, <3>4 DEF TornBy
    <3>7. OffsetInv'
      BY <3>3, <3>5, <3>6 DEF OffsetInv, Total
    <3>8. get_epoch_time(t1) \in Time /\ get_epoch_time(t1).s + MaxDiff < W32
      BY <1>0, EpochTotal, GapsBits
    <3>9. ReportIsHonest'
      BY <3>2, <3>8, DiffTotal DEF ReportIsHonest
    <3> QED
      BY <2>2, <3>7, <3>9
  <2> QED
    BY <2>1, <2>3, <2>4
<1>4. CASE TimeSet \/ TimeSetInAnswer
  <2>1. /\ sets' = sets + 1 /\ UNCHANGED <<now, offset, last>>
        /\ report' = NoReport \/ report' = report
        /\ \E e \in Epochs, t \in Gaps : root_offset' = NewRootOffset(e, t)
    BY <1>4 DEF TimeSet, TimeSetInAnswer
  <2>2. PICK e \in Epochs, t \in Gaps : root_offset' = NewRootOffset(e, t)
    BY <2>1
  <2>3. Total(root_offset') + RootUp + MaxNow + 4 * Ms <= Top
    BY <1>0, <2>2, RootSet, GapsBits
  <2>4. OffsetInv' /\ RootInv' /\ ReportIsHonest'
    BY <1>0, <1>b, <2>1, <2>3 DEF OffsetInv, RootInv, Total
  <2>5. CASE TimeSet
    <3>1. packet' = packet
      BY <2>5 DEF TimeSet
    <3>2. packet.type = "response" => packet.set # sets'
      BY <1>0, <1>a, <2>1 DEF TypeOK
    <3> QED
      BY <1>0, <2>1, <2>4, <3>1, <3>2 DEF PacketInv, Total
  <2>6. CASE TimeSetInAnswer
    <3>1. PICK t2 \in Gaps :
            packet' = Response(Shifted(Reading(RootUp + now, t2),
                                       [s |-> root_offset.s, ms |-> root_offset'.ms]))
      BY <2>6 DEF TimeSetInAnswer
    <3>2. packet.type = "request" /\ sets' # sets /\ root_offset' \in Time
      BY <1>0, <1>a, <2>1, <2>6 DEF TimeSetInAnswer, TypeOK
    <3>3. PICK mix : mix = [s |-> root_offset.s, ms |-> root_offset'.ms]
      OBVIOUS
    <3>4. mix \in Time /\ mix.s = root_offset.s
      BY <1>a, <3>2, <3>3, MixedType
    <3>5. PICK time : time = Shifted(Reading(RootUp + now, t2), mix)
      OBVIOUS
    <3>6. /\ RootUp + now + 1 <= Total(time) + Ms
          /\ Total(time) + MaxNow + 3 * Ms <= Top + now
      BY <1>0, <3>4, <3>5, RootTotal, GapsBits
    <3>7. packet' = Response(time)
      BY <3>1, <3>3, <3>5
    <3>8. PacketInv'
      BY <2>1, <3>2, <3>6, <3>7, AnswerNext
    <3> QED
      BY <2>4, <3>8
  <2> QED
    BY <1>4, <2>5, <2>6
<1>5. CASE LosePacket
  <2>1. packet' = Nothing /\ UNCHANGED <<now, offset, root_offset, last, report>>
    BY <1>5 DEF LosePacket
  <2> QED
    BY <1>0, <2>1 DEF Nothing, OffsetInv, RootInv, PacketInv, ReportIsHonest, Total
<1>6. CASE Tick
  <2>1. /\ now' = now + 1 /\ report' = NoReport
        /\ UNCHANGED <<offset, root_offset, packet, sets, last>>
        /\ packet # Nothing => now < packet.sent + MaxTransit
    BY <1>6 DEF Tick
  <2>2. OffsetInv' /\ RootInv'
    BY <1>0, <2>1 DEF OffsetInv, RootInv, Total
  <2>3. packet.type # "none" =>
          /\ \A x \in packet.sent .. now : x \in packet.sent .. now'
          /\ now' <= packet.sent + MaxTransit
    BY <1>0, <1>a, <2>1 DEF TypeOK, Nothing
  <2>4. PacketInv'
    BY <1>0, <2>1, <2>3 DEF PacketInv, Total
  <2> QED
    BY <1>b, <2>1, <2>2, <2>4
<1>7. CASE UNCHANGED vars
  BY <1>0, <1>7 DEF vars, OffsetInv, RootInv, PacketInv, ReportIsHonest, Total
<1> QED
  BY <1>1, <1>2, <1>3, <1>4, <1>5, <1>6, <1>7 DEF Next

\* The invariant holds throughout.
LEMMA SyncAlways == ASSUME EpochInRange, TransitInRange PROVE Spec => []SyncInv
<1>1. Init => SyncInv
  <2>1. Init => TypeOK
    BY TypesInit
  <2> QED
    BY <2>1, SyncInit DEF SyncInv
<1>2. SyncInv /\ [Next]_vars => SyncInv'
  BY SyncNext
<1> QED
  BY <1>1, <1>2, PTL DEF Spec

\* In the range of the clocks the node's clock runs with its rtc from the moment it was
\* set: no sequence of carries, borrows and wrap-arounds of set_epoch_time and
\* get_epoch_time loses or gains anything but one torn reading, whatever the router
\* does to the root's clock.
THEOREM ClockRunsTrue == ASSUME EpochInRange, TransitInRange PROVE Spec => []ClockRuns
<1>1. SyncInv => ClockRuns
  <2> SUFFICES ASSUME SyncInv PROVE ClockRuns
    OBVIOUS
  <2>1. /\ Total(get_epoch_time(0)) = now + Total(offset) /\ Total(offset) \in Nat
    BY EpochTotal DEF SyncInv
  <2>2. now \in Nat /\ last.base \in Int /\ Ms \in Nat
    BY SyncAssumption DEF SyncInv, TypeOK
  <2>3. Total(get_epoch_time(0)) - (last.base + now) = Total(offset) - last.base
    BY <2>1, <2>2
  <2> QED
    BY <2>3 DEF ClockRuns, SyncInv, OffsetInv
<1> QED
  BY <1>1, SyncAlways, PTL

\* In the range of the clocks the TIMESYNC_STATUS that a node sends is the correction
\* it made, or the number for "out of range" where the correction was not a forward
\* one in range.
THEOREM ReportsHonestly ==
  ASSUME EpochInRange, TransitInRange PROVE Spec => []ReportIsHonest
<1>1. SyncInv => ReportIsHonest
  BY DEF SyncInv
<1> QED
  BY <1>1, SyncAlways, PTL

-----------------------------------------------------------------------------
(* How far a node may be off the root.                                      *)

\* The difference that an accepted answer leaves.
LEMMA LagNext ==
  EpochInRange /\ TransitInRange /\ SyncInv /\ LagInv /\ [Next]_vars => LagInv'
<1> SUFFICES ASSUME EpochInRange, TransitInRange, SyncInv, LagInv, [Next]_vars
             PROVE  LagInv'
  OBVIOUS
<1>0. TypeOK /\ OffsetInv /\ PacketInv
  BY DEF SyncInv
<1>1. CASE UNCHANGED <<offset, root_offset, agreed>>
  BY <1>1 DEF LagInv, Total
<1>2. CASE TimeSet \/ TimeSetInAnswer
  BY <1>2 DEF TimeSet, TimeSetInAnswer, LagInv
<1>3. CASE time_data_handler
  <2>1. /\ packet.type = "response" /\ root_offset' = root_offset
        /\ \/ UNCHANGED <<offset, last, agreed, report>>
           \/ \E t1, t2 \in Gaps, half \in 0 .. Limit, new \in Time :
                Accepted(t1, t2, half, new)
    BY <1>0, <1>3, Handler
  <2>2. CASE \E t1, t2 \in Gaps, half \in 0 .. Limit, new \in Time :
               Accepted(t1, t2, half, new)
    <3>1. PICK t1 \in Gaps, t2 \in Gaps, half \in 0 .. Limit, new \in Time :
            Accepted(t1, t2, half, new)
      BY <2>2
    <3>2. /\ half = calculate_transit_time(packet.local, get_epoch_time(t1))
          /\ new = Minus(packet.root, half)
          /\ offset' = set_epoch_time(new, Reading(now, t2))
          /\ agreed' = (packet.set = sets)
      BY <3>1 DEF Accepted
    <3> SUFFICES ASSUME agreed'
                 PROVE  LET lag == RootUp + Total(root_offset) - Total(offset')
                        IN  -Ms <= lag /\ lag <= 3 * Limit + 1 + 2 * Ms
      BY <2>1 DEF LagInv, Total
    <3>3. packet.set = sets
      BY <3>2
    <3>4. PICK x \in packet.sent .. now, e2 \in TornBy :
            /\ Total(offset') \in Nat /\ Total(new) \in Nat /\ Total(packet.root) \in Nat
            /\ Total(packet.root) - (RootUp + x + Total(root_offset)) \in TornBy
            /\ Total(new) = Total(packet.root) - half
            /\ Total(offset') = Total(new) - now - e2
      BY <1>0, <2>1, <3>2, <3>3, NewOffset, GapsBits
    <3>5. /\ now \in Nat /\ RootUp \in Nat /\ Ms \in Nat \ {0} /\ Limit \in Nat
          /\ packet.sent \in Nat /\ packet.sent <= now
          /\ half \in Nat /\ half <= Limit /\ Total(root_offset) \in Nat
      BY <1>0, <2>1, TimeTotal, SyncAssumption DEF TypeOK
    <3>6. PICK e1 \in TornBy : e1 = Total(packet.root) - (RootUp + x + Total(root_offset))
      BY <3>4
    <3>7. \A e \in TornBy : e \in Int /\ 1 - Ms <= e /\ e <= 1
      BY <3>5 DEF TornBy
    <3>8. now - packet.sent <= 2 * half + 1 + Ms
      BY <1>0, <2>1, <3>2, ExchangeTime, GapsBits
    <3>9. PICK lag \in Int : lag = RootUp + Total(root_offset) - Total(offset')
      BY <3>4, <3>5
    <3>10. lag = now - x - e1 + e2 + half /\ x \in Int /\ packet.sent <= x /\ x <= now
      BY <3>4, <3>5, <3>6, <3>7, <3>9
    <3>11. -Ms <= lag /\ lag <= 3 * Limit + 1 + 2 * Ms
      BY <3>5, <3>7, <3>8, <3>10
    <3> QED
      BY <3>9, <3>11
  <2> QED
    BY <1>1, <2>1, <2>2
<1> QED
  BY <1>1, <1>2, <1>3 DEF Next, send_time_sync_req_packet, send_time_sync_resp_packet,
                         LosePacket, Tick, vars

\* In the range of the clocks, and with half of every transit time in a uint16_t, a node
\* that took its time from the root's present clock is at most a second ahead of it, and
\* behind it by at most three times the limit on half the transit time and the torn
\* readings, through every setting of the root's clock by the router.
THEOREM LagStaysBounded ==
  ASSUME EpochInRange, TransitInRange PROVE Spec => []LagBounded
<1>1. Init => LagInv
  BY DEF Init, LagInv
<1>2. SyncInv /\ LagInv /\ [Next]_vars => LagInv'
  BY LagNext
<1>3. SyncInv /\ LagInv => LagBounded
  <2> SUFFICES ASSUME SyncInv, LagInv, agreed
               PROVE  LET lag == Total(root_time(0)) - Total(get_epoch_time(0))
                      IN  -Ms <= lag /\ lag <= 3 * Limit + 1 + 2 * Ms
    BY DEF LagBounded
  <2>1. Total(get_epoch_time(0)) = now + Total(offset) /\ Total(offset) \in Nat
    BY EpochTotal DEF SyncInv
  <2>2. /\ now \in Nat /\ RootUp \in Nat /\ root_offset \in Time
        /\ Total(root_offset) \in Nat
    BY TimeTotal, SyncAssumption DEF SyncInv, TypeOK
  <2>3. Total(root_time(0)) = RootUp + now + Total(root_offset)
    BY <2>2, RootTotal DEF SyncInv, root_time
  <2>4. Total(root_time(0)) - Total(get_epoch_time(0))
          = RootUp + Total(root_offset) - Total(offset)
    BY <2>1, <2>2, <2>3
  <2> QED
    BY <2>4 DEF LagInv
<1> QED
  BY <1>1, <1>2, <1>3, SyncAlways, PTL DEF Spec
=============================================================================
