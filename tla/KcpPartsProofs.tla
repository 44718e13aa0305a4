----------------------------- MODULE KcpPartsProofs -----------------------------
(***************************************************************************)
(* Proofs about KcpParts, for every value of its constants: the clock that *)
(* wraps and is set, the two counts of the congestion window, the segments *)
(* on the wire and the settings of the two ends.                           *)
(***************************************************************************)
EXTENDS KcpParts, TLAPS

--------------------------------------------------------------------------------
(* Time stamps that wrap.                                                  *)

LEMMA ClockNumbers ==
  /\ TimeMod \in Nat \ {0} /\ Interval \in Nat \ {0} /\ ResetLimit \in Nat \ {0}
  /\ ProbeInit \in Nat \ {0} /\ ProbeLimit \in Nat \ {0} /\ RxRto \in Nat \ {0}
  /\ MaxRto \in Nat \ {0} /\ MaxLate \in Nat \ {0} /\ MaxSteps \in Nat
  /\ Interval <= ResetLimit /\ ProbeInit <= ProbeLimit /\ RxRto <= MaxRto
  /\ 2 * (ResetLimit + Interval) < TimeMod /\ 2 * ProbeLimit < TimeMod
  /\ 2 * MaxRto < TimeMod /\ 2 * (MaxLate + Interval) <= TimeMod
  BY ClockAssumption

\* A number that is off by less than a cycle, taken modulo the cycle.
LEMMA ModOnce ==
  ASSUME NEW a \in Int, -TimeMod <= a, a < 2 * TimeMod
  PROVE  /\ 0 <= a /\ a < TimeMod => a % TimeMod = a
         /\ TimeMod <= a => a % TimeMod = a - TimeMod
         /\ a < 0 => a % TimeMod = a + TimeMod
  BY ClockNumbers

\* The difference of two time stamps is the shorter way round.
LEMMA DiffIs ==
  ASSUME NEW x \in Time, NEW y \in Time
  PROVE  LET d == x - y
         IN itimediff(x, y) = IF 2 * d >= TimeMod THEN d - TimeMod
                              ELSE IF 2 * d < -TimeMod THEN d + TimeMod ELSE d
<1> DEFINE d == x - y
<1>1. d \in Int /\ -TimeMod < d /\ d < TimeMod /\ TimeMod \in Nat \ {0}
  BY ClockNumbers DEF Time
<1>2. itimediff(x, y) = IF 2 * (d % TimeMod) < TimeMod THEN d % TimeMod ELSE (d % TimeMod) - TimeMod
  BY DEF itimediff
<1> HIDE DEF d
<1>3. -TimeMod <= d /\ d < 2 * TimeMod
  BY <1>1
<1>4. CASE d >= 0
  <2>1. d % TimeMod = d
    BY <1>1, <1>3, <1>4, ModOnce
  <2>2. QED BY <1>1, <1>2, <1>4, <2>1 DEF d
<1>5. CASE d < 0
  <2>1. d % TimeMod = d + TimeMod
    BY <1>1, <1>3, <1>5, ModOnce
  <2>2. QED BY <1>1, <1>2, <1>5, <2>1 DEF d
<1>6. QED BY <1>1, <1>4, <1>5

LEMMA AfterIs ==
  ASSUME NEW t \in Time, NEW n \in Nat, n < TimeMod
  PROVE  /\ After(t, n) \in Time
         /\ After(t, n) = IF t + n < TimeMod THEN t + n ELSE t + n - TimeMod
<1> DEFINE a == t + n
<1>1. a \in Nat /\ a < 2 * TimeMod /\ TimeMod \in Nat \ {0} /\ After(t, n) = a % TimeMod
  BY ClockNumbers DEF Time, After
<1> HIDE DEF a
<1>2. a \in Int /\ 0 <= a /\ -TimeMod <= a
  BY <1>1
<1>3. CASE a < TimeMod
  <2>1. a % TimeMod = a
    BY <1>1, <1>2, <1>3, ModOnce
  <2>2. QED BY <1>1, <1>3, <2>1 DEF Time, a
<1>4. CASE a >= TimeMod
  <2>1. a % TimeMod = a - TimeMod
    BY <1>1, <1>2, <1>4, ModOnce
  <2>2. QED BY <1>1, <1>4, <2>1 DEF Time, a
<1>5. QED BY <1>1, <1>3, <1>4

\* A difference is less than half a cycle, and turned round its sign changes.
LEMMA DiffRange ==
  ASSUME NEW x \in Time, NEW y \in Time
  PROVE  /\ itimediff(x, y) \in Int
         /\ -TimeMod <= 2 * itimediff(x, y) /\ 2 * itimediff(x, y) < TimeMod
         /\ itimediff(x, x) = 0
         /\ 2 * itimediff(x, y) # -TimeMod => itimediff(y, x) = -itimediff(x, y)
  BY DiffIs, ClockNumbers DEF Time

\* What lies ahead comes nearer, what is past goes away.
LEMMA DiffShift ==
  ASSUME NEW x \in Time, NEW y \in Time, NEW n \in Nat, n < TimeMod,
         -TimeMod <= 2 * (itimediff(x, y) - n)
  PROVE  itimediff(x, After(y, n)) = itimediff(x, y) - n
<1> DEFINE a == After(y, n)
<1>1. a \in Time /\ a = IF y + n < TimeMod THEN y + n ELSE y + n - TimeMod
  BY AfterIs
<1> HIDE DEF a
<1>2. itimediff(x, a) = IF 2 * (x - a) >= TimeMod THEN x - a - TimeMod
                        ELSE IF 2 * (x - a) < -TimeMod THEN x - a + TimeMod ELSE x - a
  BY <1>1, DiffIs
<1>3. itimediff(x, y) = IF 2 * (x - y) >= TimeMod THEN x - y - TimeMod
                        ELSE IF 2 * (x - y) < -TimeMod THEN x - y + TimeMod ELSE x - y
  BY DiffIs
<1>4. /\ x \in Nat /\ y \in Nat /\ a \in Nat /\ TimeMod \in Nat \ {0}
      /\ x < TimeMod /\ y < TimeMod /\ a < TimeMod
  BY <1>1, ClockNumbers DEF Time
<1>5. itimediff(x, a) = itimediff(x, y) - n
  BY <1>1, <1>2, <1>3, <1>4
<1>6. QED BY <1>5 DEF a

\* What was set to be in n is in n.
LEMMA DiffAfter ==
  ASSUME NEW t \in Time, NEW n \in Nat, 2 * n < TimeMod
  PROVE  After(t, n) \in Time /\ itimediff(After(t, n), t) = n
<1> DEFINE a == After(t, n)
<1>1. n < TimeMod /\ TimeMod \in Nat \ {0}
  BY ClockNumbers
<1>2. a \in Time /\ a = IF t + n < TimeMod THEN t + n ELSE t + n - TimeMod
  BY <1>1, AfterIs
<1> HIDE DEF a
<1>3. itimediff(a, t) = IF 2 * (a - t) >= TimeMod THEN a - t - TimeMod
                        ELSE IF 2 * (a - t) < -TimeMod THEN a - t + TimeMod ELSE a - t
  BY <1>2, DiffIs
<1>4. t \in Nat /\ a \in Nat /\ t < TimeMod
  BY <1>1, <1>2 DEF Time
<1>5. itimediff(a, t) = n
  BY <1>1, <1>2, <1>3, <1>4
<1>6. QED BY <1>2, <1>5 DEF a

--------------------------------------------------------------------------------
(* The clock.                                                              *)

(* A timer t was set to run out within w, and a flush sees it before it is *)
(* a flush interval late.                                                  *)
Waits(t, w) ==
  itimediff(t, current) \in (itimediff(ts_flush, current) - Interval + 1)..w

(* Before the first call of ikcp_update nothing was sent and nothing is    *)
(* probed.                                                                 *)
NothingBefore == ~updated => seg # "sent" /\ probe_wait = 0

TimersKept ==
  steps = 0 =>
    /\ probe_wait > 0 => Waits(ts_probe, probe_wait)
    /\ seg = "sent" => rto >= 1 /\ Waits(resendts, rto)

ClockInv == TypeOK /\ FlushAhead /\ NothingBefore /\ TimersKept

LEMMA Halved ==
  ASSUME NEW n \in Nat
  PROVE  n \div 2 \in Nat
  OBVIOUS

LEMMA LongerWait ==
  ASSUME NEW w \in Nat, NEW more \in Nat, NEW least \in Nat, NEW limit \in Nat,
         least <= w, w <= limit
  PROVE  MinOf(w + more, limit) \in least..limit
  BY DEF MinOf

LEMMA NextFlushAhead ==
  ASSUME NEW now \in Time, NEW due \in Time, itimediff(now, due) \in 0..ResetLimit - 1
  PROVE  /\ NextFlush(due, now) \in Time
         /\ itimediff(NextFlush(due, now), now) \in 1..Interval
<1> DEFINE next == After(due, Interval)
           s == itimediff(now, due)
<1>1. /\ Interval \in Nat \ {0} /\ 2 * Interval < TimeMod /\ Interval < TimeMod
      /\ TimeMod \in Nat \ {0} /\ ResetLimit \in Nat /\ 2 * (ResetLimit + Interval) < TimeMod
  BY ClockNumbers
<1>2. next \in Time
  BY <1>1, DiffAfter
<1>3. s \in 0..ResetLimit - 1
  OBVIOUS
<1>4. itimediff(now, next) = s - Interval
  <2>1. -TimeMod <= 2 * (s - Interval)
    BY <1>1, <1>3
  <2>2. QED BY <1>1, <2>1, DiffShift
<1>5. CASE itimediff(now, next) >= 0
  <2>1. NextFlush(due, now) = After(now, Interval)
    BY <1>5 DEF NextFlush
  <2>2. After(now, Interval) \in Time /\ itimediff(After(now, Interval), now) = Interval
    BY <1>1, DiffAfter
  <2>3. QED BY <1>1, <2>1, <2>2
<1>6. CASE ~(itimediff(now, next) >= 0)
  <2>1. NextFlush(due, now) = next
    BY <1>6 DEF NextFlush
  <2>2. itimediff(next, now) = -itimediff(now, next)
    <3>1. 2 * itimediff(now, next) # -TimeMod
      BY <1>1, <1>3, <1>4
    <3>2. QED BY <1>2, <3>1, DiffRange
  <2>3. QED
    <3> HIDE DEF s, next
    <3>1. itimediff(next, now) \in 1..Interval
      BY <1>1, <1>3, <1>4, <1>6, <2>2
    <3>2. QED BY <1>2, <2>1, <3>1
<1>7. QED BY <1>5, <1>6

\* Wherever the clock stands, a call of ikcp_update leaves the flush ahead.
LEMMA UpdateAhead ==
  ASSUME TypeOK, NEW now \in Time, Update(now)
  PROVE  /\ current' = now /\ updated' = TRUE /\ ts_flush' \in Time /\ flushed' \in BOOLEAN
         /\ itimediff(ts_flush', now) \in 1..ResetLimit
         /\ flushed' => itimediff(ts_flush', now) \in 1..Interval
                         /\ ProbeTimer(now) /\ SegmentTimer(now)
         /\ ~flushed' => /\ updated /\ ts_flush' = ts_flush /\ itimediff(now, ts_flush) < 0
                         /\ UNCHANGED <<probe_wait, ts_probe, segment>>
<1> DEFINE start == IF updated THEN ts_flush ELSE now
           reset == Resets(itimediff(now, start))
           due == IF reset THEN now ELSE start
           s == itimediff(now, start)
<1>1. /\ Interval \in Nat \ {0} /\ ResetLimit \in Nat \ {0} /\ Interval <= ResetLimit
      /\ TimeMod \in Nat \ {0} /\ 2 * (ResetLimit + Interval) < TimeMod
  BY ClockNumbers
<1>2. start \in Time /\ due \in Time /\ ts_flush \in Time
  BY DEF TypeOK
<1>3. s \in Int /\ -TimeMod <= 2 * s /\ 2 * s < TimeMod
  BY <1>2, DiffRange
<1>4. itimediff(now, now) = 0
  BY DiffRange
<1>5. current' = now /\ updated' = TRUE
  BY DEF Update
<1>6. CASE itimediff(now, due) >= 0
  <2>1. ts_flush' = NextFlush(due, now) /\ flushed' = TRUE /\ ProbeTimer(now) /\ SegmentTimer(now)
    BY <1>6 DEF Update
  <2>2. itimediff(now, due) \in 0..ResetLimit - 1
    <3>1. CASE reset
      BY <1>1, <1>4, <3>1
    <3>2. CASE ~reset
      <4>1. due = start /\ ~(s >= ResetLimit)
        BY <3>2 DEF Resets
      <4>2. itimediff(now, due) = s
        BY <4>1
      <4> HIDE DEF s, due
      <4>3. QED BY <1>1, <1>3, <1>6, <4>1, <4>2
    <3>3. QED BY <3>1, <3>2
  <2>3. NextFlush(due, now) \in Time /\ itimediff(NextFlush(due, now), now) \in 1..Interval
    <3> HIDE DEF due
    <3>1. QED BY <1>2, <2>2, NextFlushAhead
  <2>4. itimediff(NextFlush(due, now), now) \in 1..ResetLimit
    <3> HIDE DEF due
    <3>1. QED BY <1>1, <2>3
  <2>5. QED
    <3> HIDE DEF due
    <3>1. QED BY <1>5, <2>1, <2>3, <2>4
<1>7. CASE ~(itimediff(now, due) >= 0)
  <2>1. /\ ts_flush' = NotYet(due, now) /\ flushed' = FALSE
        /\ UNCHANGED <<probe_wait, ts_probe, segment>>
    BY <1>7 DEF Update
  <2>2. ~reset
    BY <1>4, <1>7
  <2>3. updated /\ start = ts_flush /\ due = ts_flush
    BY <1>4, <1>7, <2>2
  <2>4. s = itimediff(now, ts_flush) /\ s < 0 /\ ~(s < -ResetLimit)
    BY <1>2, <1>3, <1>7, <2>2, <2>3 DEF Resets
  <2>5. itimediff(ts_flush, now) = -s
    <3>1. 2 * s # -TimeMod
      <4> HIDE DEF s
      <4>1. QED BY <1>1, <1>3, <2>4
    <3>2. QED BY <1>2, <2>4, <3>1, DiffRange
  <2>6. itimediff(ts_flush, now) \in 1..ResetLimit
    <3> HIDE DEF s
    <3>1. QED BY <1>1, <1>3, <2>4, <2>5
  <2>7. ts_flush' = ts_flush
    BY <2>1, <2>3 DEF NotYet
  <2>8. QED
    <3> HIDE DEF s, due, reset, start
    <3>1. QED BY <1>2, <1>5, <2>1, <2>3, <2>4, <2>6, <2>7
<1>8. QED BY <1>6, <1>7

\* Time goes on by n: a timer that was kept comes nearer by n, and a flush
\* sees that it ran out if it did.
LEMMA TimerShift ==
  ASSUME TypeOK, NEW t \in Time, NEW w \in Nat, NEW n \in 1..MaxLate,
         itimediff(ts_flush, current) \in 1..Interval, Waits(t, w)
  PROVE  LET now == After(current, n)
         IN /\ itimediff(ts_flush, now) = itimediff(ts_flush, current) - n
            /\ itimediff(t, now) \in (itimediff(ts_flush, now) - Interval + 1)..w
            /\ ~Expired(t, now) => itimediff(t, now) \in 1..w
<1> DEFINE now == After(current, n)
           r == itimediff(t, current)
           d == itimediff(ts_flush, current)
<1>1. /\ Interval \in Nat \ {0} /\ MaxLate \in Nat \ {0} /\ TimeMod \in Nat \ {0}
      /\ 2 * (MaxLate + Interval) <= TimeMod
  BY ClockNumbers
<1>2. current \in Time /\ ts_flush \in Time /\ n \in Nat /\ n < TimeMod
  BY <1>1 DEF TypeOK
<1>3. now \in Time
  BY <1>2, AfterIs
<1>4. d \in 1..Interval /\ r \in (d - Interval + 1)..w
  BY DEF Waits
<1>5. itimediff(ts_flush, now) = d - n
  <2>1. -TimeMod <= 2 * (d - n)
    <3> HIDE DEF d
    <3>1. QED BY <1>1, <1>4
  <2>2. QED BY <1>2, <2>1, DiffShift
<1>6. -TimeMod < 2 * (r - n)
  <2> HIDE DEF d, r
  <2>1. QED BY <1>1, <1>4
<1>7. itimediff(t, now) = r - n
  <2>1. r \in Int /\ TimeMod \in Nat /\ -TimeMod <= 2 * (r - n)
    <3>1. r \in Int /\ TimeMod \in Nat
      BY <1>1, <1>2, DiffRange
    <3> HIDE DEF r
    <3>2. QED BY <1>2, <1>6, <3>1
  <2>2. QED BY <1>2, <2>1, DiffShift
<1>8. itimediff(now, t) = -(r - n)
  <2>1. 2 * itimediff(t, now) # -TimeMod
    <3>1. r \in Int /\ TimeMod \in Nat
      BY <1>1, <1>2, DiffRange
    <3> HIDE DEF r
    <3>2. QED BY <1>2, <1>6, <1>7, <3>1
  <2>2. QED BY <1>3, <1>7, <2>1, DiffRange
<1>9. itimediff(t, now) \in (itimediff(ts_flush, now) - Interval + 1)..w
  <2> HIDE DEF d, r, now
  <2>1. QED BY <1>1, <1>2, <1>4, <1>5, <1>7
<1>10. ~Expired(t, now) => itimediff(t, now) \in 1..w
  <2> HIDE DEF d, r, now
  <2>1. QED BY <1>1, <1>2, <1>4, <1>7, <1>8 DEF Expired
<1>11. QED BY <1>5, <1>9, <1>10

LEMMA ProbeTimerTypes ==
  ASSUME TypeOK, NEW now \in Time, ProbeTimer(now)
  PROVE  ts_probe' \in Time /\ probe_wait' \in {0} \cup ProbeInit..ProbeLimit
<1> DEFINE longer == MinOf(probe_wait + probe_wait \div 2, ProbeLimit)
<1>1. /\ ProbeInit \in Nat \ {0} /\ ProbeLimit \in Nat \ {0} /\ ProbeInit <= ProbeLimit
      /\ 2 * ProbeLimit < TimeMod /\ TimeMod \in Nat \ {0}
  BY ClockNumbers
<1>2. ts_probe \in Time /\ probe_wait \in {0} \cup ProbeInit..ProbeLimit /\ 0 \in Time
  BY <1>1 DEF TypeOK, Time
<1>3. CASE ~rmt_zero
  BY <1>2, <1>3 DEF ProbeTimer
<1>4. CASE rmt_zero /\ probe_wait = 0
  <2>1. probe_wait' = ProbeInit /\ ts_probe' = After(now, ProbeInit)
    BY <1>4 DEF ProbeTimer
  <2>2. QED BY <1>1, <2>1, DiffAfter
<1>5. CASE rmt_zero /\ probe_wait # 0 /\ Expired(ts_probe, now)
  <2>1. probe_wait' = longer /\ ts_probe' = After(now, longer)
    BY <1>5 DEF ProbeTimer
  <2>2. longer \in ProbeInit..ProbeLimit
    BY <1>1, <1>2, <1>5, Halved, LongerWait
  <2> HIDE DEF longer
  <2>3. longer \in Nat /\ 2 * longer < TimeMod
    BY <1>1, <2>2
  <2>4. QED BY <1>1, <2>1, <2>2, <2>3, DiffAfter
<1>6. CASE rmt_zero /\ probe_wait # 0 /\ ~Expired(ts_probe, now)
  BY <1>2, <1>6 DEF ProbeTimer
<1>7. QED BY <1>3, <1>4, <1>5, <1>6

LEMMA SegmentTimerTypes ==
  ASSUME TypeOK, NEW now \in Time, SegmentTimer(now)
  PROVE  /\ resendts' \in Time /\ rto' \in 0..MaxRto /\ seg' \in {"none", "queued", "sent"}
         /\ seg' = "queued" => seg = "queued"
<1> DEFINE longer == MinOf(rto + RxRto \div 2, MaxRto)
<1>1. /\ RxRto \in Nat \ {0} /\ MaxRto \in Nat \ {0} /\ RxRto <= MaxRto
      /\ 2 * MaxRto < TimeMod /\ TimeMod \in Nat \ {0}
  BY ClockNumbers
<1>2. resendts \in Time /\ rto \in 0..MaxRto /\ seg \in {"none", "queued", "sent"}
  BY DEF TypeOK
<1>3. CASE seg = "queued"
  <2>1. seg' = "sent" /\ rto' = RxRto /\ resendts' = After(now, RxRto)
    BY <1>3 DEF SegmentTimer
  <2>2. RxRto \in Nat /\ 2 * RxRto < TimeMod
    BY <1>1
  <2>3. QED BY <1>1, <2>1, <2>2, DiffAfter
<1>4. CASE seg = "sent" /\ Expired(resendts, now)
  <2>1. rto' = longer /\ resendts' = After(now, longer) /\ seg' = seg
    BY <1>4 DEF SegmentTimer
  <2>2. longer \in 0..MaxRto
    <3>1. RxRto \div 2 \in Nat /\ rto \in Nat /\ rto <= MaxRto /\ 0 <= rto
      BY <1>1, <1>2, Halved
    <3>2. QED BY <1>1, <3>1, LongerWait
  <2> HIDE DEF longer
  <2>3. longer \in Nat /\ 2 * longer < TimeMod
    BY <1>1, <2>2
  <2>4. QED BY <1>2, <1>4, <2>1, <2>2, <2>3, DiffAfter
<1>5. CASE seg # "queued" /\ ~(seg = "sent" /\ Expired(resendts, now))
  <2>1. UNCHANGED segment
    BY <1>5 DEF SegmentTimer
  <2>2. QED BY <1>2, <2>1 DEF segment
<1>6. QED BY <1>3, <1>4, <1>5

LEMMA UpdateTypes ==
  ASSUME TypeOK, NEW now \in Time, Update(now), steps' \in 0..MaxSteps
  PROVE  TypeOK'
<1>1. /\ current' = now /\ updated' = TRUE /\ ts_flush' \in Time /\ flushed' \in BOOLEAN
      /\ flushed' => ProbeTimer(now) /\ SegmentTimer(now)
      /\ ~flushed' => UNCHANGED <<probe_wait, ts_probe, segment>>
  BY UpdateAhead
<1>2. rmt_zero' = rmt_zero /\ rmt_zero \in BOOLEAN
  BY DEF Update, TypeOK
<1>3. /\ ts_probe' \in Time /\ probe_wait' \in {0} \cup ProbeInit..ProbeLimit
      /\ resendts' \in Time /\ rto' \in 0..MaxRto /\ seg' \in {"none", "queued", "sent"}
  <2>1. CASE flushed'
    BY <1>1, <2>1, ProbeTimerTypes, SegmentTimerTypes
  <2>2. CASE ~flushed'
    BY <1>1, <2>2 DEF TypeOK, segment
  <2>3. QED BY <2>1, <2>2
<1>4. QED BY <1>1, <1>2, <1>3 DEF TypeOK

\* A flush at now with both timers as they were n later leaves them kept.
LEMMA FlushKeepsTimers ==
  ASSUME ClockInv, steps = 0, NEW n \in 1..MaxLate,
         ProbeTimer(After(current, n)), SegmentTimer(After(current, n))
  PROVE  /\ probe_wait' > 0 => itimediff(ts_probe', After(current, n)) \in 1..probe_wait'
         /\ seg' = "sent" => rto' >= 1 /\ itimediff(resendts', After(current, n)) \in 1..rto'
<1> DEFINE now == After(current, n)
<1>1. /\ ProbeInit \in Nat \ {0} /\ ProbeLimit \in Nat \ {0} /\ ProbeInit <= ProbeLimit
      /\ 2 * ProbeLimit < TimeMod /\ TimeMod \in Nat \ {0}
      /\ RxRto \in Nat \ {0} /\ MaxRto \in Nat \ {0} /\ RxRto <= MaxRto /\ 2 * MaxRto < TimeMod
      /\ MaxLate \in Nat \ {0} /\ Interval \in Nat \ {0} /\ 2 * (MaxLate + Interval) <= TimeMod
  BY ClockNumbers
<1>2. /\ current \in Time /\ ts_probe \in Time /\ resendts \in Time
      /\ probe_wait \in {0} \cup ProbeInit..ProbeLimit /\ rto \in 0..MaxRto
      /\ seg \in {"none", "queued", "sent"}
  BY DEF ClockInv, TypeOK
<1>3. now \in Time
  <2>1. n \in Nat /\ n < TimeMod
    BY <1>1
  <2>2. QED BY <1>2, <2>1, AfterIs
<1>4. probe_wait' > 0 => itimediff(ts_probe', now) \in 1..probe_wait'
  <2> DEFINE longer == MinOf(probe_wait + probe_wait \div 2, ProbeLimit)
  <2>1. CASE ~rmt_zero
    BY <1>1, <2>1 DEF ProbeTimer
  <2>2. CASE rmt_zero /\ probe_wait = 0
    <3>1. probe_wait' = ProbeInit /\ ts_probe' = After(now, ProbeInit)
      BY <2>2 DEF ProbeTimer
    <3>2. itimediff(ts_probe', now) = ProbeInit
      BY <1>1, <1>3, <3>1, DiffAfter
    <3>3. QED BY <1>1, <3>1, <3>2
  <2>3. CASE rmt_zero /\ probe_wait # 0 /\ Expired(ts_probe, now)
    <3>1. probe_wait' = longer /\ ts_probe' = After(now, longer)
      BY <2>3 DEF ProbeTimer
    <3>2. longer \in ProbeInit..ProbeLimit
      <4>1. probe_wait \in Nat /\ ProbeInit <= probe_wait /\ probe_wait <= ProbeLimit
        BY <1>1, <1>2, <2>3
      <4>2. probe_wait \div 2 \in Nat
        BY <4>1, Halved
      <4>3. QED BY <1>1, <4>1, <4>2, LongerWait
    <3> HIDE DEF longer
    <3>3. longer \in Nat /\ 2 * longer < TimeMod /\ longer \in 1..longer
      BY <1>1, <3>2
    <3>4. itimediff(ts_probe', now) = longer
      BY <1>3, <3>1, <3>3, DiffAfter
    <3>5. QED BY <3>1, <3>3, <3>4
  <2>4. CASE rmt_zero /\ probe_wait # 0 /\ ~Expired(ts_probe, now)
    <3>1. probe_wait' = probe_wait /\ ts_probe' = ts_probe
      BY <2>4 DEF ProbeTimer
    <3>2. probe_wait > 0 /\ probe_wait \in Nat
      BY <1>1, <1>2, <2>4
    <3>3. updated /\ itimediff(ts_flush, current) \in 1..Interval /\ Waits(ts_probe, probe_wait)
      BY <2>4, <3>2 DEF ClockInv, NothingBefore, FlushAhead, TimersKept
    <3>4. itimediff(ts_probe, now) \in 1..probe_wait
      BY <1>2, <2>4, <3>2, <3>3, TimerShift DEF ClockInv
    <3>5. QED BY <3>1, <3>4
  <2>5. QED BY <2>1, <2>2, <2>3, <2>4
<1>5. seg' = "sent" => rto' >= 1 /\ itimediff(resendts', now) \in 1..rto'
  <2> DEFINE longer == MinOf(rto + RxRto \div 2, MaxRto)
  <2>1. CASE seg = "queued"
    <3>1. rto' = RxRto /\ resendts' = After(now, RxRto)
      BY <2>1 DEF SegmentTimer
    <3>2. 2 * RxRto < TimeMod /\ RxRto \in 1..RxRto
      BY <1>1
    <3>3. itimediff(resendts', now) = RxRto
      BY <1>1, <1>3, <3>1, <3>2, DiffAfter
    <3>4. QED BY <1>1, <3>1, <3>2, <3>3
  <2>2. CASE seg = "sent"
    <3>1. updated /\ itimediff(ts_flush, current) \in 1..Interval /\ Waits(resendts, rto) /\ rto >= 1
      BY <2>2 DEF ClockInv, NothingBefore, FlushAhead, TimersKept
    <3>2. rto \in Nat /\ rto >= 1 /\ rto <= MaxRto
      BY <1>1, <1>2, <3>1
    <3>3. CASE Expired(resendts, now)
      <4>1. rto' = longer /\ resendts' = After(now, longer)
        BY <2>2, <3>3 DEF SegmentTimer
      <4>2. longer \in 1..MaxRto
        <5>1. RxRto \div 2 \in Nat
          BY <1>1, Halved
        <5>2. QED BY <1>1, <3>2, <5>1, LongerWait
      <4> HIDE DEF longer
      <4>3. longer \in Nat /\ longer >= 1 /\ 2 * longer < TimeMod /\ longer \in 1..longer
        BY <1>1, <4>2
      <4>4. itimediff(resendts', now) = longer
        BY <1>3, <4>1, <4>3, DiffAfter
      <4>5. QED BY <4>1, <4>3, <4>4
    <3>4. CASE ~Expired(resendts, now)
      <4>1. UNCHANGED segment
        BY <2>2, <3>4 DEF SegmentTimer
      <4>2. itimediff(resendts, now) \in 1..rto
        BY <1>2, <3>1, <3>2, <3>4, TimerShift DEF ClockInv
      <4>3. QED BY <3>2, <4>1, <4>2 DEF segment
    <3>5. QED BY <3>3, <3>4
  <2>3. CASE seg = "none"
    <3>1. UNCHANGED segment
      BY <2>3 DEF SegmentTimer
    <3>2. QED BY <2>3, <3>1 DEF segment
  <2>4. QED BY <1>2, <2>1, <2>2, <2>3
<1>6. QED BY <1>4, <1>5

LEMMA ClockInitially == ASSUME Init PROVE ClockInv
<1>1. /\ Interval \in Nat \ {0} /\ ResetLimit \in Nat /\ TimeMod \in Nat \ {0}
      /\ 2 * (ResetLimit + Interval) < TimeMod /\ MaxRto \in Nat /\ MaxSteps \in Nat
  BY ClockNumbers
<1>2. Interval \in Time /\ 0 \in Time /\ 0 \in 0..MaxRto /\ 0 \in 0..MaxSteps
  BY <1>1 DEF Time
<1>3. TypeOK
  BY <1>2 DEF Init, TypeOK
<1>4. ~updated /\ probe_wait = 0 /\ seg = "none" /\ ~(probe_wait > 0)
  BY DEF Init
<1>5. FlushAhead /\ NothingBefore /\ TimersKept
  BY <1>4 DEF FlushAhead, NothingBefore, TimersKept
<1>6. QED BY <1>3, <1>5 DEF ClockInv

LEMMA TickKeepsClock ==
  ASSUME ClockInv, NEW n \in 1..MaxLate, Tick(n)
  PROVE  ClockInv'
<1> DEFINE now == After(current, n)
<1>1. /\ Interval \in Nat \ {0} /\ ResetLimit \in Nat \ {0} /\ Interval <= ResetLimit
      /\ MaxLate \in Nat \ {0} /\ TimeMod \in Nat \ {0} /\ 2 * (MaxLate + Interval) <= TimeMod
  BY ClockNumbers
<1>2. TypeOK /\ Update(now) /\ steps' = steps /\ steps \in 0..MaxSteps
  BY DEF Tick, ClockInv, TypeOK
<1>3. current \in Time /\ ts_flush \in Time /\ now \in Time /\ n \in Nat /\ n < TimeMod
  <2>1. n \in Nat /\ n < TimeMod
    BY <1>1
  <2>2. QED BY <1>2, <2>1, AfterIs DEF TypeOK
<1>4. TypeOK'
  BY <1>2, <1>3, UpdateTypes
<1>5. /\ current' = now /\ updated' = TRUE
      /\ itimediff(ts_flush', now) \in 1..ResetLimit
      /\ flushed' => itimediff(ts_flush', now) \in 1..Interval
                      /\ ProbeTimer(now) /\ SegmentTimer(now)
      /\ ~flushed' => /\ updated /\ ts_flush' = ts_flush
                      /\ UNCHANGED <<probe_wait, ts_probe, segment>>
  BY <1>2, <1>3, UpdateAhead
<1>6. ~flushed' /\ steps = 0 =>
        /\ itimediff(ts_flush, current) \in 1..Interval
        /\ itimediff(ts_flush, now) = itimediff(ts_flush, current) - n
  <2>1. ASSUME ~flushed', steps = 0
        PROVE  itimediff(ts_flush, current) \in 1..Interval
    BY <1>5, <2>1 DEF ClockInv, FlushAhead
  <2>2. ASSUME itimediff(ts_flush, current) \in 1..Interval
        PROVE  itimediff(ts_flush, now) = itimediff(ts_flush, current) - n
    <3>1. -TimeMod <= 2 * (itimediff(ts_flush, current) - n)
      BY <1>1, <1>3, <2>2
    <3>2. QED BY <1>3, <3>1, DiffShift
  <2>3. QED BY <2>1, <2>2
<1>7. steps = 0 => itimediff(ts_flush', now) \in 1..Interval
  <2>1. CASE flushed'
    BY <1>5, <2>1
  <2>2. ASSUME ~flushed', steps = 0
        PROVE  itimediff(ts_flush', now) \in 1..Interval
    BY <1>1, <1>3, <1>5, <1>6, <2>2
  <2>3. QED BY <2>1, <2>2
<1>8. FlushAhead'
  BY <1>2, <1>5, <1>7 DEF FlushAhead, itimediff
<1>9. NothingBefore'
  BY <1>5 DEF NothingBefore
<1>10. ASSUME steps = 0
       PROVE  /\ probe_wait' > 0 =>
                   itimediff(ts_probe', now) \in
                     (itimediff(ts_flush', now) - Interval + 1)..probe_wait'
              /\ seg' = "sent" => rto' >= 1 /\
                   itimediff(resendts', now) \in
                     (itimediff(ts_flush', now) - Interval + 1)..rto'
  <2>1. CASE flushed'
    <3>1. /\ probe_wait' > 0 => itimediff(ts_probe', now) \in 1..probe_wait'
          /\ seg' = "sent" => rto' >= 1 /\ itimediff(resendts', now) \in 1..rto'
      BY <1>5, <1>10, <2>1, FlushKeepsTimers
    <3>2. itimediff(ts_flush', now) \in 1..Interval
      BY <1>7, <1>10
    <3> DEFINE f == itimediff(ts_flush', now)
               p == itimediff(ts_probe', now)
               r == itimediff(resendts', now)
    <3>3. f \in 1..Interval /\ (probe_wait' > 0 => p \in 1..probe_wait')
            /\ (seg' = "sent" => rto' >= 1 /\ r \in 1..rto')
      BY <3>1, <3>2
    <3>4. probe_wait' \in Int /\ rto' \in Int
      <4>1. probe_wait' \in {0} \cup ProbeInit..ProbeLimit /\ rto' \in 0..MaxRto
        BY <1>4 DEF TypeOK
      <4>2. QED BY <4>1, ClockNumbers
    <3>5. /\ probe_wait' > 0 => p \in (f - Interval + 1)..probe_wait'
          /\ seg' = "sent" => rto' >= 1 /\ r \in (f - Interval + 1)..rto'
      <4> HIDE DEF f, p, r
      <4>1. QED BY <1>1, <3>3, <3>4
    <3>6. QED BY <3>5
  <2>2. CASE ~flushed'
    <3>1. /\ ts_flush' = ts_flush /\ ts_probe' = ts_probe /\ resendts' = resendts
          /\ probe_wait' = probe_wait /\ seg' = seg /\ rto' = rto
      BY <1>5, <2>2 DEF segment
    <3>2. itimediff(ts_flush, current) \in 1..Interval
      BY <1>6, <1>10, <2>2
    <3>3. probe_wait \in Nat /\ rto \in Nat /\ ts_probe \in Time /\ resendts \in Time
      BY <1>2, ClockNumbers DEF TypeOK
    <3>4. probe_wait > 0 =>
            itimediff(ts_probe, now) \in (itimediff(ts_flush, now) - Interval + 1)..probe_wait
      <4>1. probe_wait > 0 => Waits(ts_probe, probe_wait)
        BY <1>10 DEF ClockInv, TimersKept
      <4>2. QED BY <1>2, <3>2, <3>3, <4>1, TimerShift
    <3>5. seg = "sent" => rto >= 1 /\
            itimediff(resendts, now) \in (itimediff(ts_flush, now) - Interval + 1)..rto
      <4>1. seg = "sent" => rto >= 1 /\ Waits(resendts, rto)
        BY <1>10 DEF ClockInv, TimersKept
      <4>2. QED BY <1>2, <3>2, <3>3, <4>1, TimerShift
    <3>6. QED BY <3>1, <3>4, <3>5
  <2>3. QED BY <2>1, <2>2
<1>11. TimersKept'
  BY <1>2, <1>5, <1>10 DEF TimersKept, Waits, itimediff
<1>12. QED BY <1>4, <1>8, <1>9, <1>11 DEF ClockInv

LEMMA StepKeepsClock ==
  ASSUME ClockInv, NEW now \in Time, Step(now)
  PROVE  ClockInv'
<1>1. ResetLimit \in Nat /\ MaxSteps \in Nat
  BY ClockNumbers
<1>2. TypeOK /\ Update(now) /\ steps' = steps + 1 /\ steps' \in 0..MaxSteps /\ steps' # 0
  BY <1>1 DEF Step, ClockInv, TypeOK
<1>3. TypeOK'
  BY <1>2, UpdateTypes
<1>4. current' = now /\ updated' = TRUE /\ itimediff(ts_flush', now) \in 1..ResetLimit
  BY <1>2, UpdateAhead
<1>5. FlushAhead'
  BY <1>2, <1>4 DEF FlushAhead, itimediff
<1>6. QED BY <1>2, <1>3, <1>4, <1>5 DEF ClockInv, NothingBefore, TimersKept

LEMMA OthersKeepClock ==
  ASSUME ClockInv, Advertise \/ Submit \/ Acknowledged
  PROVE  ClockInv'
<1>1. /\ current' = current /\ updated' = updated /\ ts_flush' = ts_flush
      /\ probe_wait' = probe_wait /\ ts_probe' = ts_probe /\ steps' = steps
      /\ flushed' = flushed /\ rmt_zero' \in BOOLEAN
  BY DEF Advertise, Submit, Acknowledged, probe, segment, ClockInv, TypeOK
<1>2. \/ seg' = seg /\ rto' = rto /\ resendts' = resendts
      \/ seg' = "queued" /\ rto' = rto /\ resendts' = resendts
      \/ seg' = "none" /\ rto' = 0 /\ resendts' = 0
  BY DEF Advertise, Submit, Acknowledged, segment
<1>3. 0 \in Time /\ 0 \in 0..MaxRto
  BY ClockNumbers DEF Time
<1>4. TypeOK'
  BY <1>1, <1>2, <1>3 DEF ClockInv, TypeOK
<1>5. FlushAhead'
  BY <1>1 DEF ClockInv, FlushAhead, itimediff
<1>6. NothingBefore'
  BY <1>1, <1>2 DEF ClockInv, NothingBefore
<1>7. TimersKept'
  BY <1>1, <1>2 DEF ClockInv, TimersKept, Waits, itimediff
<1>8. QED BY <1>4, <1>5, <1>6, <1>7 DEF ClockInv

LEMMA ClockKept ==
  ASSUME ClockInv, [Next]_vars
  PROVE  ClockInv'
<1>1. CASE Next
  BY <1>1, TickKeepsClock, StepKeepsClock, OthersKeepClock DEF Next
<1>2. CASE UNCHANGED vars
  BY <1>2 DEF vars, probe, segment, ClockInv, TypeOK, FlushAhead, NothingBefore, TimersKept,
              Waits, itimediff
<1>3. QED BY <1>1, <1>2

LEMMA ClockTimersOnTime == ASSUME ClockInv PROVE TimersOnTime
<1>1. /\ Interval \in Nat \ {0} /\ TimeMod \in Nat \ {0}
      /\ 2 * (MaxLate + Interval) <= TimeMod /\ MaxLate \in Nat \ {0}
  BY ClockNumbers
<1>2. current \in Time /\ resendts \in Time /\ ts_flush \in Time /\ rto \in Nat
  BY ClockNumbers DEF ClockInv, TypeOK
<1>3. ASSUME steps = 0, seg = "sent"
      PROVE  itimediff(resendts, current) <= rto /\ itimediff(current, resendts) < Interval
  <2> DEFINE d == itimediff(ts_flush, current)
             r == itimediff(resendts, current)
  <2>1. d \in 1..Interval /\ r \in (d - Interval + 1)..rto
    BY <1>3 DEF ClockInv, FlushAhead, NothingBefore, TimersKept, Waits
  <2>2. r \in Int /\ (2 * r # -TimeMod => itimediff(current, resendts) = -r)
    BY <1>2, DiffRange
  <2> HIDE DEF d, r
  <2>3. r <= rto /\ 2 * r # -TimeMod /\ -r < Interval
    BY <1>1, <1>2, <2>1, <2>2
  <2>4. QED BY <2>2, <2>3 DEF r
<1>4. ASSUME steps = 0, probe_wait > 0
      PROVE  itimediff(ts_probe, current) <= probe_wait
  <2> DEFINE d == itimediff(ts_flush, current)
             p == itimediff(ts_probe, current)
  <2>1. d \in 1..Interval /\ p \in (d - Interval + 1)..probe_wait
    BY <1>4 DEF ClockInv, FlushAhead, NothingBefore, TimersKept, Waits
  <2>2. probe_wait \in Nat
    BY ClockNumbers DEF ClockInv, TypeOK
  <2> HIDE DEF d, p
  <2>3. p <= probe_wait
    BY <1>1, <2>1, <2>2
  <2>4. QED BY <2>3 DEF p
<1>5. QED BY <1>3, <1>4 DEF TimersOnTime

LEMMA ClockCheckNotLate == ASSUME ClockInv PROVE CheckNotLate
<1> DEFINE d == itimediff(ts_flush, current)
           p == itimediff(resendts, current)
           m == MinOf(Interval, IF seg = "sent" THEN MinOf(p, d) ELSE d)
<1>1. /\ Interval \in Nat \ {0} /\ ResetLimit \in Nat \ {0} /\ Interval <= ResetLimit
      /\ TimeMod \in Nat \ {0} /\ 2 * (ResetLimit + Interval) < TimeMod
  BY ClockNumbers
<1>2. current \in Time /\ resendts \in Time /\ ts_flush \in Time
  BY DEF ClockInv, TypeOK
<1>3. p \in Int
  BY <1>2, DiffRange
<1>4. CASE ikcp_check(current) = current
  <2>1. itimediff(ikcp_check(current), current) = 0
    BY <1>2, <1>4, DiffRange
  <2>2. QED BY <2>1 DEF CheckNotLate
<1>5. CASE ikcp_check(current) # current
  <2>1. /\ updated /\ ~(d <= 0) /\ ~(seg = "sent" /\ p <= 0)
        /\ ikcp_check(current) = After(current, m)
    BY <1>5 DEF ikcp_check
  <2>2. d \in 1..ResetLimit
    <3>1. d \in 1..Interval \/ d \in 1..ResetLimit
      BY <2>1 DEF ClockInv, FlushAhead
    <3> HIDE DEF d
    <3>2. QED BY <1>1, <3>1
  <2>3. m \in Nat /\ m <= d /\ m <= Interval
    <3> HIDE DEF d, p
    <3>1. QED BY <1>1, <1>3, <2>1, <2>2 DEF MinOf
  <2>4. itimediff(ikcp_check(current), current) = m
    <3> HIDE DEF m
    <3>1. 2 * m < TimeMod
      BY <1>1, <2>3
    <3>2. QED BY <1>2, <2>1, <2>3, <3>1, DiffAfter
  <2>5. ASSUME NEW n \in 0..m - 1
        PROVE  ~WouldFlush(After(current, n))
    <3> DEFINE now == After(current, n)
    <3>1. n \in Nat /\ n < d /\ n < TimeMod /\ -TimeMod <= 2 * (d - n)
      <4>1. n \in Nat /\ n < m
        BY <2>3
      <4> HIDE DEF m, d
      <4>2. QED BY <1>1, <2>2, <2>3, <4>1
    <3>2. now \in Time
      BY <1>2, <3>1, AfterIs
    <3>3. itimediff(ts_flush, now) = d - n
      BY <1>2, <3>1, DiffShift
    <3>4. itimediff(now, ts_flush) = -(d - n)
      <4>1. 2 * itimediff(ts_flush, now) # -TimeMod
        <5> HIDE DEF d, now
        <5>1. QED BY <1>1, <2>2, <3>1, <3>3
      <4>2. QED BY <1>2, <3>2, <3>3, <4>1, DiffRange
    <3>5. LET slap == itimediff(now, ts_flush)
          IN ~(slap >= ResetLimit) /\ ~(slap < -ResetLimit) /\ ~(slap >= 0)
      <4> HIDE DEF d, now
      <4>1. QED BY <1>1, <2>2, <3>1, <3>4
    <3>6. QED BY <2>1, <3>5 DEF WouldFlush, Resets
  <2>6. itimediff(ikcp_check(current), current) >= 0
    <3> HIDE DEF m
    <3>1. QED BY <2>3, <2>4
  <2>7. QED
    <3> HIDE DEF m
    <3>1. QED BY <2>4, <2>5, <2>6 DEF CheckNotLate
<1>6. QED BY <1>4, <1>5

\* In every part the clock is as it was, or takes one of its steps.
LEMMA ClockPart == ASSUME PartsNext \/ UNCHANGED AllVars PROVE [Next]_vars
  BY DEF PartsNext, AllVars

LEMMA ClockStep ==
  ASSUME ClockInv, [PartsNext]_AllVars
  PROVE  ClockInv'
  BY ClockPart, ClockKept

(* The next flush lies ahead, however late ikcp_update was called and      *)
(* whatever the clock of the machine was set to; ikcp_check never names a  *)
(* moment after it; with a clock that is not set no segment and no probe   *)
(* waits longer than its interval or is overdue by a flush interval.  For  *)
(* every interval, limit and width of the time stamps (ikcp.c:946, 1028,   *)
(* 1121-1172).                                                             *)
THEOREM TimersAreOnTime == PartsSafety => []OnTime
<1>1. PartsInit => ClockInv
  BY ClockInitially DEF PartsInit
<1>2. ClockInv /\ [PartsNext]_AllVars => ClockInv'
  BY ClockStep
<1>3. ClockInv => OnTime
  BY ClockTimersOnTime, ClockCheckNotLate DEF OnTime, ClockInv
<1>4. QED BY <1>1, <1>2, <1>3, PTL DEF PartsSafety

--------------------------------------------------------------------------------
(* The congestion window.                                                  *)

LEMMA WindowNumbers ==
  /\ Mss \in Nat \ {0} /\ SndWnd \in Nat \ {0} /\ Resent \in Nat \ {0} /\ ThreshMin \in Nat \ {0}
  /\ RmtWnds \subseteq Nat
  BY PartAssumptions DEF Congestion!WindowAssumption

LEMMA Divided ==
  ASSUME NEW a \in Nat, NEW b \in Nat \ {0}
  PROVE  a \div b \in Nat /\ (a \div b) * b <= a /\ a < (a \div b) * b + b
  OBVIOUS

LEMMA Multiplied ==
  ASSUME NEW c \in Int, NEW m \in Int
  PROVE  c * m \in Int /\ (c + 1) * m = c * m + m /\ (c - 1) * m = c * m - m
  OBVIOUS

\* Two counts of a window, in segments and in bytes, that agree.
Agree(c, i) ==
  /\ c \in Nat /\ i \in Nat
  /\ c > 0 => (c - 1) * Mss < i /\ i < (c + 1) * Mss
  /\ c = 0 => i = 0

WindowInv ==
  /\ Agree(cwnd, incr)
  /\ ssthresh \in Nat /\ ssthresh >= ThreshMin
  /\ rmt_wnd \in RmtWnds /\ inflight \in Nat

LEMMA WholeAgrees ==
  ASSUME NEW c \in Nat
  PROVE  Agree(c, c * Mss)
<1>1. Mss \in Nat /\ Mss > 0
  BY WindowNumbers
<1>2. c * Mss \in Int /\ (c + 1) * Mss = c * Mss + Mss /\ (c - 1) * Mss = c * Mss - Mss
  BY <1>1, Multiplied
<1>3. c * Mss >= 0 /\ (c = 0 => c * Mss = 0)
  BY <1>1
<1>4. QED
  <2> DEFINE p == c * Mss
             more == (c + 1) * Mss
             less == (c - 1) * Mss
  <2>1. p \in Nat /\ more = p + Mss /\ less = p - Mss /\ (c = 0 => p = 0)
    BY <1>2, <1>3
  <2>2. Agree(c, p) <=> (p \in Nat /\ (c > 0 => less < p /\ p < more) /\ (c = 0 => p = 0))
    BY DEF Agree
  <2> HIDE DEF p, more, less
  <2>3. Agree(c, p)
    BY <1>1, <2>1, <2>2
  <2>4. QED BY <2>3 DEF p

LEMMA ClampedAgrees ==
  ASSUME WindowInv, NEW c, NEW i, Agree(c, i)
  PROVE  LET w == Congestion!Clamped([cwnd |-> c, incr |-> i])
         IN Agree(w.cwnd, w.incr) /\ w.cwnd <= rmt_wnd
<1>1. c \in Nat /\ rmt_wnd \in Nat
  BY WindowNumbers DEF Agree, WindowInv
<1>2. CASE c > rmt_wnd
  <2>1. Congestion!Clamped([cwnd |-> c, incr |-> i]) = [cwnd |-> rmt_wnd, incr |-> rmt_wnd * Mss]
    BY <1>2 DEF Congestion!Clamped
  <2>2. QED BY <1>1, <2>1, WholeAgrees
<1>3. CASE ~(c > rmt_wnd)
  <2>1. Congestion!Clamped([cwnd |-> c, incr |-> i]) = [cwnd |-> c, incr |-> i]
    BY <1>3 DEF Congestion!Clamped
  <2>2. QED BY <1>1, <1>3, <2>1
<1>4. QED BY <1>2, <1>3

LEMMA SlowStartAgrees ==
  ASSUME NEW c, NEW i, Agree(c, i)
  PROVE  Agree(c + 1, i + Mss)
<1> DEFINE p == c * Mss
<1>1. Mss \in Nat /\ Mss > 0 /\ c \in Nat /\ i \in Nat
  BY WindowNumbers DEF Agree
<1>2. /\ p \in Int /\ (c + 1) * Mss = p + Mss /\ (c - 1) * Mss = p - Mss
      /\ (c + 1 + 1) * Mss = p + Mss + Mss /\ (c + 1 - 1) * Mss = p
  BY <1>1, Multiplied
<1>3. c = 0 => p = 0
  BY <1>1
<1>4. /\ c > 0 => p - Mss < i /\ i < p + Mss
      /\ c = 0 => i = 0
  BY <1>2 DEF Agree
<1> HIDE DEF p
<1>5. p < i + Mss /\ i + Mss < p + Mss + Mss
  BY <1>1, <1>2, <1>3, <1>4
<1>6. QED BY <1>1, <1>2, <1>5 DEF Agree

\* Congestion avoidance rounds the count of segments up from that of bytes.
LEMMA AvoidanceAgrees ==
  ASSUME WindowInv, cwnd > 0
  PROVE  Agree(Congestion!Avoidance.cwnd, Congestion!Avoidance.incr)
<1> DEFINE from == Congestion!imax(incr, Mss)
           to == from + (Mss * Mss) \div from + Mss \div 16
           up == (to + Mss - 1) \div Mss
           wider == IF (cwnd + 1) * Mss <= to THEN up ELSE cwnd
           p == cwnd * Mss
           q == up * Mss
<1>1. Mss \in Nat /\ Mss > 0 /\ cwnd \in Nat /\ incr \in Nat /\ Mss * Mss \in Nat
  BY WindowNumbers DEF WindowInv, Agree
<1>2. Congestion!Avoidance = [incr |-> to, cwnd |-> wider]
  BY DEF Congestion!Avoidance
<1>3. from \in Nat /\ from >= incr /\ from >= Mss
  BY <1>1 DEF Congestion!imax
<1>4. to \in Nat /\ to >= from
  <2>1. from \in Nat \ {0}
    <3> HIDE DEF from
    <3>1. QED BY <1>1, <1>3
  <2>2. (Mss * Mss) \div from \in Nat /\ Mss \div 16 \in Nat
    <3> HIDE DEF from
    <3>1. QED BY <1>1, <2>1, Divided
  <2> HIDE DEF from
  <2>3. QED BY <1>3, <2>2
<1>5. up \in Nat /\ q <= to + Mss - 1 /\ to + Mss - 1 < q + Mss
  <2>1. to + Mss - 1 \in Nat /\ Mss \in Nat \ {0}
    <3> HIDE DEF to
    <3>1. QED BY <1>1, <1>4
  <2> HIDE DEF to
  <2>2. QED BY <2>1, Divided
<1>6. /\ p \in Int /\ (cwnd + 1) * Mss = p + Mss /\ (cwnd - 1) * Mss = p - Mss
      /\ p - Mss < incr
  <2>1. /\ p \in Int /\ (cwnd + 1) * Mss = p + Mss /\ (cwnd - 1) * Mss = p - Mss
    BY <1>1, Multiplied
  <2>2. QED BY <2>1 DEF WindowInv, Agree
<1>7. q \in Int /\ (up + 1) * Mss = q + Mss /\ (up - 1) * Mss = q - Mss /\ (up = 0 => q = 0)
  <2>1. up \in Int /\ Mss \in Int
    BY <1>1, <1>5
  <2> HIDE DEF up
  <2>2. QED BY <2>1, Multiplied
<1>8. CASE (cwnd + 1) * Mss <= to
  <2>1. wider = up
    BY <1>8
  <2>2. q - Mss < to /\ to < q + Mss /\ (up = 0 => FALSE)
    <3> HIDE DEF q, to, up, from
    <3>1. QED BY <1>1, <1>3, <1>4, <1>5, <1>7
  <2> HIDE DEF q, to, up, from
  <2>3. Agree(up, to)
    BY <1>4, <1>5, <1>7, <2>2 DEF Agree
  <2>4. QED
    <3> HIDE DEF wider
    <3>1. QED BY <1>2, <2>1, <2>3
<1>9. CASE ~((cwnd + 1) * Mss <= to)
  <2>1. wider = cwnd
    BY <1>9
  <2>2. p - Mss < to /\ to < p + Mss
    <3> HIDE DEF p, to, from
    <3>1. QED BY <1>1, <1>3, <1>4, <1>6, <1>9
  <2> HIDE DEF p, to, from
  <2>3. Agree(cwnd, to)
    BY <1>1, <1>4, <1>6, <2>2 DEF Agree
  <2>4. QED
    <3> HIDE DEF wider
    <3>1. QED BY <1>2, <2>1, <2>3
<1>10. QED BY <1>8, <1>9

LEMMA GrownAgrees ==
  ASSUME WindowInv
  PROVE  /\ Agree(Congestion!Grown.cwnd, Congestion!Grown.incr)
         /\ Congestion!Grown.cwnd > cwnd => Congestion!Grown.cwnd <= rmt_wnd
<1>1. cwnd \in Nat /\ rmt_wnd \in Nat /\ ssthresh \in Nat /\ ThreshMin \in Nat \ {0} /\ ssthresh >= ThreshMin
  BY WindowNumbers DEF WindowInv, Agree
<1>2. CASE cwnd >= rmt_wnd
  <2>1. Congestion!Grown = [cwnd |-> cwnd, incr |-> incr]
    BY <1>2 DEF Congestion!Grown
  <2>2. QED BY <1>1, <2>1 DEF WindowInv
<1>3. CASE ~(cwnd >= rmt_wnd) /\ cwnd < ssthresh
  <2>1. Congestion!Grown = Congestion!Clamped([cwnd |-> cwnd + 1, incr |-> incr + Mss])
    BY <1>3 DEF Congestion!Grown
  <2>2. Agree(cwnd + 1, incr + Mss)
    BY SlowStartAgrees DEF WindowInv
  <2>3. QED BY <2>1, <2>2, ClampedAgrees
<1>4. CASE ~(cwnd >= rmt_wnd) /\ ~(cwnd < ssthresh)
  <2>1. Congestion!Grown = Congestion!Clamped(Congestion!Avoidance)
    BY <1>4 DEF Congestion!Grown
  <2>2. Agree(Congestion!Avoidance.cwnd, Congestion!Avoidance.incr)
    BY <1>1, <1>4, AvoidanceAgrees
  <2>3. Congestion!Avoidance =
          [cwnd |-> Congestion!Avoidance.cwnd, incr |-> Congestion!Avoidance.incr]
    BY DEF Congestion!Avoidance
  <2>4. QED BY <2>1, <2>2, <2>3, ClampedAgrees
<1>5. QED BY <1>2, <1>3, <1>4

LEMMA HalfNumber ==
  ASSUME NEW n \in Nat
  PROVE  Congestion!Half(n) \in Nat /\ Congestion!Half(n) >= ThreshMin
<1>1. n \div 2 \in Nat /\ ThreshMin \in Nat
  BY Halved, WindowNumbers
<1>2. QED BY <1>1 DEF Congestion!Half, Congestion!imax

LEMMA LeastAgrees ==
  ASSUME NEW w, Agree(w.cwnd, w.incr)
  PROVE  Agree(Congestion!Least(w).cwnd, Congestion!Least(w).incr)
<1>1. Agree(1, Mss)
  <2>1. Agree(1, 1 * Mss) /\ 1 * Mss = Mss
    BY WholeAgrees, WindowNumbers
  <2>2. QED BY <2>1
<1>2. QED BY <1>1 DEF Congestion!Least

LEMMA FlushAgrees ==
  ASSUME WindowInv, NEW n \in Nat, NEW change \in BOOLEAN, NEW lost \in BOOLEAN,
         Congestion!Flush(n, change, lost)
  PROVE  WindowInv' /\ inflight' >= inflight
<1> DEFINE sent == inflight + Congestion!imin(n, Congestion!imax(Congestion!Usable - inflight, 0))
           whole == Congestion!Half(sent) + Resent
           fast == [cwnd |-> whole, incr |-> whole * Mss]
           window == IF lost THEN Congestion!Restart ELSE IF change THEN fast
                     ELSE [cwnd |-> cwnd, incr |-> incr]
<1>1. /\ cwnd \in Nat /\ incr \in Nat /\ rmt_wnd \in Nat /\ inflight \in Nat /\ ssthresh \in Nat
      /\ ssthresh >= ThreshMin /\ SndWnd \in Nat /\ Resent \in Nat /\ ThreshMin \in Nat
  BY WindowNumbers DEF WindowInv, Agree
<1>2. /\ inflight' = sent /\ rmt_wnd' = rmt_wnd
      /\ ssthresh' = IF lost THEN Congestion!Half(Congestion!Usable)
                     ELSE IF change THEN Congestion!Half(sent) ELSE ssthresh
      /\ cwnd' = Congestion!Least(window).cwnd /\ incr' = Congestion!Least(window).incr
  BY DEF Congestion!Flush
<1>3. Congestion!Usable \in Nat
  BY <1>1 DEF Congestion!Usable, Congestion!imin
<1>4. sent \in Nat /\ sent >= inflight
  BY <1>1, <1>3 DEF Congestion!imin, Congestion!imax
<1>5. ssthresh' \in Nat /\ ssthresh' >= ThreshMin
  <2> HIDE DEF sent
  <2>1. QED BY <1>1, <1>2, <1>3, <1>4, HalfNumber
<1>6. Agree(window.cwnd, window.incr)
  <2>1. whole \in Nat
    <3> HIDE DEF sent
    <3>1. Congestion!Half(sent) \in Nat
      BY <1>4, HalfNumber
    <3>2. QED BY <1>1, <3>1
  <2>2. Agree(whole, whole * Mss)
    <3> HIDE DEF whole
    <3>1. QED BY <2>1, WholeAgrees
  <2>3. Agree(1, Mss)
    <3>1. Agree(1, 1 * Mss) /\ 1 * Mss = Mss
      BY WholeAgrees, WindowNumbers
    <3>2. QED BY <3>1
  <2>4. Agree(cwnd, incr)
    BY DEF WindowInv
  <2>5. QED
    <3> HIDE DEF whole, sent
    <3>1. QED BY <2>2, <2>3, <2>4 DEF Congestion!Restart
<1>7. Agree(cwnd', incr')
  <2> HIDE DEF window
  <2>1. QED BY <1>2, <1>6, LeastAgrees
<1>8. QED
  <2> HIDE DEF window, sent
  <2>1. rmt_wnd \in RmtWnds
    BY DEF WindowInv
  <2>2. QED BY <1>2, <1>4, <1>5, <1>7, <2>1 DEF WindowInv, Agree

LEMMA WindowStep ==
  ASSUME WindowInv, Congestion!Next \/ UNCHANGED congestionVars
  PROVE  /\ WindowInv'
         /\ cwnd' > cwnd /\ inflight' < inflight => cwnd' <= rmt_wnd
<1>1. /\ cwnd \in Nat /\ incr \in Nat /\ rmt_wnd \in Nat /\ inflight \in Nat /\ ssthresh \in Nat
      /\ SndWnd \in Nat
  BY WindowNumbers DEF WindowInv, Agree
<1>2. ASSUME NEW n \in 1..SndWnd, Congestion!Acknowledged(n)
      PROVE  WindowInv' /\ (cwnd' > cwnd => cwnd' <= rmt_wnd)
  <2>1. /\ n \in 1..inflight /\ inflight' = inflight - n /\ ssthresh' = ssthresh
        /\ rmt_wnd' = rmt_wnd /\ cwnd' = Congestion!Grown.cwnd /\ incr' = Congestion!Grown.incr
    BY <1>2 DEF Congestion!Acknowledged
  <2>2. inflight' \in Nat
    BY <1>1, <2>1
  <2>3. QED BY <2>1, <2>2, GrownAgrees DEF WindowInv, Agree
<1>3. ASSUME NEW n \in 0..SndWnd, NEW change \in BOOLEAN, NEW lost \in BOOLEAN,
             Congestion!Flush(n, change, lost)
      PROVE  WindowInv' /\ ~(inflight' < inflight)
  <2>1. WindowInv' /\ inflight' >= inflight
    BY <1>1, <1>3, FlushAgrees
  <2>2. inflight' \in Nat
    BY <2>1 DEF WindowInv
  <2>3. QED BY <1>1, <2>1, <2>2
<1>4. ASSUME UNCHANGED <<cwnd, incr, ssthresh, inflight>>, rmt_wnd' \in RmtWnds
      PROVE  WindowInv' /\ ~(cwnd' > cwnd)
  BY <1>1, <1>4 DEF WindowInv, Agree
<1>5. ASSUME NEW wnd \in RmtWnds, Congestion!Window(wnd)
      PROVE  WindowInv' /\ ~(cwnd' > cwnd)
  BY <1>4, <1>5 DEF Congestion!Window
<1>6. ASSUME Congestion!Settle \/ UNCHANGED congestionVars
      PROVE  WindowInv' /\ ~(cwnd' > cwnd)
  BY <1>4, <1>6 DEF Congestion!Settle, congestionVars, WindowInv
<1>7. QED BY <1>2, <1>3, <1>5, <1>6 DEF Congestion!Next

LEMMA WindowInitially == ASSUME PartsInit PROVE WindowInv
<1>1. Congestion!Init
  BY DEF PartsInit
<1>2. Agree(0, 0)
  BY DEF Agree
<1>3. QED BY <1>1, <1>2, WindowNumbers DEF Congestion!Init, WindowInv

LEMMA WindowPart ==
  ASSUME PartsNext \/ UNCHANGED AllVars
  PROVE  Congestion!Next \/ UNCHANGED congestionVars
  BY DEF PartsNext, AllVars

(* The two counts of the congestion window agree within a segment, for     *)
(* every segment size and window and after any growth, cut and loss: what  *)
(* the code keeps twice cannot drift apart; and no acknowledgement makes   *)
(* it grow beyond the peer's window (ikcp.c:849-870, 1083-1103).           *)
THEOREM WindowStaysKept == PartsSafety => WindowKept
<1>1. PartsInit => WindowInv
  BY WindowInitially
<1>2. WindowInv /\ [PartsNext]_AllVars => WindowInv'
  BY WindowPart, WindowStep
<1>3. WindowInv => Congestion!CountsAgree
  BY DEF WindowInv, Agree, Congestion!CountsAgree
<1>4. WindowInv /\ [PartsNext]_AllVars
        => [cwnd' > cwnd /\ inflight' < inflight => cwnd' <= rmt_wnd]_congestionVars
  BY WindowPart, WindowStep
<1>5. congestionVars = Congestion!vars
  BY DEF congestionVars, Congestion!vars
<1>6. PartsSafety => []Congestion!CountsAgree
  BY <1>1, <1>2, <1>3, PTL DEF PartsSafety
<1>7. PartsSafety => Congestion!GrowthWithinPeer
  BY <1>1, <1>2, <1>4, <1>5, PTL
  DEF PartsSafety, Congestion!GrowthWithinPeer, Congestion!vars, congestionVars
<1>8. QED BY <1>6, <1>7, PTL DEF WindowKept

--------------------------------------------------------------------------------
(* The settings.                                                           *)

LEMMA SettingNumbers ==
  /\ Numbers \subseteq Int /\ Mtus \subseteq Int
  /\ Overhead \in Nat \ {0} /\ DefaultMtu \in Nat \ {0} /\ Overhead < DefaultMtu
  /\ WndRcv \in Nat \ {0, 1} /\ LeastInterval \in Nat \ {0} /\ LeastFast \in Nat \ {0}
  /\ MostInterval \in Nat \ {0} /\ DefInterval \in Nat \ {0} /\ ResetLimit \in Nat \ {0}
  /\ LeastFast <= LeastInterval /\ LeastInterval <= DefInterval
  /\ DefInterval <= MostInterval /\ MostInterval < ResetLimit
  BY PartAssumptions DEF Settings!SettingsAssumption

SettingsInv ==
  /\ mss \in [Peers -> Nat]
  /\ longest \in [Peers -> 0..WndRcv - 1]
  /\ rcv_wnd \in [Peers -> Int] /\ \A p \in Peers : rcv_wnd[p] >= WndRcv
  /\ interval \in [Peers -> 1..ResetLimit - 1]

LEMMA SettingsInitially == ASSUME Settings!Init PROVE SettingsInv
<1>1. DefaultMtu - Overhead \in Nat /\ 0 \in 0..WndRcv - 1 /\ DefInterval \in 1..ResetLimit - 1
        /\ WndRcv \in Int
  BY SettingNumbers
<1>2. /\ mss = [p \in Peers |-> DefaultMtu - Overhead] /\ rcv_wnd = [p \in Peers |-> WndRcv]
      /\ interval = [p \in Peers |-> DefInterval] /\ longest = [p \in Peers |-> 0]
  BY DEF Settings!Init
<1>3. \A p \in Peers : rcv_wnd[p] >= WndRcv
  BY <1>1, <1>2
<1>4. QED BY <1>1, <1>2, <1>3 DEF SettingsInv

LEMMA IntervalKept ==
  ASSUME NEW n \in Numbers, NEW least \in {LeastInterval, LeastFast}
  PROVE  Settings!IntervalOf(least, n) \in 1..ResetLimit - 1
<1>1. n \in Int /\ least \in 1..MostInterval
  BY SettingNumbers
<1>2. QED BY <1>1, SettingNumbers DEF Settings!IntervalOf, Settings!Between

LEMMA CountNumber ==
  ASSUME SettingsInv, NEW p \in Peers, NEW len \in Numbers, len >= 0, mss[p] > 0
  PROVE  Settings!Count(p, len) \in Nat
<1>1. len \in Nat /\ mss[p] \in Nat \ {0}
  BY SettingNumbers DEF SettingsInv
<1> DEFINE m == mss[p]
<1>2. len + m - 1 \in Nat /\ m \in Nat \ {0}
  BY <1>1
<1>3. (len + m - 1) \div m \in Nat
  <2> HIDE DEF m
  <2>1. QED BY <1>2, Divided
<1>4. QED BY <1>3 DEF Settings!Count

LEMMA SettingsStep ==
  ASSUME SettingsInv, Settings!Next \/ UNCHANGED settingVars
  PROVE  SettingsInv'
<1>1. /\ mss \in [Peers -> Nat] /\ longest \in [Peers -> 0..WndRcv - 1]
      /\ rcv_wnd \in [Peers -> Int] /\ (\A p \in Peers : rcv_wnd[p] >= WndRcv)
      /\ interval \in [Peers -> 1..ResetLimit - 1]
  BY DEF SettingsInv
<1>2. ASSUME NEW p \in Peers, NEW m \in Mtus, Settings!ikcp_setmtu(p, m)
      PROVE  SettingsInv'
  <2>1. m - Overhead \in Nat
    BY <1>2, SettingNumbers DEF Settings!ikcp_setmtu, Settings!MtuTaken
  <2>2. mss' \in [Peers -> Nat]
    BY <1>1, <1>2, <2>1 DEF Settings!ikcp_setmtu
  <2>3. longest' = longest /\ rcv_wnd' = rcv_wnd /\ interval' = interval
    BY <1>2 DEF Settings!ikcp_setmtu, Settings!windows
  <2>4. QED BY <1>1, <2>2, <2>3 DEF SettingsInv
<1>3. ASSUME NEW p \in Peers, NEW n \in Numbers, Settings!ikcp_interval(p, n)
      PROVE  SettingsInv'
  <2>1. interval' \in [Peers -> 1..ResetLimit - 1]
    BY <1>1, <1>3, IntervalKept DEF Settings!ikcp_interval
  <2>2. longest' = longest /\ rcv_wnd' = rcv_wnd /\ mss' = mss
    BY <1>3 DEF Settings!ikcp_interval, Settings!windows
  <2>3. QED BY <1>1, <2>1, <2>2 DEF SettingsInv
<1>4. ASSUME NEW p \in Peers, NEW n \in Numbers, NEW k \in Numbers, Settings!ikcp_nodelay(p, k, n)
      PROVE  SettingsInv'
  <2>1. interval' \in [Peers -> 1..ResetLimit - 1]
    BY <1>1, <1>4, IntervalKept DEF Settings!ikcp_nodelay
  <2>2. longest' = longest /\ rcv_wnd' = rcv_wnd /\ mss' = mss
    BY <1>4 DEF Settings!ikcp_nodelay, Settings!windows
  <2>3. QED BY <1>1, <2>1, <2>2 DEF SettingsInv
<1>5. ASSUME NEW p \in Peers, NEW n \in Numbers, NEW k \in Numbers, Settings!ikcp_wndsize(p, k, n)
      PROVE  SettingsInv'
  <2>1. Settings!RcvWndOf(n) \in Int /\ Settings!RcvWndOf(n) >= WndRcv
    BY SettingNumbers DEF Settings!RcvWndOf
  <2>2. rcv_wnd' = rcv_wnd \/ rcv_wnd' = [rcv_wnd EXCEPT ![p] = Settings!RcvWndOf(n)]
    BY <1>5 DEF Settings!ikcp_wndsize
  <2>3. rcv_wnd' \in [Peers -> Int] /\ \A q \in Peers : rcv_wnd'[q] >= WndRcv
    BY <1>1, <2>1, <2>2
  <2>4. longest' = longest /\ interval' = interval /\ mss' = mss
    BY <1>5 DEF Settings!ikcp_wndsize
  <2>5. QED BY <1>1, <2>3, <2>4 DEF SettingsInv
<1>6. ASSUME NEW p \in Peers, NEW len \in Numbers, Settings!ikcp_send(p, len)
      PROVE  SettingsInv'
  <2>1. longest' \in [Peers -> 0..WndRcv - 1]
    <3>1. CASE mss[p] = 0 /\ longest' = longest
      BY <1>1, <3>1
    <3>2. CASE /\ mss[p] > 0 /\ len >= 0 /\ Settings!Count(p, len) < WndRcv
               /\ longest' = [longest EXCEPT ![p] =
                                IF Settings!Count(p, len) > @ THEN Settings!Count(p, len) ELSE @]
      <4>1. Settings!Count(p, len) \in 0..WndRcv - 1
        BY <3>2, CountNumber, SettingNumbers
      <4>2. QED BY <1>1, <3>2, <4>1
    <3>3. QED BY <1>6, <3>1, <3>2 DEF Settings!ikcp_send
  <2>2. rcv_wnd' = rcv_wnd /\ interval' = interval /\ mss' = mss
    BY <1>6 DEF Settings!ikcp_send, Settings!windows
  <2>3. QED BY <1>1, <2>1, <2>2 DEF SettingsInv
<1>7. CASE UNCHANGED settingVars
  BY <1>1, <1>7 DEF settingVars, SettingsInv
<1>8. CASE Settings!Next
  BY <1>2, <1>3, <1>4, <1>5, <1>6, <1>8 DEF Settings!Next
<1>9. QED BY <1>7, <1>8

(* Whatever numbers the settings of the two ends are called with, a        *)
(* message one end accepts fits the receive window of the other, and no    *)
(* flush interval looks like a clock that was set (ikcp.c:491, 1128-1138,  *)
(* 1198-1239).                                                             *)
THEOREM SettingsAreSafe == PartsSafety => []SettingsHold
<1>1. PartsInit => SettingsInv
  BY SettingsInitially DEF PartsInit
<1>2. SettingsInv /\ [PartsNext]_AllVars => SettingsInv'
  <2>1. ASSUME [PartsNext]_AllVars
        PROVE  Settings!Next \/ UNCHANGED settingVars
    BY <2>1 DEF PartsNext, AllVars
  <2>2. QED BY <2>1, SettingsStep
<1>3. SettingsInv => SettingsHold
  <2>1. ASSUME SettingsInv, NEW p \in Peers, NEW q \in Peers
        PROVE  longest[p] < rcv_wnd[q] /\ interval[p] \in 1..ResetLimit - 1
    <3>1. /\ longest[p] \in 0..WndRcv - 1 /\ rcv_wnd[q] \in Int /\ rcv_wnd[q] >= WndRcv
          /\ interval[p] \in 1..ResetLimit - 1
      BY <2>1 DEF SettingsInv
    <3>2. QED BY <3>1, SettingNumbers
  <2>2. QED BY <2>1 DEF SettingsHold, Settings!MessagesHeld, Settings!ClockKept
<1>4. QED BY <1>1, <1>2, <1>3, PTL DEF PartsSafety

--------------------------------------------------------------------------------
(* The datagrams: numbers and bytes.                                       *)

LEMMA WireNumbers ==
  /\ Base \in Nat /\ Base > 1 /\ Mtu \in Nat /\ Mtu >= 24 /\ Conv \in Wire!Long
  /\ Cmds \subseteq Wire!Byte /\ Flushes \subseteq Seq(Wire!Segment)
  /\ Strays \subseteq Seq(Wire!Byte)
  /\ \A data \in Strays : Len(data) < 24 \/ Wire!Refused(Wire!Header(data), Len(data) - 24)
  BY PartAssumptions DEF Wire!WireAssumption, Wire!IKCP_OVERHEAD

LEMMA TimesLess ==
  ASSUME NEW a \in Int, NEW c \in Int, NEW b \in Nat, a <= c
  PROVE  b * a <= b * c /\ b * a \in Int /\ b * c \in Int
  OBVIOUS

LEMMA Quotient ==
  ASSUME NEW n \in Nat, NEW m \in Nat, n < Base * m
  PROVE  /\ n \div Base \in Nat /\ n \div Base < m
         /\ n % Base \in Wire!Byte
         /\ (n % Base) + Base * (n \div Base) = n
<1> DEFINE d == n \div Base
           r == n % Base
<1>1. Base \in Nat /\ Base > 0
  BY WireNumbers
<1>2. d \in Int /\ r \in Int /\ n = Base * d + r /\ 0 <= r /\ r < Base
  BY <1>1
<1> HIDE DEF d, r
<1>3. d < m
  <2>1. SUFFICES ASSUME m <= d PROVE FALSE
    BY <1>2
  <2>2. Base * m <= Base * d /\ Base * m \in Int /\ Base * d \in Int
    BY <1>1, <1>2, <2>1, TimesLess
  <2>3. QED BY <1>2, <2>2
<1>4. 0 <= d
  <2>1. SUFFICES ASSUME d <= -1 PROVE FALSE
    BY <1>2
  <2>2. Base * d <= Base * (-1) /\ Base * (-1) = -Base /\ Base * d \in Int
    BY <1>1, <1>2, <2>1, TimesLess
  <2>3. QED BY <1>1, <1>2, <2>2
<1>5. r \in Wire!Byte
  BY <1>1, <1>2 DEF Wire!Byte
<1>6. r + Base * d = n
  <2>1. Base * d \in Int
    BY <1>1, <1>2
  <2>2. QED BY <1>2, <2>1
<1>7. QED BY <1>2, <1>3, <1>4, <1>5, <1>6 DEF d, r

LEMMA Remainder ==
  ASSUME NEW n \in Nat
  PROVE  n % Base \in Wire!Byte
<1>1. Base \in Nat /\ Base > 0
  BY WireNumbers
<1>2. QED BY <1>1 DEF Wire!Byte

LEMMA WholeByte ==
  ASSUME NEW c \in Wire!Byte
  PROVE  c \in Nat /\ c % Base = c
<1>1. c \in Nat /\ Base \in Nat /\ c < Base
  BY WireNumbers DEF Wire!Byte
<1>2. Base * 1 = Base
  BY <1>1
<1>3. c \div Base \in Nat /\ c \div Base < 1 /\ (c % Base) + Base * (c \div Base) = c
  BY <1>1, <1>2, Quotient
<1>4. c \div Base = 0
  BY <1>3
<1>5. Base * 0 = 0 /\ c % Base \in Int
  BY <1>1
<1>6. QED BY <1>1, <1>3, <1>4, <1>5

LEMMA WholeWord ==
  ASSUME NEW w \in Wire!Word
  PROVE  /\ w \in Nat /\ w \div Base \in Wire!Byte
         /\ (w % Base) + Base * (w \div Base) = w
<1>1. w \in Nat /\ Base \in Nat /\ w < Base * Base
  <2>1. Base * Base \in Int /\ Base \in Nat
    BY WireNumbers
  <2>2. QED BY <2>1 DEF Wire!Word
<1>2. /\ w \div Base \in Nat /\ w \div Base < Base
      /\ (w % Base) + Base * (w \div Base) = w
  BY <1>1, Quotient
<1>3. QED BY <1>1, <1>2 DEF Wire!Byte

LEMMA WholeLong ==
  ASSUME NEW l \in Wire!Long
  PROVE  /\ l \in Nat /\ l \div Base \in Nat /\ (l \div Base) \div Base \in Wire!Word
         /\ (l % Base) + Base * (l \div Base) = l
         /\ ((l \div Base) % Base) + Base * ((l \div Base) \div Base) = l \div Base
<1> DEFINE b2 == Base * Base
           b3 == Base * b2
           q == l \div Base
<1>1. b2 \in Nat /\ Base \in Nat
  BY WireNumbers
<1> HIDE DEF b2
<1>2. b3 \in Nat
  BY <1>1
<1> HIDE DEF b3
<1>3. Base * b3 \in Int
  BY <1>1, <1>2
<1>4. Wire!Long = 0..Base * b3 - 1
  BY DEF Wire!Long, b3, b2
<1>5. l \in Nat /\ l < Base * b3
  BY <1>3, <1>4
<1>6. q \in Nat /\ q < b3 /\ (l % Base) + Base * q = l
  BY <1>2, <1>5, Quotient
<1> HIDE DEF q
<1>7. q < Base * b2
  BY <1>6 DEF b3
<1>8. q \div Base \in Nat /\ q \div Base < b2 /\ (q % Base) + Base * (q \div Base) = q
  BY <1>1, <1>6, <1>7, Quotient
<1>9. q \div Base \in Wire!Word
  <2>1. Wire!Word = 0..b2 - 1
    BY DEF Wire!Word, b2
  <2>2. QED BY <1>1, <1>8, <2>1
<1>10. QED BY <1>5, <1>6, <1>8, <1>9 DEF q

--------------------------------------------------------------------------------
(* Bytes in a row.                                                         *)

Piece(data, n) == data \in Seq(Wire!Byte) /\ Len(data) = n

\* The bytes of a piece are those of data after at.
At(data, at, piece) == \A k \in 1..Len(piece) : data[at + k] = piece[k]

LEMMA Joined ==
  ASSUME NEW a, NEW b, NEW m \in Nat, NEW n \in Nat, Piece(a, m), Piece(b, n)
  PROVE  Piece(a \o b, m + n) /\ At(a \o b, 0, a) /\ At(a \o b, m, b)
<1>1. a \in Seq(Wire!Byte) /\ Len(a) = m /\ b \in Seq(Wire!Byte) /\ Len(b) = n
  BY DEF Piece
<1>2. a \o b \in Seq(Wire!Byte) /\ Len(a \o b) = m + n
  BY <1>1
<1>3. \A k \in 1..m : (a \o b)[0 + k] = a[k]
  BY <1>1
<1>4. \A k \in 1..n : (a \o b)[m + k] = b[k]
  BY <1>1
<1>5. QED BY <1>1, <1>2, <1>3, <1>4 DEF Piece, At

\* What begins with two pieces begins with the first, and the second is next.
LEMMA LastPiece ==
  ASSUME NEW a, NEW b, NEW m \in Nat, NEW n \in Nat, Piece(a, m), Piece(b, n),
         NEW d, NEW at \in Nat, At(d, at, a \o b)
  PROVE  At(d, at, a) /\ At(d, at + m, b)
<1>1. Len(a) = m /\ Len(b) = n
  BY DEF Piece
<1>2. /\ Len(a \o b) = m + n
      /\ \A k \in 1..m : (a \o b)[0 + k] = a[k]
      /\ \A k \in 1..n : (a \o b)[m + k] = b[k]
  <2>1. Piece(a \o b, m + n) /\ At(a \o b, 0, a) /\ At(a \o b, m, b)
    BY Joined
  <2>2. QED BY <1>1, <2>1 DEF Piece, At
<1>3. \A k \in 1..m + n : d[at + k] = (a \o b)[k]
  BY <1>2 DEF At
<1>4. ASSUME NEW k \in 1..m PROVE d[at + k] = a[k]
  <2>1. k \in 1..m + n /\ 0 + k = k
    OBVIOUS
  <2>2. QED BY <1>2, <1>3, <2>1
<1>5. ASSUME NEW k \in 1..n PROVE d[at + m + k] = b[k]
  <2>1. m + k \in 1..m + n /\ at + (m + k) = at + m + k
    OBVIOUS
  <2>2. QED BY <1>2, <1>3, <2>1
<1>6. QED BY <1>1, <1>4, <1>5 DEF At

LEMMA Coded8 ==
  ASSUME NEW c \in Nat
  PROVE  Piece(Wire!encode8u(c), 1) /\ Wire!encode8u(c)[1] = c % Base
  BY Remainder DEF Wire!encode8u, Piece

LEMMA Coded16 ==
  ASSUME NEW w \in Nat, w \div Base \in Nat
  PROVE  /\ Piece(Wire!encode16u(w), 2)
         /\ Wire!encode16u(w)[1] = w % Base /\ Wire!encode16u(w)[2] = (w \div Base) % Base
<1> DEFINE a == Wire!encode8u(w)
           b == Wire!encode8u(w \div Base)
           e == a \o b
<1>1. /\ Piece(a, 1) /\ a[1] = w % Base
      /\ Piece(b, 1) /\ b[1] = (w \div Base) % Base
  BY Coded8
<1>2. Wire!encode16u(w) = e
  BY DEF Wire!encode16u
<1> HIDE DEF a, b
<1>3. Piece(e, 1 + 1) /\ At(e, 0, a) /\ At(e, 1, b) /\ 1 + 1 = 2
  BY <1>1, Joined
<1> HIDE DEF e
<1>4. e[1] = a[1] /\ e[2] = b[1]
  <2>1. 1 \in 1..Len(a) /\ 1 \in 1..Len(b) /\ 0 + 1 = 1
    BY <1>1 DEF Piece
  <2>2. e[0 + 1] = a[1] /\ e[1 + 1] = b[1]
    BY <1>3, <2>1 DEF At
  <2>3. QED BY <1>3, <2>1, <2>2
<1>5. QED BY <1>1, <1>2, <1>3, <1>4

LEMMA Coded32 ==
  ASSUME NEW l \in Wire!Long
  PROVE  LET e == Wire!encode32u(l)
             q == (l \div Base) \div Base
         IN /\ Piece(e, 4)
            /\ e[1] = l % Base /\ e[2] = (l \div Base) % Base
            /\ e[3] = q % Base /\ e[4] = (q \div Base) % Base
<1> DEFINE q == (l \div Base) \div Base
           a == Wire!encode16u(l)
           b == Wire!encode16u(q)
           e == a \o b
<1>1. l \in Nat /\ l \div Base \in Nat /\ q \in Wire!Word
  BY WholeLong
<1>2. q \in Nat /\ q \div Base \in Nat
  BY <1>1, WholeWord, WholeByte
<1>3. /\ Piece(a, 2) /\ a[1] = l % Base /\ a[2] = (l \div Base) % Base
      /\ Piece(b, 2) /\ b[1] = q % Base /\ b[2] = (q \div Base) % Base
  <2> HIDE DEF q
  <2>1. QED BY <1>1, <1>2, Coded16
<1>4. Wire!encode32u(l) = e
  BY DEF Wire!encode32u
<1> HIDE DEF a, b, q
<1>5. Piece(e, 2 + 2) /\ At(e, 0, a) /\ At(e, 2, b) /\ 2 + 2 = 4
  BY <1>3, Joined
<1> HIDE DEF e
<1>6. /\ e[0 + 1] = a[1] /\ e[0 + 2] = a[2]
      /\ e[2 + 1] = b[1] /\ e[2 + 2] = b[2]
  <2>1. 1 \in 1..Len(a) /\ 2 \in 1..Len(a) /\ 1 \in 1..Len(b) /\ 2 \in 1..Len(b)
    BY <1>3 DEF Piece
  <2>2. QED BY <1>5, <2>1 DEF At
<1>7. e[1] = a[1] /\ e[2] = a[2] /\ e[3] = b[1] /\ e[4] = b[2]
  BY <1>6
<1>8. QED BY <1>3, <1>4, <1>5, <1>7 DEF q

\* What was encoded is decoded, wherever it is.
LEMMA Decoded8 ==
  ASSUME NEW c \in Wire!Byte, NEW d, NEW at \in Nat, At(d, at, Wire!encode8u(c))
  PROVE  Wire!decode8u(d, at) = c
<1> DEFINE e == Wire!encode8u(c)
<1>1. c \in Nat /\ c % Base = c
  BY WholeByte
<1>2. Len(e) = 1 /\ e[1] = c
  BY <1>1, Coded8 DEF Piece
<1> HIDE DEF e
<1>3. d[at + 1] = e[1]
  <2>1. 1 \in 1..Len(e)
    BY <1>2
  <2>2. QED BY <2>1 DEF At, e
<1>4. QED BY <1>2, <1>3 DEF Wire!decode8u

LEMMA Read16 ==
  ASSUME NEW w \in Wire!Word, NEW d, NEW at \in Nat,
         d[at + 1] = w % Base, d[at + 2] = (w \div Base) % Base
  PROVE  Wire!decode16u(d, at) = w
<1>1. w \div Base \in Wire!Byte /\ (w % Base) + Base * (w \div Base) = w
  BY WholeWord
<1>2. d[at + 2] = w \div Base
  BY <1>1, WholeByte
<1>3. at + 1 + 1 = at + 2
  OBVIOUS
<1>4. Wire!decode16u(d, at) = d[at + 1] + Base * d[at + 2]
  BY <1>3 DEF Wire!decode16u, Wire!decode8u
<1>5. QED BY <1>1, <1>2, <1>4

LEMMA Decoded16 ==
  ASSUME NEW w \in Wire!Word, NEW d, NEW at \in Nat, At(d, at, Wire!encode16u(w))
  PROVE  Wire!decode16u(d, at) = w
<1> DEFINE e == Wire!encode16u(w)
<1>1. w \in Nat /\ w \div Base \in Nat
  BY WholeWord, WholeByte
<1>2. Len(e) = 2 /\ e[1] = w % Base /\ e[2] = (w \div Base) % Base
  BY <1>1, Coded16 DEF Piece
<1> HIDE DEF e
<1>3. d[at + 1] = e[1] /\ d[at + 2] = e[2]
  <2>1. 1 \in 1..Len(e) /\ 2 \in 1..Len(e)
    BY <1>2
  <2>2. QED BY <2>1 DEF At, e
<1>4. QED BY <1>2, <1>3, Read16

LEMMA Decoded32 ==
  ASSUME NEW l \in Wire!Long, NEW d, NEW at \in Nat, At(d, at, Wire!encode32u(l))
  PROVE  Wire!decode32u(d, at) = l
<1> DEFINE e == Wire!encode32u(l)
           p == l \div Base
           q == p \div Base
<1>1. /\ Piece(e, 4) /\ e[1] = l % Base /\ e[2] = p % Base
      /\ e[3] = q % Base /\ e[4] = (q \div Base) % Base
  BY Coded32
<1>2. q \in Wire!Word /\ (l % Base) + Base * p = l /\ (p % Base) + Base * q = p
  BY WholeLong
<1> HIDE DEF e, p, q
<1>3. d[at + 1] = e[1] /\ d[at + 2] = e[2] /\ d[at + 3] = e[3] /\ d[at + 4] = e[4]
  <2>1. 1 \in 1..Len(e) /\ 2 \in 1..Len(e) /\ 3 \in 1..Len(e) /\ 4 \in 1..Len(e)
    BY <1>1 DEF Piece
  <2>2. QED BY <2>1 DEF At, e
<1>4. Wire!decode16u(d, at + 2) = q
  <2>1. (at + 2) + 1 = at + 3 /\ (at + 2) + 2 = at + 4 /\ at + 2 \in Nat
    OBVIOUS
  <2>2. d[(at + 2) + 1] = q % Base /\ d[(at + 2) + 2] = (q \div Base) % Base
    BY <1>1, <1>3, <2>1
  <2>3. QED BY <1>2, <2>1, <2>2, Read16
<1>5. at + 1 + 1 = at + 2
  OBVIOUS
<1>6. Wire!decode32u(d, at) = d[at + 1] + Base * (d[at + 2] + Base * Wire!decode16u(d, at + 2))
  BY <1>5 DEF Wire!decode32u, Wire!decode8u
<1>7. QED BY <1>1, <1>2, <1>3, <1>4, <1>6

LEMMA Longer ==
  ASSUME NEW a, NEW b, NEW m \in Nat, NEW n \in Nat, NEW k, k = m + n, Piece(a, m), Piece(b, n)
  PROVE  Piece(a \o b, k)
  BY Joined

\* The fields of a segment.
LEMMA Fields ==
  ASSUME NEW s \in Wire!Segment
  PROVE  /\ s.cmd \in Cmds /\ s.cmd \in Wire!Byte /\ s.frg \in Wire!Byte /\ s.wnd \in Wire!Word
         /\ s.ts \in Wire!Long /\ s.sn \in Wire!Long /\ s.una \in Wire!Long /\ s.len \in Wire!Long
         /\ s.len \in Nat /\ s.sn \in Nat /\ 24 + s.len \in Nat /\ 24 + s.len <= Mtu
<1>1. /\ s.cmd \in Cmds /\ s.frg \in Wire!Byte /\ s.wnd \in Wire!Word
      /\ s.ts \in Wire!Long /\ s.sn \in Wire!Long /\ s.una \in Wire!Long /\ s.len \in Wire!Long
      /\ s.len <= Mtu - 24
  BY DEF Wire!Segment, Wire!IKCP_OVERHEAD
<1>2. s.cmd \in Wire!Byte /\ Mtu \in Nat
  BY <1>1, WireNumbers
<1>3. s.len \in Nat /\ s.sn \in Nat
  BY <1>1, WholeLong
<1>4. 24 + s.len \in Nat /\ 24 + s.len <= Mtu
  BY <1>1, <1>2, <1>3
<1>5. QED BY <1>1, <1>2, <1>3, <1>4

\* A header has 24 bytes, and each of its fields is where it is read.
LEMMA HeaderIs ==
  ASSUME NEW s \in Wire!Segment
  PROVE  /\ Piece(Wire!encode_seg(s), 24)
         /\ \A d : At(d, 0, Wire!encode_seg(s)) =>
              /\ At(d, 0, Wire!encode32u(Conv)) /\ At(d, 4, Wire!encode8u(s.cmd))
              /\ At(d, 5, Wire!encode8u(s.frg)) /\ At(d, 6, Wire!encode16u(s.wnd))
              /\ At(d, 8, Wire!encode32u(s.ts)) /\ At(d, 12, Wire!encode32u(s.sn))
              /\ At(d, 16, Wire!encode32u(s.una)) /\ At(d, 20, Wire!encode32u(s.len))
<1> DEFINE a1 == Wire!encode32u(Conv)
           a2 == Wire!encode8u(s.cmd)
           a3 == Wire!encode8u(s.frg)
           a4 == Wire!encode16u(s.wnd)
           a5 == Wire!encode32u(s.ts)
           a6 == Wire!encode32u(s.sn)
           a7 == Wire!encode32u(s.una)
           a8 == Wire!encode32u(s.len)
           b2 == a1 \o a2
           b3 == b2 \o a3
           b4 == b3 \o a4
           b5 == b4 \o a5
           b6 == b5 \o a6
           b7 == b6 \o a7
           b8 == b7 \o a8
<1>1. /\ Piece(a1, 4) /\ Piece(a2, 1) /\ Piece(a3, 1) /\ Piece(a4, 2)
      /\ Piece(a5, 4) /\ Piece(a6, 4) /\ Piece(a7, 4) /\ Piece(a8, 4)
  <2>1. s.cmd \in Nat /\ s.frg \in Nat /\ s.wnd \in Nat /\ s.wnd \div Base \in Nat
    BY Fields, WholeByte, WholeWord
  <2>2. Piece(a2, 1) /\ Piece(a3, 1) /\ Piece(a4, 2)
    BY <2>1, Coded8, Coded16
  <2>3. \A l \in Wire!Long : Piece(Wire!encode32u(l), 4)
    BY Coded32
  <2>4. QED BY <2>2, <2>3, Fields, WireNumbers
<1>2. Wire!encode_seg(s) = b8
  BY DEF Wire!encode_seg
<1> HIDE DEF a1, a2, a3, a4, a5, a6, a7, a8
<1>3. Piece(b2, 5)
  BY <1>1, 4 \in Nat, 1 \in Nat, 5 = 4 + 1, Longer
<1>4. ASSUME NEW d, At(d, 0, b2) PROVE At(d, 0, a1) /\ At(d, 0 + 4, a2)
  BY <1>1, <1>4, LastPiece
<1> HIDE DEF b2
<1>5. Piece(b3, 6)
  BY <1>1, <1>3, 5 \in Nat, 1 \in Nat, 6 = 5 + 1, Longer
<1>6. ASSUME NEW d, At(d, 0, b3) PROVE At(d, 0, b2) /\ At(d, 0 + 5, a3)
  BY <1>1, <1>3, <1>6, LastPiece
<1> HIDE DEF b3
<1>7. Piece(b4, 8)
  BY <1>1, <1>5, 6 \in Nat, 2 \in Nat, 8 = 6 + 2, Longer
<1>8. ASSUME NEW d, At(d, 0, b4) PROVE At(d, 0, b3) /\ At(d, 0 + 6, a4)
  BY <1>1, <1>5, <1>8, LastPiece
<1> HIDE DEF b4
<1>9. Piece(b5, 12)
  BY <1>1, <1>7, 8 \in Nat, 4 \in Nat, 12 = 8 + 4, Longer
<1>10. ASSUME NEW d, At(d, 0, b5) PROVE At(d, 0, b4) /\ At(d, 0 + 8, a5)
  BY <1>1, <1>7, <1>10, LastPiece
<1> HIDE DEF b5
<1>11. Piece(b6, 16)
  BY <1>1, <1>9, 12 \in Nat, 4 \in Nat, 16 = 12 + 4, Longer
<1>12. ASSUME NEW d, At(d, 0, b6) PROVE At(d, 0, b5) /\ At(d, 0 + 12, a6)
  BY <1>1, <1>9, <1>12, LastPiece
<1> HIDE DEF b6
<1>13. Piece(b7, 20)
  BY <1>1, <1>11, 16 \in Nat, 4 \in Nat, 20 = 16 + 4, Longer
<1>14. ASSUME NEW d, At(d, 0, b7) PROVE At(d, 0, b6) /\ At(d, 0 + 16, a7)
  BY <1>1, <1>11, <1>14, LastPiece
<1> HIDE DEF b7
<1>15. Piece(b8, 24)
  BY <1>1, <1>13, 20 \in Nat, 4 \in Nat, 24 = 20 + 4, Longer
<1>16. ASSUME NEW d, At(d, 0, b8) PROVE At(d, 0, b7) /\ At(d, 0 + 20, a8)
  BY <1>1, <1>13, <1>16, LastPiece
<1> HIDE DEF b8
<1>17. ASSUME NEW d, At(d, 0, b8)
       PROVE  /\ At(d, 0, a1) /\ At(d, 4, a2) /\ At(d, 5, a3) /\ At(d, 6, a4)
              /\ At(d, 8, a5) /\ At(d, 12, a6) /\ At(d, 16, a7) /\ At(d, 20, a8)
  <2>1. /\ 0 + 4 = 4 /\ 0 + 5 = 5 /\ 0 + 6 = 6 /\ 0 + 8 = 8 /\ 0 + 12 = 12
        /\ 0 + 16 = 16 /\ 0 + 20 = 20
    OBVIOUS
  <2>2. At(d, 0, b7) /\ At(d, 0, b6) /\ At(d, 0, b5)
    BY <1>12, <1>14, <1>16, <1>17
  <2>3. At(d, 0, b4) /\ At(d, 0, b3) /\ At(d, 0, b2)
    BY <1>6, <1>8, <1>10, <2>2
  <2>4. QED BY <1>4, <1>6, <1>8, <1>10, <1>12, <1>14, <1>16, <1>17, <2>1, <2>2, <2>3
<1>18. Piece(Wire!encode_seg(s), 24)
  BY <1>2, <1>15
<1>19. QED BY <1>2, <1>17, <1>18 DEF a1, a2, a3, a4, a5, a6, a7, a8

LEMMA HeaderRead ==
  ASSUME NEW s \in Wire!Segment, NEW d, At(d, 0, Wire!encode_seg(s))
  PROVE  Wire!Header(d) =
           [conv |-> Conv, cmd |-> s.cmd, frg |-> s.frg, wnd |-> s.wnd, ts |-> s.ts,
            sn |-> s.sn, una |-> s.una, len |-> s.len]
<1>1. /\ At(d, 0, Wire!encode32u(Conv)) /\ At(d, 4, Wire!encode8u(s.cmd))
      /\ At(d, 5, Wire!encode8u(s.frg)) /\ At(d, 6, Wire!encode16u(s.wnd))
      /\ At(d, 8, Wire!encode32u(s.ts)) /\ At(d, 12, Wire!encode32u(s.sn))
      /\ At(d, 16, Wire!encode32u(s.una)) /\ At(d, 20, Wire!encode32u(s.len))
  BY HeaderIs
<1>2. /\ Wire!decode32u(d, 0) = Conv /\ Wire!decode32u(d, 8) = s.ts
      /\ Wire!decode32u(d, 12) = s.sn /\ Wire!decode32u(d, 16) = s.una
      /\ Wire!decode32u(d, 20) = s.len
  BY <1>1, Fields, WireNumbers, Decoded32
<1>3. Wire!decode8u(d, 4) = s.cmd /\ Wire!decode8u(d, 5) = s.frg
  BY <1>1, Fields, Decoded8
<1>4. Wire!decode16u(d, 6) = s.wnd
  BY <1>1, Fields, Decoded16
<1>5. QED BY <1>2, <1>3, <1>4 DEF Wire!Header

LEMMA PayloadLength ==
  ASSUME NEW sn \in Nat, NEW len \in Nat
  PROVE  Piece(Wire!Payload(sn, len), len)
<1>1. \A i \in 1..len : (sn + i) % Base \in Wire!Byte
  <2>1. \A i \in 1..len : sn + i \in Nat
    OBVIOUS
  <2>2. QED BY <2>1, Remainder
<1> DEFINE f(i) == (sn + i) % Base
<1>2. \A i \in 1..len : f(i) \in Wire!Byte
  BY <1>1
<1>3. Wire!Payload(sn, len) = [i \in 1..len |-> f(i)]
  BY DEF Wire!Payload
<1> HIDE DEF f
<1>4. QED BY <1>2, <1>3 DEF Piece

LEMMA BytesIs ==
  ASSUME NEW s \in Wire!Segment
  PROVE  /\ Piece(Wire!Bytes(s), 24 + s.len)
         /\ \A d, at : at \in Nat /\ At(d, at, Wire!Bytes(s)) =>
              At(d, at, Wire!encode_seg(s)) /\ At(d, at + 24, Wire!Payload(s.sn, s.len))
<1> DEFINE h == Wire!encode_seg(s)
           p == Wire!Payload(s.sn, s.len)
<1>1. Piece(h, 24) /\ Piece(p, s.len) /\ s.len \in Nat /\ 24 \in Nat
  BY Fields, HeaderIs, PayloadLength
<1>2. Wire!Bytes(s) = h \o p
  BY DEF Wire!Bytes
<1> HIDE DEF h, p
<1>3. Piece(h \o p, 24 + s.len)
  BY <1>1, Joined
<1>4. ASSUME NEW d, NEW at \in Nat, At(d, at, h \o p)
      PROVE  At(d, at, h) /\ At(d, at + 24, p)
  BY <1>1, <1>4, LastPiece
<1>5. QED BY <1>2, <1>3, <1>4 DEF h, p

--------------------------------------------------------------------------------
(* What a datagram holds: the segments after the first a of ts, up to the  *)
(* b-th, one behind the other; cut[k] is where the k-th of ts ends.        *)

Cuts(cut, d, ts, a, b) ==
  /\ cut \in [a..b -> Nat] /\ cut[a] = 0 /\ cut[b] = Len(d)
  /\ \A k, l \in a..b : k <= l => cut[k] <= cut[l]
  /\ \A k \in a + 1..b : /\ cut[k] = cut[k - 1] + (24 + ts[k].len)
                         /\ At(d, cut[k - 1], Wire!Bytes(ts[k]))

Holds(d, ts, a, b) ==
  /\ d \in Seq(Wire!Byte) /\ a \in Nat /\ b \in Nat /\ a <= b /\ b <= Len(ts)
  /\ \E cut \in [a..b -> Nat] : Cuts(cut, d, ts, a, b)

LEMMA HoldsNothing ==
  ASSUME NEW ts \in Seq(Wire!Segment), NEW a \in 0..Len(ts)
  PROVE  Holds(<< >>, ts, a, a)
<1> DEFINE cut == [k \in a..a |-> 0]
<1>1. a \in Nat /\ a \in a..a /\ << >> \in Seq(Wire!Byte) /\ Len(<< >>) = 0
  OBVIOUS
<1>2. cut \in [a..a -> Nat] /\ \A k \in a..a : cut[k] = 0
  OBVIOUS
<1> HIDE DEF cut
<1>3. \A k \in a + 1..a : FALSE
  BY <1>1
<1>4. Cuts(cut, << >>, ts, a, a)
  BY <1>1, <1>2, <1>3 DEF Cuts
<1>5. a <= Len(ts)
  OBVIOUS
<1>6. QED BY <1>1, <1>2, <1>4, <1>5 DEF Holds

\* What is held stays held when more is written behind it.
LEMMA HoldsStill ==
  ASSUME NEW ts \in Seq(Wire!Segment), NEW s \in Wire!Segment, NEW d, NEW a, NEW b,
         Holds(d, ts, a, b)
  PROVE  Holds(d, Append(ts, s), a, b)
<1>1. PICK cut \in [a..b -> Nat] : Cuts(cut, d, ts, a, b)
  BY DEF Holds
<1>2. d \in Seq(Wire!Byte) /\ a \in Nat /\ b \in Nat /\ a <= b /\ b <= Len(ts)
  BY DEF Holds
<1> DEFINE us == Append(ts, s)
<1>3. Len(us) = Len(ts) + 1 /\ \A k \in 1..Len(ts) : us[k] = ts[k]
  OBVIOUS
<1> HIDE DEF us
<1>4. \A k \in a + 1..b : us[k] = ts[k]
  BY <1>2, <1>3
<1>5. Cuts(cut, d, us, a, b)
  BY <1>1, <1>4 DEF Cuts
<1>6. b <= Len(us)
  BY <1>2, <1>3
<1>7. QED BY <1>1, <1>2, <1>5, <1>6 DEF Holds, us

\* What is where in data is still there when data grows.
LEMMA AtStill ==
  ASSUME NEW d \in Seq(Wire!Byte), NEW e \in Seq(Wire!Byte), NEW piece \in Seq(Wire!Byte),
         NEW at \in Nat, at + Len(piece) <= Len(d), At(d, at, piece)
  PROVE  At(d \o e, at, piece)
<1>1. ASSUME NEW k \in 1..Len(piece) PROVE (d \o e)[at + k] = piece[k]
  <2>1. at + k \in 1..Len(d)
    OBVIOUS
  <2>2. (d \o e)[at + k] = d[at + k]
    BY <2>1
  <2>3. QED BY <2>2 DEF At
<1>2. QED BY <1>1 DEF At

LEMMA HoldsMore ==
  ASSUME NEW ts \in Seq(Wire!Segment), NEW s \in Wire!Segment, NEW d, NEW a,
         Holds(d, ts, a, Len(ts))
  PROVE  Holds(d \o Wire!Bytes(s), Append(ts, s), a, Len(ts) + 1)
<1> DEFINE n == Len(ts)
           us == Append(ts, s)
           w == Wire!Bytes(s)
           e == d \o w
<1>1. PICK cut \in [a..n -> Nat] : Cuts(cut, d, ts, a, n)
  BY DEF Holds
<1>2. d \in Seq(Wire!Byte) /\ a \in Nat /\ n \in Nat /\ a <= n
  BY DEF Holds
<1>3. us \in Seq(Wire!Segment) /\ Len(us) = n + 1 /\ us[n + 1] = s
      /\ \A k \in 1..n : us[k] = ts[k]
  OBVIOUS
<1>4. w \in Seq(Wire!Byte) /\ Len(w) = 24 + s.len /\ s.len \in Nat
  BY BytesIs, Fields DEF Piece
<1> HIDE DEF w
<1>5. Piece(e, Len(d) + (24 + s.len)) /\ At(e, Len(d), w)
  <2>1. Piece(d, Len(d)) /\ Piece(w, 24 + s.len) /\ Len(d) \in Nat /\ 24 + s.len \in Nat
    BY <1>2, <1>4 DEF Piece
  <2>2. QED BY <2>1, Joined
<1>6. e \in Seq(Wire!Byte) /\ Len(e) = Len(d) + (24 + s.len) /\ Len(d) \in Nat
  BY <1>2, <1>5 DEF Piece
<1> DEFINE all == [k \in a..n + 1 |-> IF k <= n THEN cut[k] ELSE Len(e)]
<1>7. /\ cut[a] = 0 /\ cut[n] = Len(d)
      /\ \A k, l \in a..n : k <= l => cut[k] <= cut[l]
      /\ \A k \in a + 1..n : cut[k] = cut[k - 1] + (24 + ts[k].len)
      /\ \A k \in a + 1..n : At(d, cut[k - 1], Wire!Bytes(ts[k]))
  BY <1>1 DEF Cuts
<1>8. /\ all \in [a..n + 1 -> Nat] /\ all[n + 1] = Len(e)
      /\ \A k \in a..n : all[k] = cut[k]
  <2>1. \A k \in a..n : cut[k] \in Nat
    BY <1>1
  <2>2. n + 1 \in a..n + 1 /\ ~(n + 1 <= n) /\ Len(e) \in Nat
    BY <1>2, <1>4, <1>6
  <2>3. \A k \in a..n + 1 : k <= n => k \in a..n
    BY <1>2
  <2>4. \A k \in a..n : k \in a..n + 1 /\ k <= n
    BY <1>2
  <2> HIDE DEF e, n
  <2>5. QED BY <2>1, <2>2, <2>3, <2>4
<1> HIDE DEF e, us, all, n
<1>9. \A k \in a..n : cut[k] \in Nat /\ cut[k] <= Len(d)
  <2>1. n \in a..n
    BY <1>2
  <2>2. QED BY <1>1, <1>2, <1>7, <2>1
<1>10. Cuts(all, e, us, a, n + 1)
  <2>1. all[a] = 0
    <3>1. a \in a..n
      BY <1>2
    <3>2. QED BY <1>7, <1>8, <3>1
  <2>2. ASSUME NEW k \in a..n + 1, NEW l \in a..n + 1, k <= l PROVE all[k] <= all[l]
    <3>1. CASE l \in a..n
      <4>1. k \in a..n
        BY <1>2, <2>2, <3>1
      <4>2. QED BY <1>7, <1>8, <2>2, <3>1, <4>1
    <3>2. CASE l = n + 1 /\ k \in a..n
      <4>1. all[k] <= Len(d) /\ all[k] \in Nat
        BY <1>8, <1>9, <3>2
      <4>2. QED BY <1>4, <1>6, <1>8, <3>2, <4>1
    <3>3. CASE l = n + 1 /\ k = n + 1
      BY <1>6, <1>4, <1>8, <3>3
    <3>4. l \in a..n \/ (l = n + 1 /\ k \in a..n) \/ (l = n + 1 /\ k = n + 1)
      BY <1>2, <2>2
    <3>5. QED BY <3>1, <3>2, <3>3, <3>4
  <2>3. ASSUME NEW k \in a + 1..n
        PROVE  all[k] = all[k - 1] + (24 + us[k].len) /\ At(e, all[k - 1], Wire!Bytes(us[k]))
    <3>1. k \in a..n /\ k - 1 \in a..n /\ k \in 1..n
      BY <1>2
    <3>2. all[k] = cut[k] /\ all[k - 1] = cut[k - 1] /\ us[k] = ts[k]
      BY <1>3, <1>8, <3>1
    <3>3. cut[k] = cut[k - 1] + (24 + ts[k].len) /\ At(d, cut[k - 1], Wire!Bytes(ts[k]))
      BY <1>7
    <3>4. At(e, cut[k - 1], Wire!Bytes(ts[k]))
      <4>1. ts[k] \in Wire!Segment
        BY <3>1 DEF n
      <4>2. Piece(Wire!Bytes(ts[k]), 24 + ts[k].len)
        BY <4>1, BytesIs
      <4> DEFINE piece == Wire!Bytes(ts[k])
      <4>3. piece \in Seq(Wire!Byte) /\ Len(piece) = 24 + ts[k].len
        BY <4>2 DEF Piece
      <4>4. cut[k - 1] \in Nat /\ cut[k - 1] + Len(piece) <= Len(d)
        BY <1>9, <3>1, <3>3, <4>3
      <4> HIDE DEF piece
      <4>5. At(d, cut[k - 1], piece)
        BY <3>3 DEF piece
      <4>6. At(e, cut[k - 1], piece)
        BY <1>2, <1>4, <4>3, <4>4, <4>5, AtStill DEF e
      <4>7. QED BY <4>6 DEF piece
    <3>5. QED BY <3>2, <3>3, <3>4
  <2>4. ASSUME NEW k, k = n + 1
        PROVE  all[k] = all[k - 1] + (24 + us[k].len) /\ At(e, all[k - 1], Wire!Bytes(us[k]))
    <3>1. k - 1 = n /\ n \in a..n
      BY <1>2, <2>4
    <3>2. all[k - 1] = Len(d) /\ us[k] = s /\ all[k] = Len(e)
      BY <1>3, <1>7, <1>8, <2>4, <3>1
    <3>3. At(e, Len(d), Wire!Bytes(s))
      BY <1>5 DEF w
    <3>4. QED BY <1>6, <3>2, <3>3
  <2>5. \A k \in a + 1..n + 1 : k \in a + 1..n \/ k = n + 1
    BY <1>2
  <2>6. ASSUME NEW k \in a + 1..n + 1
        PROVE  all[k] = all[k - 1] + (24 + us[k].len) /\ At(e, all[k - 1], Wire!Bytes(us[k]))
    <3>1. CASE k \in a + 1..n
      BY <2>3, <3>1
    <3>2. CASE k = n + 1
      BY <2>4, <3>2
    <3>3. QED BY <2>5, <3>1, <3>2
  <2>7. QED BY <1>8, <2>1, <2>2, <2>6 DEF Cuts
<1>11. n + 1 \in Nat /\ a <= n + 1 /\ n + 1 <= Len(us)
  BY <1>2, <1>3
<1>12. Holds(e, us, a, n + 1)
  BY <1>2, <1>6, <1>8, <1>10, <1>11 DEF Holds
<1>13. QED BY <1>12 DEF e, us, n, w

\* What holds a segment begins with its bytes and goes on with the others.
LEMMA HoldsFirst ==
  ASSUME NEW ts \in Seq(Wire!Segment), NEW d, NEW a, NEW b, Holds(d, ts, a, b), a # b
  PROVE  LET s == ts[a + 1]
         IN /\ a + 1 \in 1..Len(ts) /\ a + 1 <= b /\ 24 + s.len <= Len(d)
            /\ At(d, 0, Wire!Bytes(s))
            /\ Holds(SubSeq(d, 24 + s.len + 1, Len(d)), ts, a + 1, b)
<1> DEFINE s == ts[a + 1]
           z == 24 + s.len
           e == SubSeq(d, z + 1, Len(d))
<1>1. PICK cut \in [a..b -> Nat] : Cuts(cut, d, ts, a, b)
  BY DEF Holds
<1>2. d \in Seq(Wire!Byte) /\ a \in Nat /\ b \in Nat /\ a <= b /\ b <= Len(ts)
  BY DEF Holds
<1>3. a + 1 <= b /\ a + 1 \in 1..Len(ts) /\ a \in a..b /\ a + 1 \in a..b /\ b \in a..b
      /\ a + 1 \in a + 1..b /\ a + 1 - 1 = a
  BY <1>2
<1>4. s \in Wire!Segment
  BY <1>3
<1>5. s.len \in Nat /\ z \in Nat /\ z >= 24
  BY <1>4, Fields
<1>6. /\ cut[a] = 0 /\ cut[b] = Len(d)
      /\ \A k, l \in a..b : k <= l => cut[k] <= cut[l]
      /\ \A k \in a + 1..b : cut[k] = cut[k - 1] + (24 + ts[k].len)
      /\ \A k \in a + 1..b : At(d, cut[k - 1], Wire!Bytes(ts[k]))
  BY <1>1 DEF Cuts
<1>7. cut[a + 1] = cut[a] + z /\ At(d, cut[a], Wire!Bytes(s))
  BY <1>3, <1>6
<1> HIDE DEF s
<1>8. cut[a + 1] = z /\ At(d, 0, Wire!Bytes(s)) /\ z <= Len(d)
  <2>1. cut[a + 1] = z
    BY <1>5, <1>6, <1>7
  <2>2. z <= Len(d)
    BY <1>3, <1>6, <2>1
  <2>3. QED BY <1>6, <1>7, <2>1, <2>2
<1> HIDE DEF z
<1>9. e \in Seq(Wire!Byte) /\ Len(e) = Len(d) - z /\ \A j \in 1..Len(d) - z : e[j] = d[z + j]
  <2>1. Len(d) \in Nat /\ z \in Nat /\ z <= Len(d)
    BY <1>2, <1>5, <1>8
  <2>2. QED BY <1>2, <2>1
<1> HIDE DEF e
<1> DEFINE cot == [k \in a + 1..b |-> cut[k] - z]
<1>10. \A k \in a + 1..b : k \in a..b /\ cut[k] \in Nat /\ z <= cut[k] /\ cut[k] <= Len(d)
  <2>1. ASSUME NEW k \in a + 1..b
        PROVE  k \in a..b /\ cut[k] \in Nat /\ z <= cut[k] /\ cut[k] <= Len(d)
    <3>1. k \in a..b /\ a + 1 <= k /\ k <= b
      BY <1>2
    <3>2. QED BY <1>1, <1>3, <1>6, <1>8, <3>1
  <2>2. QED BY <2>1
<1>11. cot \in [a + 1..b -> Nat] /\ \A k \in a + 1..b : cot[k] = cut[k] - z
  <2>1. \A k \in a + 1..b : cut[k] - z \in Nat
    BY <1>5, <1>10
  <2>2. QED BY <2>1
<1> HIDE DEF cot
<1>12. Cuts(cot, e, ts, a + 1, b)
  <2>1. cot[a + 1] = 0 /\ cot[b] = Len(e)
    <3>1. b \in a + 1..b
      BY <1>2, <1>3
    <3>2. cot[a + 1] = z - z /\ cot[b] = Len(d) - z
      <4>1. a + 1 \in a + 1..b /\ cut[a + 1] = z /\ cut[b] = Len(d)
        BY <1>3, <1>6, <1>8
      <4>2. QED BY <1>11, <3>1, <4>1, Zenon
    <3>3. z - z = 0
      BY <1>5
    <3>4. QED BY <1>9, <3>2, <3>3, Zenon
  <2>2. ASSUME NEW k \in a + 1..b, NEW l \in a + 1..b, k <= l PROVE cot[k] <= cot[l]
    <3>1. cut[k] <= cut[l] /\ cut[k] \in Nat /\ cut[l] \in Nat
      BY <1>6, <1>10, <2>2
    <3>2. QED BY <1>5, <1>11, <3>1
  <2>3. ASSUME NEW k \in a + 1 + 1..b
        PROVE  cot[k] = cot[k - 1] + (24 + ts[k].len) /\ At(e, cot[k - 1], Wire!Bytes(ts[k]))
    <3>1. k \in a + 1..b /\ k - 1 \in a + 1..b /\ k \in 1..Len(ts)
      BY <1>2
    <3>2. ts[k] \in Wire!Segment
      BY <3>1
    <3>3. Piece(Wire!Bytes(ts[k]), 24 + ts[k].len) /\ ts[k].len \in Nat
      BY <3>2, BytesIs, Fields
    <3> DEFINE piece == Wire!Bytes(ts[k])
               y == 24 + ts[k].len
               p == cut[k - 1]
               q == cut[k]
    <3>4. y \in Nat /\ q = p + y /\ At(d, p, piece)
      BY <1>6, <3>1, <3>3
    <3>5. /\ q \in Nat /\ p \in Nat /\ z <= p /\ q <= Len(d)
          /\ cot[k] = q - z /\ cot[k - 1] = p - z
      BY <1>10, <1>11, <3>1
    <3>6. piece \in Seq(Wire!Byte) /\ Len(piece) = y
      BY <3>3 DEF Piece
    <3> HIDE DEF piece, y, p, q
    <3>7. ASSUME NEW j \in 1..Len(piece) PROVE e[cot[k - 1] + j] = piece[j]
      <4>1. j \in Nat /\ j >= 1 /\ p + j <= q
        BY <3>4, <3>5, <3>6
      <4>2. (p - z) + j \in 1..Len(d) - z /\ z + ((p - z) + j) = p + j
        BY <1>2, <1>5, <3>5, <4>1
      <4>3. e[cot[k - 1] + j] = d[p + j]
        BY <1>9, <3>5, <4>2
      <4>4. QED BY <3>4, <4>3 DEF At
    <3>8. At(e, cot[k - 1], piece)
      BY <3>7 DEF At
    <3>9. cot[k] = cot[k - 1] + y
      BY <1>5, <3>4, <3>5
    <3>10. QED BY <3>8, <3>9 DEF piece, y
  <2>4. QED BY <1>11, <2>1, <2>2, <2>3 DEF Cuts
<1>13. Holds(e, ts, a + 1, b)
  <2>1. a + 1 \in Nat
    BY <1>2
  <2>2. \E c \in [a + 1..b -> Nat] : Cuts(c, e, ts, a + 1, b)
    BY <1>11, <1>12, Zenon
  <2>3. QED BY <1>2, <1>3, <1>9, <2>1, <2>2, Zenon DEF Holds
<1>14. QED BY <1>3, <1>8, <1>13 DEF s, z, e

\* What holds nothing is empty, and what is empty holds nothing.
LEMMA HoldsEmpty ==
  ASSUME NEW ts \in Seq(Wire!Segment), NEW d, NEW a, NEW b, Holds(d, ts, a, b)
  PROVE  (Len(d) < 24 => a = b) /\ (a = b => d = << >>)
<1>1. d \in Seq(Wire!Byte) /\ a \in Nat
  BY DEF Holds
<1>2. ASSUME a # b PROVE Len(d) >= 24
  <2>1. ts[a + 1] \in Wire!Segment /\ 24 + ts[a + 1].len <= Len(d)
    BY <1>2, HoldsFirst
  <2>2. ts[a + 1].len \in Nat
    BY <2>1, Fields
  <2>3. QED BY <1>1, <2>1, <2>2
<1>3. ASSUME a = b PROVE d = << >>
  <2>1. PICK cut \in [a..a -> Nat] : Cuts(cut, d, ts, a, a)
    BY <1>3 DEF Holds
  <2>2. Len(d) = 0
    BY <2>1 DEF Cuts
  <2>3. QED BY <1>1, <2>2
<1>4. QED BY <1>1, <1>2, <1>3

--------------------------------------------------------------------------------
(* A datagram of another conversation, cut short or of no command.         *)
Foreign(d) ==
  /\ d \in Seq(Wire!Byte) /\ Len(d) >= 24
  /\ Wire!Refused(Wire!Header(d), Len(d) - 24)

(* Where the segments ts are that n have been acted upon: the next in what *)
(* is being read, up to m[0], then those of the datagrams w, then those in *)
(* the buffer b.                                                           *)
Parcels(m, r, w, b, ts, n) ==
  /\ m \in [0..Len(w) -> Nat]
  /\ Holds(r, ts, n, m[0]) \/ (m[0] = n /\ Foreign(r))
  /\ \A i \in 1..Len(w) : Holds(w[i], ts, m[i - 1], m[i])
  /\ Holds(b, ts, m[Len(w)], Len(ts))

\* The buffer is sent.
LEMMA ParcelsSent ==
  ASSUME NEW ts \in Seq(Wire!Segment), NEW w \in Seq(Seq(Wire!Byte)), NEW b, NEW r, NEW n, NEW m,
         Parcels(m, r, w, b, ts, n)
  PROVE  \E l : Parcels(l, r, Append(w, b), << >>, ts, n)
<1> DEFINE k == Len(w)
           v == Append(w, b)
           l == [i \in 0..k + 1 |-> IF i <= k THEN m[i] ELSE Len(ts)]
<1>1. k \in Nat /\ Len(ts) \in Nat
  OBVIOUS
<1>2. /\ m \in [0..k -> Nat]
      /\ Holds(r, ts, n, m[0]) \/ (m[0] = n /\ Foreign(r))
      /\ \A i \in 1..k : Holds(w[i], ts, m[i - 1], m[i])
      /\ Holds(b, ts, m[k], Len(ts))
  BY DEF Parcels
<1>3. b \in Seq(Wire!Byte)
  BY <1>2 DEF Holds
<1>4. Len(v) = k + 1 /\ v[k + 1] = b /\ \A i \in 1..k : v[i] = w[i]
  BY <1>3
<1> HIDE DEF v, k
<1>5. l \in [0..k + 1 -> Nat] /\ l[k + 1] = Len(ts) /\ \A i \in 0..k : l[i] = m[i]
  <2>1. \A i \in 0..k : m[i] \in Nat
    BY <1>2
  <2>2. k + 1 \in 0..k + 1 /\ ~(k + 1 <= k)
    BY <1>1
  <2>3. \A i \in 0..k + 1 : i <= k => i \in 0..k
    BY <1>1
  <2>4. \A i \in 0..k : i \in 0..k + 1 /\ i <= k
    BY <1>1
  <2>5. QED BY <1>1, <2>1, <2>2, <2>3, <2>4
<1> HIDE DEF l
<1>6. l[0] = m[0]
  BY <1>1, <1>5
<1>7. ASSUME NEW i \in 1..k + 1 PROVE Holds(v[i], ts, l[i - 1], l[i])
  <2>1. CASE i \in 1..k
    <3>1. i - 1 \in 0..k /\ i \in 0..k
      BY <1>1, <2>1
    <3>2. v[i] = w[i] /\ l[i - 1] = m[i - 1] /\ l[i] = m[i]
      BY <1>4, <1>5, <2>1, <3>1
    <3>3. QED BY <1>2, <2>1, <3>2
  <2>2. CASE i = k + 1
    <3>1. i - 1 = k /\ k \in 0..k
      BY <1>1, <2>2
    <3>2. v[i] = b /\ l[i - 1] = m[k] /\ l[i] = Len(ts)
      BY <1>4, <1>5, <2>2, <3>1
    <3>3. QED BY <1>2, <3>2
  <2>3. i \in 1..k \/ i = k + 1
    BY <1>1
  <2>4. QED BY <2>1, <2>2, <2>3
<1>8. Holds(<< >>, ts, l[k + 1], Len(ts))
  <2>1. Len(ts) \in 0..Len(ts)
    BY <1>1
  <2>2. QED BY <1>5, <2>1, HoldsNothing
<1>9. Parcels(l, r, v, << >>, ts, n)
  BY <1>2, <1>4, <1>5, <1>6, <1>7, <1>8 DEF Parcels
<1>10. QED BY <1>9 DEF v

\* A segment is written into the buffer.
LEMMA ParcelsWritten ==
  ASSUME NEW ts \in Seq(Wire!Segment), NEW s \in Wire!Segment, NEW w, NEW b, NEW r, NEW n, NEW m,
         Parcels(m, r, w, b, ts, n)
  PROVE  Parcels(m, r, w, b \o Wire!Bytes(s), Append(ts, s), n)
<1> DEFINE us == Append(ts, s)
           c == b \o Wire!Bytes(s)
<1>1. /\ m \in [0..Len(w) -> Nat]
      /\ Holds(r, ts, n, m[0]) \/ (m[0] = n /\ Foreign(r))
      /\ \A i \in 1..Len(w) : Holds(w[i], ts, m[i - 1], m[i])
      /\ Holds(b, ts, m[Len(w)], Len(ts))
  BY DEF Parcels
<1>2. Holds(r, us, n, m[0]) \/ (m[0] = n /\ Foreign(r))
  BY <1>1, HoldsStill
<1>3. \A i \in 1..Len(w) : Holds(w[i], us, m[i - 1], m[i])
  BY <1>1, HoldsStill
<1>4. Holds(c, us, m[Len(w)], Len(ts) + 1)
  BY <1>1, HoldsMore
<1>5. Len(us) = Len(ts) + 1
  OBVIOUS
<1> HIDE DEF us, c
<1>6. Parcels(m, r, w, c, us, n)
  BY <1>1, <1>2, <1>3, <1>4, <1>5 DEF Parcels
<1>7. QED BY <1>6 DEF us, c

\* The next datagram is read.
LEMMA ParcelsTaken ==
  ASSUME NEW ts \in Seq(Wire!Segment), NEW w \in Seq(Seq(Wire!Byte)), NEW b, NEW n, NEW m,
         w # << >>, Parcels(m, << >>, w, b, ts, n)
  PROVE  /\ \E l : Parcels(l, Head(w), Tail(w), b, ts, n)
         /\ Len(Head(w)) < 24 => \E l : Parcels(l, << >>, Tail(w), b, ts, n)
<1> DEFINE k == Len(w) - 1
           v == Tail(w)
           d == Head(w)
           l == [i \in 0..k |-> m[i + 1]]
<1>1. /\ m \in [0..Len(w) -> Nat]
      /\ Holds(<< >>, ts, n, m[0]) \/ (m[0] = n /\ Foreign(<< >>))
      /\ \A i \in 1..Len(w) : Holds(w[i], ts, m[i - 1], m[i])
      /\ Holds(b, ts, m[Len(w)], Len(ts))
  BY DEF Parcels
<1>2. m[0] = n
  <2>1. Len(<< >>) = 0
    OBVIOUS
  <2>2. ~Foreign(<< >>)
    BY <2>1 DEF Foreign
  <2>3. QED BY <1>1, <2>1, <2>2, HoldsEmpty
<1>3. k \in Nat /\ Len(w) = k + 1 /\ Len(v) = k /\ d = w[1] /\ d \in Seq(Wire!Byte)
      /\ \A i \in 1..k : v[i] = w[i + 1]
  OBVIOUS
<1> HIDE DEF v, k, d
<1>4. \A i \in 0..k : i + 1 \in 0..Len(w)
  BY <1>3
<1>5. l \in [0..k -> Nat] /\ \A i \in 0..k : l[i] = m[i + 1]
  BY <1>1, <1>4
<1> HIDE DEF l
<1>6. Holds(d, ts, n, l[0])
  <2>1. 1 \in 1..Len(w) /\ 1 - 1 = 0 /\ 0 + 1 = 1 /\ 0 \in 0..k
    BY <1>3
  <2>2. Holds(w[1], ts, m[1 - 1], m[1]) /\ l[0] = m[0 + 1]
    BY <1>1, <1>5, <2>1
  <2>3. QED BY <1>2, <1>3, <2>1, <2>2
<1>7. ASSUME NEW i \in 1..k PROVE Holds(v[i], ts, l[i - 1], l[i])
  <2>1. i + 1 \in 1..Len(w) /\ i + 1 - 1 = i /\ i - 1 + 1 = i /\ i \in 0..k /\ i - 1 \in 0..k
    BY <1>3
  <2>2. Holds(w[i + 1], ts, m[i + 1 - 1], m[i + 1])
    BY <1>1, <2>1
  <2>3. l[i - 1] = m[i - 1 + 1] /\ l[i] = m[i + 1] /\ v[i] = w[i + 1]
    BY <1>3, <1>5, <2>1
  <2>4. QED BY <2>1, <2>2, <2>3
<1>8. Holds(b, ts, l[k], Len(ts))
  <2>1. k \in 0..k
    BY <1>3
  <2>2. l[k] = m[Len(w)]
    BY <1>3, <1>5, <2>1
  <2>3. QED BY <1>1, <2>2
<1>9. Parcels(l, d, v, b, ts, n)
  BY <1>3, <1>5, <1>6, <1>7, <1>8 DEF Parcels
<1>10. ASSUME Len(d) < 24 PROVE Parcels(l, << >>, v, b, ts, n)
  <2>1. d = << >>
    BY <1>6, <1>10, HoldsEmpty
  <2>2. QED BY <1>9, <2>1
<1>11. QED BY <1>9, <1>10 DEF v, d

\* Other bytes are read.
LEMMA ParcelsRead ==
  ASSUME NEW ts, NEW w, NEW b, NEW r, NEW n, NEW m, Parcels(m, r, w, b, ts, n),
         NEW q, NEW p, Holds(q, ts, p, m[0]) \/ (m[0] = p /\ Foreign(q))
  PROVE  Parcels(m, q, w, b, ts, p)
  BY DEF Parcels

\* Nothing is left to be read.
LEMMA ParcelsIdle ==
  ASSUME NEW ts \in Seq(Wire!Segment), NEW w, NEW b, NEW n, NEW m, Parcels(m, << >>, w, b, ts, n)
  PROVE  m[0] = n
<1>1. Holds(<< >>, ts, n, m[0]) \/ m[0] = n
  BY DEF Parcels
<1>2. Len(<< >>) = 0
  OBVIOUS
<1>3. QED BY <1>1, <1>2, HoldsEmpty

\* The segment that is read next is the next one that was written.
LEMMA NextRead ==
  ASSUME NEW ts \in Seq(Wire!Segment), NEW r, NEW n, NEW p, Holds(r, ts, n, p), r # << >>
  PROVE  LET s == ts[n + 1]
             h == Wire!Header(r)
             rem == SubSeq(r, 24 + h.len + 1, Len(r))
         IN /\ n + 1 \in 1..Len(ts) /\ ~Wire!Refused(h, Len(r) - 24)
            /\ Wire!Acted(h, SubSeq(r, 24 + 1, 24 + h.len)) = Wire!Seen(s)
            /\ Holds(rem, ts, n + 1, p)
            /\ Len(rem) < 24 => Holds(<< >>, ts, n + 1, p)
<1> DEFINE s == ts[n + 1]
           h == Wire!Header(r)
           rem == SubSeq(r, 24 + h.len + 1, Len(r))
           data == SubSeq(r, 24 + 1, 24 + h.len)
<1>1. n # p
  BY HoldsEmpty
<1>2. /\ n + 1 \in 1..Len(ts) /\ 24 + s.len <= Len(r) /\ At(r, 0, Wire!Bytes(s))
      /\ Holds(SubSeq(r, 24 + s.len + 1, Len(r)), ts, n + 1, p)
  BY <1>1, HoldsFirst
<1>3. s \in Wire!Segment
  BY <1>2
<1>4. r \in Seq(Wire!Byte)
  BY DEF Holds
<1> HIDE DEF s
<1>5. At(r, 0, Wire!encode_seg(s)) /\ At(r, 24, Wire!Payload(s.sn, s.len))
  <2>1. At(r, 0, Wire!encode_seg(s)) /\ At(r, 0 + 24, Wire!Payload(s.sn, s.len))
    BY <1>2, <1>3, BytesIs
  <2>2. 0 + 24 = 24
    OBVIOUS
  <2>3. QED BY <2>1, <2>2
<1>6. h = [conv |-> Conv, cmd |-> s.cmd, frg |-> s.frg, wnd |-> s.wnd, ts |-> s.ts,
           sn |-> s.sn, una |-> s.una, len |-> s.len]
  BY <1>3, <1>5, HeaderRead
<1> HIDE DEF h
<1>7. h.len = s.len /\ h.conv = Conv /\ h.cmd = s.cmd
  BY <1>6
<1>8. s.len \in Nat /\ s.sn \in Nat /\ s.cmd \in Cmds /\ Len(r) \in Nat
  BY <1>3, <1>4, Fields
<1>9. ~Wire!Refused(h, Len(r) - 24)
  <2>1. ~(Len(r) - 24 < s.len)
    BY <1>2, <1>8
  <2>2. QED BY <1>7, <1>8, <2>1 DEF Wire!Refused
<1>10. data = Wire!Payload(s.sn, s.len)
  <2> DEFINE f == Wire!Payload(s.sn, s.len)
             z == s.len
  <2>1. f \in Seq(Wire!Byte) /\ Len(f) = z /\ At(r, 24, f)
    BY <1>5, <1>8, PayloadLength DEF Piece
  <2>2. z \in Nat /\ 24 + z <= Len(r) /\ h.len = z
    BY <1>2, <1>7, <1>8
  <2> HIDE DEF f, z
  <2>3. data = SubSeq(r, 25, 24 + z)
    BY <2>2
  <2>4. /\ data \in Seq(Wire!Byte) /\ Len(data) = z
        /\ \A i \in 1..z : data[i] = r[24 + i]
    BY <1>4, <2>2, <2>3
  <2> HIDE DEF data
  <2>5. \A i \in 1..z : r[24 + i] = f[i]
    BY <2>1 DEF At
  <2>6. \A i \in 1..z : data[i] = f[i]
    BY <2>4, <2>5
  <2>7. data = f
    BY <2>1, <2>4, <2>6
  <2>8. QED BY <2>7 DEF f
<1> HIDE DEF data
<1>11. Wire!Acted(h, data) = Wire!Seen(s)
  BY <1>6, <1>10 DEF Wire!Acted, Wire!Seen
<1>12. Holds(rem, ts, n + 1, p)
  BY <1>2, <1>7
<1> HIDE DEF rem
<1>13. ASSUME Len(rem) < 24 PROVE Holds(<< >>, ts, n + 1, p)
  BY <1>12, <1>13, HoldsEmpty
<1>14. QED BY <1>2, <1>9, <1>11, <1>12, <1>13 DEF s, h, rem, data

--------------------------------------------------------------------------------
(* Datagrams that hold a segment or more, and whole ones.                  *)
Packed == {data \in Seq(Wire!Byte) : Len(data) \in 24..Mtu}

WireInv ==
  /\ todo \in Seq(Wire!Segment)
  /\ buffer \in Packed \cup {<< >>}
  /\ wire \in Seq(Packed)

LEMMA OutputPacked ==
  ASSUME WireInv
  PROVE  Wire!Output(buffer) \in Seq(Packed)
<1>1. wire \in Seq(Packed) /\ (buffer # << >> => buffer \in Packed)
  BY DEF WireInv
<1>2. QED BY <1>1 DEF Wire!Output

LEMMA WriteStep ==
  ASSUME WireInv, Wire!Write
  PROVE  WireInv'
<1> DEFINE s == Head(todo)
           bytes == Wire!Bytes(s)
<1>1. todo \in Seq(Wire!Segment) /\ todo # << >> /\ todo' = Tail(todo)
  BY DEF WireInv, Wire!Write
<1>2. s \in Wire!Segment /\ todo' \in Seq(Wire!Segment)
  BY <1>1
<1>3. s.sn \in Nat /\ s.len \in Nat /\ 24 + s.len <= Mtu
  BY <1>2, Fields
<1>4. Piece(bytes, 24 + s.len)
  BY <1>2, BytesIs
<1>5. CASE Wire!Full(24 + s.len)
  <2>1. wire' = Wire!Output(buffer) /\ buffer' = bytes
    BY <1>5 DEF Wire!Write, Wire!IKCP_OVERHEAD
  <2>2. bytes \in Packed
    <3> HIDE DEF bytes
    <3>1. QED BY <1>3, <1>4, WireNumbers DEF Packed, Piece
  <2> HIDE DEF bytes
  <2>3. QED BY <1>2, <2>1, <2>2, OutputPacked DEF WireInv
<1>6. CASE ~Wire!Full(24 + s.len)
  <2>1. wire' = wire /\ buffer' = buffer \o bytes
    BY <1>6 DEF Wire!Write, Wire!IKCP_OVERHEAD
  <2>2. buffer \in Seq(Wire!Byte) /\ ~(Len(buffer) + (24 + s.len) > Mtu)
    <3>1. buffer \in Packed \/ buffer = << >>
      BY DEF WireInv
    <3>2. << >> \in Seq(Wire!Byte)
      OBVIOUS
    <3>3. buffer \in Seq(Wire!Byte)
      BY <3>1, <3>2 DEF Packed
    <3>4. QED BY <1>6, <3>3 DEF Wire!Full
  <2> HIDE DEF bytes
  <2>3. Len(buffer) \in Nat /\ 24 + s.len \in Nat /\ Piece(buffer, Len(buffer))
    BY <1>3, <2>2 DEF Piece
  <2>4. Piece(buffer \o bytes, Len(buffer) + (24 + s.len))
    BY <1>4, <2>3, Joined
  <2>5. buffer \o bytes \in Packed
    <3>1. Len(buffer) + (24 + s.len) \in 24..Mtu
      BY <1>3, <2>2, <2>3, WireNumbers
    <3>2. QED BY <2>4, <3>1 DEF Packed, Piece
  <2>6. QED BY <1>2, <2>1, <2>5 DEF WireInv
<1>7. QED BY <1>5, <1>6

LEMMA WireStep ==
  ASSUME WireInv, Wire!Next \/ UNCHANGED wireVars
  PROVE  WireInv'
<1>1. CASE Wire!Write
  BY <1>1, WriteStep
<1>2. CASE Wire!FlushRemain
  <2>1. wire' = Wire!Output(buffer) /\ buffer' = << >> /\ todo' = todo
    BY <1>2 DEF Wire!FlushRemain
  <2>2. QED BY <2>1, OutputPacked DEF WireInv
<1>3. CASE Wire!Receive
  <2>1. wire' = Tail(wire) /\ wire # << >> /\ buffer' = buffer /\ todo' = todo
    BY <1>3 DEF Wire!Receive
  <2>2. QED BY <2>1 DEF WireInv
<1>4. CASE UNCHANGED <<todo, buffer, wire>>
  BY <1>4 DEF WireInv
<1>5. CASE \/ Wire!ParseSeg \/ UNCHANGED wireVars
           \/ \E data \in Strays : Wire!ReceiveStray(data)
  BY <1>4, <1>5 DEF Wire!ParseSeg, Wire!ReceiveStray, wireVars
<1>6. QED BY <1>1, <1>2, <1>3, <1>5 DEF Wire!Next

(* No datagram is empty, longer than the MTU or without a whole header,    *)
(* for every MTU that holds a header and whatever segments a flush has to  *)
(* write (ikcp.c:930-933, 1058-1061).                                      *)
THEOREM DatagramsAlwaysFit == PartsSafety => []DatagramsFit
<1>1. PartsInit => WireInv
  <2>1. ASSUME PartsInit PROVE WireInv
    <3>1. todo \in Flushes /\ buffer = << >> /\ wire = << >>
      BY <2>1 DEF PartsInit, Wire!Init
    <3>2. QED BY <3>1, WireNumbers DEF WireInv
  <2>2. QED BY <2>1
<1>2. WireInv /\ [PartsNext]_AllVars => WireInv'
  <2>1. ASSUME [PartsNext]_AllVars
        PROVE  Wire!Next \/ UNCHANGED wireVars
    BY <2>1 DEF PartsNext, AllVars
  <2>2. QED BY <2>1, WireStep
<1>3. WireInv => DatagramsFit
  <2>1. ASSUME WireInv
        PROVE  /\ Len(buffer) <= Mtu
               /\ \A i \in DOMAIN wire : Len(wire[i]) \in 24..Mtu
    <3>1. wire \in Seq(Packed) /\ buffer \in Packed \cup {<< >>}
      BY <2>1 DEF WireInv
    <3>2. \A i \in DOMAIN wire : wire[i] \in Packed
      BY <3>1
    <3>3. QED BY <3>1, <3>2, WireNumbers DEF Packed
  <2>2. QED BY <2>1 DEF DatagramsFit, Wire!DatagramsFit, Wire!IKCP_OVERHEAD
<1>4. QED BY <1>1, <1>2, <1>3, PTL DEF PartsSafety

(* What the peer has acted upon, and where the rest is.                    *)
Acts == {Wire!Seen(s) : s \in Wire!Segment}

StreamInv ==
  /\ WireInv
  /\ done \in Seq(Wire!Segment) /\ got \in Seq(Acts) /\ Len(got) <= Len(done)
  /\ \A i \in 1..Len(got) : got[i] = Wire!Seen(done[i])
  /\ \E m : Parcels(m, rest, wire, buffer, done, Len(got))

LEMMA Datagrams ==
  ASSUME WireInv
  PROVE  wire \in Seq(Seq(Wire!Byte))
  BY DEF WireInv, Packed

LEMMA StreamInitially ==
  ASSUME Wire!Init
  PROVE  StreamInv
<1>1. /\ todo \in Flushes /\ done = << >> /\ buffer = << >> /\ wire = << >>
      /\ rest = << >> /\ got = << >>
  BY DEF Wire!Init
<1>2. WireInv
  BY <1>1, WireNumbers DEF WireInv
<1>3. done \in Seq(Wire!Segment) /\ got \in Seq(Acts) /\ Len(done) = 0 /\ Len(got) = 0
      /\ Len(wire) = 0 /\ 0 \in 0..Len(done)
  BY <1>1
<1> DEFINE m == [i \in 0..Len(wire) |-> 0]
<1>4. m \in [0..Len(wire) -> Nat] /\ m[0] = 0 /\ m[Len(wire)] = 0
  BY <1>3
<1> HIDE DEF m
<1>5. Holds(<< >>, done, 0, 0)
  BY <1>3, HoldsNothing
<1>6. \A i \in 1..Len(wire) : FALSE
  BY <1>3
<1>7. Parcels(m, rest, wire, buffer, done, Len(got))
  BY <1>1, <1>3, <1>4, <1>5, <1>6 DEF Parcels
<1>8. \A i \in 1..Len(got) : FALSE
  BY <1>3
<1>9. QED BY <1>2, <1>3, <1>7, <1>8 DEF StreamInv

LEMMA StreamWrites ==
  ASSUME StreamInv, Wire!Write
  PROVE  StreamInv'
<1> DEFINE s == Head(todo)
           bytes == Wire!Bytes(s)
<1>1. WireInv /\ WireInv'
  BY WriteStep DEF StreamInv
<1>2. s \in Wire!Segment
  BY <1>1 DEF WireInv, Wire!Write
<1>3. done' = Append(done, s) /\ rest' = rest /\ got' = got
  BY DEF Wire!Write
<1>4. /\ done \in Seq(Wire!Segment) /\ got \in Seq(Acts) /\ Len(got) <= Len(done)
      /\ \A i \in 1..Len(got) : got[i] = Wire!Seen(done[i])
  BY DEF StreamInv
<1>5. PICK m : Parcels(m, rest, wire, buffer, done, Len(got))
  BY DEF StreamInv
<1>6. << >> \o bytes = bytes
  <2>1. bytes \in Seq(Wire!Byte)
    BY <1>2, BytesIs DEF Piece
  <2> HIDE DEF bytes
  <2>2. QED BY <2>1
<1>7. \E l : Parcels(l, rest, wire', buffer', Append(done, s), Len(got))
  <2>1. CASE Wire!Full(24 + s.len) /\ buffer # << >>
    <3>1. wire' = Append(wire, buffer) /\ buffer' = bytes
      BY <2>1 DEF Wire!Write, Wire!IKCP_OVERHEAD, Wire!Output
    <3> HIDE DEF s, bytes
    <3>2. PICK l : Parcels(l, rest, Append(wire, buffer), << >>, done, Len(got))
      BY <1>1, <1>4, <1>5, Datagrams, ParcelsSent
    <3>3. Parcels(l, rest, Append(wire, buffer), << >> \o Wire!Bytes(s), Append(done, s), Len(got))
      BY <1>2, <1>4, <3>2, ParcelsWritten
    <3>4. QED BY <1>6, <3>1, <3>3 DEF bytes
  <2>2. CASE Wire!Full(24 + s.len) /\ buffer = << >>
    <3>1. wire' = wire /\ buffer' = bytes
      BY <2>2 DEF Wire!Write, Wire!IKCP_OVERHEAD, Wire!Output
    <3> HIDE DEF s, bytes
    <3>2. Parcels(m, rest, wire, buffer \o Wire!Bytes(s), Append(done, s), Len(got))
      BY <1>2, <1>4, <1>5, ParcelsWritten
    <3>3. QED BY <1>6, <2>2, <3>1, <3>2 DEF bytes
  <2>3. CASE ~Wire!Full(24 + s.len)
    <3>1. wire' = wire /\ buffer' = buffer \o bytes
      BY <2>3 DEF Wire!Write, Wire!IKCP_OVERHEAD
    <3> HIDE DEF s, bytes
    <3>2. Parcels(m, rest, wire, buffer \o Wire!Bytes(s), Append(done, s), Len(got))
      BY <1>2, <1>4, <1>5, ParcelsWritten
    <3>3. QED BY <3>1, <3>2 DEF bytes
  <2>4. QED BY <2>1, <2>2, <2>3
<1> HIDE DEF s, bytes
<1>8. /\ Append(done, s) \in Seq(Wire!Segment) /\ Len(got) <= Len(Append(done, s))
      /\ \A i \in 1..Len(got) : got[i] = Wire!Seen(Append(done, s)[i])
  <2>1. /\ Append(done, s) \in Seq(Wire!Segment) /\ Len(Append(done, s)) = Len(done) + 1
        /\ \A i \in 1..Len(done) : Append(done, s)[i] = done[i]
    BY <1>2, <1>4
  <2>2. Len(got) \in Nat /\ Len(done) \in Nat
    BY <1>4
  <2>3. \A i \in 1..Len(got) : i \in 1..Len(done)
    BY <1>4, <2>2
  <2>4. Len(got) <= Len(Append(done, s))
    BY <1>4, <2>1, <2>2
  <2>5. QED BY <1>4, <2>1, <2>3, <2>4
<1>9. QED BY <1>1, <1>3, <1>4, <1>7, <1>8 DEF StreamInv

LEMMA StreamFlushes ==
  ASSUME StreamInv, WireInv', Wire!FlushRemain
  PROVE  StreamInv'
<1>1. PICK m : Parcels(m, rest, wire, buffer, done, Len(got))
  BY DEF StreamInv
<1>2. /\ wire' = Append(wire, buffer) /\ buffer' = << >>
      /\ rest' = rest /\ got' = got /\ done' = done
  BY DEF Wire!FlushRemain, Wire!Output
<1>3. done \in Seq(Wire!Segment) /\ wire \in Seq(Seq(Wire!Byte))
  BY Datagrams DEF StreamInv
<1>4. \E l : Parcels(l, rest, Append(wire, buffer), << >>, done, Len(got))
  BY <1>1, <1>3, ParcelsSent
<1>5. QED BY <1>2, <1>4 DEF StreamInv

\* The rest of a datagram, or nothing when there is no header left in it.
LEMMA ReadOn ==
  ASSUME NEW d, Wire!Read(d)
  PROVE  (Len(d) < 24 /\ rest' = << >>) \/ (~(Len(d) < 24) /\ rest' = d)
  BY DEF Wire!Read, Wire!IKCP_OVERHEAD

LEMMA StreamReceives ==
  ASSUME StreamInv, WireInv', Wire!Receive
  PROVE  StreamInv'
<1>1. PICK m : Parcels(m, rest, wire, buffer, done, Len(got))
  BY DEF StreamInv
<1>2. /\ rest = << >> /\ wire # << >> /\ Wire!Read(Head(wire)) /\ wire' = Tail(wire)
      /\ buffer' = buffer /\ got' = got /\ done' = done
  BY DEF Wire!Receive
<1>3. done \in Seq(Wire!Segment) /\ wire \in Seq(Seq(Wire!Byte))
  BY Datagrams DEF StreamInv
<1>4. Parcels(m, << >>, wire, buffer, done, Len(got))
  BY <1>1, <1>2
<1>5. /\ \E l : Parcels(l, Head(wire), Tail(wire), buffer, done, Len(got))
      /\ Len(Head(wire)) < 24 => \E l : Parcels(l, << >>, Tail(wire), buffer, done, Len(got))
  BY <1>2, <1>3, <1>4, ParcelsTaken
<1>6. \/ Len(Head(wire)) < 24 /\ rest' = << >>
      \/ rest' = Head(wire)
  BY <1>2, ReadOn
<1>7. \E l : Parcels(l, rest', wire', buffer, done, Len(got))
  BY <1>2, <1>5, <1>6
<1>8. QED BY <1>2, <1>7 DEF StreamInv

LEMMA StreamStrays ==
  ASSUME StreamInv, WireInv', NEW data \in Strays, Wire!ReceiveStray(data)
  PROVE  StreamInv'
<1>1. PICK m : Parcels(m, rest, wire, buffer, done, Len(got))
  BY DEF StreamInv
<1>2. /\ rest = << >> /\ Wire!Read(data) /\ wire' = wire
      /\ buffer' = buffer /\ got' = got /\ done' = done
  BY DEF Wire!ReceiveStray
<1>3. done \in Seq(Wire!Segment) /\ Len(got) \in 0..Len(done)
  <2>1. done \in Seq(Wire!Segment) /\ got \in Seq(Acts) /\ Len(got) <= Len(done)
    BY DEF StreamInv
  <2>2. QED BY <2>1
<1>4. m[0] = Len(got)
  BY <1>1, <1>2, <1>3, ParcelsIdle
<1>5. data \in Seq(Wire!Byte) /\ (~(Len(data) < 24) => Foreign(data))
  <2>1. data \in Seq(Wire!Byte)
        /\ (Len(data) < 24 \/ Wire!Refused(Wire!Header(data), Len(data) - 24))
    BY WireNumbers
  <2>2. Len(data) \in Nat
    BY <2>1
  <2>3. ~(Len(data) < 24) => Len(data) >= 24
    BY <2>2
  <2>4. QED BY <2>1, <2>3 DEF Foreign
<1>6. Holds(rest', done, Len(got), m[0]) \/ (m[0] = Len(got) /\ Foreign(rest'))
  <2>1. CASE Len(data) < 24 /\ rest' = << >>
    BY <1>3, <1>4, <2>1, HoldsNothing
  <2>2. CASE ~(Len(data) < 24) /\ rest' = data
    BY <1>4, <1>5, <2>2
  <2>3. QED BY <1>2, <2>1, <2>2, ReadOn
<1>7. Parcels(m, rest', wire, buffer, done, Len(got))
  BY <1>1, <1>6, ParcelsRead
<1>8. QED BY <1>2, <1>7 DEF StreamInv

LEMMA StreamParses ==
  ASSUME StreamInv, WireInv', Wire!ParseSeg
  PROVE  StreamInv'
<1> DEFINE n == Len(got)
           h == Wire!Header(rest)
           data == SubSeq(rest, 24 + 1, 24 + h.len)
           rem == SubSeq(rest, 24 + h.len + 1, Len(rest))
<1>1. PICK m : Parcels(m, rest, wire, buffer, done, n)
  BY DEF StreamInv
<1>2. /\ rest # << >>
      /\ \/ Wire!Refused(h, Len(rest) - 24) /\ rest' = << >> /\ got' = got
         \/ /\ ~Wire!Refused(h, Len(rest) - 24)
            /\ got' = Append(got, Wire!Acted(h, data)) /\ Wire!Read(rem)
      /\ wire' = wire /\ buffer' = buffer /\ done' = done
  BY DEF Wire!ParseSeg, Wire!IKCP_OVERHEAD
<1>3. /\ done \in Seq(Wire!Segment) /\ got \in Seq(Acts) /\ n <= Len(done) /\ n \in 0..Len(done)
      /\ \A i \in 1..n : got[i] = Wire!Seen(done[i])
  <2>1. /\ done \in Seq(Wire!Segment) /\ got \in Seq(Acts) /\ n <= Len(done)
        /\ \A i \in 1..n : got[i] = Wire!Seen(done[i])
    BY DEF StreamInv
  <2>2. n \in Nat /\ Len(done) \in Nat
    BY <2>1
  <2>3. QED BY <2>1, <2>2
<1>4. Holds(rest, done, n, m[0]) \/ (m[0] = n /\ Foreign(rest))
  BY <1>1 DEF Parcels
<1>5. CASE m[0] = n /\ Foreign(rest)
  <2>1. rest' = << >> /\ got' = got
    BY <1>2, <1>5 DEF Foreign
  <2>2. Holds(<< >>, done, n, m[0])
    BY <1>3, <1>5, HoldsNothing
  <2>3. Parcels(m, << >>, wire, buffer, done, n)
    BY <1>1, <2>2, ParcelsRead
  <2>4. QED BY <1>2, <2>1, <2>3 DEF StreamInv
<1>6. CASE Holds(rest, done, n, m[0])
  <2> DEFINE s == done[n + 1]
             a == Wire!Seen(s)
             more == Append(got, a)
  <2>1. /\ n + 1 \in 1..Len(done) /\ ~Wire!Refused(h, Len(rest) - 24)
        /\ Wire!Acted(h, data) = a
        /\ Holds(rem, done, n + 1, m[0])
        /\ Len(rem) < 24 => Holds(<< >>, done, n + 1, m[0])
    BY <1>2, <1>3, <1>6, NextRead
  <2> HIDE DEF h, data, rem
  <2>2. got' = more /\ Wire!Read(rem)
    BY <1>2, <2>1
  <2>3. s \in Wire!Segment /\ a \in Acts
    BY <1>3, <2>1 DEF Acts
  <2> HIDE DEF a
  <2>4. /\ more \in Seq(Acts) /\ Len(more) = n + 1 /\ more[n + 1] = a
        /\ \A i \in 1..n : more[i] = got[i]
    BY <1>3, <2>3
  <2> HIDE DEF more
  <2>5. \A i \in 1..n + 1 : more[i] = Wire!Seen(done[i])
    <3>1. ASSUME NEW i \in 1..n + 1 PROVE more[i] = Wire!Seen(done[i])
      <4>1. CASE i \in 1..n
        BY <1>3, <2>4, <4>1
      <4>2. CASE i = n + 1
        BY <2>4, <4>2 DEF a
      <4>3. i \in 1..n \/ i = n + 1
        BY <1>3
      <4>4. QED BY <4>1, <4>2, <4>3
    <3>2. QED BY <3>1
  <2>6. Holds(rest', done, n + 1, m[0])
    BY <2>1, <2>2, ReadOn
  <2>7. Parcels(m, rest', wire, buffer, done, n + 1)
    BY <1>1, <2>6, ParcelsRead
  <2>8. Len(more) <= Len(done)
    BY <1>3, <2>1, <2>4
  <2> HIDE DEF n
  <2>9. QED BY <1>2, <1>3, <2>2, <2>4, <2>5, <2>7, <2>8 DEF StreamInv
<1>7. QED BY <1>4, <1>5, <1>6

LEMMA StreamStep ==
  ASSUME StreamInv, Wire!Next \/ UNCHANGED wireVars
  PROVE  StreamInv'
<1>1. WireInv /\ WireInv'
  BY WireStep DEF StreamInv
<1>2. CASE UNCHANGED wireVars
  BY <1>1, <1>2 DEF StreamInv, wireVars
<1>3. CASE Wire!Next
  BY <1>1, <1>3, StreamWrites, StreamFlushes, StreamReceives, StreamStrays, StreamParses
     DEF Wire!Next
<1>4. QED BY <1>2, <1>3

\* When everything has been written, sent and read, all of it was acted upon.
LEMMA StreamEnds ==
  ASSUME StreamInv, buffer = << >>, wire = << >>, rest = << >>
  PROVE  Len(got) = Len(done)
<1>1. PICK m : Parcels(m, rest, wire, buffer, done, Len(got))
  BY DEF StreamInv
<1>2. done \in Seq(Wire!Segment) /\ Len(wire) = 0
  BY DEF StreamInv
<1>3. m[0] = Len(got)
  BY <1>1, <1>2, ParcelsIdle
<1>4. Holds(<< >>, done, m[0], Len(done))
  BY <1>1, <1>2 DEF Parcels
<1>5. Len(<< >>) = 0
  OBVIOUS
<1>6. m[0] = Len(done)
  BY <1>2, <1>4, <1>5, HoldsEmpty
<1>7. QED BY <1>3, <1>6

(* For every MTU that holds a header, every flush and every way its        *)
(* segments are packed into datagrams, the peer acts upon the segments     *)
(* that were written, all of them, in order and with every field and byte, *)
(* and upon none of a datagram that is not of this conversation, is cut    *)
(* short or names no command (ikcp.c:735-842, 926-981, 1049-1080).         *)
THEOREM SegmentsAlwaysSurvive == PartsSafety => []SegmentsSurvive
<1>1. PartsInit => StreamInv
  BY StreamInitially DEF PartsInit
<1>2. StreamInv /\ [PartsNext]_AllVars => StreamInv'
  <2>1. ASSUME [PartsNext]_AllVars
        PROVE  Wire!Next \/ UNCHANGED wireVars
    BY <2>1 DEF PartsNext, AllVars
  <2>2. QED BY <2>1, StreamStep
<1>3. StreamInv => SegmentsSurvive
  <2> SUFFICES ASSUME StreamInv PROVE SegmentsSurvive
    OBVIOUS
  <2> DEFINE sent == [i \in 1..Len(done) |-> Wire!Seen(done[i])]
  <2>1. /\ done \in Seq(Wire!Segment) /\ got \in Seq(Acts) /\ Len(got) <= Len(done)
        /\ \A i \in 1..Len(got) : got[i] = Wire!Seen(done[i])
    BY DEF StreamInv
  <2>2. Len(got) \in Nat /\ Len(done) \in Nat
    BY <2>1
  <2>3. sent \in Seq(Acts) /\ Len(sent) = Len(done)
        /\ \A i \in 1..Len(done) : sent[i] = Wire!Seen(done[i])
    <3>1. \A i \in 1..Len(done) : Wire!Seen(done[i]) \in Acts
      BY <2>1 DEF Acts
    <3> DEFINE f(i) == Wire!Seen(done[i])
    <3>2. \A i \in 1..Len(done) : f(i) \in Acts
      BY <3>1
    <3>3. sent = [i \in 1..Len(done) |-> f(i)]
      OBVIOUS
    <3> HIDE DEF f, sent
    <3>4. sent \in Seq(Acts) /\ Len(sent) = Len(done) /\ \A i \in 1..Len(done) : sent[i] = f(i)
      BY <2>2, <3>2, <3>3
    <3>5. QED BY <3>4 DEF f
  <2> HIDE DEF sent
  <2>4. \A i \in 1..Len(got) : got[i] = sent[i]
    <3>1. \A i \in 1..Len(got) : i \in 1..Len(done)
      BY <2>1, <2>2
    <3>2. QED BY <2>1, <2>3, <3>1
  <2>5. Wire!IsPrefix(got, sent)
    <3> DEFINE part1 == SubSeq(sent, 1, Len(got))
    <3>1. part1 \in Seq(Acts) /\ Len(part1) = Len(got) /\ \A i \in 1..Len(got) : part1[i] = sent[i]
      BY <2>1, <2>2, <2>3
    <3>2. SubSeq(got, 1, Len(got)) = got
      BY <2>1
    <3> HIDE DEF part1
    <3>3. part1 = got
      BY <2>1, <2>4, <3>1
    <3>4. QED BY <2>1, <2>3, <3>2, <3>3 DEF Wire!IsPrefix, part1
  <2>6. ASSUME buffer = << >>, wire = << >>, rest = << >> PROVE got = sent
    <3>1. Len(got) = Len(sent)
      BY <2>3, <2>6, StreamEnds
    <3>2. QED BY <2>1, <2>3, <2>4, <3>1
  <2>7. QED BY <2>5, <2>6 DEF SegmentsSurvive, Wire!SegmentsSurvive, sent
<1>4. QED BY <1>1, <1>2, <1>3, PTL DEF PartsSafety

================================================================================
