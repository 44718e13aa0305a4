-------------------------------- MODULE KcpClock --------------------------------
(***************************************************************************)
(* The clock of a KCP control block (ikcp_update, ikcp_check and the       *)
(* timers of ikcp_flush in depends/kcp/ikcp.c).  The program calls         *)
(* ikcp_update from a 1 ms timer with the wall clock, cut to 32 bits       *)
(* (now_ms): it wraps, comes late when the process was busy, and steps     *)
(* when the clock of the machine is set.                                   *)
(*                                                                         *)
(* Three things wait for the clock: the next flush, the probe of a window  *)
(* that was advertised as zero, and the retransmission of a segment.       *)
(*                                                                         *)
(* Abstracted: one segment stands for snd_buf, and its acknowledgement and *)
(* the peer's advertisements come at any time.  Time stamps are numbers    *)
(* modulo TimeMod, which stands for 2^32; the constants of the code keep   *)
(* their order.                                                            *)
(***************************************************************************)
EXTENDS Integers

CONSTANTS
  TimeMod,      \* time stamps are modulo this: 2^32 in the code
  Interval,     \* kcp->interval
  ResetLimit,   \* a larger difference resets ts_flush: 10000
  ProbeInit,    \* IKCP_PROBE_INIT
  ProbeLimit,   \* IKCP_PROBE_LIMIT
  RxRto,        \* kcp->rx_rto
  MaxRto,       \* bound of the model: rto of a segment
  MaxLate,      \* how late a call of ikcp_update may come
  MaxSteps      \* bound of the model: steps of the clock

ASSUME ClockAssumption ==
  /\ {TimeMod, Interval, ResetLimit, ProbeInit, ProbeLimit, RxRto, MaxRto, MaxLate} \subseteq Nat \ {0}
  /\ MaxSteps \in Nat
  /\ Interval <= ResetLimit /\ ProbeInit <= ProbeLimit /\ RxRto <= MaxRto
  /\ 2 * (ResetLimit + Interval) < TimeMod /\ 2 * ProbeLimit < TimeMod
  /\ 2 * MaxRto < TimeMod /\ 2 * (MaxLate + Interval) <= TimeMod

VARIABLES
  current,      \* kcp->current
  updated,      \* ikcp_update was called before
  ts_flush,
  rmt_zero,     \* the peer's window was advertised as zero
  probe_wait, ts_probe,
  seg,          \* the segment: "none", "queued", "sent"
  rto, resendts,\* of the segment
  steps,        \* how often the clock was set
  flushed       \* history: the last call of ikcp_update flushed

probe == <<rmt_zero, probe_wait, ts_probe>>
segment == <<seg, rto, resendts>>
vars == <<current, updated, ts_flush, probe, segment, steps, flushed>>

Time == 0..TimeMod - 1

(* _itimediff: the difference as a signed number.                          *)
itimediff(later, earlier) ==
  LET d == (later - earlier) % TimeMod
  IN IF 2 * d < TimeMod THEN d ELSE d - TimeMod

After(t, n) == (t + n) % TimeMod

MinOf(a, b) == IF a <= b THEN a ELSE b

TypeOK ==
  /\ {current, ts_flush, ts_probe, resendts} \subseteq Time
  /\ updated \in BOOLEAN /\ rmt_zero \in BOOLEAN /\ flushed \in BOOLEAN
  /\ probe_wait \in {0} \cup ProbeInit..ProbeLimit
  /\ seg \in {"none", "queued", "sent"} /\ rto \in 0..MaxRto
  /\ steps \in 0..MaxSteps

(* ikcp_create; the first time is any.                                     *)
Init ==
  /\ current \in Time
  /\ updated = FALSE /\ ts_flush = Interval
  /\ rmt_zero = FALSE /\ probe_wait = 0 /\ ts_probe = 0
  /\ seg = "none" /\ rto = 0 /\ resendts = 0
  /\ steps = 0 /\ flushed = FALSE

--------------------------------------------------------------------------------
(* Mutant of Expired: the time stamps are compared as numbers.             *)
ExpiredPlain(t, now) == now >= t

(* The test of a timer.                                                    *)
Expired(t, now) == itimediff(now, t) >= 0

(* ikcp_flush: the probe of a zero window, backing off.                    *)
ProbeTimer(now) ==
  LET longer == MinOf(probe_wait + probe_wait \div 2, ProbeLimit)
  IN IF ~rmt_zero THEN probe_wait' = 0 /\ ts_probe' = 0
     ELSE IF probe_wait = 0
     THEN probe_wait' = ProbeInit /\ ts_probe' = After(now, ProbeInit)
     ELSE IF Expired(ts_probe, now)
     THEN probe_wait' = longer /\ ts_probe' = After(now, longer)
     ELSE UNCHANGED <<probe_wait, ts_probe>>

(* ikcp_flush: first transmission and retransmission, backing off.         *)
SegmentTimer(now) ==
  LET longer == MinOf(rto + RxRto \div 2, MaxRto)
  IN IF seg = "queued"
     THEN seg' = "sent" /\ rto' = RxRto /\ resendts' = After(now, RxRto)
     ELSE IF seg = "sent" /\ Expired(resendts, now)
     THEN rto' = longer /\ resendts' = After(now, longer) /\ UNCHANGED seg
     ELSE UNCHANGED segment

(* Mutant of Resets: a clock that was set back is waited for.              *)
ResetsForward(slap) == slap >= ResetLimit

Resets(slap) == slap >= ResetLimit \/ slap < -ResetLimit

(* Mutant of NotYet: every call that does not flush puts the flush off.    *)
NotYetPutOff(due, now) == After(now, Interval)

(* When to flush after a call at now that found it not due.                *)
NotYet(due, now) == due

(* When to flush after a flush at now that was due at due.                 *)
NextFlush(due, now) ==
  LET next == After(due, Interval)
  IN IF itimediff(now, next) >= 0 THEN After(now, Interval) ELSE next

(* ikcp_update.                                                            *)
Update(now) ==
  LET start == IF updated THEN ts_flush ELSE now
      reset == Resets(itimediff(now, start))
      due == IF reset THEN now ELSE start
  IN /\ current' = now
     /\ updated' = TRUE
     /\ IF itimediff(now, due) >= 0
          THEN /\ ts_flush' = NextFlush(due, now)
               /\ flushed' = TRUE
               /\ ProbeTimer(now) /\ SegmentTimer(now)
          ELSE /\ ts_flush' = NotYet(due, now) /\ flushed' = FALSE
               /\ UNCHANGED <<probe_wait, ts_probe, segment>>
     /\ UNCHANGED rmt_zero

(* The 1 ms timer calls, late at times.                                    *)
Tick(n) == Update(After(current, n)) /\ UNCHANGED steps

(* The clock of the machine was set before the call.                       *)
Step(now) ==
  /\ steps < MaxSteps /\ steps' = steps + 1
  /\ Update(now)

(* A datagram advertises a window; one acknowledges the segment.           *)
Advertise ==
  /\ rmt_zero' = ~rmt_zero
  /\ UNCHANGED <<current, updated, ts_flush, probe_wait, ts_probe, segment, steps, flushed>>

Submit ==
  /\ seg = "none" /\ seg' = "queued"
  /\ UNCHANGED <<current, updated, ts_flush, probe, rto, resendts, steps, flushed>>

Acknowledged ==
  /\ seg = "sent" /\ seg' = "none" /\ rto' = 0 /\ resendts' = 0
  /\ UNCHANGED <<current, updated, ts_flush, probe, steps, flushed>>

Next ==
  \/ \E n \in 1..MaxLate : Tick(n)
  \/ \E now \in Time : Step(now)
  \/ Advertise \/ Submit \/ Acknowledged

Spec == Init /\ [][Next]_vars

(* The timer of the reactor keeps firing (udp.cpp:80).                     *)
FairSpec == Spec /\ WF_vars(\E n \in 1..MaxLate : Tick(n))

--------------------------------------------------------------------------------
(* ikcp_check: when to call ikcp_update next.                              *)
ikcp_check(now) ==
  LET reset == Resets(itimediff(now, ts_flush))
      to_flush == itimediff(ts_flush, now)
      to_packet == itimediff(resendts, now)
  IN IF ~updated \/ reset \/ to_flush <= 0 THEN now
     ELSE IF seg = "sent" /\ to_packet <= 0 THEN now
     ELSE After(now, MinOf(Interval, IF seg = "sent" THEN MinOf(to_packet, to_flush)
                                                     ELSE to_flush))

(* Would ikcp_update flush at now?                                         *)
WouldFlush(now) ==
  LET slap == itimediff(now, ts_flush)
  IN ~updated \/ Resets(slap) \/ slap >= 0

(* Whatever the clock did, the next flush lies ahead, by an interval, or   *)
(* by the limit after the clock was set back by less: the time stamp never *)
(* ends up half a cycle away (ikcp.c:1121-1134).                           *)
FlushAhead ==
  updated => itimediff(ts_flush, current) \in 1..(IF steps = 0 THEN Interval ELSE ResetLimit)

(* ikcp_check is never late: between now and the time it returns no call   *)
(* of ikcp_update would have flushed; "you can call ikcp_update in that    *)
(* time, instead of call update repeatly" (ikcp.h:361-364).                *)
CheckNotLate ==
  LET wait == itimediff(ikcp_check(current), current)
  IN wait >= 0 /\ \A n \in 0..wait - 1 : ~WouldFlush(After(current, n))

(* Whatever the clock did, it goes on flushing.                            *)
KeepsFlushing == []<>flushed

(* A closed window is probed again within the limit: "up to 120 secs to    *)
(* probe window" (ikcp.c:43).                                              *)
ProbeWithinLimit ==
  rmt_zero /\ probe_wait > 0 => itimediff(ts_probe, current) <= ProbeLimit

(* With a clock that is not set, no timer waits longer than its interval:  *)
(* a segment is due again within its rto and a probe within its wait, and  *)
(* no segment is overdue by a flush interval, also when the time stamps    *)
(* wrap in between and calls come late (ikcp.c:946, 1028).                 *)
TimersOnTime ==
  steps = 0 =>
    /\ rmt_zero /\ probe_wait > 0 => itimediff(ts_probe, current) <= probe_wait
    /\ seg = "sent" => itimediff(resendts, current) <= rto
                         /\ itimediff(current, resendts) < Interval

================================================================================
