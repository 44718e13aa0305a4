----------------------------- MODULE KcpCongestion -----------------------------
(***************************************************************************)
(* The congestion window of a KCP control block (ikcp_input and ikcp_flush *)
(* in depends/kcp/ikcp.c): slow start, congestion avoidance counted in     *)
(* bytes (incr), and what a fast retransmission and a time-out do to it.   *)
(* kcpss switches its use off (nocwnd); it is kept up to date all the same *)
(* and used by a control block as ikcp_create leaves it (NoCwnd = FALSE).  *)
(*                                                                         *)
(* Abstracted: the segments.  Only how many are unacknowledged matters     *)
(* (snd_nxt - snd_una).                                                    *)
(***************************************************************************)
EXTENDS Integers

CONSTANTS
  Mss,          \* kcp->mss
  SndWnd,       \* kcp->snd_wnd
  RmtWnds,      \* windows the peer advertises
  Resent,       \* kcp->fastresend
  NoCwnd,       \* kcp->nocwnd
  ThreshMin     \* IKCP_THRESH_MIN, IKCP_THRESH_INIT

WindowAssumption ==
  /\ {Mss, SndWnd, Resent, ThreshMin} \subseteq Nat \ {0}
  /\ RmtWnds \subseteq Nat /\ Mss >= 16 /\ NoCwnd \in BOOLEAN

VARIABLES
  cwnd, incr, ssthresh,
  rmt_wnd,
  inflight,     \* snd_nxt - snd_una
  quiet         \* from now on nothing is lost and the peer's window stays

vars == <<cwnd, incr, ssthresh, rmt_wnd, inflight, quiet>>

imin(a, b) == IF a <= b THEN a ELSE b
imax(a, b) == IF a >= b THEN a ELSE b

(* ikcp_create; the peer's first advertisement is one of RmtWnds.          *)
Init ==
  /\ cwnd = 0 /\ incr = 0 /\ ssthresh = ThreshMin
  /\ rmt_wnd \in RmtWnds
  /\ inflight = 0 /\ quiet = FALSE

--------------------------------------------------------------------------------
(* Congestion avoidance: incr grows by about mss / cwnd and mss / 16, and  *)
(* cwnd follows when a segment is full.                                    *)
Avoidance ==
  LET from == imax(incr, Mss)
      to == from + (Mss * Mss) \div from + Mss \div 16
  IN [incr |-> to,
      cwnd |-> IF (cwnd + 1) * Mss <= to THEN (to + Mss - 1) \div Mss ELSE cwnd]

(* Mutant of Clamped: the window is not held to the peer's.                *)
ClampedNot(w) == w

(* Never beyond the peer's window.                                         *)
Clamped(w) == IF w.cwnd > rmt_wnd THEN [cwnd |-> rmt_wnd, incr |-> rmt_wnd * Mss] ELSE w


(* The growth in ikcp_input, once for a datagram that moved snd_una.       *)
Grown ==
  IF cwnd >= rmt_wnd THEN [cwnd |-> cwnd, incr |-> incr]
  ELSE IF cwnd < ssthresh THEN Clamped([cwnd |-> cwnd + 1, incr |-> incr + Mss])
  ELSE Clamped(Avoidance)

(* A datagram acknowledges n segments; one advertises a window.            *)
Acknowledged(n) ==
  /\ n \in 1..inflight
  /\ inflight' = inflight - n
  /\ cwnd' = Grown.cwnd /\ incr' = Grown.incr
  /\ UNCHANGED <<ssthresh, rmt_wnd, quiet>>

Window(wnd) ==
  /\ ~quiet /\ rmt_wnd' = wnd
  /\ UNCHANGED <<cwnd, incr, ssthresh, inflight, quiet>>

(* ikcp_flush: what may be in flight.                                      *)
Usable ==
  LET wnd == imin(SndWnd, rmt_wnd)
  IN IF NoCwnd THEN wnd ELSE imin(cwnd, wnd)

(* Half of the window, but not less than the least threshold.              *)
Half(n) == imax(n \div 2, ThreshMin)

(* Mutant of Restart: the count of bytes is left.                          *)
RestartCwnd == [cwnd |-> 1, incr |-> incr]

(* After a time-out: one segment.                                          *)
Restart == [cwnd |-> 1, incr |-> Mss]

(* The last lines of ikcp_flush: at least one segment.                     *)
Least(w) == IF w.cwnd < 1 THEN [cwnd |-> 1, incr |-> Mss] ELSE w

(* ikcp_flush: n new segments, as far as the window lets them, then the    *)
(* retransmissions: fast ones (change) set the window to half of what is   *)
(* in flight, a time-out (lost) closes it to one segment.                  *)
Flush(n, change, lost) ==
  LET sent == inflight + imin(n, imax(Usable - inflight, 0))
      fast == [cwnd |-> Half(sent) + Resent, incr |-> (Half(sent) + Resent) * Mss]
      window == IF lost THEN Restart ELSE IF change THEN fast
                ELSE [cwnd |-> cwnd, incr |-> incr]
  IN /\ inflight' = sent
     /\ (change \/ lost) => sent > 0 /\ ~quiet
     /\ ssthresh' = IF lost THEN Half(Usable) ELSE IF change THEN Half(sent) ELSE ssthresh
     /\ cwnd' = Least(window).cwnd /\ incr' = Least(window).incr
     /\ UNCHANGED <<rmt_wnd, quiet>>

Settle ==
  /\ ~quiet /\ quiet' = TRUE
  /\ UNCHANGED <<cwnd, incr, ssthresh, rmt_wnd, inflight>>

Next ==
  \/ \E n \in 1..SndWnd : Acknowledged(n)
  \/ \E wnd \in RmtWnds : Window(wnd)
  \/ \E n \in 0..SndWnd, change, lost \in BOOLEAN : Flush(n, change, lost)
  \/ Settle

Spec == Init /\ [][Next]_vars

(* There is always data to send, and what is in flight is acknowledged.    *)
FairSpec ==
  /\ Spec
  /\ WF_vars(\E n \in 1..SndWnd : Flush(n, FALSE, FALSE))
  /\ WF_vars(\E n \in 1..SndWnd : Acknowledged(n))

--------------------------------------------------------------------------------
TypeOK ==
  /\ cwnd \in Nat /\ incr \in Nat /\ ssthresh \in Nat
  /\ rmt_wnd \in RmtWnds /\ inflight \in Nat /\ quiet \in BOOLEAN
  /\ ssthresh >= ThreshMin

(* The two counts of the window agree: incr lies within one segment of     *)
(* cwnd, whatever growth, cuts and losses came before; otherwise the next  *)
(* growth would jump or stall (ikcp.c:849-870, 1083-1103).                 *)
CountsAgree ==
  cwnd > 0 => (cwnd - 1) * Mss < incr /\ incr < (cwnd + 1) * Mss

(* No congestion window grows beyond the peer's: only a fast               *)
(* retransmission sets it without looking (ikcp.c:866, 1088).              *)
GrowthWithinPeer ==
  [][cwnd' > cwnd /\ inflight' < inflight => cwnd' <= rmt_wnd]_vars


================================================================================
