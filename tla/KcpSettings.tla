------------------------------- MODULE KcpSettings -------------------------------
(***************************************************************************)
(* The settings of a control block (ikcp_setmtu, ikcp_interval,            *)
(* ikcp_nodelay and ikcp_wndsize in depends/kcp/ikcp.c) at the two ends of *)
(* a connection, called in any order with any numbers, and what the other  *)
(* modules take for granted of them: a message one end accepts fits the    *)
(* receive window of the other, and the clock is never reset by a flush    *)
(* interval.  The proxy calls ikcp_nodelay and ikcp_wndsize once for each  *)
(* block (udp.cpp:67-68) and leaves the MTU at its default.                *)
(*                                                                         *)
(* Abstracted: the constants of the code keep their order.  The MTU is set *)
(* before anything is submitted, for queued segments keep their size.      *)
(***************************************************************************)
EXTENDS Integers

CONSTANTS
  Peers,        \* the two ends
  Overhead,     \* IKCP_OVERHEAD: 24
  DefaultMtu,   \* IKCP_MTU_DEF: 1400
  WndSnd,       \* IKCP_WND_SND: 32
  WndRcv,       \* IKCP_WND_RCV: 128
  LeastInterval,\* of ikcp_interval: 10
  LeastFast,    \* of ikcp_nodelay: 2
  MostInterval, \* 5000
  DefInterval,  \* IKCP_INTERVAL: 100
  MinRto,       \* IKCP_RTO_MIN: 100
  MinRtoNodelay,\* IKCP_RTO_NDL: 30
  ResetLimit,   \* ikcp_update resets a clock that is off by more: 10000
  Numbers,      \* arguments of the calls
  Mtus          \* arguments of ikcp_setmtu

SettingsAssumption ==
  /\ Numbers \subseteq Int /\ Mtus \subseteq Int
  /\ {Overhead, DefaultMtu, WndSnd, LeastInterval, LeastFast, MostInterval, DefInterval,
      MinRto, MinRtoNodelay, ResetLimit} \subseteq Nat \ {0}
  /\ WndRcv \in Nat \ {0, 1} /\ Overhead < DefaultMtu
  /\ LeastFast <= LeastInterval /\ LeastInterval <= DefInterval
  /\ DefInterval <= MostInterval /\ MostInterval < ResetLimit
  /\ MinRtoNodelay <= MinRto

VARIABLES
  mtu, mss,             \* of each peer
  snd_wnd, rcv_wnd,
  interval, rx_minrto,
  longest,              \* fragments of the longest message a peer accepted
  refused               \* history: ikcp_send stopped at its assert(kcp->mss > 0)

windows == <<snd_wnd, rcv_wnd>>
vars == <<mtu, mss, windows, interval, rx_minrto, longest, refused>>

Init ==
  /\ mtu = [p \in Peers |-> DefaultMtu]
  /\ mss = [p \in Peers |-> DefaultMtu - Overhead]
  /\ snd_wnd = [p \in Peers |-> WndSnd]
  /\ rcv_wnd = [p \in Peers |-> WndRcv]
  /\ interval = [p \in Peers |-> DefInterval]
  /\ rx_minrto = [p \in Peers |-> MinRto]
  /\ longest = [p \in Peers |-> 0]
  /\ refused = FALSE

Between(least, n, most) == IF n > most THEN most ELSE IF n < least THEN least ELSE n

(* The test of ikcp_setmtu.                                                *)
MtuTaken(m) == m >= Overhead

ikcp_setmtu(p, m) ==
  /\ longest[p] = 0
  /\ MtuTaken(m)
  /\ mtu' = [mtu EXCEPT ![p] = m]
  /\ mss' = [mss EXCEPT ![p] = m - Overhead]
  /\ UNCHANGED <<windows, interval, rx_minrto, longest, refused>>

(* Mutant of IntervalOf: the interval is taken as it is.                   *)
IntervalOfAny(least, n) == n

IntervalOf(least, n) == Between(least, n, MostInterval)

ikcp_interval(p, n) ==
  /\ interval' = [interval EXCEPT ![p] = IntervalOf(LeastInterval, n)]
  /\ UNCHANGED <<mtu, mss, windows, rx_minrto, longest, refused>>

(* Its arguments resend and nc are in KcpLink and KcpCongestion.           *)
ikcp_nodelay(p, nodelay, n) ==
  /\ rx_minrto' =
       CASE nodelay < 0 -> rx_minrto
         [] nodelay = 0 -> [rx_minrto EXCEPT ![p] = MinRto]
         [] nodelay > 0 -> [rx_minrto EXCEPT ![p] = MinRtoNodelay]
  /\ interval' =
       IF n >= 0 THEN [interval EXCEPT ![p] = IntervalOf(LeastFast, n)] ELSE interval
  /\ UNCHANGED <<mtu, mss, windows, longest, refused>>

(* Mutant of RcvWndOf: the window is taken as it is.                       *)
RcvWndOfAny(n) == n

(* "must >= max fragment size"                                             *)
RcvWndOf(n) == IF n > WndRcv THEN n ELSE WndRcv

ikcp_wndsize(p, snd, rcv) ==
  /\ snd_wnd' = IF snd > 0 THEN [snd_wnd EXCEPT ![p] = snd] ELSE snd_wnd
  /\ rcv_wnd' = IF rcv > 0 THEN [rcv_wnd EXCEPT ![p] = RcvWndOf(rcv)] ELSE rcv_wnd
  /\ UNCHANGED <<mtu, mss, interval, rx_minrto, longest, refused>>

(* The fragments of len bytes, at least one.                               *)
Count(p, len) ==
  LET n == (len + mss[p] - 1) \div mss[p] IN IF n > 0 THEN n ELSE 1

(* The start of ikcp_send: a message of WndRcv fragments is refused.       *)
ikcp_send(p, len) ==
  /\ \/ /\ mss[p] = 0
        /\ refused' = TRUE
        /\ UNCHANGED longest
     \/ /\ mss[p] > 0 /\ len >= 0 /\ Count(p, len) < WndRcv
        /\ longest' = [longest EXCEPT ![p] = IF Count(p, len) > @ THEN Count(p, len) ELSE @]
        /\ UNCHANGED refused
  /\ UNCHANGED <<mtu, mss, windows, interval, rx_minrto>>

Next ==
  \E p \in Peers :
    \/ \E m \in Mtus : ikcp_setmtu(p, m)
    \/ \E n \in Numbers :
         \/ ikcp_interval(p, n)
         \/ ikcp_send(p, n)
         \/ \E k \in Numbers : ikcp_nodelay(p, k, n) \/ ikcp_wndsize(p, k, n)

Spec == Init /\ [][Next]_vars

--------------------------------------------------------------------------------
(* A message that was accepted fits the receive window of the other end,   *)
(* whatever either end set: only a whole message can be read, and a window *)
(* it does not fit would hold its first fragments for ever (ikcp.c:491,    *)
(* 1237-1239).                                                             *)
MessagesHeld == \A p, q \in Peers : longest[p] < rcv_wnd[q]

(* No interval makes the flushes of ikcp_update look like a clock that was *)
(* set: two of them are closer than its limit, and they are apart          *)
(* (ikcp.c:1128-1138, 1198-1205, 1217-1222).                               *)
ClockKept == \A p \in Peers : interval[p] \in 1..ResetLimit - 1

(* ikcp_send never fails its assert(kcp->mss > 0) (ikcp.c:452).            *)
MssPositive == ~refused

================================================================================
