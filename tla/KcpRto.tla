--------------------------------- MODULE KcpRto ---------------------------------
(***************************************************************************)
(* The retransmission time-out a KCP control block derives from the round  *)
(* trips it measures (ikcp_update_ack in depends/kcp/ikcp.c): a smoothed   *)
(* round trip time and its variation, in whole milliseconds that every     *)
(* division cuts.  Around it, a path whose round trip varies and from some *)
(* moment on stays the same.                                               *)
(*                                                                         *)
(* Samples stay far below the 300 million ms at which 7 * rx_srtt would    *)
(* leave 32 bits.                                                          *)
(***************************************************************************)
EXTENDS Integers

CONSTANTS
  Rtts,         \* round trip times the path may have, in ms
  Interval,     \* kcp->interval
  MinRto,       \* kcp->rx_minrto
  MaxRto,       \* IKCP_RTO_MAX
  DefRto        \* IKCP_RTO_DEF

RtoAssumption ==
  /\ Rtts \subseteq Nat /\ {Interval, MinRto, MaxRto, DefRto} \subseteq Nat \ {0}
  /\ MinRto <= MaxRto

VARIABLES
  rx_srtt, rx_rttval, rx_rto,
  rtt,          \* the round trip time of the path
  steady        \* it does not change any more

vars == <<rx_srtt, rx_rttval, rx_rto, rtt, steady>>

(* _ibound_                                                                *)
Bound(lower, middle, upper) ==
  LET most == IF lower >= middle THEN lower ELSE middle
  IN IF most <= upper THEN most ELSE upper

Larger(a, b) == IF a >= b THEN a ELSE b

(* ikcp_create, ikcp_nodelay                                               *)
Init ==
  /\ rx_srtt = 0 /\ rx_rttval = 0 /\ rx_rto = DefRto
  /\ rtt \in Rtts
  /\ steady = FALSE

--------------------------------------------------------------------------------
Variation(val, delta) == (3 * val + (IF delta < 0 THEN -delta ELSE delta)) \div 4

Smoothed(srtt, sample) == Larger((7 * srtt + sample) \div 8, 1)

(* Mutant of TimeOut: the variation is not added.                          *)
TimeOutBare(srtt, val) == Bound(MinRto, srtt, MaxRto)

TimeOut(srtt, val) == Bound(MinRto, srtt + Larger(Interval, 4 * val), MaxRto)

(* ikcp_update_ack: an acknowledgement brings back a time stamp.           *)
UpdateAck ==
  /\ IF rx_srtt = 0
       THEN rx_srtt' = rtt /\ rx_rttval' = rtt \div 2
       ELSE /\ rx_rttval' = Variation(rx_rttval, rtt - rx_srtt)
            /\ rx_srtt' = Smoothed(rx_srtt, rtt)
  /\ rx_rto' = TimeOut(rx_srtt', rx_rttval')
  /\ UNCHANGED <<rtt, steady>>

(* The path changes, or changes for the last time.                         *)
PathChanges(r, last) ==
  /\ ~steady
  /\ rtt' = r /\ steady' = last
  /\ UNCHANGED <<rx_srtt, rx_rttval, rx_rto>>

Next == UpdateAck \/ \E r \in Rtts, last \in BOOLEAN : PathChanges(r, last)

Spec == Init /\ [][Next]_vars

(* Acknowledgements keep coming as long as data is sent.                   *)
FairSpec == Spec /\ WF_vars(UpdateAck)

--------------------------------------------------------------------------------
(* The estimate never leaves the range of the samples by more than the     *)
(* rounding, and the time-out its bounds (ikcp.c:527-540).                 *)
TypeOK ==
  /\ rtt \in Rtts /\ steady \in BOOLEAN
  /\ \E most \in Rtts : rx_srtt \in 0..Larger(most, 1) /\ rx_rttval \in 0..most
  /\ rx_rto = DefRto \/ rx_rto \in MinRto..MaxRto

(* On a steady path the smoothed time comes to rest at most 7 ms below the *)
(* round trip, and not above it: what (7 * srtt + rtt) / 8 can no longer   *)
(* move (ikcp.c:535).                                                      *)
SrttSettles ==
  <>steady => <>[](rx_srtt <= Larger(rtt, 1) /\ rtt - rx_srtt <= 7)

(* On a steady path the time-out comes to cover the round trip, but for    *)
(* the rounding: with the variation at zero, a rise of 3 ms moves neither  *)
(* the mean nor the variation, and only the interval is left to cover it   *)
(* (ikcp.c:534-540).                                                       *)
RtoCovers ==
  <>steady => <>[](rx_rto >= rtt - Larger(0, 3 - Interval) \/ rx_rto = MaxRto)

================================================================================
