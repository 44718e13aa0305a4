-------------------------------- MODULE KcpParts --------------------------------
(***************************************************************************)
(* The parts of ikcp.c that KcpLink abstracts from, side by side: the      *)
(* clock, the time-out, the congestion window, the datagrams and the       *)
(* settings.  They share no state, so that in each behaviour one of them,  *)
(* part, runs and the others stay in their initial states; every property  *)
(* speaks of one of them.                                                  *)
(***************************************************************************)
EXTENDS KcpClock, Sequences

CONSTANTS
  Rtts, MinRto, RtoMax, DefRto,                             \* of KcpRto
  Mss, SndWnd, RmtWnds, Resent, NoCwnd, ThreshMin,          \* of KcpCongestion
  Base, Mtu, Conv, Cmds, Flushes, Strays,                   \* of KcpWire
  Peers, Overhead, DefaultMtu, WndSnd, WndRcv, LeastInterval, LeastFast,
  MostInterval, DefInterval, MinRtoNodelay, Numbers, Mtus   \* of KcpSettings

VARIABLES
  part,                                                     \* the one that runs
  rx_srtt, rx_rttval, rx_rto, rtt, steady,                  \* of KcpRto
  cwnd, incr, ssthresh, rmt_wnd, inflight, quiet,           \* of KcpCongestion
  todo, done, buffer, wire, stray, rest, got,               \* of KcpWire
  mtu, mss, snd_wnd, rcv_wnd, interval, rx_minrto, longest, refused \* of KcpSettings

Rto == INSTANCE KcpRto WITH MaxRto <- RtoMax
Congestion == INSTANCE KcpCongestion
Wire == INSTANCE KcpWire
Settings == INSTANCE KcpSettings

ASSUME PartAssumptions ==
  /\ Rto!RtoAssumption /\ Congestion!WindowAssumption /\ Wire!WireAssumption
  /\ Settings!SettingsAssumption

rtoVars == <<rx_srtt, rx_rttval, rx_rto, rtt, steady>>
congestionVars == <<cwnd, incr, ssthresh, rmt_wnd, inflight, quiet>>
wireVars == <<todo, done, buffer, wire, stray, rest, got>>
settingVars ==
  <<mtu, mss, snd_wnd, rcv_wnd, interval, rx_minrto, longest, refused>>

AllVars ==
  <<part, vars, rtoVars, congestionVars, wireVars, settingVars>>

PartsInit ==
  /\ part \in {"clock", "rto", "congestion", "wire", "settings"}
  /\ Init /\ (part # "clock" => current = 0)
  /\ Rto!Init /\ (part # "rto" => rtt = 0)
  /\ Congestion!Init /\ (part # "congestion" => rmt_wnd = 0)
  /\ Wire!Init /\ (part # "wire" => todo = << >>)
  /\ Settings!Init

PartsNext ==
  \/ /\ part = "clock" /\ Next
     /\ UNCHANGED <<part, rtoVars, congestionVars, wireVars, settingVars>>
  \/ /\ part = "rto" /\ Rto!Next
     /\ UNCHANGED <<part, vars, congestionVars, wireVars, settingVars>>
  \/ /\ part = "congestion" /\ Congestion!Next
     /\ UNCHANGED <<part, vars, rtoVars, wireVars, settingVars>>
  \/ /\ part = "wire" /\ Wire!Next
     /\ UNCHANGED <<part, vars, rtoVars, congestionVars, settingVars>>
  \/ /\ part = "settings" /\ Settings!Next
     /\ UNCHANGED <<part, vars, rtoVars, congestionVars, wireVars>>

(* The fairness each of them states.                                       *)
PartsFairness ==
  /\ WF_vars(part = "clock" /\ \E n \in 1..MaxLate : Tick(n))
  /\ WF_<<rx_srtt, rx_rttval, rx_rto>>(part = "rto" /\ Rto!UpdateAck)
  /\ WF_<<cwnd, incr, inflight>>(
       part = "congestion" /\ \E n \in 1..SndWnd : Congestion!Flush(n, FALSE, FALSE))
  /\ WF_<<cwnd, incr, inflight>>(
       part = "congestion" /\ \E n \in 1..SndWnd : Congestion!Acknowledged(n))

PartsSafety == PartsInit /\ [][PartsNext]_AllVars

PartsSpec == PartsSafety /\ PartsFairness

--------------------------------------------------------------------------------
(* Whatever the clock did, the next flush lies ahead and ikcp_check never  *)
(* names a moment after it; no timer of a clock that is not set waits      *)
(* longer than its interval (ikcp.c:946, 1028, 1121-1172).                 *)
OnTime == FlushAhead /\ CheckNotLate /\ TimersOnTime

(* Whatever the clock did, a connection whose timer runs goes on flushing  *)
(* (ikcp.c:1121-1141).                                                     *)
ClockGoesOn == part = "clock" => KeepsFlushing

(* On a steady path the smoothed round trip comes to rest within its       *)
(* rounding, and the time-out comes to cover the round trip                *)
(* (ikcp.c:524-541).                                                       *)
RtoCovers == Rto!SrttSettles /\ Rto!RtoCovers

(* The congestion window counted in bytes and in segments agree, whatever  *)
(* growth, cuts and losses came before, and no acknowledgement makes it    *)
(* grow beyond the peer's window: only a fast retransmission sets it       *)
(* without looking (ikcp.c:849-870, 1083-1103).                            *)
WindowKept == []Congestion!CountsAgree /\ Congestion!GrowthWithinPeer


(* The peer acts upon the segments the flush wrote and no others, in       *)
(* order, however they were packed (ikcp.c:735-842, 926-981, 1049-1080).   *)
SegmentsSurvive == Wire!SegmentsSurvive

(* No datagram is empty, longer than the MTU or without a whole header     *)
(* (ikcp.c:930-933, 1058-1061).                                            *)
DatagramsFit == Wire!DatagramsFit

(* A message one end accepted fits the receive window of the other,        *)
(* whatever either set, and no flush interval looks like a clock that was  *)
(* set (ikcp.c:491, 1128-1138, 1237-1239).                                 *)
SettingsHold == Settings!MessagesHeld /\ Settings!ClockKept

===============================================================================
