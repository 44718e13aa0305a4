------------------------------- MODULE MCKcpParts -------------------------------
(* Values of the constants of KcpParts that a .cfg cannot write down, and   *)
(* a sixth part: the rings of segments in memory, whose recursive walks     *)
(* the provers cannot read.                                                 *)
EXTENDS KcpParts

CONSTANTS Blocks, ListMod, FirstSn, ListSndWnd, ListRcvWnd, MaxSegs   \* of SegmentList

VARIABLES
  listing,                \* the rings run, and nothing else
  ring, held, kcp         \* of SegmentList

Lists == INSTANCE SegmentList WITH
  seg <- held, SnMod <- ListMod, SndWnd <- ListSndWnd, RcvWnd <- ListRcvWnd

ASSUME ListAssumption == Lists!ListAssumption

MCVars == <<AllVars, listing, ring, held, kcp>>

MCInit ==
  /\ PartsInit /\ Lists!Init
  /\ listing \in BOOLEAN /\ (listing => part = "settings")

MCNext ==
  \/ ~listing /\ PartsNext /\ UNCHANGED <<listing, ring, held, kcp>>
  \/ listing /\ Lists!Next /\ UNCHANGED <<AllVars, listing>>

MCSpec == MCInit /\ [][MCNext]_MCVars /\ PartsFairness

(* The rings are whole and hold what their counters say, and both numbered *)
(* ones are in serial order, whatever was linked, unlinked, freed and      *)
(* given out again (ikcp.h:157-191, ikcp.c:284-324, 553-690).              *)
RingsSound == Lists!RingsWhole /\ Lists!InOrder

(* The rings implement the collections of segments KcpLink works on: each  *)
(* operation has the effect it has there (ikcp.c:330-470, 553-690).        *)
SetsPromise == Lists!SetsPromise

--------------------------------------------------------------------------------

(* Round trips around the bounds of the time-out and the rounding of the   *)
(* estimate.                                                               *)
SomeRtts == {0, 1, 2, 5, 12, 15, 16, 19, 23, 24, 31}

(* Flushes that fill datagrams to the last byte, overflow them by one, or  *)
(* hold control segments only.                                             *)
Push == 1
Ack == 2
Wask == 3
Wins == 0

Ctl(cmd, sn) ==
  [cmd |-> cmd, frg |-> 0, wnd |-> 14, ts |-> 201, sn |-> sn, una |-> 254, len |-> 0]

DataSeg(sn, len) ==
  [cmd |-> Push, frg |-> sn % 4, wnd |-> 11, ts |-> 77, sn |-> sn, una |-> 19, len |-> len]

Acks == {<< >>, <<Ctl(Ack, 5)>>, <<Ctl(Ack, 255), Ctl(Ack, 0), Ctl(Ack, 130)>>}
Asks == {<< >>, <<Ctl(Wask, 0)>>, <<Ctl(Wask, 0), Ctl(Wins, 0)>>}
Datas ==
  {<< >>} \cup {<<DataSeg(7, i)>> : i \in {0, 11, 12, 13, 36}}
    \cup {<<DataSeg(255, i), DataSeg(0, j)>> : i, j \in {1, 12, 35, 36}}

SomeFlushes == {a \o b \o c : a \in Acks, b \in Asks, c \in Datas}

(* Bytes of five values: the numbers above need one to four of them.       *)
LeastFirst(n, bytes) == [i \in 1..bytes |-> (n \div 5^(i - 1)) % 5]

(* Datagrams other programs might send: too short, of another conversation,*)
(* longer than it is, longer than any datagram, of no command, two         *)
(* segments of which the first is not ours.                                *)
SomeStrays ==
  LET header(conv, cmd, len) ==
        LeastFirst(conv, 4) \o <<cmd, 0>> \o LeastFirst(9, 2) \o LeastFirst(1, 4)
          \o LeastFirst(2, 4) \o LeastFirst(3, 4) \o LeastFirst(len, 4)
  IN {<<1, 2, 3>>, header(28, Push, 0), header(27, Push, 3) \o <<1, 1>>,
      header(27, Push, 5^4 - 1), header(27, 4, 0),
      header(28, Ack, 0) \o header(27, Ack, 0)}

(* Arguments below, at and above the bounds of the settings.               *)
SomeNumbers == {-1, 0, 2, 5}

===============================================================================
