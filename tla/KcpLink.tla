-------------------------------- MODULE KcpLink --------------------------------
(***************************************************************************)
(* One KCP connection: the two control blocks (IKCPCB) of its ends and the *)
(* UDP network between them.  Every operation of depends/kcp/ikcp.c that   *)
(* changes a control block is one action: ikcp_send, ikcp_recv, ikcp_flush *)
(* (through ikcp_update) and ikcp_input.                                   *)
(*                                                                         *)
(* Abstracted: bytes and MTU packing (each data segment travels in a       *)
(* datagram of its own, the control segments of one flush share one), RTT  *)
(* and clocks (whether a retransmission or probe timer has expired is a    *)
(* choice), and the congestion window, which the proxy switches off        *)
(* (nocwnd = 1, udp.cpp:67).                                               *)
(***************************************************************************)
EXTENDS Integers, Sequences, FiniteSets, FiniteSetsExt, Functions

CONSTANTS
  A, B,           \* the two peers
  SndWnd,         \* kcp->snd_wnd, in segments
  AskedRcvWnd,    \* the rcvwnd given to ikcp_wndsize
  WndRcv,         \* IKCP_WND_RCV: first rmt_wnd, least rcv_wnd, longest message + 1
  FastResend,     \* kcp->fastresend: later acks that resend a segment, 0 for never
  FastLimit,      \* kcp->fastlimit: transmissions after which that stops
  SnMod,          \* sequence numbers are taken modulo SnMod (2^32 in the code)
  FirstSn,        \* sequence number of the first segment (0 after ikcp_create)
  MaxSegs,        \* bound of the model: MaxSegs[p] segments are submitted by p
  NetCap,         \* bound of the model: NetCap[p] datagrams of p are in flight
  Duplicating     \* may the network deliver a datagram more than once?

Peers == {A, B}
Other(p) == IF p = A THEN B ELSE A

ASSUME PeersAssumption == A # B
ASSUME WindowAssumption ==
  /\ SndWnd \in Nat \ {0}
  /\ AskedRcvWnd \in Nat \ {0}
  /\ WndRcv \in Nat \ {0, 1}
ASSUME FastAssumption == FastResend \in Nat /\ FastLimit \in Nat \ {0}
ASSUME SerialAssumption == SnMod \in Nat \ {0, 1} /\ FirstSn \in 0..(SnMod - 1)
ASSUME BoundAssumption ==
  /\ MaxSegs \in [Peers -> Nat]
  /\ NetCap \in [Peers -> Nat]
  /\ Duplicating \in BOOLEAN

-------------------------------------------------------------------------------
(* 32-bit serial arithmetic: IUINT32 sums and _itimediff.                  *)

\* Mutant of SnAdd: sequence numbers as unbounded integers.
SnAddUnbounded(sn, n) == sn + n

SnAdd(sn, n) == (sn + n) % SnMod

SnDiff(later, earlier) ==
  LET d == (later - earlier) % SnMod
  IN  IF d >= SnMod \div 2 THEN d - SnMod ELSE d

Sn == 0..(SnMod - 1)

\* Mutant of RcvWnd: ikcp_wndsize takes the window it is given.
RcvWndAsAsked == AskedRcvWnd

\* ikcp_wndsize never lets the receive window below the longest message.
RcvWnd == IF AskedRcvWnd < WndRcv THEN WndRcv ELSE AskedRcvWnd

(* A segment: frg segments of its message follow; data is its position in  *)
(* everything the sender submitted, standing for the payload.              *)
Segment == [frg : 0..(WndRcv - 2), data : Nat \ {0}]

\* What the sender remembers of a transmitted segment.
Outgoing == [seg : Segment, xmit : Nat, fastack : Nat]

\* Datagrams: one data segment, or the control segments of one flush.
Push == [kind : {"push"}, una : Sn, wnd : 0..RcvWnd, sn : Sn, seg : Segment]
Ctl  == [kind : {"ctl"}, una : Sn, wnd : 0..RcvWnd, acks : SUBSET Sn,
         ask : BOOLEAN, tell : BOOLEAN]

VARIABLES
  snd_queue,    \* snd_queue[p]: segments submitted and not yet numbered
  snd_nxt,      \* snd_nxt[p]: the number the next segment will get
  snd_una,      \* snd_una[p]: the oldest number not known to be received
  snd_buf,      \* snd_buf[p]: numbered, unacknowledged segments, by number
  rmt_wnd,      \* rmt_wnd[p]: the receive window last heard from the peer
  probe_wait,   \* probe_wait[p]: is the window-probe timer armed (probe_wait # 0)
  rcv_nxt,      \* rcv_nxt[p]: the number of the next segment for rcv_queue
  rcv_buf,      \* rcv_buf[p]: segments received ahead of rcv_nxt or of room
  rcv_queue,    \* rcv_queue[p]: segments in order, ready to be read
  acklist,      \* acklist[p]: numbers to acknowledge at the next flush
  ask_tell,     \* ask_tell[p]: the IKCP_ASK_TELL bit of kcp->probe
  net,          \* net[p]: datagrams p sent that are still in the network
  sent,         \* history: sent[p], every segment p submitted
  delivered     \* history: delivered[p], every segment p read

sndVars == <<snd_queue, snd_nxt, snd_una, snd_buf, rmt_wnd, probe_wait>>
rcvVars == <<rcv_nxt, rcv_buf, rcv_queue>>
sigVars == <<acklist, ask_tell>>
vars == <<sndVars, rcvVars, sigVars, net, sent, delivered>>

TypeOK ==
  /\ snd_queue \in [Peers -> Seq(Segment)]
  /\ snd_nxt \in [Peers -> Sn]
  /\ snd_una \in [Peers -> Sn]
  /\ DOMAIN snd_buf = Peers
  /\ \A p \in Peers : /\ DOMAIN snd_buf[p] \subseteq Sn
                      /\ snd_buf[p] \in [DOMAIN snd_buf[p] -> Outgoing]
  /\ rmt_wnd \in [Peers -> Nat]
  /\ probe_wait \in [Peers -> BOOLEAN]
  /\ rcv_nxt \in [Peers -> Sn]
  /\ DOMAIN rcv_buf = Peers
  /\ \A p \in Peers : /\ DOMAIN rcv_buf[p] \subseteq Sn
                      /\ rcv_buf[p] \in [DOMAIN rcv_buf[p] -> Segment]
  /\ rcv_queue \in [Peers -> Seq(Segment)]
  /\ acklist \in [Peers -> SUBSET Sn]
  /\ ask_tell \in [Peers -> BOOLEAN]
  /\ net \in [Peers -> SUBSET (Push \cup Ctl)]
  /\ sent \in [Peers -> Seq(Segment)]
  /\ delivered \in [Peers -> Seq(Segment)]

(* ikcp_create followed by ikcp_wndsize.  With FirstSn # 0, the idle state  *)
(* of the same connection after FirstSn segments in each direction.        *)
Init ==
  /\ snd_queue = [p \in Peers |-> <<>>]
  /\ snd_nxt = [p \in Peers |-> FirstSn]
  /\ snd_una = [p \in Peers |-> FirstSn]
  /\ snd_buf = [p \in Peers |-> <<>>]
  /\ rmt_wnd = [p \in Peers |-> WndRcv]
  /\ probe_wait = [p \in Peers |-> FALSE]
  /\ rcv_nxt = [p \in Peers |-> FirstSn]
  /\ rcv_buf = [p \in Peers |-> <<>>]
  /\ rcv_queue = [p \in Peers |-> <<>>]
  /\ acklist = [p \in Peers |-> {}]
  /\ ask_tell = [p \in Peers |-> FALSE]
  /\ net = [p \in Peers |-> {}]
  /\ sent = [p \in Peers |-> <<>>]
  /\ delivered = [p \in Peers |-> <<>>]

-------------------------------------------------------------------------------
(* ikcp_send *)

\* The segments of a message of count segments, the first at position first.
Fragments(first, count) ==
  [i \in 1..count |-> [frg |-> count - i, data |-> first + i - 1]]

\* A message of IKCP_WND_RCV segments or more is refused (-2).
Send(p, count) ==
  /\ count < WndRcv
  /\ Len(sent[p]) + count <= MaxSegs[p]
  /\ LET new == Fragments(Len(sent[p]) + 1, count)
     IN  /\ snd_queue' = [snd_queue EXCEPT ![p] = @ \o new]
         /\ sent' = [sent EXCEPT ![p] = @ \o new]
  /\ UNCHANGED <<snd_nxt, snd_una, snd_buf, rmt_wnd, probe_wait, rcvVars,
                 sigVars, net, delivered>>

-------------------------------------------------------------------------------
(* The receiving side: ikcp_recv and ikcp_parse_data.                      *)

\* Mutant of Run: whatever room there is.
RunOn(nxt, buf, room) ==
  Min({k \in 0..Cardinality(DOMAIN buf) : SnAdd(nxt, k) \notin DOMAIN buf})

\* How many segments at the head of buf are the next ones and find room.
Run(nxt, buf, room) ==
  Min({k \in 0..room : k = room \/ SnAdd(nxt, k) \notin DOMAIN buf})

\* Mutant of MoveAvailable: segments that find no room are dropped.
MoveDropping(p, buf, queue) ==
  LET nxt == rcv_nxt[p]
      k == Run(nxt, buf, RcvWnd - Len(queue))
  IN  /\ rcv_queue' = [rcv_queue EXCEPT
           ![p] = queue \o [i \in 1..k |-> buf[SnAdd(nxt, i - 1)]]]
      /\ rcv_buf' = [rcv_buf EXCEPT
           ![p] = IF Len(queue) + k = RcvWnd THEN <<>>
                  ELSE Restrict(buf, DOMAIN buf \ {SnAdd(nxt, i) : i \in 0..(k - 1)})]
      /\ rcv_nxt' = [rcv_nxt EXCEPT ![p] = SnAdd(nxt, k)]

\* "move available data from rcv_buf -> rcv_queue", buf and queue being what
\* the caller has made of them.
MoveAvailable(p, buf, queue) ==
  LET nxt == rcv_nxt[p]
      k == Run(nxt, buf, RcvWnd - Len(queue))
  IN  /\ rcv_queue' = [rcv_queue EXCEPT
           ![p] = queue \o [i \in 1..k |-> buf[SnAdd(nxt, i - 1)]]]
      /\ rcv_buf' = [rcv_buf EXCEPT
           ![p] = Restrict(buf, DOMAIN buf \ {SnAdd(nxt, i) : i \in 0..(k - 1)})]
      /\ rcv_nxt' = [rcv_nxt EXCEPT ![p] = SnAdd(nxt, k)]

\* Mutant of Readable: ikcp_peeksize does not wait for the whole message.
ReadableAtOnce(queue) == queue # <<>>

\* ikcp_peeksize finds the whole of the first message.
Readable(queue) == queue # <<>> /\ Len(queue) >= Head(queue).frg + 1

\* The segments ikcp_recv takes: up to the first that ends a message.
MsgLen(queue) ==
  Min({i \in 1..Len(queue) : queue[i].frg = 0 \/ i = Len(queue)})

\* "fast recover": the queue was full before the read and no longer is.
FastRecover(before, after) == before >= RcvWnd /\ after < RcvWnd

Recv(p) ==
  LET queue == rcv_queue[p]
      n == MsgLen(queue)
  IN  /\ Readable(queue)
      /\ delivered' = [delivered EXCEPT ![p] = @ \o SubSeq(queue, 1, n)]
      /\ MoveAvailable(p, rcv_buf[p], SubSeq(queue, n + 1, Len(queue)))
      /\ ask_tell' = [ask_tell EXCEPT
           ![p] = @ \/ FastRecover(Len(queue), Len(rcv_queue'[p]))]
      /\ UNCHANGED <<sndVars, acklist, net, sent>>

-------------------------------------------------------------------------------
(* ikcp_flush, run by ikcp_update from the connection's 1 ms timer.         *)

\* ikcp_wnd_unused: the window advertised to the peer.
WndUnused(p) ==
  IF Len(rcv_queue[p]) < RcvWnd THEN RcvWnd - Len(rcv_queue[p]) ELSE 0

\* How many segments of snd_queue get a number: the window is the lesser of
\* snd_wnd and rmt_wnd (nocwnd is set).
Fresh(p) ==
  LET cwnd == Min({SndWnd, rmt_wnd[p]})
      room == SnDiff(SnAdd(snd_una[p], cwnd), snd_nxt[p])
  IN  Min({Len(snd_queue[p]), Max({0, room})})

\* Mutant of Numbered: the numbers go to the segments last to first.
NumberedBackwards(p, n) ==
  LET new == {SnAdd(snd_nxt[p], i) : i \in 0..(n - 1)}
  IN  [sn \in DOMAIN snd_buf[p] \cup new |->
         IF sn \in DOMAIN snd_buf[p] THEN snd_buf[p][sn]
         ELSE [seg |-> snd_queue[p][n - SnDiff(sn, snd_nxt[p])],
               xmit |-> 0, fastack |-> 0]]

\* snd_buf with n segments of snd_queue appended to it.
Numbered(p, n) ==
  LET new == {SnAdd(snd_nxt[p], i) : i \in 0..(n - 1)}
  IN  [sn \in DOMAIN snd_buf[p] \cup new |->
         IF sn \in DOMAIN snd_buf[p] THEN snd_buf[p][sn]
         ELSE [seg |-> snd_queue[p][SnDiff(sn, snd_nxt[p]) + 1],
               xmit |-> 0, fastack |-> 0]]

\* Enough later segments were acknowledged, and not resent too often for it.
Skipped(o) == FastResend > 0 /\ o.fastack >= FastResend /\ o.xmit <= FastLimit

\* The segments this flush transmits; due holds those whose timer expired.
NeedSend(buf, due) ==
  {sn \in DOMAIN buf : buf[sn].xmit = 0 \/ sn \in due \/ Skipped(buf[sn])}

\* Bound of the model: xmit is only ever compared with FastLimit.
XmitCap == IF FastResend = 0 THEN 1 ELSE FastLimit + 1

\* snd_buf after the transmission of the segments in out.
Transmitted(buf, out, due) ==
  [sn \in DOMAIN buf |->
     IF sn \notin out THEN buf[sn]
     ELSE [buf[sn] EXCEPT
             !.xmit = Min({@ + 1, XmitCap}),
             !.fastack = IF buf[sn].xmit = 0 \/ sn \in due THEN @ ELSE 0]]

\* The control datagram of a flush, if it has anything to say.
Control(p, ask) ==
  IF acklist[p] = {} /\ ~ask /\ ~ask_tell[p] THEN {}
  ELSE {[kind |-> "ctl", una |-> rcv_nxt[p], wnd |-> WndUnused(p),
         acks |-> acklist[p], ask |-> ask, tell |-> ask_tell[p]]}

DataSeg(p, buf, sn) ==
  [kind |-> "push", una |-> rcv_nxt[p], wnd |-> WndUnused(p),
   sn |-> sn, seg |-> buf[sn].seg]

\* The network takes out from p; at this point it may lose any datagram of p.
Transmit(p, out) ==
  \E kept \in SUBSET (net[p] \cup out) :
     /\ Cardinality(kept) <= NetCap[p]
     /\ net' = [net EXCEPT ![p] = kept]

\* Mutant of Probes: a zero window is never probed.
NeverProbes(p, elapsed) == FALSE

\* A flush that asks for the peer's window: it is zero and the timer, armed by
\* an earlier flush, has expired.
Probes(p, elapsed) == rmt_wnd[p] = 0 /\ probe_wait[p] /\ elapsed

Flush(p, due, elapsed) ==
  LET n == Fresh(p)
      buf == Numbered(p, n)
      out == NeedSend(buf, due)
  IN  /\ probe_wait' = [probe_wait EXCEPT ![p] = (rmt_wnd[p] = 0)]
      /\ acklist' = [acklist EXCEPT ![p] = {}]
      /\ ask_tell' = [ask_tell EXCEPT ![p] = FALSE]
      /\ snd_queue' = [snd_queue EXCEPT ![p] = SubSeq(@, n + 1, Len(@))]
      /\ snd_nxt' = [snd_nxt EXCEPT ![p] = SnAdd(@, n)]
      /\ snd_buf' = [snd_buf EXCEPT ![p] = Transmitted(buf, out, due)]
      /\ Transmit(p, Control(p, Probes(p, elapsed))
                       \cup {DataSeg(p, buf, sn) : sn \in out})
      /\ UNCHANGED <<snd_una, rmt_wnd, rcvVars, sent, delivered>>

-------------------------------------------------------------------------------
(* ikcp_input *)

\* Mutant of ParseUna: numbers compared as unsigned integers.
ParseUnaUnsigned(buf, una) == Restrict(buf, {sn \in DOMAIN buf : una <= sn})

\* ikcp_parse_una: everything before una has arrived.
ParseUna(buf, una) ==
  Restrict(buf, {sn \in DOMAIN buf : SnDiff(una, sn) <= 0})

\* ikcp_parse_ack, for every acknowledgement of a datagram.
ParseAck(buf, acks) == Restrict(buf, DOMAIN buf \ acks)

\* Mutant of ShrinkBuf: the other end of snd_buf.
ShrinkBufLast(buf, nxt) ==
  IF DOMAIN buf = {} THEN nxt
  ELSE CHOOSE sn \in DOMAIN buf : \A o \in DOMAIN buf : SnDiff(o, sn) <= 0

\* Mutant of ShrinkBuf: the next number, whatever is still in flight.
ShrinkBufNext(buf, nxt) == nxt

\* ikcp_shrink_buf: the new snd_una.
ShrinkBuf(buf, nxt) ==
  IF DOMAIN buf = {} THEN nxt
  ELSE CHOOSE sn \in DOMAIN buf : \A o \in DOMAIN buf : SnDiff(sn, o) <= 0

\* ikcp_parse_fastack, once per datagram, with its latest acknowledgement.
\* Bound of the model: fastack is only ever compared with FastResend.
ParseFastack(buf, una, nxt, acks) ==
  LET maxack == CHOOSE sn \in acks : \A o \in acks : SnDiff(o, sn) <= 0
  IN  IF acks = {} \/ SnDiff(maxack, una) < 0 \/ SnDiff(maxack, nxt) >= 0 THEN buf
      ELSE [sn \in DOMAIN buf |->
              IF SnDiff(maxack, sn) <= 0 THEN buf[sn]
              ELSE [buf[sn] EXCEPT !.fastack = Min({@ + 1, FastResend})]]

\* The network hands d to p, and may keep a copy.
Arrives(p, d) ==
  /\ d \in net[Other(p)]
  /\ \/ net' = [net EXCEPT ![Other(p)] = @ \ {d}]
     \/ Duplicating /\ UNCHANGED net

InWindow(p, sn) == SnDiff(sn, SnAdd(rcv_nxt[p], RcvWnd)) < 0

\* Mutant of AckPush: a segment that came before is not acknowledged again.
AckPushNew(p, sn) ==
  IF InWindow(p, sn) /\ SnDiff(sn, rcv_nxt[p]) >= 0 THEN acklist[p] \cup {sn}
  ELSE acklist[p]

\* ikcp_ack_push: what is in the window is acknowledged, old segments included.
AckPush(p, sn) ==
  IF InWindow(p, sn) THEN acklist[p] \cup {sn} ELSE acklist[p]

\* rcv_buf with one more segment, unless it is there already.
Stored(buf, sn, seg) ==
  [s \in DOMAIN buf \cup {sn} |-> IF s \in DOMAIN buf THEN buf[s] ELSE seg]

\* A datagram of IKCP_CMD_PUSH.  A new segment in the window is stored, and
\* queued if it is the next.
InputPush(p, d) ==
  /\ Arrives(p, d)
  /\ d.kind = "push"
  /\ rmt_wnd' = [rmt_wnd EXCEPT ![p] = d.wnd]
  /\ snd_buf' = [snd_buf EXCEPT ![p] = ParseUna(@, d.una)]
  /\ snd_una' = [snd_una EXCEPT ![p] = ShrinkBuf(snd_buf'[p], snd_nxt[p])]
  /\ acklist' = [acklist EXCEPT ![p] = AckPush(p, d.sn)]
  /\ IF InWindow(p, d.sn) /\ SnDiff(d.sn, rcv_nxt[p]) >= 0
     THEN MoveAvailable(p, Stored(rcv_buf[p], d.sn, d.seg), rcv_queue[p])
     ELSE UNCHANGED rcvVars
  /\ UNCHANGED <<snd_queue, snd_nxt, probe_wait, ask_tell, sent, delivered>>

\* A datagram of IKCP_CMD_ACK, IKCP_CMD_WASK and IKCP_CMD_WINS segments.
InputCtl(p, d) ==
  /\ Arrives(p, d)
  /\ d.kind = "ctl"
  /\ rmt_wnd' = [rmt_wnd EXCEPT ![p] = d.wnd]
  /\ LET buf == ParseAck(ParseUna(snd_buf[p], d.una), d.acks)
         una == ShrinkBuf(buf, snd_nxt[p])
     IN  /\ snd_una' = [snd_una EXCEPT ![p] = una]
         /\ snd_buf' = [snd_buf EXCEPT
              ![p] = ParseFastack(buf, una, snd_nxt[p], d.acks)]
  /\ ask_tell' = [ask_tell EXCEPT ![p] = @ \/ d.ask]
  /\ UNCHANGED <<snd_queue, snd_nxt, probe_wait, rcvVars, acklist, sent, delivered>>

-------------------------------------------------------------------------------
Next ==
  \E p \in Peers :
    \/ \E count \in 1..MaxSegs[p] : Send(p, count)
    \/ Recv(p)
    \/ \E due \in SUBSET DOMAIN snd_buf[p], elapsed \in BOOLEAN :
         Flush(p, due, elapsed)
    \/ \E d \in net[Other(p)] : InputPush(p, d) \/ InputCtl(p, d)

Spec == Init /\ [][Next]_vars

-------------------------------------------------------------------------------
(* Fairness.  The timer flushes again and again, and every retransmission  *)
(* and probe timer expires; the reader reads what is readable; a datagram  *)
(* that is sent again and again with current contents gets through.        *)

FlushAll(p) == Flush(p, DOMAIN snd_buf[p], TRUE)

Current(p, d) == d.una = rcv_nxt[p] /\ d.wnd = WndUnused(p)
OldestData(p, d) == Current(p, d) /\ d.kind = "push" /\ d.sn = snd_una[p]
FreshCtl(p, d) == Current(p, d) /\ d.kind = "ctl"

DataSurvives(p) == FlushAll(p) /\ \E d \in net'[p] : OldestData(p, d)
CtlSurvives(p) == FlushAll(p) /\ \E d \in net'[p] : FreshCtl(p, d)
DataArrives(p) == \E d \in net[Other(p)] : OldestData(Other(p), d) /\ InputPush(p, d)
CtlArrives(p) == \E d \in net[Other(p)] : FreshCtl(Other(p), d) /\ InputCtl(p, d)

Fairness ==
  \A p \in Peers :
    /\ WF_vars(FlushAll(p)) /\ WF_vars(Recv(p))
    /\ SF_vars(DataSurvives(p)) /\ SF_vars(DataArrives(p))
    /\ SF_vars(CtlSurvives(p)) /\ SF_vars(CtlArrives(p))

FairSpec == Spec /\ Fairness

-------------------------------------------------------------------------------
(* Safety *)

\* What p has read is what its peer submitted, in order, cut between messages.
InOrderDelivery ==
  \A p \in Peers :
    LET got == delivered[p]
        src == sent[Other(p)]
    IN  /\ Len(got) <= Len(src)
        /\ \A i \in 1..Len(got) : got[i] = src[i]
        /\ got # <<>> => got[Len(got)].frg = 0

\* Every segment submitted by p and not yet read by its peer is in some queue
\* of one of them, whatever the network loses: an acknowledgement never lets
\* ikcp_parse_una or ikcp_parse_ack free the last copy.
NothingLost ==
  \A p \in Peers :
    LET q == Other(p)
    IN  \A i \in (Len(delivered[q]) + 1)..Len(sent[p]) :
          \/ \E j \in 1..Len(rcv_queue[q]) : rcv_queue[q][j] = sent[p][i]
          \/ \E sn \in DOMAIN rcv_buf[q] : rcv_buf[q][sn] = sent[p][i]
          \/ \E sn \in DOMAIN snd_buf[p] : snd_buf[p][sn].seg = sent[p][i]
          \/ \E j \in 1..Len(snd_queue[p]) : snd_queue[p][j] = sent[p][i]

\* q has segment number sn, or had it and passed it on to the reader.
Holds(q, sn) == SnDiff(sn, rcv_nxt[q]) < 0 \/ sn \in DOMAIN rcv_buf[q]

\* Every acknowledgement, pending in acklist or in the network however old,
\* speaks of a segment its sender holds.
TruthfulAcks ==
  \A p \in Peers :
    /\ \A sn \in acklist[p] : Holds(p, sn)
    /\ \A d \in net[p] : /\ SnDiff(d.una, rcv_nxt[p]) <= 0
                         /\ d.kind = "ctl" => \A sn \in d.acks : Holds(p, sn)

\* The queues stay inside the windows the two ends were configured with.
WindowsRespected ==
  \A p \in Peers :
    /\ SnDiff(snd_nxt[p], snd_una[p]) <= SndWnd
    /\ Cardinality(DOMAIN snd_buf[p]) <= SndWnd
    /\ Len(rcv_queue[p]) <= RcvWnd
    /\ Cardinality(DOMAIN rcv_buf[p]) <= RcvWnd

\* A full receive queue holds a whole message: the reader can always open the
\* window again ("must >= max fragment size", ikcp.c:37 and 1237).
FullQueueReadable ==
  \A p \in Peers : Len(rcv_queue[p]) >= RcvWnd => Readable(rcv_queue[p])

\* Late and repeated datagrams never take back what was acknowledged or
\* received.
NeverBackwards ==
  [][\A p \in Peers : /\ SnDiff(snd_una'[p], snd_una[p]) >= 0
                      /\ SnDiff(rcv_nxt'[p], rcv_nxt[p]) >= 0]_vars

\* The connection implements the order part of its abstract specification.
Stream == INSTANCE ReliableStream WITH MaxMsgSegs <- WndRcv - 1
StreamOrder == Stream!StreamSafe

-------------------------------------------------------------------------------
(* Liveness *)

\* Every segment submitted is read in the end (StreamPromise, below), and the
\* sender learns it: no copy is kept, or resent, for ever.
EventuallyAcknowledged ==
  \A p \in Peers : \A i \in 1..MaxSegs[p] :
    Len(sent[p]) >= i ~> \A sn \in DOMAIN snd_buf[p] : snd_buf[p][sn].seg.data > i

\* The abstract specification with its fairness.
StreamPromise == Stream!StreamSpec

===============================================================================
