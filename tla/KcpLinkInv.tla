------------------------------ MODULE KcpLinkInv ------------------------------
(***************************************************************************)
(* The inductive invariant behind the safety properties of KcpLink, for a   *)
(* connection that has not used up half of the sequence numbers: until then *)
(* serial arithmetic is arithmetic, and a datagram of any age is told from *)
(* a new one.  Checked by TLC with the runs, proved in KcpLinkProofs.       *)
(***************************************************************************)
EXTENDS KcpLink

\* The connection is new and ends before its numbers are half used.
NoWrap ==
  /\ FirstSn = 0
  /\ \A p \in Peers : MaxSegs[p] + SndWnd + RcvWnd < SnMod \div 2

\* sent[p] is numbered and made of whole messages.
WholeMessages(p) ==
  \A i \in 1..Len(sent[p]) :
    /\ sent[p][i].data = i
    /\ i + sent[p][i].frg <= Len(sent[p])
    /\ \A j \in 0..sent[p][i].frg : sent[p][i + j].frg = sent[p][i].frg - j

\* snd_nxt[p] segments of sent[p] are numbered, the others are in snd_queue.
QueueInv(p) ==
  /\ Len(sent[p]) <= MaxSegs[p]
  /\ snd_nxt[p] + Len(snd_queue[p]) = Len(sent[p])
  /\ \A i \in 1..Len(snd_queue[p]) : snd_queue[p][i] = sent[p][snd_nxt[p] + i]

\* snd_buf holds segments of the stream under their own numbers, none of them
\* before snd_una, and no more than a window of them.
SndBufInv(p) ==
  /\ snd_una[p] <= snd_nxt[p]
  /\ snd_nxt[p] <= snd_una[p] + SndWnd
  /\ \A sn \in DOMAIN snd_buf[p] :
       /\ snd_una[p] <= sn /\ sn < snd_nxt[p]
       /\ snd_buf[p][sn].seg = sent[p][sn + 1]

\* The same of rcv_buf: numbered segments of the peer, inside the window.
RcvBufInv(p) ==
  /\ rcv_nxt[p] <= snd_nxt[Other(p)]
  /\ \A sn \in DOMAIN rcv_buf[p] :
       /\ rcv_nxt[p] <= sn /\ sn < snd_nxt[Other(p)] /\ sn < rcv_nxt[p] + RcvWnd
       /\ rcv_buf[p][sn] = sent[Other(p)][sn + 1]

\* What was read and what waits to be read are the first rcv_nxt segments of
\* the peer, cut between two messages.
RcvQueueInv(p) ==
  /\ Len(delivered[p]) + Len(rcv_queue[p]) = rcv_nxt[p]
  /\ Len(rcv_queue[p]) <= RcvWnd
  /\ \A i \in 1..Len(delivered[p]) : delivered[p][i] = sent[Other(p)][i]
  /\ \A i \in 1..Len(rcv_queue[p]) :
       rcv_queue[p][i] = sent[Other(p)][Len(delivered[p]) + i]
  /\ delivered[p] # <<>> => delivered[p][Len(delivered[p])].frg = 0

\* p has segment number sn of its peer, or had it and passed it on.
Has(p, sn) == sn < rcv_nxt[p] \/ sn \in DOMAIN rcv_buf[p]

\* A numbered segment is with the sender or with the receiver.
CopyInv(p) ==
  \A sn \in 0..(snd_nxt[p] - 1) : sn \in DOMAIN snd_buf[p] \/ Has(Other(p), sn)

\* Acknowledgements are true and data is genuine, in every datagram.
NetInv(p) ==
  /\ \A sn \in acklist[p] : Has(p, sn)
  /\ \A d \in net[p] :
       /\ d.una <= rcv_nxt[p]
       /\ d.kind = "ctl" => \A sn \in d.acks : Has(p, sn)
       /\ d.kind = "push" => d.sn < snd_nxt[p] /\ d.seg = sent[p][d.sn + 1]

LinkInv ==
  \A p \in Peers :
    /\ WholeMessages(p) /\ QueueInv(p) /\ SndBufInv(p)
    /\ RcvBufInv(p) /\ RcvQueueInv(p) /\ CopyInv(p) /\ NetInv(p)
===============================================================================
