------------------------------- MODULE KcpRestart -------------------------------
(***************************************************************************)
(* A KCP connection whose server restarts: service/kcpssd.service starts   *)
(* it again five seconds after it failed.  The new process has no control  *)
(* block of the conversation and makes one when the client's next datagram *)
(* arrives (udp.cpp:131-189), with fresh numbers; the client, which        *)
(* nothing tells, goes on with those it had.  A client that restarts takes *)
(* a new conversation number (udp.cpp:37-39) and is another connection.    *)
(*                                                                         *)
(* B is the server.  Positions of sent[B] go on counting, so that births,  *)
(* the positions at which its lives began, says of which life a segment    *)
(* is; delivered[B] starts anew with every life.                           *)
(***************************************************************************)
EXTENDS KcpLink

CONSTANT
  MaxRestarts   \* bound of the model: restarts of the server

VARIABLE births

restartVars == <<vars, births>>

RestartInit == Init /\ births = {1}

\* Mutant of StartsAt: the new block goes on where the old one was.
StartsLate(p) == rcv_nxt[p]

\* The number a control block begins with: ikcp_create sets 0.
StartsAt(p) == FirstSn

(* The end of the process, and ikcp_create in the next one.                *)
Restart ==
  /\ Cardinality(births) <= MaxRestarts
  /\ births' = births \cup {Len(sent[B]) + 1}
  /\ snd_queue' = [snd_queue EXCEPT ![B] = << >>]
  /\ snd_nxt' = [snd_nxt EXCEPT ![B] = FirstSn]
  /\ snd_una' = [snd_una EXCEPT ![B] = FirstSn]
  /\ snd_buf' = [snd_buf EXCEPT ![B] = << >>]
  /\ rmt_wnd' = [rmt_wnd EXCEPT ![B] = WndRcv]
  /\ probe_wait' = [probe_wait EXCEPT ![B] = FALSE]
  /\ rcv_nxt' = [rcv_nxt EXCEPT ![B] = StartsAt(B)]
  /\ rcv_buf' = [rcv_buf EXCEPT ![B] = << >>]
  /\ rcv_queue' = [rcv_queue EXCEPT ![B] = << >>]
  /\ acklist' = [acklist EXCEPT ![B] = {}]
  /\ ask_tell' = [ask_tell EXCEPT ![B] = FALSE]
  /\ delivered' = [delivered EXCEPT ![B] = << >>]
  /\ UNCHANGED <<net, sent>>

RestartNext == (Next /\ UNCHANGED births) \/ Restart

RestartSpec == RestartInit /\ [][RestartNext]_restartVars

-------------------------------------------------------------------------------
(* In every life the server reads the conversation from its first segment  *)
(* or not at all: it never takes it up in the middle, where the header of  *)
(* a session message would be read out of another message's data.          *)
FromTheStart ==
  /\ Len(delivered[B]) <= Len(sent[A])
  /\ \A i \in DOMAIN delivered[B] : delivered[B][i] = sent[A][i]

SameLife(i, j) == \A first \in births : (i >= first) = (j >= first)

(* The client reads no segment twice, and those of one life of the server  *)
(* in the order sent, whatever old datagrams arrive late and whatever      *)
(* numbers two lives share.  It may miss any of them: a segment of a new   *)
(* life with a number of the old one is acknowledged and dropped.          *)
LifeOrder ==
  \A j \in DOMAIN delivered[A] : \A i \in 1..j - 1 :
    LET a == delivered[A][i].data
        b == delivered[A][j].data
    IN  a # b /\ (SameLife(a, b) => a < b)

-------------------------------------------------------------------------------
(* The inductive invariant behind both, for a connection whose numbers do   *)
(* not wrap: every segment, wherever it is kept, has the number it got in   *)
(* the life in which it was submitted.                                      *)

\* Where the lives of p began: a client that restarts is another connection.
Births(p) == IF p = B THEN births ELSE {1}

\* In the last life that began up to position i, i is number sn.
Carries(p, i, sn) ==
  \E b \in Births(p) : i = b + sn /\ \A c \in Births(p) : c <= b \/ c > i

\* seg is what p submitted at its position, and sn its number there.
Genuine(p, sn, seg) ==
  /\ seg.data <= Len(sent[p]) /\ sent[p][seg.data] = seg
  /\ Carries(p, seg.data, sn)

\* b is where the life of p began that still lasts; what it submitted is
\* numbered, or waits in snd_queue for the next numbers.
CurrentLife(p, b) ==
  /\ b \in Births(p) /\ \A c \in Births(p) : c <= b
  /\ b + snd_nxt[p] + Len(snd_queue[p]) = Len(sent[p]) + 1
  /\ \A i \in 1..Len(snd_queue[p]) :
       snd_queue[p][i] = sent[p][b + snd_nxt[p] + i - 1]

SubmittedInv(p) ==
  /\ Len(sent[p]) <= MaxSegs[p]
  /\ \A i \in 1..Len(sent[p]) : sent[p][i].data = i
  /\ \E b \in Births(p) : CurrentLife(p, b)

\* What p keeps for its peer, what is in the network and what the peer keeps.
KeptInv(p) ==
  /\ \A sn \in DOMAIN snd_buf[p] :
       sn < snd_nxt[p] /\ Genuine(p, sn, snd_buf[p][sn].seg)
  /\ \A d \in net[p] : d.kind = "push" => Genuine(p, d.sn, d.seg)
  /\ \A sn \in DOMAIN rcv_buf[Other(p)] : Genuine(p, sn, rcv_buf[Other(p)][sn])

\* The peer has read number 0, 1, ... of p, of whichever life each was.
ReadInv(p) ==
  LET got == delivered[Other(p)]
      queue == rcv_queue[Other(p)]
  IN  /\ Len(got) + Len(queue) = rcv_nxt[Other(p)] /\ Len(queue) <= RcvWnd
      /\ \A i \in 1..Len(got) : Genuine(p, i - 1, got[i])
      /\ \A i \in 1..Len(queue) : Genuine(p, Len(got) + i - 1, queue[i])

LifeInv ==
  /\ 1 \in births /\ births \subseteq 1..(Len(sent[B]) + 1)
  /\ \A p \in Peers : SubmittedInv(p) /\ KeptInv(p) /\ ReadInv(p)

================================================================================
