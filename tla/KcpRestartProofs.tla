--------------------------- MODULE KcpRestartProofs ---------------------------
(***************************************************************************)
(* Proofs about KcpRestart, for every value of its constants under NoWrap: *)
(* its type invariant, the inductive invariant LifeInv, and what follows   *)
(* from it for the readers at the two ends, however often the server is    *)
(* restarted and whatever the network does to datagrams of former lives.   *)
(***************************************************************************)
EXTENDS KcpRestart, KcpLinkProofs

RInv == TypeOK /\ LifeInv

-------------------------------------------------------------------------------
(* Lives and numbers *)

\* Every peer has a first life, and no life begins beyond the next segment.
LEMMA BirthFacts ==
  ASSUME RInv, NEW p \in Peers
  PROVE  /\ 1 \in Births(p) /\ Births(p) \subseteq Nat \ {0}
         /\ \A b \in Births(p) : b <= Len(sent[p]) + 1
         /\ Len(sent[p]) \in Nat
<1>1. sent[p] \in Seq(Segment)
  BY DEF RInv, TypeOK
<1>2. Len(sent[p]) \in Nat
  BY <1>1
<1>3. CASE p = B
  BY <1>2, <1>3 DEF RInv, LifeInv, Births
<1>4. CASE p # B
  BY <1>2, <1>4 DEF Births
<1>. QED BY <1>2, <1>3, <1>4

\* A genuine segment has a number below the count of those submitted.
LEMMA GenuineFacts ==
  ASSUME RInv, NEW p \in Peers, NEW sn \in Int, NEW seg \in Segment,
         Genuine(p, sn, seg)
  PROVE  sn < Len(sent[p]) /\ seg.data \in 1..Len(sent[p])
<1>1. PICK b \in Births(p) : seg.data = b + sn
  BY DEF Genuine, Carries
<1>2. b \in Nat \ {0} /\ Len(sent[p]) \in Nat
  BY BirthFacts
<1>3. seg.data \in Nat \ {0} /\ seg.data <= Len(sent[p])
  BY DEF Genuine, Segment
<1>. QED BY <1>1, <1>2, <1>3

\* Submitting more, and lives that begin afterwards, change no number.
LEMMA GenuineKept ==
  ASSUME RInv, NEW p \in Peers, Len(sent'[p]) \in Nat, Len(sent[p]) <= Len(sent'[p]),
         \A i \in 1..Len(sent[p]) : sent'[p][i] = sent[p][i],
         births \subseteq births',
         \A c \in births' \ births : c \in Nat /\ c > Len(sent[B]),
         NEW sn \in Int, NEW seg \in Segment, Genuine(p, sn, seg)
  PROVE  Genuine(p, sn, seg)'
<1>1. Len(sent[p]) \in Nat /\ Births(p) \subseteq Nat
  BY BirthFacts
<1>2. seg.data \in 1..Len(sent[p]) /\ sent[p][seg.data] = seg
  BY GenuineFacts DEF Genuine
<1>3. seg.data <= Len(sent'[p]) /\ sent'[p][seg.data] = seg
  BY <1>1, <1>2
<1>4. PICK b \in Births(p) :
        seg.data = b + sn /\ \A c \in Births(p) : c <= b \/ c > seg.data
  BY DEF Genuine, Carries
<1>5. Births(p) \subseteq Births(p)' /\ \A c \in Births(p)' : c \in Births(p) \/ c > seg.data
  <2>1. CASE p = B
    BY <2>1, <1>1, <1>2 DEF Births
  <2>2. CASE p # B
    BY <2>2 DEF Births
  <2>. QED BY <2>1, <2>2
<1>6. Carries(p, seg.data, sn)'
  BY <1>4, <1>5 DEF Carries
<1>. QED BY <1>3, <1>6 DEF Genuine

\* Every number in use, plus a window, stays below the wrap.
LEMMA LifeRanges ==
  ASSUME NoWrap, RInv, NEW p \in Peers
  PROVE  /\ SnMod \div 2 \in Nat /\ SnMod \div 2 <= SnMod /\ SnMod \in Nat
         /\ RcvWnd \in Nat /\ MaxSegs[p] \in Nat
         /\ Len(sent[p]) \in Nat /\ Len(sent[p]) <= MaxSegs[p]
         /\ snd_nxt[p] \in Nat /\ Len(snd_queue[p]) \in Nat
         /\ snd_nxt[p] + Len(snd_queue[p]) <= Len(sent[p])
         /\ snd_nxt[p] + Len(snd_queue[p]) < SnMod \div 2
         /\ rcv_nxt[p] \in Nat /\ rcv_nxt[p] + RcvWnd < SnMod \div 2
<1>. DEFINE q == Other(p)
            half == SnMod \div 2
<1>1. SnMod \in Nat /\ half \in Nat /\ half <= SnMod
  BY SerialAssumption
<1>2. RcvWnd \in Nat /\ SndWnd \in Nat /\ q \in Peers /\ Other(q) = p
  BY WindowAssumption, RcvWndFacts, PeerFacts
<1>3. ASSUME NEW r \in Peers
      PROVE  /\ MaxSegs[r] \in Nat /\ snd_nxt[r] \in Nat /\ rcv_nxt[r] \in Nat
             /\ Len(sent[r]) \in Nat /\ Len(snd_queue[r]) \in Nat
             /\ rcv_queue[r] \in Seq(Segment) /\ delivered[r] \in Seq(Segment)
             /\ Len(rcv_queue[r]) \in Nat /\ Len(delivered[r]) \in Nat
             /\ Len(sent[r]) <= MaxSegs[r] /\ MaxSegs[r] + SndWnd + RcvWnd < half
  <2>1. /\ snd_nxt[r] \in Sn /\ rcv_nxt[r] \in Sn
        /\ snd_queue[r] \in Seq(Segment) /\ rcv_queue[r] \in Seq(Segment)
        /\ delivered[r] \in Seq(Segment) /\ sent[r] \in Seq(Segment)
    BY DEF RInv, TypeOK
  <2>2. snd_nxt[r] \in Nat /\ rcv_nxt[r] \in Nat
    BY <2>1 DEF Sn
  <2>3. \A s \in Seq(Segment) : Len(s) \in Nat
    OBVIOUS
  <2>4. MaxSegs[r] \in Nat /\ Len(sent[r]) <= MaxSegs[r]
    BY BoundAssumption DEF RInv, LifeInv, SubmittedInv
  <2>. QED BY <2>1, <2>2, <2>3, <2>4 DEF NoWrap
<1>4. snd_nxt[p] + Len(snd_queue[p]) <= Len(sent[p])
  <2>1. PICK b \in Births(p) : CurrentLife(p, b)
    BY DEF RInv, LifeInv, SubmittedInv
  <2>2. b \in Nat \ {0}
    BY BirthFacts
  <2>. QED BY <2>1, <2>2, <1>3 DEF CurrentLife
<1>5. rcv_nxt[p] <= Len(sent[q])
  <2>. DEFINE got == delivered[p]
              queue == rcv_queue[p]
  <2>1. /\ Len(got) + Len(queue) = rcv_nxt[p]
        /\ \A i \in 1..Len(got) : Genuine(q, i - 1, got[i])
        /\ \A i \in 1..Len(queue) : Genuine(q, Len(got) + i - 1, queue[i])
    BY <1>2 DEF RInv, LifeInv, ReadInv
  <2>2. /\ Len(got) \in Nat /\ Len(queue) \in Nat /\ Len(sent[q]) \in Nat
        /\ got \in Seq(Segment) /\ queue \in Seq(Segment)
    BY <1>2, <1>3
  <2>3. /\ Len(got) + Len(queue) = rcv_nxt[p]
        /\ Len(got) \in Nat /\ Len(queue) \in Nat /\ Len(sent[q]) \in Nat
    BY <2>1, <2>2
  <2>4. CASE Len(queue) > 0
    <3>1. Len(queue) \in 1..Len(queue) /\ queue[Len(queue)] \in Segment
      BY <2>2, <2>4
    <3>2. Genuine(q, Len(got) + Len(queue) - 1, queue[Len(queue)])
      BY <2>1, <3>1
    <3>3. Len(got) + Len(queue) - 1 \in Int
      BY <2>2
    <3>. HIDE DEF got, queue, q
    <3>4. Len(got) + Len(queue) - 1 < Len(sent[q])
      BY <3>1, <3>2, <3>3, <1>2, GenuineFacts
    <3>. QED BY <2>3, <3>4
  <2>5. CASE Len(queue) = 0 /\ Len(got) > 0
    <3>1. Len(got) \in 1..Len(got) /\ got[Len(got)] \in Segment
      BY <2>2, <2>5
    <3>2. Genuine(q, Len(got) - 1, got[Len(got)])
      BY <2>1, <3>1
    <3>3. Len(got) - 1 \in Int
      BY <2>2
    <3>. HIDE DEF got, queue, q
    <3>4. Len(got) - 1 < Len(sent[q])
      BY <3>1, <3>2, <3>3, <1>2, GenuineFacts
    <3>. QED BY <2>3, <2>5, <3>4
  <2>6. CASE Len(queue) = 0 /\ Len(got) = 0
    BY <2>1, <2>2, <2>6
  <2>. QED BY <2>2, <2>4, <2>5, <2>6
<1>6. /\ Len(sent[q]) \in Nat /\ Len(sent[q]) <= MaxSegs[q] /\ MaxSegs[q] \in Nat
      /\ MaxSegs[q] + SndWnd + RcvWnd < half
  BY <1>2, <1>3
<1>7. /\ Len(sent[p]) \in Nat /\ Len(sent[p]) <= MaxSegs[p] /\ MaxSegs[p] \in Nat
      /\ MaxSegs[p] + SndWnd + RcvWnd < half
      /\ snd_nxt[p] \in Nat /\ Len(snd_queue[p]) \in Nat /\ rcv_nxt[p] \in Nat
  BY <1>3
<1>. HIDE DEF half, q
<1>8. snd_nxt[p] + Len(snd_queue[p]) < half
  BY <1>1, <1>2, <1>4, <1>7
<1>9. rcv_nxt[p] + RcvWnd < half
  BY <1>1, <1>2, <1>5, <1>6, <1>7
<1>. QED BY <1>1, <1>2, <1>4, <1>7, <1>8, <1>9 DEF half

\* What a step leaves alone keeps its part of the invariant.
LEMMA LifeKept ==
  ASSUME RInv, NEW p \in Peers, UNCHANGED <<sent, births>>
  PROVE  /\ \A sn, seg : Genuine(p, sn, seg)' = Genuine(p, sn, seg)
         /\ UNCHANGED <<snd_queue[p], snd_nxt[p]>> => SubmittedInv(p)'
         /\ (1 \in births /\ births \subseteq 1..(Len(sent[B]) + 1))'
<1>1. /\ \A sn, i : Carries(p, i, sn)' = Carries(p, i, sn)
      /\ Births(p)' = Births(p)
  BY DEF Carries, Births
<1>2. \A sn, seg : Genuine(p, sn, seg)' = Genuine(p, sn, seg)
  BY <1>1 DEF Genuine
<1>3. ASSUME UNCHANGED <<snd_queue[p], snd_nxt[p]>> PROVE SubmittedInv(p)'
  BY <1>1, <1>3 DEF RInv, LifeInv, SubmittedInv, CurrentLife
<1>. QED BY <1>2, <1>3 DEF RInv, LifeInv

\* In a step of p, whatever had number sn there still has it.
StaysGenuine(p) ==
  \A sn \in Int, seg \in Segment : Genuine(p, sn, seg) => Genuine(p, sn, seg)'

\* Where neither the reader nor its queue moves, all that was read is genuine.
LEMMA ReadKept ==
  ASSUME RInv, NEW p \in Peers, StaysGenuine(p),
         UNCHANGED <<rcv_nxt[Other(p)], rcv_queue[Other(p)], delivered[Other(p)]>>
  PROVE  ReadInv(p)'
<1>. DEFINE got == delivered[Other(p)]
            queue == rcv_queue[Other(p)]
<1>1. got \in Seq(Segment) /\ queue \in Seq(Segment)
  BY PeerFacts DEF RInv, TypeOK
<1>2. ReadInv(p)
  BY DEF RInv, LifeInv
<1>3. ASSUME NEW i \in 1..Len(got) PROVE Genuine(p, i - 1, got[i])'
  <2>1. got[i] \in Segment /\ i - 1 \in Int
    BY <1>1
  <2>2. Genuine(p, i - 1, got[i])
    BY <1>2 DEF ReadInv
  <2>. QED BY <2>1, <2>2 DEF StaysGenuine
<1>4. ASSUME NEW i \in 1..Len(queue) PROVE Genuine(p, Len(got) + i - 1, queue[i])'
  <2>1. queue[i] \in Segment /\ Len(got) + i - 1 \in Int
    <3>1. Len(got) \in Nat /\ queue[i] \in Segment
      BY <1>1
    <3>. QED BY <3>1
  <2>2. Genuine(p, Len(got) + i - 1, queue[i])
    BY <1>2 DEF ReadInv
  <2>. QED BY <2>1, <2>2 DEF StaysGenuine
<1>. QED BY <1>2, <1>3, <1>4 DEF ReadInv

\* Every copy of a genuine segment stays one, wherever the step leaves it.
LEMMA CopiesKept ==
  ASSUME RInv, NEW p \in Peers, StaysGenuine(p), NEW sn, NEW seg,
         \/ sn \in DOMAIN snd_buf[p] /\ seg = snd_buf[p][sn].seg
         \/ sn \in DOMAIN rcv_buf[Other(p)] /\ seg = rcv_buf[Other(p)][sn]
         \/ \E d \in net[p] : d.kind = "push" /\ sn = d.sn /\ seg = d.seg
  PROVE  Genuine(p, sn, seg)'
<1>. DEFINE q == Other(p)
<1>1. /\ q \in Peers /\ \A n \in Sn : n \in Int
      /\ DOMAIN snd_buf[p] \subseteq Sn /\ DOMAIN rcv_buf[q] \subseteq Sn
      /\ snd_buf[p] \in [DOMAIN snd_buf[p] -> Outgoing]
      /\ rcv_buf[q] \in [DOMAIN rcv_buf[q] -> Segment]
      /\ net[p] \subseteq Push \cup Ctl
  <2>1. q \in Peers /\ \A n \in Sn : n \in Int
    BY PeerFacts DEF Sn
  <2>2. /\ DOMAIN snd_buf[p] \subseteq Sn /\ DOMAIN rcv_buf[q] \subseteq Sn
        /\ snd_buf[p] \in [DOMAIN snd_buf[p] -> Outgoing]
        /\ rcv_buf[q] \in [DOMAIN rcv_buf[q] -> Segment]
    BY <2>1 DEF RInv, TypeOK
  <2>3. net[p] \subseteq Push \cup Ctl
    BY DEF RInv, TypeOK
  <2>. QED BY <2>1, <2>2, <2>3
<1>2. KeptInv(p)
  BY DEF RInv, LifeInv
<1>3. sn \in Int /\ seg \in Segment /\ Genuine(p, sn, seg)
  <2>1. CASE sn \in DOMAIN snd_buf[p] /\ seg = snd_buf[p][sn].seg
    BY <2>1, <1>1, <1>2 DEF KeptInv, Outgoing
  <2>2. CASE sn \in DOMAIN rcv_buf[q] /\ seg = rcv_buf[q][sn]
    BY <2>2, <1>1, <1>2 DEF KeptInv
  <2>3. ASSUME NEW d \in net[p], d.kind = "push", sn = d.sn, seg = d.seg
        PROVE  sn \in Int /\ seg \in Segment /\ Genuine(p, sn, seg)
    BY <2>3, <1>1, <1>2 DEF KeptInv, Push, Ctl
  <2>. QED BY <2>1, <2>2, <2>3
<1>. QED BY <1>3 DEF StaysGenuine

\* What MoveAvailable makes of a buffer and a queue of genuine segments.  read
\* is how many segments were handed to the reader.
LEMMA TakenIn ==
  ASSUME NoWrap, RInv, NEW p \in Peers,
         NEW buf, NEW queue \in Seq(Segment), NEW read \in Nat,
         MoveAvailable(p, buf, queue),
         DOMAIN buf \subseteq Sn, buf \in [DOMAIN buf -> Segment],
         \A sn \in DOMAIN buf : Genuine(Other(p), sn, buf[sn]),
         read + Len(queue) = rcv_nxt[p], Len(queue) <= RcvWnd,
         \A i \in 1..Len(queue) : Genuine(Other(p), read + i - 1, queue[i])
  PROVE  /\ rcv_nxt' \in [Peers -> Sn]
         /\ rcv_queue' \in [Peers -> Seq(Segment)]
         /\ DOMAIN rcv_buf' = Peers
         /\ DOMAIN rcv_buf'[p] \subseteq Sn
         /\ rcv_buf'[p] \in [DOMAIN rcv_buf'[p] -> Segment]
         /\ \A r \in Peers \ {p} : /\ rcv_nxt'[r] = rcv_nxt[r]
                                   /\ rcv_buf'[r] = rcv_buf[r]
                                   /\ rcv_queue'[r] = rcv_queue[r]
         /\ \A sn \in DOMAIN rcv_buf'[p] : Genuine(Other(p), sn, rcv_buf'[p][sn])
         /\ read + Len(rcv_queue'[p]) = rcv_nxt'[p]
         /\ Len(rcv_queue'[p]) <= RcvWnd
         /\ \A i \in 1..Len(rcv_queue'[p]) :
              Genuine(Other(p), read + i - 1, rcv_queue'[p][i])
<1>. DEFINE nxt == rcv_nxt[p]
            q == Other(p)
            n == Len(queue)
<1>1. /\ nxt \in Nat /\ RcvWnd \in Nat /\ SnMod \in Nat /\ n \in Nat
      /\ nxt + RcvWnd < SnMod
  <2>1. /\ SnMod \div 2 \in Nat /\ SnMod \div 2 <= SnMod /\ SnMod \in Nat
        /\ RcvWnd \in Nat /\ nxt \in Nat /\ nxt + RcvWnd < SnMod \div 2
    BY LifeRanges
  <2>2. n \in Nat
    OBVIOUS
  <2>. QED BY <2>1, <2>2
<1>2. /\ DOMAIN rcv_nxt = Peers /\ DOMAIN rcv_queue = Peers /\ DOMAIN rcv_buf = Peers
      /\ rcv_nxt \in [Peers -> Sn] /\ rcv_queue \in [Peers -> Seq(Segment)]
  BY DEF RInv, TypeOK
<1>3. PICK k \in 0..(RcvWnd - n) : Moved(p, buf, queue, k)
  BY <1>1, <1>2, MoveFacts
<1>4. LET run == nxt..(nxt + k - 1)
      IN  /\ run \subseteq DOMAIN buf
          /\ rcv_nxt' = [rcv_nxt EXCEPT ![p] = nxt + k]
          /\ DOMAIN rcv_queue' = Peers /\ DOMAIN rcv_buf' = Peers
          /\ \A r \in Peers \ {p} : /\ rcv_queue'[r] = rcv_queue[r]
                                    /\ rcv_buf'[r] = rcv_buf[r]
          /\ rcv_queue'[p] \in Seq(Segment)
          /\ Len(rcv_queue'[p]) = n + k
          /\ \A i \in 1..n : rcv_queue'[p][i] = queue[i]
          /\ \A i \in 1..k : rcv_queue'[p][n + i] = buf[nxt + i - 1]
          /\ DOMAIN rcv_buf'[p] = DOMAIN buf \ run
          /\ rcv_buf'[p] \in [DOMAIN rcv_buf'[p] -> Segment]
          /\ \A sn \in DOMAIN rcv_buf'[p] : rcv_buf'[p][sn] = buf[sn]
  BY <1>3 DEF Moved
<1>5. /\ n \in Nat /\ k \in Nat /\ n + k <= RcvWnd /\ read + n = nxt
      /\ nxt \in Nat /\ RcvWnd \in Nat /\ SnMod \in Nat /\ nxt + RcvWnd < SnMod
  BY <1>1
<1>6. \A sn \in DOMAIN buf : Genuine(q, sn, buf[sn])
  OBVIOUS
<1>7. \A i \in 1..n : Genuine(q, read + i - 1, queue[i])
  OBVIOUS
<1>. HIDE DEF n, nxt, q
<1>8. nxt + k \in Sn
  BY <1>5 DEF Sn
<1>9. rcv_nxt' \in [Peers -> Sn] /\ rcv_nxt'[p] = nxt + k
      /\ \A r \in Peers \ {p} : rcv_nxt'[r] = rcv_nxt[r]
  BY <1>2, <1>4, <1>8 DEF nxt
<1>10. rcv_queue' \in [Peers -> Seq(Segment)]
  <2>1. \E v : rcv_queue' = [rcv_queue EXCEPT ![p] = v]
    BY DEF MoveAvailable
  <2>. QED BY <2>1, <1>2, <1>4
<1>11. ASSUME NEW i \in 1..(n + k) PROVE Genuine(q, read + i - 1, rcv_queue'[p][i])
  <2>1. CASE i <= n
    <3>1. i \in 1..n
      BY <2>1, <1>5
    <3>. QED BY <3>1, <1>4, <1>7
  <2>2. CASE i > n
    <3>1. PICK j \in 1..k : i = n + j
      <4>1. i - n \in 1..k /\ i = n + (i - n)
        BY <2>2, <1>5
      <4>. QED BY <4>1
    <3>. DEFINE sn == nxt + j - 1
    <3>2. sn \in nxt..(nxt + k - 1) /\ sn = read + i - 1
      <4>1. j \in Nat /\ 1 <= j /\ j <= k /\ read \in Nat
        BY <1>5
      <4>2. sn \in nxt..(nxt + k - 1)
        <5>1. nxt \in Nat /\ k \in Nat
          BY <1>5
        <5>. QED BY <4>1, <5>1
      <4>3. sn = read + i - 1
        BY <4>1, <3>1, <1>5
      <4>. QED BY <4>2, <4>3
    <3>3. rcv_queue'[p][i] = buf[sn] /\ sn \in DOMAIN buf
      BY <3>1, <3>2, <1>4
    <3>. HIDE DEF sn
    <3>. QED BY <3>2, <3>3, <1>6
  <2>. QED BY <2>1, <2>2, <1>5
<1>12. \A sn \in DOMAIN rcv_buf'[p] : sn \in Sn /\ Genuine(q, sn, rcv_buf'[p][sn])
  BY <1>4, <1>6
<1>13. read + Len(rcv_queue'[p]) = rcv_nxt'[p] /\ Len(rcv_queue'[p]) <= RcvWnd
  <2>1. Len(rcv_queue'[p]) = n + k
    BY <1>4
  <2>2. read + (n + k) = nxt + k
    BY <1>5
  <2>. QED BY <2>1, <2>2, <1>5, <1>9
<1>14. Len(rcv_queue'[p]) = n + k
  BY <1>4
<1>. QED BY <1>4, <1>9, <1>10, <1>11, <1>12, <1>13, <1>14 DEF q

\* A step that submits nothing and restarts nothing.
LEMMA StillGenuine ==
  ASSUME RInv, NEW p \in Peers, UNCHANGED <<sent, births>>
  PROVE  StaysGenuine(p)
BY LifeKept DEF StaysGenuine

-------------------------------------------------------------------------------
(* One lemma per action *)

\* ikcp_send keeps the invariant.
LEMMA SendLife ==
  ASSUME NoWrap, RInv, NEW p \in Peers, NEW count \in Nat \ {0}, Send(p, count),
         UNCHANGED births
  PROVE  RInv'
<1>. DEFINE new == Fragments(Len(sent[p]) + 1, count)
            q == Other(p)
            n == Len(sent[p])
            m == Len(snd_queue[p])
            nxt == snd_nxt[p]
<1>1. /\ count < WndRcv /\ Len(sent[p]) + count <= MaxSegs[p]
      /\ snd_queue' = [snd_queue EXCEPT ![p] = @ \o new]
      /\ sent' = [sent EXCEPT ![p] = @ \o new]
      /\ UNCHANGED <<snd_nxt, snd_una, snd_buf, rmt_wnd, probe_wait, rcv_nxt,
                     rcv_buf, rcv_queue, acklist, ask_tell, net, delivered>>
  BY DEF Send, rcvVars, sigVars
<1>2. /\ snd_queue \in [Peers -> Seq(Segment)] /\ sent \in [Peers -> Seq(Segment)]
      /\ q \in Peers /\ q # p /\ \A r \in Peers : r = p \/ r = q
  BY PeerFacts DEF RInv, TypeOK
<1>3. /\ new \in Seq(Segment) /\ Len(new) = count
      /\ \A i \in 1..count : new[i] = [frg |-> count - i, data |-> n + i]
      /\ sent[p] \o new \in Seq(Segment)
      /\ Len(sent[p] \o new) = n + count
      /\ \A i \in 1..n : (sent[p] \o new)[i] = sent[p][i]
      /\ \A i \in 1..count : (sent[p] \o new)[n + i] = new[i]
  BY <1>1, <1>2, SendFacts
<1>. HIDE DEF new
<1>4. TypeOK'
  <2>1. snd_queue[p] \o new \in Seq(Segment)
    BY <1>2, <1>3
  <2>. QED BY <1>1, <1>2, <1>3, <2>1 DEF RInv, TypeOK
<1>5. ASSUME NEW r \in Peers
      PROVE  /\ Len(sent'[r]) \in Nat /\ Len(sent[r]) \in Nat /\ Len(sent[r]) <= Len(sent'[r])
             /\ \A i \in 1..Len(sent[r]) : sent'[r][i] = sent[r][i]
  BY <1>1, <1>2, <1>3
<1>6. ASSUME NEW r \in Peers PROVE StaysGenuine(r)
  BY <1>5, GenuineKept DEF StaysGenuine
<1>7. ASSUME NEW r \in Peers PROVE KeptInv(r)' /\ ReadInv(r)'
  <2>1. KeptInv(r)'
    <3>1. KeptInv(r)
      BY DEF RInv, LifeInv
    <3>. QED BY <3>1, <1>1, <1>6, CopiesKept DEF KeptInv
  <2>2. ReadInv(r)'
    BY <1>1, <1>6, ReadKept
  <2>. QED BY <2>1, <2>2
<1>8. SubmittedInv(q)'
  <2>1. SubmittedInv(q) /\ sent'[q] = sent[q] /\ snd_queue'[q] = snd_queue[q]
    BY <1>1, <1>2 DEF RInv, LifeInv
  <2>. QED BY <2>1, <1>1 DEF SubmittedInv, CurrentLife, Births
<1>9. SubmittedInv(p)'
  <2>1. /\ sent'[p] = sent[p] \o new /\ snd_queue'[p] = snd_queue[p] \o new
        /\ n \in Nat /\ m \in Nat /\ nxt \in Nat /\ count \in Nat
        /\ Len(sent'[p]) = n + count
        /\ \A i \in 1..n : sent'[p][i] = sent[p][i]
        /\ \A i \in 1..count : sent'[p][n + i] = new[i]
    BY <1>1, <1>2, <1>3, LifeRanges
  <2>2. /\ Len(snd_queue'[p]) = m + count
        /\ \A i \in 1..(m + count) : snd_queue'[p][i] =
              IF i <= m THEN snd_queue[p][i] ELSE new[i - m]
    <3>1. snd_queue[p] \in Seq(Segment)
      BY <1>2
    <3>2. /\ Len(snd_queue[p] \o new) = Len(snd_queue[p]) + Len(new)
          /\ \A i \in 1..(Len(snd_queue[p]) + Len(new)) : (snd_queue[p] \o new)[i] =
               IF i <= Len(snd_queue[p]) THEN snd_queue[p][i]
               ELSE new[i - Len(snd_queue[p])]
      BY <3>1, <1>3, ConcatProperties
    <3>. QED BY <3>2, <2>1, <1>3
  <2>3. SubmittedInv(p)
    BY DEF RInv, LifeInv
  <2>4. PICK b \in Births(p) : CurrentLife(p, b)
    BY <2>3 DEF SubmittedInv
  <2>5. b \in Nat \ {0} /\ b + nxt + m = n + 1
        /\ \A i \in 1..m : snd_queue[p][i] = sent[p][b + nxt + i - 1]
    BY <2>4, BirthFacts DEF CurrentLife
  <2>6. n + count <= MaxSegs[p] /\ \A i \in 1..n : sent[p][i].data = i
    BY <1>1, <2>3 DEF SubmittedInv
  <2>7. snd_nxt'[p] = nxt /\ Births(p)' = Births(p)
    BY <1>1 DEF Births
  <2>. HIDE DEF n, m, nxt
  <2>8. ASSUME NEW i \in 1..(n + count) PROVE sent'[p][i].data = i
    <3>1. CASE i <= n
      <4>1. i \in 1..n
        BY <3>1, <2>1
      <4>. QED BY <4>1, <2>1, <2>6
    <3>2. CASE i > n
      <4>1. PICK j \in 1..count : i = n + j
        <5>1. i - n \in 1..count /\ i = n + (i - n)
          BY <3>2, <2>1
        <5>. QED BY <5>1
      <4>. QED BY <4>1, <2>1, <1>3 DEF n
    <3>. QED BY <3>1, <3>2, <2>1
  <2>9. ASSUME NEW i \in 1..(m + count)
        PROVE  snd_queue'[p][i] = sent'[p][b + nxt + i - 1]
    <3>0. /\ b + nxt + m = n + 1 /\ b \in Nat \ {0} /\ nxt \in Nat /\ m \in Nat
          /\ n \in Nat /\ count \in Nat
      BY <2>1, <2>5
    <3>1. CASE i <= m
      <4>1. i \in 1..m /\ b + nxt + i - 1 \in 1..n
        BY <3>0, <3>1
      <4>. QED BY <3>1, <4>1, <2>1, <2>2, <2>5
    <3>2. CASE i > m
      <4>1. PICK j \in 1..count : i = m + j
        <5>1. i - m \in 1..count /\ i = m + (i - m)
          BY <3>0, <3>2
        <5>. QED BY <5>1
      <4>2. i - m = j /\ b + nxt + i - 1 = n + j /\ ~(i <= m)
        BY <3>0, <3>2, <4>1
      <4>3. snd_queue'[p][i] = new[j]
        BY <4>2, <2>2
      <4>4. sent'[p][n + j] = new[j]
        BY <2>1
      <4>. QED BY <4>2, <4>3, <4>4
    <3>3. i <= m \/ i > m
      BY <3>0
    <3>. QED BY <3>1, <3>2, <3>3
  <2>10. b + nxt + (m + count) = (n + count) + 1
    <3>1. /\ b + nxt + m = n + 1 /\ b \in Nat /\ nxt \in Nat /\ m \in Nat
          /\ n \in Nat /\ count \in Nat
      BY <2>1, <2>5
    <3>. QED BY <3>1
  <2>11. CurrentLife(p, b)'
    BY <2>1, <2>2, <2>4, <2>7, <2>9, <2>10 DEF CurrentLife
  <2>. QED BY <2>1, <2>4, <2>6, <2>7, <2>8, <2>11 DEF SubmittedInv
<1>10. 1 \in births' /\ births' \subseteq 1..(Len(sent'[B]) + 1)
  <2>1. 1 \in births /\ births \subseteq 1..(Len(sent[B]) + 1) /\ B \in Peers
    BY DEF RInv, LifeInv, Peers
  <2>. QED BY <2>1, <1>5
<1>. QED BY <1>2, <1>4, <1>7, <1>8, <1>9, <1>10 DEF RInv, LifeInv

\* The head of a readable queue that ikcp_recv takes is not empty, nor longer
\* than the queue.
LEMMA TakenFacts ==
  ASSUME NEW queue \in Seq(Segment), Readable(queue)
  PROVE  MsgLen(queue) \in 1..Len(queue)
<1>. DEFINE ends == {i \in 1..Len(queue) : queue[i].frg = 0 \/ i = Len(queue)}
<1>1. Len(queue) \in 1..Len(queue)
  BY EmptySeq DEF Readable
<1>2. ends \in SUBSET Nat /\ Len(queue) \in ends
  BY <1>1
<1>3. MsgLen(queue) \in ends
  BY <1>2, MinFacts DEF MsgLen
<1>. QED BY <1>3

\* ikcp_recv keeps the invariant.
LEMMA RecvLife ==
  ASSUME NoWrap, RInv, NEW p \in Peers, Recv(p), UNCHANGED births
  PROVE  RInv'
<1>. DEFINE q == Other(p)
            queue == rcv_queue[p]
            read == Len(delivered[p])
            n == MsgLen(queue)
            head == SubSeq(queue, 1, n)
            rest == SubSeq(queue, n + 1, Len(queue))
<1>1. /\ Readable(rcv_queue[p])
      /\ delivered' = [delivered EXCEPT ![p] = @ \o head]
      /\ MoveAvailable(p, rcv_buf[p], rest)
      /\ ask_tell' = [ask_tell EXCEPT
           ![p] = @ \/ FastRecover(Len(queue), Len(rcv_queue'[p]))]
      /\ UNCHANGED <<snd_queue, snd_nxt, snd_una, snd_buf, rmt_wnd, probe_wait,
                     acklist, net, sent>>
  BY DEF Recv, sndVars
<1>2. /\ queue \in Seq(Segment) /\ delivered \in [Peers -> Seq(Segment)]
      /\ delivered[p] \in Seq(Segment)
      /\ Len(queue) \in Nat /\ read \in Nat /\ q \in Peers /\ Other(q) = p
      /\ q # p /\ \A r \in Peers : r = p \/ r = q
      /\ DOMAIN rcv_buf[p] \subseteq Sn /\ rcv_buf[p] \in [DOMAIN rcv_buf[p] -> Segment]
  BY PeerFacts DEF RInv, TypeOK
<1>3. n \in 1..Len(queue)
  BY <1>1, <1>2, TakenFacts
<1>4. ReadInv(q) /\ KeptInv(q)
  BY <1>2 DEF RInv, LifeInv
<1>. DEFINE len == Len(queue)
<1>5. /\ n \in Nat /\ 1 <= n /\ n <= len /\ len \in Nat /\ read \in Nat
      /\ RcvWnd \in Nat /\ read + len = rcv_nxt[p] /\ len <= RcvWnd
  BY <1>2, <1>3, <1>4, RcvWndFacts DEF ReadInv
<1>6. /\ \A i \in 1..read : Genuine(q, i - 1, delivered[p][i])
      /\ \A i \in 1..len : Genuine(q, read + i - 1, queue[i])
      /\ \A sn \in DOMAIN rcv_buf[p] : Genuine(q, sn, rcv_buf[p][sn])
  BY <1>2, <1>4 DEF ReadInv, KeptInv
<1>7. /\ head \in Seq(Segment) /\ Len(head) = n
      /\ \A i \in 1..n : head[i] = queue[i]
  <2>1. \A i \in 1..n : queue[i] \in Segment
    BY <1>2, <1>3
  <2>2. \A i \in 1..(n - 1 + 1) : head[i] = queue[1 + i - 1]
    BY <2>1, <1>5, SubSeqProperties
  <2>3. head \in Seq(Segment) /\ Len(head) = IF 1 <= n THEN n - 1 + 1 ELSE 0
    BY <2>1, <1>5, SubSeqProperties
  <2>4. n - 1 + 1 = n /\ \A i \in 1..n : 1 + i - 1 = i
    BY <1>5
  <2>. HIDE DEF head, queue
  <2>. QED BY <2>2, <2>3, <2>4, <1>5
<1>8. /\ rest \in Seq(Segment) /\ Len(rest) = len - n
      /\ \A i \in 1..(len - n) : rest[i] = queue[n + i]
  <2>1. \A i \in (n + 1)..len : queue[i] \in Segment
    BY <1>2, <1>3, <1>5
  <2>2. \A i \in 1..(len - (n + 1) + 1) : rest[i] = queue[(n + 1) + i - 1]
    BY <2>1, <1>5, SubSeqProperties
  <2>3. /\ rest \in Seq(Segment)
        /\ Len(rest) = IF n + 1 <= len THEN len - (n + 1) + 1 ELSE 0
    BY <2>1, <1>5, SubSeqProperties
  <2>. HIDE DEF len
  <2>4. len - (n + 1) + 1 = len - n /\ \A i \in 1..(len - n) : (n + 1) + i - 1 = n + i
    BY <1>5
  <2>5. (IF n + 1 <= len THEN len - (n + 1) + 1 ELSE 0) = len - n
    BY <1>5
  <2>. HIDE DEF rest, queue
  <2>. QED BY <2>2, <2>3, <2>4, <2>5
<1>. HIDE DEF head, rest, n, len, read, queue
<1>9. /\ delivered'[p] \in Seq(Segment) /\ Len(delivered'[p]) = read + n
      /\ \A i \in 1..(read + n) : Genuine(q, i - 1, delivered'[p][i])
  <2>1. delivered'[p] = delivered[p] \o head
    BY <1>1, <1>2
  <2>2. /\ delivered[p] \o head \in Seq(Segment)
        /\ Len(delivered[p] \o head) = Len(delivered[p]) + Len(head)
        /\ \A i \in 1..(Len(delivered[p]) + Len(head)) : (delivered[p] \o head)[i] =
             IF i <= Len(delivered[p]) THEN delivered[p][i]
             ELSE head[i - Len(delivered[p])]
    BY <1>2, <1>7, ConcatProperties
  <2>3. /\ Len(delivered'[p]) = read + n
        /\ \A i \in 1..(read + n) : delivered'[p][i] =
             IF i <= read THEN delivered[p][i] ELSE head[i - read]
    BY <2>1, <2>2, <1>7 DEF read
  <2>4. ASSUME NEW i \in 1..(read + n) PROVE Genuine(q, i - 1, delivered'[p][i])
    <3>1. CASE i <= read
      <4>1. i \in 1..read
        BY <3>1, <1>5
      <4>2. delivered'[p][i] = delivered[p][i]
        BY <3>1, <2>3
      <4>. QED BY <4>1, <4>2, <1>6
    <3>2. CASE i > read
      <4>1. PICK j \in 1..n : i = read + j
        <5>1. i - read \in 1..n /\ i = read + (i - read)
          BY <3>2, <1>5
        <5>. QED BY <5>1
      <4>2. j \in 1..len /\ i - 1 = read + j - 1 /\ i - read = j
        BY <4>1, <1>5
      <4>3. delivered'[p][i] = queue[j]
        BY <3>2, <4>1, <4>2, <2>3, <1>5, <1>7
      <4>. QED BY <4>2, <4>3, <1>6
    <3>. QED BY <3>1, <3>2, <1>5
  <2>. QED BY <2>1, <2>2, <2>3, <2>4
<1>10. ASSUME NEW i \in 1..Len(rest) PROVE Genuine(q, (read + n) + i - 1, rest[i])
  <2>1. /\ n + i \in 1..len /\ read + (n + i) - 1 = (read + n) + i - 1
        /\ i \in 1..(len - n)
    BY <1>5, <1>8
  <2>2. Genuine(q, read + (n + i) - 1, queue[n + i])
    BY <2>1, <1>6
  <2>. QED BY <2>1, <2>2, <1>8
<1>11. /\ rcv_nxt' \in [Peers -> Sn]
       /\ rcv_queue' \in [Peers -> Seq(Segment)]
       /\ DOMAIN rcv_buf' = Peers
       /\ DOMAIN rcv_buf'[p] \subseteq Sn
       /\ rcv_buf'[p] \in [DOMAIN rcv_buf'[p] -> Segment]
       /\ \A r \in Peers \ {p} : /\ rcv_nxt'[r] = rcv_nxt[r]
                                 /\ rcv_buf'[r] = rcv_buf[r]
                                 /\ rcv_queue'[r] = rcv_queue[r]
       /\ \A sn \in DOMAIN rcv_buf'[p] : Genuine(q, sn, rcv_buf'[p][sn])
       /\ (read + n) + Len(rcv_queue'[p]) = rcv_nxt'[p]
       /\ Len(rcv_queue'[p]) <= RcvWnd
       /\ \A i \in 1..Len(rcv_queue'[p]) :
            Genuine(q, (read + n) + i - 1, rcv_queue'[p][i])
  <2>. DEFINE got == read + n
  <2>1. got + Len(rest) = rcv_nxt[p] /\ Len(rest) <= RcvWnd /\ got \in Nat
    BY <1>5, <1>8
  <2>2. \A i \in 1..Len(rest) : Genuine(q, got + i - 1, rest[i])
    BY <1>10
  <2>3. MoveAvailable(p, rcv_buf[p], rest) /\ rest \in Seq(Segment)
    BY <1>1, <1>8
  <2>. HIDE DEF got
  <2>4. /\ rcv_nxt' \in [Peers -> Sn]
        /\ rcv_queue' \in [Peers -> Seq(Segment)]
        /\ DOMAIN rcv_buf' = Peers
        /\ DOMAIN rcv_buf'[p] \subseteq Sn
        /\ rcv_buf'[p] \in [DOMAIN rcv_buf'[p] -> Segment]
        /\ \A r \in Peers \ {p} : /\ rcv_nxt'[r] = rcv_nxt[r]
                                  /\ rcv_buf'[r] = rcv_buf[r]
                                  /\ rcv_queue'[r] = rcv_queue[r]
        /\ \A sn \in DOMAIN rcv_buf'[p] : Genuine(q, sn, rcv_buf'[p][sn])
        /\ got + Len(rcv_queue'[p]) = rcv_nxt'[p]
        /\ Len(rcv_queue'[p]) <= RcvWnd
        /\ \A i \in 1..Len(rcv_queue'[p]) : Genuine(q, got + i - 1, rcv_queue'[p][i])
    <3>1. /\ DOMAIN rcv_buf[p] \subseteq Sn
          /\ rcv_buf[p] \in [DOMAIN rcv_buf[p] -> Segment]
          /\ \A sn \in DOMAIN rcv_buf[p] : Genuine(q, sn, rcv_buf[p][sn])
      BY <1>2, <1>6
    <3>. QED BY <3>1, <2>1, <2>2, <2>3, TakenIn
  <2>. QED BY <2>4 DEF got
<1>12. TypeOK'
  <2>1. delivered' \in [Peers -> Seq(Segment)]
    BY <1>1, <1>2, <1>9
  <2>2. ask_tell' \in [Peers -> BOOLEAN]
    BY <1>1, Zenon DEF RInv, TypeOK, FastRecover
  <2>3. \A r \in Peers : /\ DOMAIN rcv_buf'[r] \subseteq Sn
                         /\ rcv_buf'[r] \in [DOMAIN rcv_buf'[r] -> Segment]
    BY <1>11 DEF RInv, TypeOK
  <2>. QED BY <2>1, <2>2, <2>3, <1>1, <1>11 DEF RInv, TypeOK
<1>13. \A r \in Peers : StaysGenuine(r)
  BY <1>1, StillGenuine
<1>14. \A sn, seg : Genuine(q, sn, seg)' = Genuine(q, sn, seg)
  BY <1>1, <1>2, LifeKept
<1>15. ReadInv(q)'
  BY <1>2, <1>9, <1>11, <1>14 DEF ReadInv
<1>16. ReadInv(p)'
  <2>1. UNCHANGED <<rcv_nxt[q], rcv_queue[q], delivered[q]>>
    BY <1>1, <1>2, <1>11
  <2>. QED BY <2>1, <1>13, ReadKept
<1>17. KeptInv(q)'
  <2>1. (\A sn \in DOMAIN rcv_buf[p] : Genuine(q, sn, rcv_buf[p][sn]))'
    BY <1>11, <1>14
  <2>. QED BY <2>1, <1>1, <1>2, <1>4, <1>14 DEF KeptInv
<1>18. KeptInv(p)'
  <2>1. KeptInv(p) /\ rcv_buf'[q] = rcv_buf[q]
    BY <1>2, <1>11 DEF RInv, LifeInv
  <2>2. \A sn, seg : Genuine(p, sn, seg)' = Genuine(p, sn, seg)
    BY <1>1, LifeKept
  <2>. QED BY <2>1, <2>2, <1>1 DEF KeptInv
<1>19. ASSUME NEW r \in Peers
       PROVE  /\ SubmittedInv(r)'
              /\ (1 \in births /\ births \subseteq 1..(Len(sent[B]) + 1))'
  BY <1>1, LifeKept
<1>. QED BY <1>2, <1>12, <1>15, <1>16, <1>17, <1>18, <1>19 DEF RInv, LifeInv

\* A flush numbers no more segments than wait.
LEMMA FreshLife ==
  ASSUME RInv, NEW p \in Peers
  PROVE  Fresh(p) \in Nat /\ Fresh(p) <= Len(snd_queue[p])
<1>. DEFINE cwnd == Min({SndWnd, rmt_wnd[p]})
            room == SnDiff(SnAdd(snd_una[p], cwnd), snd_nxt[p])
            waiting == Len(snd_queue[p])
<1>1. rmt_wnd[p] \in Nat /\ snd_queue[p] \in Seq(Segment) /\ waiting \in Nat
      /\ snd_una[p] \in Nat /\ snd_nxt[p] \in Nat
  BY DEF RInv, TypeOK, Sn
<1>2. cwnd \in Nat
  BY <1>1, WindowAssumption, MinPair
<1>. HIDE DEF cwnd, waiting
<1>3. SnAdd(snd_una[p], cwnd) \in Nat
  BY <1>1, <1>2, SerialAssumption DEF SnAdd
<1>4. room \in Int
  BY <1>1, <1>3, SerialAssumption DEF SnDiff
<1>. HIDE DEF room
<1>5. Max({0, room}) \in Nat
  BY <1>4, MaxZero
<1>6. Fresh(p) = Min({waiting, Max({0, room})})
  BY DEF Fresh, waiting, room, cwnd
<1>. QED BY <1>1, <1>5, <1>6, MinPair DEF waiting

\* The numbers it gives them are those of their places in the current life.
LEMMA NumberedLife ==
  ASSUME NoWrap, RInv, NEW p \in Peers
  PROVE  LET n == Fresh(p)
             buf == Numbered(p, n)
         IN  /\ buf \in [DOMAIN buf -> Outgoing]
             /\ SnAdd(snd_nxt[p], n) = snd_nxt[p] + n
             /\ \A sn \in DOMAIN buf :
                  /\ sn \in Sn /\ sn < snd_nxt[p] + n
                  /\ Genuine(p, sn, buf[sn].seg)
<1>. DEFINE n == Fresh(p)
            nxt == snd_nxt[p]
            queue == snd_queue[p]
            waiting == Len(queue)
            half == SnMod \div 2
            new == {SnAdd(nxt, i) : i \in 0..(n - 1)}
            fresh(sn) == [seg |-> queue[SnDiff(sn, nxt) + 1], xmit |-> 0, fastack |-> 0]
            buf == Numbered(p, n)
<1>1. /\ n \in Nat /\ n <= waiting /\ nxt \in Nat /\ waiting \in Nat
      /\ nxt + waiting < half /\ half \in Nat /\ half <= SnMod /\ SnMod \in Nat
  BY FreshLife, LifeRanges
<1>2. /\ queue \in Seq(Segment) /\ SubmittedInv(p) /\ KeptInv(p)
      /\ DOMAIN snd_buf[p] \subseteq Sn /\ \A sn \in Sn : sn \in Nat
      /\ snd_buf[p] \in [DOMAIN snd_buf[p] -> Outgoing]
  BY DEF RInv, LifeInv, TypeOK, Sn
<1>3. PICK b \in Births(p) : CurrentLife(p, b)
  BY <1>2 DEF SubmittedInv
<1>4. /\ b \in Nat \ {0} /\ b + nxt + waiting = Len(sent[p]) + 1
      /\ \A c \in Births(p) : c <= b
      /\ Len(sent[p]) \in Nat
      /\ \A i \in 1..waiting : queue[i] = sent[p][b + nxt + i - 1]
      /\ \A i \in 1..Len(sent[p]) : sent[p][i].data = i
  BY <1>2, <1>3, BirthFacts DEF CurrentLife, SubmittedInv
<1>5. DOMAIN buf = DOMAIN snd_buf[p] \cup new
  BY DEF Numbered
<1>6. /\ \A sn \in DOMAIN snd_buf[p] : buf[sn] = snd_buf[p][sn]
      /\ \A sn \in new : sn \notin DOMAIN snd_buf[p] => buf[sn] = fresh(sn)
  BY DEF Numbered
<1>7. buf = [sn \in DOMAIN buf |-> buf[sn]]
  BY DEF Numbered
<1>. HIDE DEF buf, n, waiting, half, nxt, queue
<1>8. nxt + n < half /\ nxt + n < SnMod
  BY <1>1
<1>9. \A i \in 0..n : SnAdd(nxt, i) = nxt + i
  BY <1>1, <1>8, SerialSum
<1>10. ASSUME NEW sn \in new
       PROVE  /\ sn \in Sn /\ nxt <= sn /\ sn < nxt + n
              /\ fresh(sn) \in Outgoing /\ Genuine(p, sn, fresh(sn).seg)
  <2>1. PICK i \in 0..(n - 1) : sn = SnAdd(nxt, i)
    OBVIOUS
  <2>2. sn = nxt + i /\ i \in Nat /\ i < n
    BY <2>1, <1>1, <1>9
  <2>3. sn \in Sn /\ nxt <= sn /\ sn < nxt + n /\ sn < half /\ nxt < half
        /\ sn \in Nat
    BY <2>2, <1>1, <1>8 DEF Sn
  <2>4. SnDiff(sn, nxt) = i
    <3>1. SnDiff(sn, nxt) = sn - nxt
      BY <2>3, <1>1, SerialDiff DEF half
    <3>. QED BY <3>1, <2>2, <1>1
  <2>5. i + 1 \in 1..waiting /\ b + nxt + (i + 1) - 1 = b + sn
        /\ b + sn \in 1..Len(sent[p])
    BY <2>2, <1>1, <1>4
  <2>6. queue[i + 1] = sent[p][b + sn] /\ queue[i + 1] \in Segment
        /\ sent[p][b + sn].data = b + sn
    BY <2>5, <1>2, <1>4 DEF waiting
  <2>. DEFINE seg == queue[i + 1]
  <2>7. fresh(sn) = [seg |-> seg, xmit |-> 0, fastack |-> 0] /\ seg \in Segment
    BY <2>4, <2>6
  <2>8. seg = sent[p][b + sn] /\ seg.data = b + sn
    BY <2>6
  <2>. HIDE DEF seg, fresh, new
  <2>9. fresh(sn) \in Outgoing /\ fresh(sn).seg = seg
    BY <2>7 DEF Outgoing
  <2>10. seg.data <= Len(sent[p]) /\ sent[p][seg.data] = seg
    BY <2>5, <2>8, <1>4
  <2>11. Carries(p, seg.data, sn)
    BY <2>8, <1>3, <1>4 DEF Carries
  <2>. QED BY <2>3, <2>9, <2>10, <2>11 DEF Genuine
<1>11. ASSUME NEW sn \in DOMAIN snd_buf[p]
       PROVE  /\ snd_buf[p][sn] \in Outgoing /\ sn \in Sn /\ sn < nxt + n
              /\ Genuine(p, sn, snd_buf[p][sn].seg) /\ sn < nxt
  <2>1. sn < nxt /\ sn \in Nat /\ sn \in Sn
    BY <1>2 DEF KeptInv, nxt
  <2>2. sn < nxt + n
    BY <2>1, <1>1
  <2>. QED BY <2>1, <2>2, <1>2 DEF KeptInv
<1>12. ASSUME NEW sn \in DOMAIN buf
       PROVE  /\ buf[sn] \in Outgoing /\ sn \in Sn /\ sn < nxt + n
              /\ Genuine(p, sn, buf[sn].seg)
  <2>1. CASE sn \in DOMAIN snd_buf[p]
    BY <2>1, <1>6, <1>11
  <2>2. CASE sn \in new
    <3>1. sn \notin DOMAIN snd_buf[p]
      <4>1. ASSUME sn \in DOMAIN snd_buf[p] PROVE FALSE
        <5>1. sn < nxt /\ sn \in Sn
          BY <4>1, <1>11
        <5>2. nxt <= sn /\ sn \in Nat
          BY <2>2, <1>2, <1>10
        <5>. QED BY <5>1, <5>2, <1>1
      <4>. QED BY <4>1
    <3>. HIDE DEF fresh, new
    <3>. QED BY <2>2, <3>1, <1>6, <1>10
  <2>. QED BY <2>1, <2>2, <1>5
<1>13. buf \in [DOMAIN buf -> Outgoing]
  BY <1>7, <1>12
<1>14. SnAdd(nxt, n) = nxt + n
  BY <1>1, <1>9
<1>. QED BY <1>12, <1>13, <1>14 DEF buf, n, nxt

\* ikcp_flush keeps the invariant.
LEMMA FlushLife ==
  ASSUME NoWrap, RInv, NEW p \in Peers, NEW due, NEW elapsed \in BOOLEAN,
         Flush(p, due, elapsed), UNCHANGED births
  PROVE  RInv'
<1>. DEFINE q == Other(p)
            n == Fresh(p)
            nxt == snd_nxt[p]
            buf == Numbered(p, n)
            out == NeedSend(buf, due)
            new == Transmitted(buf, out, due)
            ctl == Control(p, Probes(p, elapsed))
            data == {DataSeg(p, buf, sn) : sn \in out}
            rest == SubSeq(snd_queue[p], n + 1, Len(snd_queue[p]))
            waiting == Len(snd_queue[p])
<1>1. /\ probe_wait' = [probe_wait EXCEPT ![p] = (rmt_wnd[p] = 0)]
      /\ acklist' = [acklist EXCEPT ![p] = {}]
      /\ ask_tell' = [ask_tell EXCEPT ![p] = FALSE]
      /\ snd_queue' = [snd_queue EXCEPT ![p] = SubSeq(@, n + 1, Len(@))]
      /\ snd_nxt' = [snd_nxt EXCEPT ![p] = SnAdd(@, n)]
      /\ snd_buf' = [snd_buf EXCEPT ![p] = new]
      /\ Transmit(p, ctl \cup data)
      /\ UNCHANGED <<snd_una, rmt_wnd, rcv_nxt, rcv_buf, rcv_queue, sent, delivered>>
  BY DEF Flush, rcvVars
<1>2. /\ q \in Peers /\ Other(q) = p /\ q # p
      /\ \A r \in Peers : r = p \/ r = q
  BY PeerFacts
<1>3. TypeOK
  BY DEF RInv
<1>4. /\ n \in Nat /\ n <= waiting /\ nxt \in Nat /\ waiting \in Nat
      /\ nxt + n < SnMod /\ SnMod \in Nat
  <2>. DEFINE half == SnMod \div 2
  <2>1. /\ n \in Nat /\ n <= waiting /\ nxt \in Nat /\ waiting \in Nat
        /\ nxt + waiting < half /\ half \in Nat /\ half <= SnMod /\ SnMod \in Nat
    BY FreshLife, LifeRanges
  <2>. HIDE DEF half, n, nxt, waiting
  <2>. QED BY <2>1
<1>5. /\ buf \in [DOMAIN buf -> Outgoing] /\ SnAdd(nxt, n) = nxt + n
      /\ \A sn \in DOMAIN buf : /\ sn \in Sn /\ sn < nxt + n
                                /\ Genuine(p, sn, buf[sn].seg)
  BY NumberedLife
<1>. HIDE DEF n, buf
<1>6. /\ DOMAIN new = DOMAIN buf /\ new \in [DOMAIN buf -> Outgoing]
      /\ \A sn \in DOMAIN buf : new[sn].seg = buf[sn].seg
  BY <1>5, TransmittedFacts
<1>7. out \subseteq DOMAIN buf
  BY DEF NeedSend
<1>. HIDE DEF out, new, nxt, waiting
<1>8. snd_nxt'[p] = nxt + n /\ snd_nxt'[q] = snd_nxt[q]
      /\ snd_nxt' \in [Peers -> Sn]
  <2>1. nxt + n \in Sn
    BY <1>4 DEF Sn
  <2>. QED BY <2>1, <1>1, <1>2, <1>3, <1>5 DEF TypeOK, nxt
<1>9. rcv_nxt[p] \in Sn /\ WndUnused(p) \in 0..RcvWnd /\ acklist[p] \subseteq Sn
      /\ ask_tell[p] \in BOOLEAN
  BY <1>3, RcvWndFacts DEF TypeOK, WndUnused
<1>10. \* what is put into the network is genuine
       /\ \A d \in ctl : d \in Ctl /\ d.kind = "ctl"
       /\ \A d \in data : d \in Push /\ d.kind = "push" /\ Genuine(p, d.sn, d.seg)
  <2>1. Probes(p, elapsed) \in BOOLEAN
    <3>1. probe_wait[p] \in BOOLEAN
      BY <1>3 DEF TypeOK
    <3>. QED BY <3>1, Zenon DEF Probes
  <2>2. ASSUME NEW d \in ctl PROVE d \in Ctl /\ d.kind = "ctl"
    <3>1. d = [kind |-> "ctl", una |-> rcv_nxt[p], wnd |-> WndUnused(p),
               acks |-> acklist[p], ask |-> Probes(p, elapsed), tell |-> ask_tell[p]]
      BY DEF Control
    <3>. QED BY <3>1, <2>1, <1>9 DEF Ctl
  <2>3. ASSUME NEW sn \in out
        PROVE  LET d == DataSeg(p, buf, sn)
               IN  d \in Push /\ d.kind = "push" /\ Genuine(p, d.sn, d.seg)
    <3>1. /\ sn \in DOMAIN buf /\ sn \in Sn /\ buf[sn].seg \in Segment
          /\ Genuine(p, sn, buf[sn].seg)
      BY <1>5, <1>7 DEF Outgoing
    <3>. QED BY <3>1, <1>9 DEF DataSeg, Push
  <2>. QED BY <2>2, <2>3
<1>. HIDE DEF ctl, data
<1>11. /\ net' \in [Peers -> SUBSET (Push \cup Ctl)]
       /\ net'[p] \subseteq net[p] \cup (ctl \cup data) /\ net'[q] = net[q]
  <2>1. PICK kept \in SUBSET (net[p] \cup (ctl \cup data)) :
          net' = [net EXCEPT ![p] = kept]
    BY <1>1 DEF Transmit
  <2>2. net \in [Peers -> SUBSET (Push \cup Ctl)]
    BY <1>3 DEF TypeOK
  <2>3. kept \subseteq Push \cup Ctl
    BY <2>1, <2>2, <1>10
  <2>. QED BY <2>1, <2>2, <2>3, <1>2
<1>12. /\ rest \in Seq(Segment) /\ Len(rest) = waiting - n
       /\ \A i \in 1..(waiting - n) : rest[i] = snd_queue[p][n + i]
  <2>. DEFINE queue == snd_queue[p]
  <2>1. queue \in Seq(Segment)
    BY <1>3 DEF TypeOK
  <2>2. \A i \in (n + 1)..waiting : queue[i] \in Segment
    BY <2>1, <1>4 DEF waiting
  <2>3. rest = SubSeq(queue, n + 1, waiting)
    BY DEF waiting
  <2>. HIDE DEF queue, rest
  <2>4. /\ rest \in Seq(Segment)
        /\ Len(rest) = IF n + 1 <= waiting THEN waiting - (n + 1) + 1 ELSE 0
        /\ \A i \in 1..(waiting - (n + 1) + 1) : rest[i] = queue[(n + 1) + i - 1]
    <3>1. n + 1 \in Int /\ waiting \in Int
      BY <1>4
    <3>. QED BY <2>2, <2>3, <3>1, SubSeqProperties
  <2>5. /\ waiting - (n + 1) + 1 = waiting - n
        /\ (IF n + 1 <= waiting THEN waiting - (n + 1) + 1 ELSE 0) = waiting - n
        /\ \A i \in 1..(waiting - n) : (n + 1) + i - 1 = n + i
    BY <1>4
  <2>. QED BY <2>4, <2>5 DEF queue
<1>. HIDE DEF rest
<1>13. snd_queue'[p] = rest /\ snd_queue'[q] = snd_queue[q]
       /\ snd_queue' \in [Peers -> Seq(Segment)]
  BY <1>1, <1>2, <1>3, <1>12 DEF TypeOK, rest
<1>14. snd_buf'[p] = new /\ snd_buf'[q] = snd_buf[q] /\ DOMAIN snd_buf' = Peers
  BY <1>1, <1>2, <1>3 DEF TypeOK
<1>15. TypeOK'
  <2>1. /\ acklist' \in [Peers -> SUBSET Sn]
        /\ probe_wait' \in [Peers -> BOOLEAN] /\ ask_tell' \in [Peers -> BOOLEAN]
    <3>1. acklist' \in [Peers -> SUBSET Sn]
      BY <1>1, <1>3 DEF TypeOK
    <3>2. (rmt_wnd[p] = 0) \in BOOLEAN /\ FALSE \in BOOLEAN
      OBVIOUS
    <3>3. probe_wait' \in [Peers -> BOOLEAN] /\ ask_tell' \in [Peers -> BOOLEAN]
      BY <3>2, <1>1, <1>3, Zenon DEF TypeOK
    <3>. QED BY <3>1, <3>3
  <2>2. ASSUME NEW r \in Peers
        PROVE  /\ DOMAIN snd_buf'[r] \subseteq Sn
               /\ snd_buf'[r] \in [DOMAIN snd_buf'[r] -> Outgoing]
    <3>1. CASE r = p
      BY <3>1, <1>5, <1>6, <1>14
    <3>2. CASE r = q
      BY <3>2, <1>3, <1>14 DEF TypeOK
    <3>. QED BY <3>1, <3>2, <1>2
  <2>. QED BY <2>1, <2>2, <1>1, <1>3, <1>8, <1>11, <1>13, <1>14 DEF TypeOK
<1>16. \A r \in Peers : StaysGenuine(r) /\ \A sn, seg : Genuine(r, sn, seg)' = Genuine(r, sn, seg)
  BY <1>1, StillGenuine, LifeKept
<1>17. KeptInv(p)'
  <2>1. KeptInv(p)
    BY DEF RInv, LifeInv
  <2>2. ASSUME NEW sn \in DOMAIN new
        PROVE  sn < nxt + n /\ Genuine(p, sn, new[sn].seg)
    BY <1>5, <1>6
  <2>3. ASSUME NEW d \in net'[p], d.kind = "push" PROVE Genuine(p, d.sn, d.seg)
    <3>1. CASE d \in net[p]
      BY <2>1, <2>3, <3>1 DEF KeptInv
    <3>2. CASE d \in ctl
      BY <2>3, <3>2, <1>10
    <3>3. CASE d \in data
      BY <3>3, <1>10
    <3>. QED BY <3>1, <3>2, <3>3, <1>11
  <2>. QED BY <2>1, <2>2, <2>3, <1>1, <1>8, <1>14, <1>16 DEF KeptInv
<1>18. KeptInv(q)'
  <2>1. KeptInv(q)
    BY <1>2 DEF RInv, LifeInv
  <2>. QED BY <2>1, <1>1, <1>2, <1>8, <1>11, <1>14, <1>16 DEF KeptInv
<1>19. ASSUME NEW r \in Peers PROVE ReadInv(r)'
  BY <1>1, <1>16, ReadKept
<1>20. SubmittedInv(p)'
  <2>1. SubmittedInv(p) /\ Births(p)' = Births(p)
    BY DEF RInv, LifeInv, Births
  <2>2. PICK b \in Births(p) : CurrentLife(p, b)
    BY <2>1 DEF SubmittedInv
  <2>3. /\ b \in Nat /\ b + nxt + waiting = Len(sent[p]) + 1
        /\ \A i \in 1..waiting : snd_queue[p][i] = sent[p][b + nxt + i - 1]
    BY <2>2, BirthFacts DEF CurrentLife, nxt, waiting
  <2>4. ASSUME NEW i \in 1..(waiting - n)
        PROVE  rest[i] = sent[p][b + (nxt + n) + i - 1]
    <3>1. n + i \in 1..waiting /\ b + nxt + (n + i) - 1 = b + (nxt + n) + i - 1
      BY <2>3, <1>4
    <3>. QED BY <3>1, <2>3, <1>12
  <2>5. b + (nxt + n) + (waiting - n) = Len(sent[p]) + 1
    <3>1. b + (nxt + n) + (waiting - n) = b + nxt + waiting
      BY <2>3, <1>4
    <3>. QED BY <3>1, <2>3
  <2>6. CurrentLife(p, b)'
    BY <2>1, <2>2, <2>4, <2>5, <1>1, <1>8, <1>12, <1>13 DEF CurrentLife
  <2>. QED BY <2>1, <2>2, <2>6, <1>1 DEF SubmittedInv
<1>21. /\ SubmittedInv(q)'
       /\ (1 \in births /\ births \subseteq 1..(Len(sent[B]) + 1))'
  BY <1>1, <1>2, <1>8, <1>13, LifeKept
<1>. QED BY <1>2, <1>15, <1>17, <1>18, <1>19, <1>20, <1>21 DEF RInv, LifeInv

\* A datagram that arrives was sent by the other peer, and the network keeps or
\* drops it.
LEMMA ArriveLife ==
  ASSUME RInv, NEW p \in Peers, NEW d, Arrives(p, d)
  PROVE  /\ d \in net[Other(p)] /\ d \in Push \cup Ctl
         /\ net' \in [Peers -> SUBSET (Push \cup Ctl)]
         /\ \A r \in Peers : net'[r] \subseteq net[r]
<1>1. Other(p) \in Peers /\ net \in [Peers -> SUBSET (Push \cup Ctl)]
  BY PeerFacts DEF RInv, TypeOK
<1>2. d \in net[Other(p)]
  BY DEF Arrives
<1>3. CASE net' = net
  BY <1>1, <1>2, <1>3
<1>4. CASE net' = [net EXCEPT ![Other(p)] = @ \ {d}]
  BY <1>1, <1>2, <1>4
<1>. QED BY <1>3, <1>4 DEF Arrives

\* What p keeps to send again is genuine.
SentGenuine(p) ==
  \A sn \in DOMAIN snd_buf[p] : sn < snd_nxt[p] /\ Genuine(p, sn, snd_buf[p][sn].seg)

\* Acknowledgements left of p's snd_buf the segments of left, with the counts new.
Freed(p, left, new) ==
  /\ UNCHANGED <<sent, births, snd_nxt>>
  /\ DOMAIN left \subseteq DOMAIN snd_buf[p]
  /\ DOMAIN new = DOMAIN left /\ new \in [DOMAIN left -> Outgoing]
  /\ \A sn \in DOMAIN left : new[sn].seg = snd_buf[p][sn].seg
  /\ snd_buf' = [snd_buf EXCEPT ![p] = new]
  /\ snd_una' = [snd_una EXCEPT ![p] = ShrinkBuf(left, snd_nxt[p])]

\* What acknowledgements leave of snd_buf is genuine, and snd_una a number.
LEMMA FreedLife ==
  ASSUME NoWrap, RInv, NEW p \in Peers, NEW left, NEW new, Freed(p, left, new)
  PROVE  /\ snd_una' \in [Peers -> Sn] /\ DOMAIN snd_buf' = Peers
         /\ \A r \in Peers :
              /\ DOMAIN snd_buf'[r] \subseteq Sn
              /\ snd_buf'[r] \in [DOMAIN snd_buf'[r] -> Outgoing]
              /\ SentGenuine(r)'
<1>. USE DEF Freed
<1>1. /\ DOMAIN snd_buf = Peers /\ snd_una \in [Peers -> Sn]
      /\ \A r \in Peers : /\ DOMAIN snd_buf[r] \subseteq Sn
                          /\ snd_buf[r] \in [DOMAIN snd_buf[r] -> Outgoing]
                          /\ KeptInv(r)
  BY DEF RInv, LifeInv, TypeOK
<1>2. snd_nxt[p] \in Nat /\ snd_nxt[p] < SnMod \div 2 /\ snd_nxt[p] < SnMod /\ SnMod \in Nat
  <2>. DEFINE half == SnMod \div 2
  <2>1. /\ half \in Nat /\ half <= SnMod /\ SnMod \in Nat
        /\ snd_nxt[p] \in Nat /\ Len(snd_queue[p]) \in Nat
        /\ snd_nxt[p] + Len(snd_queue[p]) < half
    BY LifeRanges
  <2>. HIDE DEF half
  <2>2. snd_nxt[p] < half /\ snd_nxt[p] < SnMod
    BY <2>1
  <2>. QED BY <2>1, <2>2 DEF half
<1>3. DOMAIN left \subseteq 0..(snd_nxt[p] - 1)
  <2>1. ASSUME NEW sn \in DOMAIN left PROVE sn \in Nat /\ sn < snd_nxt[p]
    BY <1>1 DEF KeptInv, Sn
  <2>. QED BY <2>1, <1>2
<1>. DEFINE una == ShrinkBuf(left, snd_nxt[p])
<1>4. una \in 0..snd_nxt[p]
  BY <1>2, <1>3, ShrinkFacts
<1>. HIDE DEF una
<1>5. una \in Sn
  BY <1>2, <1>4 DEF Sn
<1>6. snd_una' \in [Peers -> Sn] /\ DOMAIN snd_buf' = Peers
  BY <1>1, <1>5 DEF una
<1>7. ASSUME NEW r \in Peers
      PROVE  /\ DOMAIN snd_buf'[r] \subseteq DOMAIN snd_buf[r]
             /\ DOMAIN snd_buf'[r] \subseteq Sn
             /\ snd_buf'[r] \in [DOMAIN snd_buf'[r] -> Outgoing]
             /\ \A sn \in DOMAIN snd_buf'[r] : snd_buf'[r][sn].seg = snd_buf[r][sn].seg
  <2>1. CASE r = p
    BY <2>1, <1>1
  <2>2. CASE r # p
    BY <2>2, <1>1
  <2>. QED BY <2>1, <2>2
<1>8. ASSUME NEW r \in Peers
      PROVE  (\A sn \in DOMAIN snd_buf[r] :
                sn < snd_nxt[r] /\ Genuine(r, sn, snd_buf[r][sn].seg))'
  <2>1. \A sn \in DOMAIN snd_buf'[r] :
          sn < snd_nxt[r] /\ Genuine(r, sn, snd_buf'[r][sn].seg)
    BY <1>1, <1>7 DEF KeptInv
  <2>2. \A sn, seg : Genuine(r, sn, seg)' = Genuine(r, sn, seg)
    BY LifeKept
  <2>. QED BY <2>1, <2>2
<1>. QED BY <1>6, <1>7, <1>8 DEF SentGenuine

\* ikcp_input of a data segment keeps the invariant.
LEMMA InputPushLife ==
  ASSUME NoWrap, RInv, NEW p \in Peers, NEW d, InputPush(p, d), UNCHANGED births
  PROVE  RInv'
<1>. DEFINE q == Other(p)
            read == Len(delivered[p])
            queue == rcv_queue[p]
            left == ParseUna(snd_buf[p], d.una)
            held == Stored(rcv_buf[p], d.sn, d.seg)
            new == InWindow(p, d.sn) /\ SnDiff(d.sn, rcv_nxt[p]) >= 0
<1>1. /\ Arrives(p, d) /\ d.kind = "push"
      /\ rmt_wnd' = [rmt_wnd EXCEPT ![p] = d.wnd]
      /\ snd_buf' = [snd_buf EXCEPT ![p] = left]
      /\ snd_una' = [snd_una EXCEPT ![p] = ShrinkBuf(snd_buf'[p], snd_nxt[p])]
      /\ acklist' = [acklist EXCEPT
           ![p] = IF InWindow(p, d.sn) THEN @ \cup {d.sn} ELSE @]
      /\ new => MoveAvailable(p, held, rcv_queue[p])
      /\ ~new => UNCHANGED <<rcv_nxt, rcv_buf, rcv_queue>>
      /\ UNCHANGED <<snd_queue, snd_nxt, probe_wait, ask_tell, sent, delivered>>
  BY DEF InputPush, AckPush, rcvVars
<1>2. /\ q \in Peers /\ Other(q) = p /\ q # p
      /\ \A r \in Peers : r = p \/ r = q
  BY PeerFacts
<1>3. /\ d \in net[q] /\ d \in Push \cup Ctl
      /\ net' \in [Peers -> SUBSET (Push \cup Ctl)]
      /\ \A r \in Peers : net'[r] \subseteq net[r]
  BY <1>1, ArriveLife
<1>4. d.wnd \in Nat /\ d.sn \in Sn /\ d.seg \in Segment
  BY <1>1, <1>3, RcvWndFacts, SerialAssumption DEF Push, Ctl, Sn
<1>5. KeptInv(q) /\ ReadInv(q) /\ Genuine(q, d.sn, d.seg)
  BY <1>1, <1>2, <1>3 DEF RInv, LifeInv, KeptInv
<1>6. /\ DOMAIN snd_buf = Peers
      /\ snd_buf[p] \in [DOMAIN snd_buf[p] -> Outgoing]
      /\ DOMAIN rcv_buf[p] \subseteq Sn /\ rcv_buf[p] \in [DOMAIN rcv_buf[p] -> Segment]
      /\ queue \in Seq(Segment) /\ delivered[p] \in Seq(Segment)
  BY DEF RInv, TypeOK
<1>7. /\ DOMAIN left \subseteq DOMAIN snd_buf[p] /\ left \in [DOMAIN left -> Outgoing]
      /\ \A s \in DOMAIN left : left[s] = snd_buf[p][s]
  BY <1>6 DEF ParseUna, Restrict
<1>. HIDE DEF left
<1>8. /\ snd_una' \in [Peers -> Sn] /\ DOMAIN snd_buf' = Peers
      /\ \A r \in Peers :
           /\ DOMAIN snd_buf'[r] \subseteq Sn
           /\ snd_buf'[r] \in [DOMAIN snd_buf'[r] -> Outgoing]
           /\ SentGenuine(r)'
  <2>1. snd_una' = [snd_una EXCEPT ![p] = ShrinkBuf(left, snd_nxt[p])]
    BY <1>1, <1>6
  <2>2. \A sn \in DOMAIN left : left[sn].seg = snd_buf[p][sn].seg
    BY <1>7
  <2>3. /\ UNCHANGED <<sent, births, snd_nxt>>
        /\ DOMAIN left \subseteq DOMAIN snd_buf[p]
        /\ left \in [DOMAIN left -> Outgoing]
        /\ snd_buf' = [snd_buf EXCEPT ![p] = left]
    BY <1>1, <1>7
  <2>4. Freed(p, left, left)
    BY <2>1, <2>2, <2>3 DEF Freed
  <2>. QED BY <2>4, FreedLife
<1>9. /\ DOMAIN held \subseteq Sn /\ held \in [DOMAIN held -> Segment]
      /\ \A s \in DOMAIN held : Genuine(q, s, held[s])
  <2>1. DOMAIN held = DOMAIN rcv_buf[p] \cup {d.sn}
        /\ held \in [DOMAIN held -> Segment]
    BY <1>4, <1>6 DEF Stored
  <2>2. ASSUME NEW s \in DOMAIN held PROVE Genuine(q, s, held[s])
    <3>1. CASE s \in DOMAIN rcv_buf[p]
      <4>1. held[s] = rcv_buf[p][s]
        BY <3>1 DEF Stored
      <4>. QED BY <3>1, <4>1, <1>2, <1>5 DEF KeptInv
    <3>2. CASE s \notin DOMAIN rcv_buf[p]
      <4>1. s = d.sn /\ held[s] = d.seg
        BY <3>2, <2>1 DEF Stored
      <4>. QED BY <4>1, <1>5
    <3>. QED BY <3>1, <3>2
  <2>. QED BY <2>1, <2>2, <1>4, <1>6
<1>. HIDE DEF held
<1>10. /\ read \in Nat /\ read + Len(queue) = rcv_nxt[p] /\ Len(queue) <= RcvWnd
       /\ \A i \in 1..read : Genuine(q, i - 1, delivered[p][i])
       /\ \A i \in 1..Len(queue) : Genuine(q, read + i - 1, queue[i])
  <2>1. read \in Nat
    BY <1>6
  <2>. QED BY <2>1, <1>2, <1>5 DEF ReadInv
<1>. HIDE DEF read
<1>11. /\ rcv_nxt' \in [Peers -> Sn]
       /\ rcv_queue' \in [Peers -> Seq(Segment)]
       /\ DOMAIN rcv_buf' = Peers
       /\ DOMAIN rcv_buf'[p] \subseteq Sn
       /\ rcv_buf'[p] \in [DOMAIN rcv_buf'[p] -> Segment]
       /\ \A r \in Peers \ {p} : /\ rcv_nxt'[r] = rcv_nxt[r]
                                 /\ rcv_buf'[r] = rcv_buf[r]
                                 /\ rcv_queue'[r] = rcv_queue[r]
       /\ \A sn \in DOMAIN rcv_buf'[p] : Genuine(q, sn, rcv_buf'[p][sn])
       /\ read + Len(rcv_queue'[p]) = rcv_nxt'[p]
       /\ Len(rcv_queue'[p]) <= RcvWnd
       /\ \A i \in 1..Len(rcv_queue'[p]) : Genuine(q, read + i - 1, rcv_queue'[p][i])
  <2>1. CASE new
    <3>1. MoveAvailable(p, held, queue)
      BY <2>1, <1>1
    <3>. HIDE DEF new
    <3>. QED BY <3>1, <1>6, <1>9, <1>10, TakenIn
  <2>2. CASE ~new
    <3>1. UNCHANGED <<rcv_nxt, rcv_buf, rcv_queue>>
      BY <2>2, <1>1
    <3>2. \A sn \in DOMAIN rcv_buf[p] : Genuine(q, sn, rcv_buf[p][sn])
      BY <1>2, <1>5 DEF KeptInv
    <3>3. /\ rcv_nxt \in [Peers -> Sn] /\ rcv_queue \in [Peers -> Seq(Segment)]
          /\ DOMAIN rcv_buf = Peers
      BY DEF RInv, TypeOK
    <3>. HIDE DEF new
    <3>. QED BY <3>1, <3>2, <3>3, <1>6, <1>10
  <2>. QED BY <2>1, <2>2
<1>. HIDE DEF new
<1>12. TypeOK'
  <2>1. rmt_wnd' \in [Peers -> Nat] /\ acklist' \in [Peers -> SUBSET Sn]
    BY <1>1, <1>4 DEF RInv, TypeOK
  <2>2. \A r \in Peers : /\ DOMAIN rcv_buf'[r] \subseteq Sn
                         /\ rcv_buf'[r] \in [DOMAIN rcv_buf'[r] -> Segment]
    BY <1>11 DEF RInv, TypeOK
  <2>. QED BY <2>1, <2>2, <1>1, <1>3, <1>8, <1>11 DEF RInv, TypeOK
<1>13. \A r \in Peers : StaysGenuine(r) /\ \A sn, seg : Genuine(r, sn, seg)' = Genuine(r, sn, seg)
  BY <1>1, StillGenuine, LifeKept
<1>14. ReadInv(q)'
  BY <1>1, <1>2, <1>10, <1>11, <1>13 DEF ReadInv, read
<1>15. ReadInv(p)'
  <2>1. UNCHANGED <<rcv_nxt[q], rcv_queue[q], delivered[q]>>
    BY <1>1, <1>2, <1>11
  <2>. QED BY <2>1, <1>13, ReadKept
<1>16. ASSUME NEW r \in Peers
       PROVE  (\A c \in net[r] : c.kind = "push" => Genuine(r, c.sn, c.seg))'
  <2>1. KeptInv(r)
    BY DEF RInv, LifeInv
  <2>. QED BY <2>1, <1>3, <1>13 DEF KeptInv
<1>17. KeptInv(q)'
  <2>1. (\A sn \in DOMAIN rcv_buf[p] : Genuine(q, sn, rcv_buf[p][sn]))'
    BY <1>2, <1>11, <1>13
  <2>. QED BY <2>1, <1>2, <1>8, <1>16 DEF KeptInv, SentGenuine
<1>18. KeptInv(p)'
  <2>1. KeptInv(p) /\ rcv_buf'[q] = rcv_buf[q]
    BY <1>2, <1>11 DEF RInv, LifeInv
  <2>2. (\A sn \in DOMAIN rcv_buf[q] : Genuine(p, sn, rcv_buf[q][sn]))'
    BY <2>1, <1>13 DEF KeptInv
  <2>. QED BY <2>2, <1>8, <1>16 DEF KeptInv, SentGenuine
<1>19. ASSUME NEW r \in Peers
       PROVE  /\ SubmittedInv(r)'
              /\ (1 \in births /\ births \subseteq 1..(Len(sent[B]) + 1))'
  BY <1>1, LifeKept
<1>. QED BY <1>2, <1>12, <1>14, <1>15, <1>17, <1>18, <1>19 DEF RInv, LifeInv

\* ikcp_input of control segments keeps the invariant.
LEMMA InputCtlLife ==
  ASSUME NoWrap, RInv, NEW p \in Peers, NEW d, InputCtl(p, d), UNCHANGED births
  PROVE  RInv'
<1>. DEFINE q == Other(p)
            left == ParseAck(ParseUna(snd_buf[p], d.una), d.acks)
            una == ShrinkBuf(left, snd_nxt[p])
            new == ParseFastack(left, una, snd_nxt[p], d.acks)
<1>1. /\ Arrives(p, d) /\ d.kind = "ctl"
      /\ rmt_wnd' = [rmt_wnd EXCEPT ![p] = d.wnd]
      /\ snd_una' = [snd_una EXCEPT ![p] = una]
      /\ snd_buf' = [snd_buf EXCEPT ![p] = new]
      /\ ask_tell' = [ask_tell EXCEPT ![p] = @ \/ d.ask]
      /\ UNCHANGED <<snd_queue, snd_nxt, probe_wait, rcv_nxt, rcv_buf, rcv_queue,
                     acklist, sent, delivered>>
  BY DEF InputCtl, rcvVars
<1>2. /\ d \in net[Other(p)] /\ d \in Push \cup Ctl
      /\ net' \in [Peers -> SUBSET (Push \cup Ctl)]
      /\ \A r \in Peers : net'[r] \subseteq net[r]
  BY <1>1, ArriveLife
<1>3. d.wnd \in Nat /\ d.ask \in BOOLEAN
  BY <1>1, <1>2, RcvWndFacts DEF Push, Ctl
<1>4. snd_buf[p] \in [DOMAIN snd_buf[p] -> Outgoing]
  BY DEF RInv, TypeOK
<1>5. /\ DOMAIN left \subseteq DOMAIN snd_buf[p] /\ left \in [DOMAIN left -> Outgoing]
      /\ \A s \in DOMAIN left : left[s] = snd_buf[p][s]
  BY <1>4 DEF ParseAck, ParseUna, Restrict
<1>. HIDE DEF left
<1>6. /\ DOMAIN new = DOMAIN left /\ new \in [DOMAIN left -> Outgoing]
      /\ \A s \in DOMAIN left : new[s].seg = left[s].seg
  BY <1>5, FastackFacts
<1>. HIDE DEF new
<1>7. /\ snd_una' \in [Peers -> Sn] /\ DOMAIN snd_buf' = Peers
      /\ \A r \in Peers :
           /\ DOMAIN snd_buf'[r] \subseteq Sn
           /\ snd_buf'[r] \in [DOMAIN snd_buf'[r] -> Outgoing]
           /\ SentGenuine(r)'
  <2>1. \A sn \in DOMAIN left : new[sn].seg = snd_buf[p][sn].seg
    BY <1>5, <1>6
  <2>2. /\ UNCHANGED <<sent, births, snd_nxt>>
        /\ DOMAIN left \subseteq DOMAIN snd_buf[p]
        /\ DOMAIN new = DOMAIN left /\ new \in [DOMAIN left -> Outgoing]
        /\ snd_buf' = [snd_buf EXCEPT ![p] = new]
        /\ snd_una' = [snd_una EXCEPT ![p] = ShrinkBuf(left, snd_nxt[p])]
    BY <1>1, <1>5, <1>6
  <2>3. Freed(p, left, new)
    BY <2>1, <2>2 DEF Freed
  <2>. QED BY <2>3, FreedLife
<1>8. TypeOK'
  <2>1. rmt_wnd' \in [Peers -> Nat]
    BY <1>1, <1>3 DEF RInv, TypeOK
  <2>2. ask_tell' \in [Peers -> BOOLEAN]
    BY <1>1, <1>3, Zenon DEF RInv, TypeOK
  <2>. QED BY <2>1, <2>2, <1>1, <1>2, <1>7 DEF RInv, TypeOK
<1>9. \A r \in Peers : StaysGenuine(r) /\ \A sn, seg : Genuine(r, sn, seg)' = Genuine(r, sn, seg)
  BY <1>1, StillGenuine, LifeKept
<1>10. ASSUME NEW r \in Peers PROVE ReadInv(r)' /\ KeptInv(r)'
  <2>1. ReadInv(r)'
    BY <1>1, <1>9, ReadKept
  <2>2. KeptInv(r)
    BY DEF RInv, LifeInv
  <2>3. (\A c \in net[r] : c.kind = "push" => Genuine(r, c.sn, c.seg))'
    BY <2>2, <1>2, <1>9 DEF KeptInv
  <2>4. (\A sn \in DOMAIN rcv_buf[Other(r)] : Genuine(r, sn, rcv_buf[Other(r)][sn]))'
    BY <2>2, <1>1, <1>9 DEF KeptInv
  <2>. QED BY <2>1, <2>3, <2>4, <1>7 DEF KeptInv, SentGenuine
<1>11. ASSUME NEW r \in Peers
       PROVE  /\ SubmittedInv(r)'
              /\ (1 \in births /\ births \subseteq 1..(Len(sent[B]) + 1))'
  BY <1>1, LifeKept
<1>. QED BY <1>8, <1>10, <1>11, PeersAssumption DEF RInv, LifeInv, Peers

\* A restart of the server keeps the invariant: a life begins at the position
\* after everything the server submitted, and no copy it held is left.
LEMMA RestartLife ==
  ASSUME NoWrap, RInv, Restart
  PROVE  RInv'
<1>. DEFINE n == Len(sent[B])
<1>1. A \in Peers /\ B \in Peers /\ Other(A) = B /\ Other(B) = A /\ A # B
      /\ \A r \in Peers : r = A \/ r = B
  BY PeersAssumption DEF Peers, Other
<1>2. FirstSn = 0 /\ 0 \in Sn /\ WndRcv \in Nat /\ RcvWnd \in Nat
  BY SerialAssumption, WindowAssumption, RcvWndFacts DEF NoWrap, Sn
<1>3. /\ births' = births \cup {n + 1}
      /\ snd_queue' = [snd_queue EXCEPT ![B] = <<>>]
      /\ snd_nxt' = [snd_nxt EXCEPT ![B] = 0]
      /\ snd_una' = [snd_una EXCEPT ![B] = 0]
      /\ snd_buf' = [snd_buf EXCEPT ![B] = <<>>]
      /\ rmt_wnd' = [rmt_wnd EXCEPT ![B] = WndRcv]
      /\ probe_wait' = [probe_wait EXCEPT ![B] = FALSE]
      /\ rcv_nxt' = [rcv_nxt EXCEPT ![B] = 0]
      /\ rcv_buf' = [rcv_buf EXCEPT ![B] = <<>>]
      /\ rcv_queue' = [rcv_queue EXCEPT ![B] = <<>>]
      /\ acklist' = [acklist EXCEPT ![B] = {}]
      /\ ask_tell' = [ask_tell EXCEPT ![B] = FALSE]
      /\ delivered' = [delivered EXCEPT ![B] = <<>>]
      /\ UNCHANGED <<net, sent>>
  BY <1>2 DEF Restart, StartsAt
<1>4. TypeOK /\ n \in Nat
  BY <1>1, BirthFacts DEF RInv
<1>5. TypeOK'
  <2>1. /\ snd_queue' \in [Peers -> Seq(Segment)] /\ snd_nxt' \in [Peers -> Sn]
        /\ snd_una' \in [Peers -> Sn] /\ rmt_wnd' \in [Peers -> Nat]
        /\ rcv_nxt' \in [Peers -> Sn] /\ rcv_queue' \in [Peers -> Seq(Segment)]
        /\ acklist' \in [Peers -> SUBSET Sn] /\ delivered' \in [Peers -> Seq(Segment)]
        /\ DOMAIN snd_buf' = Peers /\ DOMAIN rcv_buf' = Peers
    <3>1. <<>> \in Seq(Segment) /\ {} \in SUBSET Sn
      OBVIOUS
    <3>2. /\ snd_queue' \in [Peers -> Seq(Segment)]
          /\ rcv_queue' \in [Peers -> Seq(Segment)]
          /\ delivered' \in [Peers -> Seq(Segment)]
      BY <1>3, <1>4, <3>1 DEF TypeOK
    <3>3. /\ snd_nxt' \in [Peers -> Sn] /\ snd_una' \in [Peers -> Sn]
          /\ rcv_nxt' \in [Peers -> Sn] /\ rmt_wnd' \in [Peers -> Nat]
      BY <1>2, <1>3, <1>4 DEF TypeOK
    <3>4. acklist' \in [Peers -> SUBSET Sn]
      BY <1>3, <1>4, <3>1 DEF TypeOK
    <3>5. DOMAIN snd_buf' = Peers /\ DOMAIN rcv_buf' = Peers
      BY <1>3, <1>4 DEF TypeOK
    <3>. QED BY <3>2, <3>3, <3>4, <3>5
  <2>2. probe_wait' \in [Peers -> BOOLEAN] /\ ask_tell' \in [Peers -> BOOLEAN]
    BY <1>3, <1>4, Zenon DEF TypeOK
  <2>3. ASSUME NEW r \in Peers
        PROVE  /\ DOMAIN snd_buf'[r] \subseteq Sn
               /\ snd_buf'[r] \in [DOMAIN snd_buf'[r] -> Outgoing]
               /\ DOMAIN rcv_buf'[r] \subseteq Sn
               /\ rcv_buf'[r] \in [DOMAIN rcv_buf'[r] -> Segment]
    <3>1. CASE r = B
      BY <3>1, <1>1, <1>3, <1>4 DEF TypeOK
    <3>2. CASE r # B
      BY <3>2, <1>3, <1>4 DEF TypeOK
    <3>. QED BY <3>1, <3>2
  <2>. QED BY <2>1, <2>2, <2>3, <1>3, <1>4 DEF TypeOK
<1>6. ASSUME NEW r \in Peers PROVE StaysGenuine(r)
  <2>1. /\ Len(sent'[r]) \in Nat /\ Len(sent[r]) <= Len(sent'[r])
        /\ \A i \in 1..Len(sent[r]) : sent'[r][i] = sent[r][i]
        /\ births \subseteq births'
        /\ \A c \in births' \ births : c \in Nat /\ c > Len(sent[B])
    BY <1>3, <1>4, BirthFacts
  <2>. QED BY <2>1, GenuineKept DEF StaysGenuine
<1>7. /\ snd_buf'[A] = snd_buf[A] /\ snd_buf'[B] = <<>> /\ snd_nxt'[A] = snd_nxt[A]
      /\ rcv_buf'[A] = rcv_buf[A] /\ rcv_buf'[B] = <<>>
      /\ rcv_nxt'[A] = rcv_nxt[A] /\ rcv_queue'[A] = rcv_queue[A]
      /\ delivered'[A] = delivered[A]
      /\ rcv_nxt'[B] = 0 /\ rcv_queue'[B] = <<>> /\ delivered'[B] = <<>>
      /\ snd_queue'[A] = snd_queue[A] /\ snd_queue'[B] = <<>> /\ snd_nxt'[B] = 0
  BY <1>1, <1>3, <1>4 DEF TypeOK
<1>8. ASSUME NEW r \in Peers
      PROVE  (\A d \in net[r] : d.kind = "push" => Genuine(r, d.sn, d.seg))'
  BY <1>3, <1>6, CopiesKept
<1>9. KeptInv(A)'
  <2>1. KeptInv(A)
    BY <1>1 DEF RInv, LifeInv
  <2>2. (\A sn \in DOMAIN snd_buf[A] :
           sn < snd_nxt[A] /\ Genuine(A, sn, snd_buf[A][sn].seg))'
    BY <2>1, <1>1, <1>6, <1>7, CopiesKept DEF KeptInv
  <2>3. DOMAIN rcv_buf'[B] = {}
    BY <1>7
  <2>. QED BY <2>2, <2>3, <1>1, <1>8 DEF KeptInv
<1>10. KeptInv(B)'
  <2>1. (\A sn \in DOMAIN rcv_buf[A] : Genuine(B, sn, rcv_buf[A][sn]))'
    BY <1>1, <1>6, <1>7, CopiesKept
  <2>2. DOMAIN snd_buf'[B] = {}
    BY <1>7
  <2>. QED BY <2>1, <2>2, <1>1, <1>8 DEF KeptInv
<1>11. ReadInv(A)'
  BY <1>1, <1>2, <1>7 DEF ReadInv
<1>12. ReadInv(B)'
  BY <1>1, <1>6, <1>7, ReadKept
<1>13. SubmittedInv(A)'
  <2>1. SubmittedInv(A)
    BY <1>1 DEF RInv, LifeInv
  <2>. QED BY <2>1, <1>1, <1>3, <1>7 DEF SubmittedInv, CurrentLife, Births
<1>14. SubmittedInv(B)'
  <2>1. SubmittedInv(B) /\ Births(B) = births /\ Births(B)' = births'
    BY <1>1 DEF RInv, LifeInv, Births
  <2>2. \A c \in births' : c <= n + 1
    BY <2>1, <1>1, <1>3, <1>4, BirthFacts
  <2>3. CurrentLife(B, n + 1)'
    BY <2>1, <2>2, <1>3, <1>4, <1>7 DEF CurrentLife
  <2>4. n + 1 \in Births(B)'
    BY <2>1, <1>3
  <2>. QED BY <2>1, <2>3, <2>4, <1>3 DEF SubmittedInv
<1>15. 1 \in births' /\ births' \subseteq 1..(Len(sent'[B]) + 1)
  <2>1. 1 \in births /\ births \subseteq 1..(n + 1)
    BY DEF RInv, LifeInv
  <2>2. births' = births \cup {n + 1} /\ Len(sent'[B]) = n
    BY <1>3
  <2>. HIDE DEF n
  <2>. QED BY <2>1, <2>2, <1>4
<1>. QED BY <1>1, <1>5, <1>9, <1>10, <1>11, <1>12, <1>13, <1>14, <1>15
         DEF RInv, LifeInv

-------------------------------------------------------------------------------
(* The theorems *)

\* Two new control blocks satisfy the invariant: nothing was submitted, and the
\* first life of each begins with the first segment.
LEMMA InitLife ==
  ASSUME NoWrap, RestartInit
  PROVE  RInv
<1>1. TypeOK
  BY InitInv DEF RestartInit, IInv
<1>2. FirstSn = 0 /\ RcvWnd \in Nat /\ \A p \in Peers : MaxSegs[p] \in Nat
  BY BoundAssumption, RcvWndFacts DEF NoWrap
<1>3. ASSUME NEW p \in Peers PROVE SubmittedInv(p) /\ KeptInv(p) /\ ReadInv(p)
  <2>1. /\ Other(p) \in Peers /\ Births(p) = {1}
        /\ snd_queue[p] = <<>> /\ sent[p] = <<>> /\ snd_nxt[p] = 0
        /\ snd_buf[p] = <<>> /\ net[p] = {} /\ rcv_buf[Other(p)] = <<>>
        /\ delivered[Other(p)] = <<>> /\ rcv_queue[Other(p)] = <<>>
        /\ rcv_nxt[Other(p)] = 0
    BY <1>2, PeerFacts DEF RestartInit, Init, Births
  <2>2. CurrentLife(p, 1)
    BY <2>1 DEF CurrentLife
  <2>3. SubmittedInv(p)
    BY <2>1, <2>2, <1>2 DEF SubmittedInv
  <2>4. KeptInv(p)
    BY <2>1 DEF KeptInv
  <2>5. ReadInv(p)
    BY <2>1, <1>2 DEF ReadInv
  <2>. QED BY <2>3, <2>4, <2>5
<1>4. 1 \in births /\ births \subseteq 1..(Len(sent[B]) + 1)
  <2>1. births = {1} /\ sent[B] = <<>>
    BY DEF RestartInit, Init, Peers
  <2>. QED BY <2>1
<1>. QED BY <1>1, <1>3, <1>4 DEF RInv, LifeInv

\* Every step keeps the invariant.
LEMMA NextLife ==
  ASSUME NoWrap, RInv, [RestartNext]_restartVars
  PROVE  RInv'
<1>1. CASE Next /\ UNCHANGED births
  <2>1. PICK p \in Peers :
          \/ \E count \in 1..MaxSegs[p] : Send(p, count)
          \/ Recv(p)
          \/ \E due \in SUBSET DOMAIN snd_buf[p], elapsed \in BOOLEAN :
               Flush(p, due, elapsed)
          \/ \E d \in net[Other(p)] : InputPush(p, d) \/ InputCtl(p, d)
    BY <1>1 DEF Next
  <2>2. ASSUME NEW count \in 1..MaxSegs[p], Send(p, count) PROVE RInv'
    <3>1. count \in Nat \ {0}
      BY BoundAssumption
    <3>. QED BY <1>1, <2>2, <3>1, SendLife
  <2>3. CASE Recv(p)
    BY <1>1, <2>3, RecvLife
  <2>4. ASSUME NEW due \in SUBSET DOMAIN snd_buf[p], NEW elapsed \in BOOLEAN,
               Flush(p, due, elapsed)
        PROVE  RInv'
    BY <1>1, <2>4, FlushLife
  <2>5. ASSUME NEW d \in net[Other(p)], InputPush(p, d) PROVE RInv'
    BY <1>1, <2>5, InputPushLife
  <2>6. ASSUME NEW d \in net[Other(p)], InputCtl(p, d) PROVE RInv'
    BY <1>1, <2>6, InputCtlLife
  <2>. QED BY <2>1, <2>2, <2>3, <2>4, <2>5, <2>6
<1>2. CASE Restart
  BY <1>2, RestartLife
<1>3. CASE UNCHANGED restartVars
  <2>. USE <1>3 DEF restartVars, vars, sndVars, rcvVars, sigVars
  <2>1. TypeOK'
    BY DEF RInv, TypeOK
  <2>2. ASSUME NEW p \in Peers
        PROVE  /\ SubmittedInv(p)' /\ KeptInv(p)' /\ ReadInv(p)'
               /\ (1 \in births /\ births \subseteq 1..(Len(sent[B]) + 1))'
    <3>1. /\ \A sn, seg : Genuine(p, sn, seg)' = Genuine(p, sn, seg)
          /\ SubmittedInv(p)' /\ (1 \in births /\ births \subseteq 1..(Len(sent[B]) + 1))'
      BY LifeKept
    <3>2. StaysGenuine(p)
      BY <3>1 DEF StaysGenuine
    <3>3. ReadInv(p)'
      BY <3>2, ReadKept
    <3>4. KeptInv(p)
      BY DEF RInv, LifeInv
    <3>5. KeptInv(p)'
      BY <3>1, <3>4 DEF KeptInv
    <3>. QED BY <3>1, <3>3, <3>5
  <2>. QED BY <2>1, <2>2, PeersAssumption DEF RInv, LifeInv, Peers
<1>. QED BY <1>1, <1>2, <1>3 DEF RestartNext

\* Through every restart of the server, each segment has the number it got in
\* the life in which it was submitted, wherever ikcp.c or the network keeps it.
THEOREM RestartInvariant == NoWrap => (RestartSpec => [](TypeOK /\ LifeInv))
<1>. SUFFICES ASSUME NoWrap PROVE RestartSpec => []RInv
  BY DEF RInv
<1>1. RestartInit => RInv
  BY InitLife
<1>2. RInv /\ [RestartNext]_restartVars => RInv'
  BY NextLife
<1>. QED BY <1>1, <1>2, PTL DEF RestartSpec

\* Every variable of a connection keeps its type when the server restarts.
THEOREM RestartTypeCorrect == NoWrap => (RestartSpec => []TypeOK)
BY RestartInvariant, PTL

\* What the server has read is what the client submitted, from the first on.
LEMMA InvFromTheStart == ASSUME RInv PROVE FromTheStart
<1>. DEFINE got == delivered[B]
<1>1. A \in Peers /\ Other(A) = B /\ got \in Seq(Segment) /\ Births(A) = {1}
  BY PeersAssumption DEF Peers, Other, RInv, TypeOK, Births
<1>2. Len(got) \in Nat /\ \A i \in 1..Len(got) : got[i] \in Segment /\ i - 1 \in Int
  BY <1>1
<1>3. \A i \in 1..Len(got) : Genuine(A, i - 1, got[i])
  BY <1>1 DEF RInv, LifeInv, ReadInv
<1>4. ASSUME NEW i \in 1..Len(got)
      PROVE  got[i] = sent[A][i] /\ i <= Len(sent[A])
  <2>1. Genuine(A, i - 1, got[i])
    BY <1>3
  <2>2. got[i].data = 1 + (i - 1)
    BY <2>1, <1>1 DEF Genuine, Carries
  <2>3. got[i].data = i
    BY <2>2
  <2>. QED BY <2>1, <2>3 DEF Genuine
<1>5. Len(got) <= Len(sent[A])
  <2>1. CASE Len(got) = 0
    BY <2>1, <1>1, BirthFacts
  <2>2. CASE Len(got) # 0
    <3>1. Len(got) \in 1..Len(got)
      BY <2>2, <1>2
    <3>. QED BY <3>1, <1>4
  <2>. QED BY <2>1, <2>2
<1>6. DOMAIN got = 1..Len(got)
  BY <1>1
<1>. QED BY <1>4, <1>5, <1>6 DEF FromTheStart

\* Two numbers are those of two positions, in the order of the numbers if both
\* positions are of one life.
LEMMA OnePosition ==
  ASSUME RInv, NEW i \in Nat, NEW j \in Nat, NEW m \in Nat, NEW n \in Nat, m < n,
         Carries(B, i, m), Carries(B, j, n)
  PROVE  i # j /\ (SameLife(i, j) => i < j)
<1>1. Births(B) = births /\ births \subseteq Nat
  BY BirthFacts DEF Peers, Births
<1>2. PICK b \in births : i = b + m /\ \A k \in births : k <= b \/ k > i
  BY <1>1 DEF Carries
<1>3. PICK c \in births : j = c + n /\ \A k \in births : k <= c \/ k > j
  BY <1>1 DEF Carries
<1>4. b \in Nat /\ c \in Nat /\ b <= i /\ c <= j
  BY <1>1, <1>2, <1>3
<1>5. (c <= b \/ c > i) /\ (b <= c \/ b > j)
  BY <1>2, <1>3
<1>6. i # j
  BY <1>2, <1>3, <1>4, <1>5
<1>7. ASSUME SameLife(i, j) PROVE i < j
  <2>1. b <= j /\ c <= i
    BY <1>4, <1>7 DEF SameLife
  <2>. QED BY <2>1, <1>2, <1>3, <1>4, <1>5
<1>. QED BY <1>6, <1>7

\* What the client has read is in the order of each life, by the invariant.
LEMMA InvLifeOrder == ASSUME RInv PROVE LifeOrder
<1>. DEFINE got == delivered[A]
<1>1. B \in Peers /\ Other(B) = A /\ got \in Seq(Segment)
  BY PeersAssumption DEF Peers, Other, RInv, TypeOK
<1>2. \A i \in 1..Len(got) : Genuine(B, i - 1, got[i])
  BY <1>1 DEF RInv, LifeInv, ReadInv
<1>3. Len(got) \in Nat /\ DOMAIN got = 1..Len(got)
  BY <1>1
<1>4. ASSUME NEW i \in 1..Len(got)
      PROVE  i \in Nat /\ i - 1 \in Nat /\ got[i].data \in Nat /\ Carries(B, got[i].data, i - 1)
  <2>1. i \in Nat /\ i - 1 \in Nat /\ got[i] \in Segment
    BY <1>1, <1>3
  <2>. QED BY <2>1, <1>2 DEF Genuine, Segment
<1>5. ASSUME NEW j \in 1..Len(got), NEW i \in 1..j - 1
      PROVE  LET a == got[i].data
                 b == got[j].data
             IN  a # b /\ (SameLife(a, b) => a < b)
  <2>1. i \in 1..Len(got) /\ i - 1 < j - 1
    BY <1>3
  <2>. QED BY <2>1, <1>4, OnePosition
<1>. QED BY <1>3, <1>5 DEF LifeOrder

\* However often the server restarts, what it reads in a life is the start of
\* what the client submitted: the header of a session message is never read out
\* of the middle of another message (codec.h takes the first bytes for one).
THEOREM ServerReadsFromTheStart == NoWrap => (RestartSpec => []FromTheStart)
<1>. SUFFICES ASSUME NoWrap PROVE RestartSpec => []FromTheStart
  OBVIOUS
<1>1. TypeOK /\ LifeInv => FromTheStart
  BY InvFromTheStart DEF RInv
<1>. QED BY <1>1, RestartInvariant, PTL

\* However many lives of the server share the numbers 0, 1, ..., the client reads
\* no segment twice, and the segments of one life in the order submitted.
THEOREM ClientReadsInLifeOrder == NoWrap => (RestartSpec => []LifeOrder)
<1>. SUFFICES ASSUME NoWrap PROVE RestartSpec => []LifeOrder
  OBVIOUS
<1>1. TypeOK /\ LifeInv => LifeOrder
  BY InvLifeOrder DEF RInv
<1>. QED BY <1>1, RestartInvariant, PTL

===============================================================================
