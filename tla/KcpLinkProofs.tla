----------------------------- MODULE KcpLinkProofs -----------------------------
(***************************************************************************)
(* Proofs about KcpLink, for every value of its constants under NoWrap:    *)
(* type correctness, the inductive invariant LinkInv of KcpLinkInv, and    *)
(* the safety properties that follow from it.                              *)
(***************************************************************************)
EXTENDS KcpLinkInv, TLAPS, SequenceTheorems, FiniteSetTheorems,
        WellFoundedInduction

-------------------------------------------------------------------------------
(* Numbers, peers and windows *)

\* Each peer has exactly one other.
LEMMA PeerFacts ==
  ASSUME NEW p \in Peers
  PROVE  /\ Other(p) \in Peers /\ Other(p) # p /\ Other(Other(p)) = p
         /\ \A r \in Peers : r = p \/ r = Other(p)
BY PeersAssumption DEF Peers, Other

\* The receive window is at least two segments.
LEMMA RcvWndFacts == RcvWnd \in Nat /\ RcvWnd >= WndRcv /\ RcvWnd >= 2
BY WindowAssumption DEF RcvWnd

\* Below the wrap, serial numbers add up like numbers ...
LEMMA SerialSum ==
  ASSUME NEW a \in Nat, NEW n \in Nat, a + n < SnMod
  PROVE  SnAdd(a, n) = a + n
BY SerialAssumption DEF SnAdd

\* ... and compare like numbers.
LEMMA SerialDiff ==
  ASSUME NEW a \in Nat, NEW b \in Nat, a < SnMod \div 2, b < SnMod \div 2
  PROVE  SnDiff(a, b) = a - b
BY SerialAssumption DEF SnDiff

\* A set of naturals has a least element, and Min chooses it.
LEMMA LeastNat ==
  ASSUME NEW S \in SUBSET Nat, S # {}
  PROVE  \E x \in S : \A y \in S : x <= y
<1>1. PICK x \in S : \A y \in S : ~ (<<y, x>> \in OpToRel(<, Nat))
  BY WFMin, NatLessThanWellFounded
<1>2. ASSUME NEW y \in S PROVE x <= y
  <2>1. <<y, x>> \in Nat \X Nat => y >= x
    BY <1>1 DEF OpToRel
  <2>. QED BY <2>1
<1>. QED BY <1>2

\* Min of a non-empty set of naturals is its least element.
LEMMA MinFacts ==
  ASSUME NEW S \in SUBSET Nat, S # {}
  PROVE  Min(S) \in S /\ \A y \in S : Min(S) <= y
BY LeastNat DEF Min

\* The lesser of two naturals.
LEMMA MinPair ==
  ASSUME NEW a \in Nat, NEW b \in Nat
  PROVE  Min({a, b}) \in Nat /\ Min({a, b}) <= a /\ Min({a, b}) <= b
<1>1. {a, b} \in SUBSET Nat /\ {a, b} # {}
  OBVIOUS
<1>. QED BY <1>1, MinFacts

\* A number cut off below zero.
LEMMA MaxZero ==
  ASSUME NEW a \in Int
  PROVE  Max({0, a}) = IF a > 0 THEN a ELSE 0
BY DEF Max

-------------------------------------------------------------------------------
(* What the helpers of the actions return *)

\* ikcp_shrink_buf sets snd_una to the least number in snd_buf, or snd_nxt.
LEMMA ShrinkFacts ==
  ASSUME NEW buf, NEW nxt \in Nat, nxt < SnMod \div 2,
         DOMAIN buf \subseteq 0..(nxt - 1)
  PROVE  /\ ShrinkBuf(buf, nxt) \in 0..nxt
         /\ \A sn \in DOMAIN buf : ShrinkBuf(buf, nxt) <= sn
         /\ DOMAIN buf # {} => ShrinkBuf(buf, nxt) \in DOMAIN buf
         /\ DOMAIN buf = {} => ShrinkBuf(buf, nxt) = nxt
<1>1. CASE DOMAIN buf = {}
  BY <1>1 DEF ShrinkBuf
<1>2. CASE DOMAIN buf # {}
  <2>1. PICK x \in DOMAIN buf : \A y \in DOMAIN buf : x <= y
    BY <1>2, LeastNat
  <2>2. \A sn, o \in DOMAIN buf : SnDiff(sn, o) = sn - o
    BY SerialDiff, SerialAssumption
  <2>3. \A o \in DOMAIN buf : SnDiff(x, o) <= 0
    BY <2>1, <2>2
  <2>. DEFINE una == ShrinkBuf(buf, nxt)
  <2>4. una \in DOMAIN buf /\ \A o \in DOMAIN buf : SnDiff(una, o) <= 0
    BY <1>2, <2>3 DEF ShrinkBuf
  <2>. HIDE DEF una
  <2>5. \A o \in DOMAIN buf : una <= o
    BY <2>2, <2>4
  <2>. QED BY <1>2, <2>4, <2>5 DEF una
<1>. QED BY <1>1, <1>2

\* The run moved to rcv_queue starts at nxt and has no gap.
LEMMA RunFacts ==
  ASSUME NEW buf, NEW nxt \in Nat, NEW room \in Nat, nxt + room < SnMod
  PROVE  /\ Run(nxt, buf, room) \in 0..room
         /\ \A i \in 0..(Run(nxt, buf, room) - 1) : nxt + i \in DOMAIN buf
<1>. DEFINE gaps == {k \in 0..room : k = room \/ SnAdd(nxt, k) \notin DOMAIN buf}
<1>1. gaps \in SUBSET Nat /\ room \in gaps
  OBVIOUS
<1>2. Run(nxt, buf, room) \in gaps /\ \A k \in gaps : Run(nxt, buf, room) <= k
  BY <1>1, MinFacts DEF Run
<1>3. ASSUME NEW i \in 0..(Run(nxt, buf, room) - 1)
      PROVE  nxt + i \in DOMAIN buf
  <2>1. i \in 0..room /\ i # room /\ i \notin gaps
    BY <1>2
  <2>2. SnAdd(nxt, i) = nxt + i
    BY <2>1, SerialSum, SerialAssumption
  <2>. QED BY <2>1, <2>2
<1>4. Run(nxt, buf, room) \in 0..room
  BY <1>2
<1>. QED BY <1>3, <1>4

\* k segments went from the head of buf to the tail of queue.
Moved(p, buf, queue, k) ==
  LET run == rcv_nxt[p]..(rcv_nxt[p] + k - 1)
  IN  /\ run \subseteq DOMAIN buf
      /\ rcv_nxt' = [rcv_nxt EXCEPT ![p] = rcv_nxt[p] + k]
      /\ DOMAIN rcv_queue' = Peers /\ DOMAIN rcv_buf' = Peers
      /\ \A r \in Peers \ {p} : /\ rcv_queue'[r] = rcv_queue[r]
                                /\ rcv_buf'[r] = rcv_buf[r]
      /\ rcv_queue'[p] \in Seq(Segment)
      /\ Len(rcv_queue'[p]) = Len(queue) + k
      /\ \A i \in 1..Len(queue) : rcv_queue'[p][i] = queue[i]
      /\ \A i \in 1..k : rcv_queue'[p][Len(queue) + i] = buf[rcv_nxt[p] + i - 1]
      /\ DOMAIN rcv_buf'[p] = DOMAIN buf \ run
      /\ rcv_buf'[p] \in [DOMAIN rcv_buf'[p] -> Segment]
      /\ \A sn \in DOMAIN rcv_buf'[p] : rcv_buf'[p][sn] = buf[sn]

\* What MoveAvailable does to the three variables of the receiver.
LEMMA MoveFacts ==
  ASSUME NEW p \in Peers, NEW buf, NEW queue \in Seq(Segment),
         buf \in [DOMAIN buf -> Segment],
         rcv_nxt[p] \in Nat, Len(queue) <= RcvWnd, rcv_nxt[p] + RcvWnd < SnMod,
         DOMAIN rcv_nxt = Peers, DOMAIN rcv_queue = Peers, DOMAIN rcv_buf = Peers,
         MoveAvailable(p, buf, queue)
  PROVE  \E k \in 0..(RcvWnd - Len(queue)) : Moved(p, buf, queue, k)
<1>. DEFINE nxt == rcv_nxt[p]
            room == RcvWnd - Len(queue)
            k == Run(nxt, buf, room)
            moved == [i \in 1..k |-> buf[SnAdd(nxt, i - 1)]]
            old == {SnAdd(nxt, i) : i \in 0..(k - 1)}
<1>1. room \in Nat /\ nxt \in Nat /\ nxt + room < SnMod
  BY RcvWndFacts, SerialAssumption
<1>2. k \in 0..room /\ \A i \in 0..(k - 1) : nxt + i \in DOMAIN buf
  BY <1>1, RunFacts
<1>3. /\ rcv_queue' = [rcv_queue EXCEPT ![p] = queue \o moved]
      /\ rcv_buf' = [rcv_buf EXCEPT ![p] = Restrict(buf, DOMAIN buf \ old)]
      /\ rcv_nxt' = [rcv_nxt EXCEPT ![p] = SnAdd(nxt, k)]
  BY DEF MoveAvailable
<1>. HIDE DEF k
<1>4. \A i \in 0..k : SnAdd(nxt, i) = nxt + i
  BY <1>1, <1>2, SerialSum, SerialAssumption
<1>5. old = nxt..(nxt + k - 1)
  <2>1. old = {nxt + i : i \in 0..(k - 1)}
    BY <1>2, <1>4
  <2>2. ASSUME NEW x \in nxt..(nxt + k - 1) PROVE x \in old
    <3>1. x - nxt \in 0..(k - 1) /\ x = nxt + (x - nxt)
      BY <1>1, <1>2
    <3>. QED BY <2>1, <3>1
  <2>3. ASSUME NEW x \in old PROVE x \in nxt..(nxt + k - 1)
    <3>1. PICK i \in 0..(k - 1) : x = nxt + i
      BY <2>1
    <3>. QED BY <3>1, <1>1, <1>2
  <2>. QED BY <2>2, <2>3
<1>6. /\ moved \in Seq(Segment) /\ Len(moved) = k
      /\ \A i \in 1..k : moved[i] = buf[nxt + i - 1]
  <2>1. \A i \in 1..k : SnAdd(nxt, i - 1) = nxt + (i - 1)
    BY <1>2, <1>4
  <2>2. \A i \in 1..k : nxt + (i - 1) \in DOMAIN buf
    BY <1>2
  <2>3. moved = [i \in 1..k |-> buf[nxt + (i - 1)]]
    BY <2>1
  <2>4. \A i \in 1..k : nxt + (i - 1) = nxt + i - 1
    BY <1>1, <1>2
  <2>5. [i \in 1..k |-> buf[nxt + (i - 1)]] \in [1..k -> Segment]
    BY <2>2
  <2>. HIDE DEF moved, nxt
  <2>6. moved \in [1..k -> Segment] /\ \A i \in 1..k : moved[i] = buf[nxt + i - 1]
    BY <2>3, <2>4, <2>5
  <2>. QED BY <1>2, <2>6
<1>. HIDE DEF moved, old
<1>7. /\ queue \o moved \in Seq(Segment)
      /\ Len(queue \o moved) = Len(queue) + k
      /\ \A i \in 1..(Len(queue) + k) :
           (queue \o moved)[i] =
              IF i <= Len(queue) THEN queue[i] ELSE moved[i - Len(queue)]
  BY <1>6, ConcatProperties
<1>8. /\ \A i \in 1..Len(queue) : (queue \o moved)[i] = queue[i]
      /\ \A i \in 1..k : (queue \o moved)[Len(queue) + i] = buf[nxt + i - 1]
  <2>1. Len(queue) \in Nat /\ k \in Nat
    BY <1>2
  <2>2. ASSUME NEW i \in 1..k
        PROVE  (queue \o moved)[Len(queue) + i] = buf[nxt + i - 1]
    <3>1. /\ Len(queue) + i \in 1..(Len(queue) + k)
          /\ ~(Len(queue) + i <= Len(queue)) /\ (Len(queue) + i) - Len(queue) = i
      BY <2>1
    <3>. QED BY <3>1, <1>6, <1>7
  <2>. QED BY <2>1, <2>2, <1>7
<1>9. /\ DOMAIN Restrict(buf, DOMAIN buf \ old) = DOMAIN buf \ old
      /\ Restrict(buf, DOMAIN buf \ old) \in [DOMAIN buf \ old -> Segment]
      /\ \A sn \in DOMAIN buf \ old : Restrict(buf, DOMAIN buf \ old)[sn] = buf[sn]
  BY DEF Restrict
<1>10. nxt..(nxt + k - 1) \subseteq DOMAIN buf
  <2>1. ASSUME NEW x \in nxt..(nxt + k - 1) PROVE x \in DOMAIN buf
    <3>1. x - nxt \in 0..(k - 1) /\ x = nxt + (x - nxt)
      BY <1>1, <1>2
    <3>. QED BY <1>2, <3>1
  <2>. QED BY <2>1
<1>11. SnAdd(nxt, k) = nxt + k
  BY <1>2, <1>4
<1>. k \in 0..(RcvWnd - Len(queue))
  BY <1>2
<1>. WITNESS k \in 0..(RcvWnd - Len(queue))
<1>. QED
  BY <1>3, <1>5, <1>7, <1>8, <1>9, <1>10, <1>11 DEF Moved

-------------------------------------------------------------------------------
(* The inductive invariant, one lemma per action *)

IInv == TypeOK /\ LinkInv

\* Every number in use, plus a window, stays below the wrap.
LEMMA Ranges ==
  ASSUME NoWrap, IInv, NEW p \in Peers
  PROVE  /\ SnMod \div 2 \in Nat /\ SnMod \div 2 <= SnMod /\ SnMod \in Nat
         /\ SndWnd \in Nat /\ RcvWnd \in Nat /\ MaxSegs[p] \in Nat
         /\ Len(sent[p]) \in Nat /\ Len(sent[p]) <= MaxSegs[p]
         /\ snd_nxt[p] \in Nat /\ snd_nxt[p] <= MaxSegs[p]
         /\ snd_nxt[p] <= Len(sent[p])
         /\ snd_una[p] \in Nat /\ snd_una[p] <= snd_nxt[p]
         /\ rcv_nxt[p] \in Nat /\ rcv_nxt[p] <= snd_nxt[Other(p)]
         /\ Len(rcv_queue[p]) \in Nat /\ Len(delivered[p]) \in Nat
         /\ Len(snd_queue[p]) \in Nat
         /\ MaxSegs[p] + SndWnd + RcvWnd < SnMod \div 2
         /\ rcv_nxt[p] + SndWnd + RcvWnd < SnMod \div 2
<1>1. SnMod \in Nat /\ SnMod \div 2 \in Nat /\ SnMod \div 2 <= SnMod
  BY SerialAssumption
<1>2. SndWnd \in Nat /\ RcvWnd \in Nat
  BY WindowAssumption, RcvWndFacts
<1>3. ASSUME NEW r \in Peers
      PROVE  /\ MaxSegs[r] \in Nat /\ snd_nxt[r] \in Nat /\ snd_una[r] \in Nat
             /\ rcv_nxt[r] \in Nat /\ Len(snd_queue[r]) \in Nat
             /\ Len(rcv_queue[r]) \in Nat /\ Len(sent[r]) \in Nat
             /\ Len(delivered[r]) \in Nat
  <2>1. MaxSegs[r] \in Nat
    BY BoundAssumption
  <2>2. snd_nxt[r] \in Sn /\ snd_una[r] \in Sn /\ rcv_nxt[r] \in Sn
    BY DEF IInv, TypeOK
  <2>3. /\ snd_queue[r] \in Seq(Segment) /\ rcv_queue[r] \in Seq(Segment)
        /\ sent[r] \in Seq(Segment) /\ delivered[r] \in Seq(Segment)
    BY DEF IInv, TypeOK
  <2>4. \A sn \in Sn : sn \in Nat
    BY DEF Sn
  <2>5. \A s \in Seq(Segment) : Len(s) \in Nat
    OBVIOUS
  <2>. QED BY <2>1, <2>2, <2>3, <2>4, <2>5
<1>4. ASSUME NEW r \in Peers
      PROVE  /\ Len(sent[r]) <= MaxSegs[r]
             /\ snd_nxt[r] + Len(snd_queue[r]) = Len(sent[r])
             /\ snd_una[r] <= snd_nxt[r]
             /\ rcv_nxt[r] <= snd_nxt[Other(r)]
             /\ MaxSegs[r] + SndWnd + RcvWnd < SnMod \div 2
  BY DEF IInv, LinkInv, QueueInv, SndBufInv, RcvBufInv, NoWrap
<1>. DEFINE half == SnMod \div 2
            q == Other(p)
<1>5. q \in Peers
  BY PeerFacts
<1>6. /\ snd_nxt[p] \in Nat /\ snd_nxt[p] + Len(snd_queue[p]) = Len(sent[p])
      /\ Len(snd_queue[p]) \in Nat /\ Len(sent[p]) \in Nat
      /\ Len(sent[p]) <= MaxSegs[p] /\ MaxSegs[p] \in Nat
  BY <1>3, <1>4
<1>7. /\ snd_nxt[q] \in Nat /\ snd_nxt[q] + Len(snd_queue[q]) = Len(sent[q])
      /\ Len(snd_queue[q]) \in Nat /\ Len(sent[q]) \in Nat
      /\ Len(sent[q]) <= MaxSegs[q] /\ MaxSegs[q] \in Nat
      /\ MaxSegs[q] + SndWnd + RcvWnd < half
  BY <1>3, <1>4, <1>5
<1>8. half \in Nat /\ rcv_nxt[p] \in Nat /\ rcv_nxt[p] <= snd_nxt[q]
  BY <1>1, <1>3, <1>4
<1>. HIDE DEF half, q
<1>9. snd_nxt[p] <= Len(sent[p]) /\ snd_nxt[p] <= MaxSegs[p]
  BY <1>6
<1>10. rcv_nxt[p] + SndWnd + RcvWnd < half
  BY <1>2, <1>7, <1>8
<1>. QED BY <1>1, <1>2, <1>3, <1>4, <1>9, <1>10 DEF half, q

\* Whatever number a queue, a buffer or a datagram holds is a natural.
LEMMA HeldNumbers ==
  ASSUME TypeOK, NEW r \in Peers
  PROVE  /\ \A sn \in DOMAIN snd_buf[r] : sn \in Nat
         /\ \A sn \in DOMAIN rcv_buf[r] : sn \in Nat
         /\ \A sn \in acklist[r] : sn \in Nat
         /\ \A d \in net[r] : /\ d.una \in Nat
                              /\ d.kind = "push" => d.sn \in Nat
                              /\ d.kind = "ctl" => d.acks \subseteq Nat
<1>1. \A sn \in Sn : sn \in Nat
  BY DEF Sn
<1>2. DOMAIN snd_buf[r] \subseteq Sn /\ DOMAIN rcv_buf[r] \subseteq Sn
      /\ acklist[r] \subseteq Sn
  BY DEF TypeOK
<1>3. ASSUME NEW d \in net[r]
      PROVE  /\ d.una \in Sn
             /\ d.kind = "push" => d.sn \in Sn
             /\ d.kind = "ctl" => d.acks \subseteq Sn
  <2>1. d \in Push \/ d \in Ctl
    BY DEF TypeOK
  <2>2. CASE d \in Push
    BY <2>2 DEF Push
  <2>3. CASE d \in Ctl
    BY <2>3 DEF Ctl
  <2>. QED BY <2>1, <2>2, <2>3
<1>. QED BY <1>1, <1>2, <1>3

\* The segments of a message, and what ikcp_send appends to the stream.
LEMMA SendFacts ==
  ASSUME NEW src \in Seq(Segment), NEW count \in Nat \ {0}, count < WndRcv
  PROVE  LET new == Fragments(Len(src) + 1, count)
         IN  /\ new \in Seq(Segment) /\ Len(new) = count
             /\ \A i \in 1..count : new[i] = [frg |-> count - i, data |-> Len(src) + i]
             /\ src \o new \in Seq(Segment)
             /\ Len(src \o new) = Len(src) + count
             /\ \A i \in 1..Len(src) : (src \o new)[i] = src[i]
             /\ \A i \in 1..count : (src \o new)[Len(src) + i] = new[i]
<1>. DEFINE new == Fragments(Len(src) + 1, count)
<1>1. new \in [1..count -> Segment]
  BY WindowAssumption DEF Fragments, Segment
<1>2. \A i \in 1..count : new[i] = [frg |-> count - i, data |-> Len(src) + i]
  BY DEF Fragments
<1>. HIDE DEF new
<1>3. new \in Seq(Segment) /\ Len(new) = count
  BY <1>1
<1>4. /\ src \o new \in Seq(Segment)
      /\ Len(src \o new) = Len(src) + count
      /\ \A i \in 1..Len(src) + count :
           (src \o new)[i] = IF i <= Len(src) THEN src[i] ELSE new[i - Len(src)]
  BY <1>3, ConcatProperties
<1>5. ASSUME NEW i \in 1..count PROVE (src \o new)[Len(src) + i] = new[i]
  <2>1. /\ Len(src) + i \in 1..Len(src) + count
        /\ ~(Len(src) + i <= Len(src)) /\ (Len(src) + i) - Len(src) = i
    OBVIOUS
  <2>. QED BY <2>1, <1>4
<1>6. ASSUME NEW i \in 1..Len(src) PROVE (src \o new)[i] = src[i]
  BY <1>4
<1>. QED BY <1>2, <1>3, <1>4, <1>5, <1>6 DEF new

\* ikcp_send keeps the invariant.
LEMMA SendStep ==
  ASSUME NoWrap, IInv, NEW p \in Peers, NEW count \in Nat \ {0}, Send(p, count)
  PROVE  IInv'
<1>. DEFINE new == Fragments(Len(sent[p]) + 1, count)
<1>1. /\ count < WndRcv /\ Len(sent[p]) + count <= MaxSegs[p]
      /\ snd_queue' = [snd_queue EXCEPT ![p] = @ \o new]
      /\ sent' = [sent EXCEPT ![p] = @ \o new]
      /\ UNCHANGED <<snd_nxt, snd_una, snd_buf, rmt_wnd, probe_wait, rcv_nxt,
                     rcv_buf, rcv_queue, acklist, ask_tell, net, delivered>>
  BY DEF Send, rcvVars, sigVars
<1>2. /\ snd_queue \in [Peers -> Seq(Segment)] /\ sent \in [Peers -> Seq(Segment)]
  BY DEF IInv, TypeOK
<1>3. /\ new \in Seq(Segment) /\ Len(new) = count
      /\ \A i \in 1..count : new[i] = [frg |-> count - i, data |-> Len(sent[p]) + i]
      /\ sent[p] \o new \in Seq(Segment)
      /\ Len(sent[p] \o new) = Len(sent[p]) + count
      /\ \A i \in 1..Len(sent[p]) : (sent[p] \o new)[i] = sent[p][i]
      /\ \A i \in 1..count : (sent[p] \o new)[Len(sent[p]) + i] = new[i]
  BY <1>1, <1>2, SendFacts
<1>. HIDE DEF new
<1>4. TypeOK'
  <2>1. snd_queue[p] \o new \in Seq(Segment)
    BY <1>2, <1>3
  <2>. QED BY <1>1, <1>2, <1>3, <2>1 DEF IInv, TypeOK
<1>5. \* every stream only grows
      ASSUME NEW r \in Peers
      PROVE  /\ Len(sent'[r]) \in Nat /\ Len(sent[r]) <= Len(sent'[r])
             /\ \A i \in 1..Len(sent[r]) : sent'[r][i] = sent[r][i]
  BY <1>1, <1>2, <1>3
<1>6. ASSUME NEW r \in Peers
      PROVE  (SndBufInv(r) /\ RcvBufInv(r) /\ RcvQueueInv(r) /\ CopyInv(r) /\ NetInv(r))'
  <2>. DEFINE q == Other(r)
  <2>1. q \in Peers /\ Other(q) = r
    BY PeerFacts
  <2>2. /\ SndBufInv(r) /\ RcvBufInv(r) /\ RcvQueueInv(r) /\ CopyInv(r) /\ NetInv(r)
    BY DEF IInv, LinkInv
  <2>3. TypeOK
    BY DEF IInv
  <2>4. \A s \in Peers : snd_nxt[s] \in Nat /\ snd_nxt[s] <= Len(sent[s])
    BY Ranges
  <2>5. /\ rcv_nxt[r] \in Nat /\ rcv_nxt[r] <= snd_nxt[q]
        /\ delivered[r] \in Seq(Segment) /\ rcv_queue[r] \in Seq(Segment)
    BY <2>3, Ranges DEF TypeOK
  <2>6. /\ \A sn \in DOMAIN snd_buf[r] : sn \in Nat
        /\ \A sn \in DOMAIN rcv_buf[r] : sn \in Nat
        /\ \A d \in net[r] : d.kind = "push" => d.sn \in Nat
    BY <2>3, HeldNumbers
  <2>7. \A s \in Peers : \A sn \in Nat :
          sn < snd_nxt[s] => sent'[s][sn + 1] = sent[s][sn + 1]
    <3>1. ASSUME NEW s \in Peers, NEW sn \in Nat, sn < snd_nxt[s]
          PROVE  sn + 1 \in 1..Len(sent[s])
      BY <3>1, <2>4, <1>5
    <3>. QED BY <3>1, <1>5
  <2>8. SndBufInv(r)'
    BY <1>1, <2>2, <2>6, <2>7 DEF SndBufInv
  <2>9. RcvBufInv(r)'
    BY <1>1, <2>1, <2>2, <2>6, <2>7 DEF RcvBufInv
  <2>10. RcvQueueInv(r)'
    <3>1. \A i \in 1..rcv_nxt[r] : sent'[q][i] = sent[q][i]
      BY <1>5, <2>1, <2>4, <2>5
    <3>. DEFINE got == Len(delivered[r])
                waiting == Len(rcv_queue[r])
    <3>2. got \in Nat /\ waiting \in Nat /\ got + waiting = rcv_nxt[r]
      <4>1. got + waiting = rcv_nxt[r]
        BY <2>2 DEF RcvQueueInv
      <4>2. got \in Nat
        BY <2>5
      <4>3. waiting \in Nat
        BY <2>5
      <4>. QED BY <4>1, <4>2, <4>3
    <3>. HIDE DEF got, waiting
    <3>3. /\ \A i \in 1..got : i \in 1..rcv_nxt[r]
          /\ \A i \in 1..waiting : got + i \in 1..rcv_nxt[r]
      BY <3>2
    <3>4. /\ \A i \in 1..got : sent'[q][i] = sent[q][i]
          /\ \A i \in 1..waiting : sent'[q][got + i] = sent[q][got + i]
      BY <3>1, <3>3
    <3>. QED BY <1>1, <2>2, <3>4 DEF RcvQueueInv, got, waiting
  <2>11. CopyInv(r)'
    BY <1>1, <2>2 DEF CopyInv, Has
  <2>12. NetInv(r)'
    BY <1>1, <2>2, <2>6, <2>7 DEF NetInv, Has
  <2>. QED BY <2>8, <2>9, <2>10, <2>11, <2>12
<1>7. WholeMessages(p)' /\ QueueInv(p)'
  <2>. DEFINE n == Len(sent[p])
  <2>1. /\ sent'[p] = sent[p] \o new /\ snd_queue'[p] = snd_queue[p] \o new
        /\ n \in Nat /\ Len(sent'[p]) = n + count
        /\ \A i \in 1..n : sent'[p][i] = sent[p][i]
        /\ \A i \in 1..count : sent'[p][n + i] = new[i]
    BY <1>1, <1>2, <1>3
  <2>2. WholeMessages(p) /\ QueueInv(p) /\ snd_nxt[p] \in Nat /\ sent[p] \in Seq(Segment)
    BY <1>2, Ranges DEF IInv, LinkInv
  <2>. HIDE DEF n
  <2>3. \A i \in 1..count : /\ sent'[p][n + i].frg = count - i
                            /\ sent'[p][n + i].data = n + i
    BY <1>3, <2>1 DEF n
  <2>4. ASSUME NEW i \in 1..Len(sent'[p])
        PROVE  /\ sent'[p][i].data = i
               /\ i + sent'[p][i].frg <= Len(sent'[p])
               /\ \A j \in 0..sent'[p][i].frg :
                    sent'[p][i + j].frg = sent'[p][i].frg - j
    <3>1. CASE i <= n
      <4>1. i \in 1..n
        BY <3>1, <2>1
      <4>2. sent[p][i] \in Segment /\ i \in 1..Len(sent[p])
        BY <4>1, <2>2 DEF n
      <4>3. /\ sent'[p][i] = sent[p][i] /\ sent[p][i].data = i
            /\ i + sent[p][i].frg <= n /\ sent[p][i].frg \in Nat
            /\ \A j \in 0..sent[p][i].frg : sent[p][i + j].frg = sent[p][i].frg - j
        <5>1. /\ sent[p][i].data = i /\ i + sent[p][i].frg <= Len(sent[p])
              /\ \A j \in 0..sent[p][i].frg : sent[p][i + j].frg = sent[p][i].frg - j
          BY <4>2, <2>2 DEF WholeMessages
        <5>2. sent[p][i].frg \in Nat
          BY <4>2 DEF Segment
        <5>3. sent'[p][i] = sent[p][i]
          BY <4>1, <2>1
        <5>. QED BY <5>1, <5>2, <5>3 DEF n
      <4>4. ASSUME NEW j \in 0..sent[p][i].frg
            PROVE  sent'[p][i + j] = sent[p][i + j]
        <5>. DEFINE f == sent[p][i].frg
        <5>2. f \in Nat /\ i + f <= n /\ n \in Nat /\ i \in Nat /\ 1 <= i
          BY <4>1, <4>3, <2>1
        <5>3. j \in 0..f
          OBVIOUS
        <5>. HIDE DEF f
        <5>1. i + j \in 1..n
          BY <5>2, <5>3
        <5>. QED BY <5>1, <2>1
      <4>5. n <= Len(sent'[p])
        BY <2>1
      <4>6. i + sent'[p][i].frg <= Len(sent'[p])
        <5>. DEFINE m == Len(sent'[p])
                    f == sent[p][i].frg
        <5>1. f \in Nat /\ i + f <= n /\ n <= m /\ m \in Int /\ n \in Int /\ i \in Int
          BY <4>3, <4>5, <2>1
        <5>. HIDE DEF m, f
        <5>2. i + f <= m
          BY <5>1
        <5>. QED BY <5>2, <4>3 DEF m, f
      <4>. QED BY <4>3, <4>4, <4>6
    <3>2. CASE i > n
      <4>1. PICK k \in 1..count : i = n + k
        <5>1. i - n \in 1..count /\ i = n + (i - n)
          BY <3>2, <2>1
        <5>. QED BY <5>1
      <4>2. \A j \in 0..(count - k) : /\ k + j \in 1..count
                                      /\ i + j = n + (k + j)
        BY <4>1, <2>1
      <4>3. ASSUME NEW j \in 0..(count - k)
            PROVE  sent'[p][i + j].frg = (count - k) - j
        BY <4>2, <2>3
      <4>4. sent'[p][i].frg = count - k /\ sent'[p][i].data = i
        BY <4>1, <2>3
      <4>5. i + (count - k) <= n + count
        BY <4>1, <2>1
      <4>. QED BY <4>3, <4>4, <4>5, <2>1
    <3>3. i \in Int /\ n \in Int
      BY <2>1
    <3>. QED BY <3>1, <3>2, <3>3
  <2>5. WholeMessages(p)'
    BY <2>4 DEF WholeMessages
  <2>6. QueueInv(p)'
    <3>. DEFINE m == Len(snd_queue[p])
    <3>1. /\ m \in Nat /\ snd_nxt[p] + m = n
          /\ \A i \in 1..m : snd_queue[p][i] = sent[p][snd_nxt[p] + i]
      BY <1>2, <2>2 DEF QueueInv, n
    <3>2. /\ Len(snd_queue'[p]) = m + count
          /\ \A i \in 1..(m + count) : snd_queue'[p][i] =
                IF i <= m THEN snd_queue[p][i] ELSE new[i - m]
      <4>1. snd_queue[p] \in Seq(Segment)
        BY <1>2
      <4>2. /\ Len(snd_queue[p] \o new) = Len(snd_queue[p]) + Len(new)
            /\ \A i \in 1..(Len(snd_queue[p]) + Len(new)) : (snd_queue[p] \o new)[i] =
                 IF i <= Len(snd_queue[p]) THEN snd_queue[p][i]
                 ELSE new[i - Len(snd_queue[p])]
        BY <4>1, <1>3, ConcatProperties
      <4>. QED BY <4>2, <2>1, <1>3
    <3>. HIDE DEF m
    <3>3. ASSUME NEW i \in 1..(m + count)
          PROVE  snd_queue'[p][i] = sent'[p][snd_nxt[p] + i]
      <4>1. CASE i <= m
        <5>1. i \in 1..m /\ snd_nxt[p] + i \in 1..n
          BY <4>1, <3>1, <2>2
        <5>. QED BY <4>1, <5>1, <3>1, <3>2, <2>1
      <4>2. CASE i > m
        <5>1. i - m \in 1..count /\ snd_nxt[p] + i = n + (i - m) /\ ~(i <= m)
          BY <4>2, <3>1, <2>2
        <5>. QED BY <5>1, <3>2, <2>1
      <4>. QED BY <4>1, <4>2, <3>1
    <3>4. snd_nxt[p] + (m + count) = n + count /\ n + count <= MaxSegs[p]
      <4>1. n + count <= MaxSegs[p] /\ snd_nxt[p] + m = n /\ m \in Nat
        BY <1>1, <3>1 DEF n
      <4>2. n \in Nat /\ count \in Nat /\ snd_nxt[p] \in Nat
        BY <2>1, <2>2
      <4>. QED BY <4>1, <4>2
    <3>. QED BY <1>1, <2>1, <3>2, <3>3, <3>4 DEF QueueInv
  <2>. QED BY <2>5, <2>6
<1>8. WholeMessages(Other(p))' /\ QueueInv(Other(p))'
  BY <1>1, <1>2, PeerFacts DEF IInv, LinkInv, WholeMessages, QueueInv
<1>. QED BY <1>4, <1>6, <1>7, <1>8, PeerFacts DEF IInv, LinkInv

(* What the end p has after it moved what it could of the segments buf into *)
(* its queue, of which read were read before.                              *)
MovedUp(p, buf, read) ==
  /\ rcv_nxt' \in [Peers -> Sn]
  /\ rcv_queue' \in [Peers -> Seq(Segment)]
  /\ DOMAIN rcv_buf' = Peers
  /\ DOMAIN rcv_buf'[p] \subseteq Sn
  /\ rcv_buf'[p] \in [DOMAIN rcv_buf'[p] -> Segment]
  /\ \A r \in Peers \ {p} : /\ rcv_nxt'[r] = rcv_nxt[r]
                            /\ rcv_buf'[r] = rcv_buf[r]
                            /\ rcv_queue'[r] = rcv_queue[r]
  /\ rcv_nxt'[p] \in Nat /\ rcv_nxt[p] <= rcv_nxt'[p]
  /\ RcvBufInv(p)'
  /\ read + Len(rcv_queue'[p]) = rcv_nxt'[p]
  /\ Len(rcv_queue'[p]) <= RcvWnd
  /\ \A i \in 1..Len(rcv_queue'[p]) :
       rcv_queue'[p][i] = sent[Other(p)][read + i]
  /\ \A sn \in Nat : sn < rcv_nxt[p] \/ sn \in DOMAIN buf => Has(p, sn)'

\* MoveAvailable keeps the receiver's queues in step with the stream.  read is
\* the number of segments already handed to the reader.
LEMMA ReceiveFacts ==
  ASSUME NoWrap, IInv, NEW p \in Peers,
         NEW buf, NEW queue \in Seq(Segment), NEW read \in Nat,
         MoveAvailable(p, buf, queue), UNCHANGED <<sent, snd_nxt>>,
         buf \in [DOMAIN buf -> Segment],
         \A sn \in DOMAIN buf :
           /\ sn \in Nat /\ rcv_nxt[p] <= sn /\ sn < snd_nxt[Other(p)]
           /\ sn < rcv_nxt[p] + RcvWnd /\ buf[sn] = sent[Other(p)][sn + 1],
         read + Len(queue) = rcv_nxt[p], Len(queue) <= RcvWnd,
         \A i \in 1..Len(queue) : queue[i] = sent[Other(p)][read + i]
  PROVE  MovedUp(p, buf, read)
<1>. DEFINE nxt == rcv_nxt[p]
            q == Other(p)
            n == Len(queue)
<1>1. /\ nxt \in Nat /\ RcvWnd \in Nat /\ snd_nxt[q] \in Nat /\ q \in Peers
      /\ nxt + RcvWnd < SnMod \div 2 /\ SnMod \div 2 <= SnMod
      /\ SnMod \in Nat /\ SnMod \div 2 \in Nat
  <2>1. nxt + SndWnd + RcvWnd < SnMod \div 2 /\ SndWnd \in Nat
    BY Ranges
  <2>2. /\ nxt \in Nat /\ RcvWnd \in Nat /\ SnMod \div 2 <= SnMod
        /\ SnMod \in Nat /\ SnMod \div 2 \in Nat
    BY Ranges
  <2>3. q \in Peers /\ snd_nxt[q] \in Nat
    BY PeerFacts, Ranges
  <2>. QED BY <2>1, <2>2, <2>3
<1>2. /\ DOMAIN rcv_nxt = Peers /\ DOMAIN rcv_queue = Peers /\ DOMAIN rcv_buf = Peers
      /\ rcv_nxt \in [Peers -> Sn] /\ rcv_queue \in [Peers -> Seq(Segment)]
  BY DEF IInv, TypeOK
<1>3. nxt + RcvWnd < SnMod
  BY <1>1
<1>mv. PICK k \in 0..(RcvWnd - Len(queue)) : Moved(p, buf, queue, k)
  <2>1. rcv_nxt[p] \in Nat /\ rcv_nxt[p] + RcvWnd < SnMod
    BY <1>1, <1>3
  <2>. QED BY <2>1, <1>2, MoveFacts
<1>4. LET run == nxt..(nxt + k - 1)
      IN  /\ run \subseteq DOMAIN buf
          /\ rcv_nxt' = [rcv_nxt EXCEPT ![p] = nxt + k]
          /\ DOMAIN rcv_queue' = Peers /\ DOMAIN rcv_buf' = Peers
          /\ \A r \in Peers \ {p} : /\ rcv_queue'[r] = rcv_queue[r]
                                    /\ rcv_buf'[r] = rcv_buf[r]
          /\ rcv_queue'[p] \in Seq(Segment)
          /\ Len(rcv_queue'[p]) = n + k
          /\ \A i \in 1..n : rcv_queue'[p][i] = queue[i]
          /\ \A i \in 1..k : rcv_queue'[p][n + i] = buf[nxt + i - 1]
          /\ DOMAIN rcv_buf'[p] = DOMAIN buf \ run
          /\ rcv_buf'[p] \in [DOMAIN rcv_buf'[p] -> Segment]
          /\ \A sn \in DOMAIN rcv_buf'[p] : rcv_buf'[p][sn] = buf[sn]
  BY <1>mv DEF Moved
<1>5. n \in Nat /\ k \in Nat /\ n + k <= RcvWnd /\ read + n = nxt
      /\ snd_nxt[q] \in Nat /\ nxt \in Nat
  BY <1>1
<1>. HIDE DEF n, nxt, q
<1>c. /\ nxt \in Nat /\ k \in Nat /\ n \in Nat /\ RcvWnd \in Nat /\ SnMod \in Nat
      /\ snd_nxt[q] \in Nat
  <2>1. RcvWnd \in Nat /\ SnMod \in Nat
    BY Ranges
  <2>. QED BY <2>1, <1>5
<1>6. nxt + k \in Sn
  <2>1. k <= RcvWnd
    BY <1>c, <1>5
  <2>2. nxt + k \in Nat /\ nxt + k < SnMod
    BY <2>1, <1>c, <1>3
  <2>. QED BY <2>2, <1>c DEF Sn
<1>7. rcv_nxt' \in [Peers -> Sn] /\ rcv_nxt'[p] = nxt + k
      /\ \A r \in Peers \ {p} : rcv_nxt'[r] = rcv_nxt[r]
  BY <1>2, <1>4, <1>6 DEF nxt
<1>8. \* rcv_queue' is a function, as an EXCEPT of rcv_queue
      rcv_queue' \in [Peers -> Seq(Segment)]
  <2>1. \E v : rcv_queue' = [rcv_queue EXCEPT ![p] = v]
    BY DEF MoveAvailable
  <2>. QED BY <2>1, <1>2, <1>4
<1>9. \A sn \in DOMAIN buf : /\ sn \in Nat /\ nxt <= sn /\ sn < snd_nxt[q]
                             /\ sn < nxt + RcvWnd /\ buf[sn] = sent[q][sn + 1]
  BY DEF nxt, q
<1>10. \A sn \in DOMAIN rcv_buf'[p] :
         /\ sn \in DOMAIN buf /\ nxt + k <= sn
         /\ rcv_buf'[p][sn] = sent[q][sn + 1]
  <2>1. \A sn \in DOMAIN rcv_buf'[p] : sn \in DOMAIN buf /\ sn \notin nxt..(nxt + k - 1)
    BY <1>4
  <2>2. ASSUME NEW sn \in DOMAIN rcv_buf'[p] PROVE nxt + k <= sn
    <3>1. sn \in Nat /\ nxt <= sn /\ ~(sn \in nxt..(nxt + k - 1))
      BY <2>1, <1>9
    <3>. QED BY <3>1, <1>c
  <2>. QED BY <2>1, <2>2, <1>4, <1>9
<1>11. nxt + k <= snd_nxt[q]
  <2>1. CASE k = 0
    BY <2>1, <1>1 DEF IInv, LinkInv, RcvBufInv, nxt, q
  <2>2. CASE k > 0
    <3>1. nxt + k - 1 \in nxt..(nxt + k - 1)
      BY <2>2, <1>c
    <3>2. nxt + k - 1 < snd_nxt[q]
      BY <3>1, <1>4, <1>9
    <3>. QED BY <3>2, <1>c
  <2>. QED BY <2>1, <2>2, <1>c
<1>12. DOMAIN rcv_buf'[p] \subseteq Sn
  <2>1. ASSUME NEW sn \in DOMAIN rcv_buf'[p] PROVE sn \in Nat /\ sn < nxt + RcvWnd
    BY <1>10, <1>9
  <2>2. ASSUME NEW sn \in Nat, sn < nxt + RcvWnd PROVE sn \in Sn
    BY <2>2, <1>c, <1>3 DEF Sn
  <2>. QED BY <2>1, <2>2
<1>13. RcvBufInv(p)'
  <2>1. ASSUME NEW sn \in DOMAIN rcv_buf'[p]
        PROVE  nxt + k <= sn /\ sn < snd_nxt[q] /\ sn < (nxt + k) + RcvWnd
    <3>1. nxt + k <= sn /\ sn < snd_nxt[q] /\ sn < nxt + RcvWnd /\ sn \in Nat
      BY <1>10, <1>9
    <3>2. RcvWnd \in Nat
      BY <1>1
    <3>. QED BY <3>1, <3>2, <1>5
  <2>. QED BY <2>1, <1>7, <1>10, <1>11 DEF RcvBufInv, q
<1>14. read + Len(rcv_queue'[p]) = rcv_nxt'[p] /\ Len(rcv_queue'[p]) <= RcvWnd
  <2>1. Len(rcv_queue'[p]) = n + k
    BY <1>4
  <2>2. read + (n + k) = nxt + k
    BY <1>5
  <2>. QED BY <2>1, <2>2, <1>5, <1>7
<1>15. \A i \in 1..(n + k) : rcv_queue'[p][i] = sent[q][read + i]
  <2>. SUFFICES ASSUME NEW i \in 1..(n + k)
                PROVE  rcv_queue'[p][i] = sent[q][read + i]
    OBVIOUS
  <2>1. CASE i <= n
    <3>1. i \in 1..n
      BY <2>1, <1>5
    <3>. QED BY <3>1, <1>4 DEF n, q
  <2>2. CASE i > n
    <3>1. /\ i - n \in 1..k /\ n + (i - n) = i
          /\ nxt + (i - n) - 1 \in nxt..(nxt + k - 1)
          /\ (nxt + (i - n) - 1) + 1 = read + i
      BY <2>2, <1>5
    <3>2. rcv_queue'[p][i] = buf[nxt + (i - n) - 1]
      BY <3>1, <1>4
    <3>. QED BY <3>1, <3>2, <1>4, <1>9
  <2>. QED BY <2>1, <2>2, <1>5
<1>16. \A sn \in Nat : sn < nxt \/ sn \in DOMAIN buf => Has(p, sn)'
  <2>. SUFFICES ASSUME NEW sn \in Nat, sn < nxt \/ sn \in DOMAIN buf
                PROVE  sn < nxt + k \/ sn \in DOMAIN rcv_buf'[p]
    BY <1>7 DEF Has
  <2>1. CASE sn < nxt
    BY <2>1, <1>c
  <2>2. CASE sn \in DOMAIN buf /\ sn \in nxt..(nxt + k - 1)
    BY <2>2, <1>c
  <2>3. CASE sn \in DOMAIN buf /\ sn \notin nxt..(nxt + k - 1)
    BY <2>3, <1>4
  <2>. QED BY <2>1, <2>2, <2>3
<1>17. rcv_nxt'[p] \in Nat /\ nxt <= rcv_nxt'[p]
  BY <1>c, <1>7
<1>18. Len(rcv_queue'[p]) = n + k
  BY <1>4
<1>. QED
  BY <1>4, <1>7, <1>8, <1>12, <1>13, <1>14, <1>15, <1>16, <1>17, <1>18 DEF nxt, q, MovedUp

\* The message ikcp_recv takes ends where a message of the stream ends.
LEMMA MsgLenFacts ==
  ASSUME NoWrap, IInv, NEW p \in Peers, Readable(rcv_queue[p])
  PROVE  /\ MsgLen(rcv_queue[p]) \in 1..Len(rcv_queue[p])
         /\ rcv_queue[p][MsgLen(rcv_queue[p])].frg = 0
         /\ MsgLen(rcv_queue[p]) = rcv_queue[p][1].frg + 1
<1>. DEFINE queue == rcv_queue[p]
            src == sent[Other(p)]
            read == Len(delivered[p])
            len == Len(queue)
            n == MsgLen(queue)
            f == queue[1].frg
            ends == {i \in 1..len : queue[i].frg = 0 \/ i = len}
<1>1. queue \in Seq(Segment) /\ len \in Nat /\ read \in Nat
  BY DEF IInv, TypeOK
<1>2. queue # <<>> /\ len >= f + 1
  BY <1>1 DEF Readable
<1>3. len >= 1 /\ queue[1] \in Segment /\ f \in Nat
  <2>1. len # 0
    BY <1>1, <1>2, EmptySeq
  <2>2. 1 \in 1..len
    BY <2>1, <1>1
  <2>3. queue[1] \in Segment
    BY <2>2, <1>1
  <2>. HIDE DEF queue, len
  <2>. QED BY <2>1, <2>3, <1>1 DEF Segment
<1>4. \A i \in 1..len : queue[i] = src[read + i]
  BY DEF IInv, LinkInv, RcvQueueInv
<1>5. read + len = rcv_nxt[p] /\ rcv_nxt[p] <= Len(src) /\ Len(src) \in Nat
  <2>1. read + len = rcv_nxt[p]
    BY DEF IInv, LinkInv, RcvQueueInv
  <2>2. rcv_nxt[p] \in Nat /\ rcv_nxt[p] <= snd_nxt[Other(p)]
    BY Ranges
  <2>. DEFINE m == Len(src)
              nxt == snd_nxt[Other(p)]
  <2>3. m \in Nat /\ nxt \in Nat /\ nxt <= m
    BY PeerFacts, Ranges
  <2>4. rcv_nxt[p] \in Nat /\ rcv_nxt[p] <= nxt
    BY <2>2
  <2>. HIDE DEF m, nxt
  <2>5. rcv_nxt[p] <= m
    BY <2>3, <2>4
  <2>. QED BY <2>1, <2>3, <2>5 DEF m
<1>6. \A j \in 0..f : src[(read + 1) + j].frg = f - j
  <2>. DEFINE m == Len(src)
  <2>1. read + len <= m /\ m \in Nat
    BY <1>5
  <2>. HIDE DEF len, m
  <2>2. read + 1 \in 1..m
    BY <2>1, <1>1, <1>3
  <2>3. WholeMessages(Other(p))
    BY PeerFacts DEF IInv, LinkInv
  <2>4. 1 \in 1..len
    BY <1>3, <1>1
  <2>5. src[read + 1].frg = f
    BY <2>4, <1>4
  <2>6. \A j \in 0..src[read + 1].frg : src[(read + 1) + j].frg = src[read + 1].frg - j
    BY <2>2, <2>3 DEF WholeMessages, m
  <2>. HIDE DEF src, read, f
  <2>. QED BY <2>5, <2>6
<1>. HIDE DEF len, read, f
<1>7. f + 1 \in 1..len /\ queue[f + 1].frg = 0
  <2>1. f + 1 \in 1..len /\ f \in 0..f /\ read + (f + 1) = (read + 1) + f /\ f - f = 0
    BY <1>1, <1>2, <1>3
  <2>2. queue[f + 1] = src[read + (f + 1)]
    BY <2>1, <1>4
  <2>3. src[(read + 1) + f].frg = 0
    BY <2>1, <1>6
  <2>. HIDE DEF queue, src
  <2>. QED BY <2>1, <2>2, <2>3
<1>8. ends \in SUBSET Nat /\ f + 1 \in ends
  BY <1>7
<1>9. n \in ends /\ n <= f + 1
  <2>1. n = Min(ends)
    BY DEF MsgLen, len
  <2>. HIDE DEF ends, n
  <2>. QED BY <2>1, <1>8, MinFacts
<1>10. n = f + 1
  <2>1. CASE n = len
    BY <2>1, <1>1, <1>2, <1>3, <1>9
  <2>2. CASE n # len /\ queue[n].frg = 0
    <3>1. CASE n < f + 1
      <4>1. n - 1 \in 0..f /\ (read + 1) + (n - 1) = read + n /\ f - (n - 1) # 0
        <5>1. n \in Nat /\ 1 <= n /\ f \in Nat /\ read \in Nat
          BY <1>1, <1>3, <1>9
        <5>. HIDE DEF n
        <5>. QED BY <5>1, <3>1
      <4>2. src[read + n].frg = f - (n - 1)
        BY <4>1, <1>6
      <4>3. queue[n] = src[read + n]
        BY <1>9, <1>4 DEF len
      <4>. HIDE DEF queue, src, n
      <4>. QED BY <4>1, <4>2, <4>3, <2>2
    <3>. QED BY <3>1, <1>9, <1>3, <1>1
  <2>. QED BY <2>1, <2>2, <1>9
<1>. HIDE DEF queue, n
<1>. QED BY <1>7, <1>10 DEF len, queue, n, f

\* ikcp_recv keeps the invariant.
LEMMA RecvStep ==
  ASSUME NoWrap, IInv, NEW p \in Peers, Recv(p)
  PROVE  IInv'
<1>. DEFINE q == Other(p)
            queue == rcv_queue[p]
            read == Len(delivered[p])
            n == MsgLen(queue)
            head == SubSeq(queue, 1, n)
            rest == SubSeq(queue, n + 1, Len(queue))
<1>1. /\ Readable(rcv_queue[p])
      /\ delivered' = [delivered EXCEPT ![p] = @ \o head]
      /\ MoveAvailable(p, rcv_buf[p], rest)
      /\ ask_tell' = [ask_tell EXCEPT
           ![p] = @ \/ FastRecover(Len(queue), Len(rcv_queue'[p]))]
      /\ UNCHANGED <<snd_queue, snd_nxt, snd_una, snd_buf, rmt_wnd, probe_wait,
                     acklist, net, sent>>
  BY DEF Recv, sndVars
<1>2. /\ queue \in Seq(Segment) /\ delivered \in [Peers -> Seq(Segment)]
      /\ delivered[p] \in Seq(Segment)
      /\ Len(queue) \in Nat /\ read \in Nat /\ q \in Peers /\ Other(q) = p
  BY PeerFacts DEF IInv, TypeOK
<1>3. n \in 1..Len(queue) /\ queue[n].frg = 0
  BY <1>1, MsgLenFacts
<1>4. /\ RcvQueueInv(p) /\ RcvBufInv(p)
      /\ DOMAIN rcv_buf[p] \subseteq Sn /\ rcv_buf[p] \in [DOMAIN rcv_buf[p] -> Segment]
  BY DEF IInv, LinkInv, TypeOK
<1>. DEFINE len == Len(queue)
<1>5. /\ n \in Nat /\ 1 <= n /\ n <= len /\ len \in Nat /\ read \in Nat
      /\ RcvWnd \in Nat /\ read + len = rcv_nxt[p] /\ len <= RcvWnd
  BY <1>2, <1>3, <1>4, RcvWndFacts DEF RcvQueueInv
<1>6. /\ \A i \in 1..read : delivered[p][i] = sent[q][i]
      /\ \A i \in 1..len : queue[i] = sent[q][read + i]
  BY <1>4 DEF RcvQueueInv
<1>7. /\ head \in Seq(Segment) /\ Len(head) = n
      /\ \A i \in 1..n : head[i] = queue[i]
  <2>1. \A i \in 1..n : queue[i] \in Segment
    BY <1>2, <1>3
  <2>2. \A i \in 1..(n - 1 + 1) : head[i] = queue[1 + i - 1]
    BY <2>1, <1>5, SubSeqProperties
  <2>3. head \in Seq(Segment) /\ Len(head) = IF 1 <= n THEN n - 1 + 1 ELSE 0
    BY <2>1, <1>5, SubSeqProperties
  <2>4. n - 1 + 1 = n /\ \A i \in 1..n : 1 + i - 1 = i
    BY <1>5
  <2>. HIDE DEF head, queue
  <2>. QED BY <2>2, <2>3, <2>4, <1>5
<1>8. /\ rest \in Seq(Segment) /\ Len(rest) = len - n
      /\ \A i \in 1..(len - n) : rest[i] = queue[n + i]
  <2>1. \A i \in (n + 1)..len : queue[i] \in Segment
    BY <1>2, <1>3, <1>5
  <2>2. \A i \in 1..(len - (n + 1) + 1) : rest[i] = queue[(n + 1) + i - 1]
    BY <2>1, <1>5, SubSeqProperties
  <2>3. /\ rest \in Seq(Segment)
        /\ Len(rest) = IF n + 1 <= len THEN len - (n + 1) + 1 ELSE 0
    BY <2>1, <1>5, SubSeqProperties
  <2>. HIDE DEF len
  <2>4. len - (n + 1) + 1 = len - n /\ \A i \in 1..(len - n) : (n + 1) + i - 1 = n + i
    BY <1>5
  <2>5. (IF n + 1 <= len THEN len - (n + 1) + 1 ELSE 0) = len - n
    BY <1>5
  <2>. HIDE DEF rest, queue
  <2>. QED BY <2>2, <2>3, <2>4, <2>5
<1>. HIDE DEF head, rest, n, len, read, queue
<1>9. /\ delivered'[p] \in Seq(Segment) /\ Len(delivered'[p]) = read + n
      /\ \A i \in 1..(read + n) : delivered'[p][i] = sent[q][i]
      /\ delivered'[p][read + n].frg = 0
  <2>1. delivered'[p] = delivered[p] \o head
    BY <1>1, <1>2
  <2>2. /\ delivered[p] \o head \in Seq(Segment)
        /\ Len(delivered[p] \o head) = Len(delivered[p]) + Len(head)
        /\ \A i \in 1..(Len(delivered[p]) + Len(head)) : (delivered[p] \o head)[i] =
             IF i <= Len(delivered[p]) THEN delivered[p][i]
             ELSE head[i - Len(delivered[p])]
    BY <1>2, <1>7, ConcatProperties
  <2>3. /\ Len(delivered'[p]) = read + n
        /\ \A i \in 1..(read + n) : delivered'[p][i] =
             IF i <= read THEN delivered[p][i] ELSE head[i - read]
    BY <2>1, <2>2, <1>7 DEF read
  <2>4. ASSUME NEW i \in 1..(read + n) PROVE delivered'[p][i] = sent[q][i]
    <3>1. CASE i <= read
      <4>1. i \in 1..read
        BY <3>1, <1>5
      <4>. QED BY <3>1, <4>1, <2>3, <1>6
    <3>2. CASE i > read
      <4>1. i - read \in 1..n /\ i - read \in 1..len /\ read + (i - read) = i
            /\ ~(i <= read)
        BY <3>2, <1>5
      <4>. QED BY <4>1, <2>3, <1>6, <1>7
    <3>. QED BY <3>1, <3>2, <1>5
  <2>5. delivered'[p][read + n].frg = 0
    <3>1. /\ read + n \in 1..(read + n) /\ ~(read + n <= read)
          /\ (read + n) - read = n /\ n \in 1..n
      BY <1>5
    <3>. QED BY <3>1, <2>3, <1>3, <1>7
  <2>. QED BY <2>1, <2>2, <2>3, <2>4, <2>5
<1>10. \A i \in 1..(len - n) : rest[i] = sent[q][(read + n) + i]
  <2>1. \A i \in 1..(len - n) : n + i \in 1..len /\ read + (n + i) = (read + n) + i
    BY <1>5
  <2>. QED BY <2>1, <1>6, <1>8
<1>11. /\ rcv_nxt' \in [Peers -> Sn]
       /\ rcv_queue' \in [Peers -> Seq(Segment)]
       /\ DOMAIN rcv_buf' = Peers
       /\ DOMAIN rcv_buf'[p] \subseteq Sn
       /\ rcv_buf'[p] \in [DOMAIN rcv_buf'[p] -> Segment]
       /\ \A r \in Peers \ {p} : /\ rcv_nxt'[r] = rcv_nxt[r]
                                 /\ rcv_buf'[r] = rcv_buf[r]
                                 /\ rcv_queue'[r] = rcv_queue[r]
       /\ rcv_nxt'[p] \in Nat /\ rcv_nxt[p] <= rcv_nxt'[p]
       /\ RcvBufInv(p)'
       /\ (read + n) + Len(rcv_queue'[p]) = rcv_nxt'[p]
       /\ Len(rcv_queue'[p]) <= RcvWnd
       /\ \A i \in 1..Len(rcv_queue'[p]) :
            rcv_queue'[p][i] = sent[q][(read + n) + i]
       /\ \A sn \in Nat :
            sn < rcv_nxt[p] \/ sn \in DOMAIN rcv_buf[p] => Has(p, sn)'
  <2>1. \A sn \in DOMAIN rcv_buf[p] :
          /\ sn \in Nat /\ rcv_nxt[p] <= sn /\ sn < snd_nxt[q]
          /\ sn < rcv_nxt[p] + RcvWnd /\ rcv_buf[p][sn] = sent[q][sn + 1]
    BY <1>4 DEF RcvBufInv, Sn
  <2>2. (read + n) + Len(rest) = rcv_nxt[p] /\ Len(rest) <= RcvWnd /\ read + n \in Nat
    BY <1>5, <1>8
  <2>3. \A i \in 1..Len(rest) : rest[i] = sent[q][(read + n) + i]
    BY <1>8, <1>10
  <2>4. MoveAvailable(p, rcv_buf[p], rest) /\ UNCHANGED <<sent, snd_nxt>>
    BY <1>1
  <2>5. rest \in Seq(Segment) /\ rcv_buf[p] \in [DOMAIN rcv_buf[p] -> Segment]
    BY <1>8, <1>4
  <2>. DEFINE got == read + n
  <2>6. got + Len(rest) = rcv_nxt[p] /\ Len(rest) <= RcvWnd /\ got \in Nat
    BY <2>2
  <2>7. \A i \in 1..Len(rest) : rest[i] = sent[q][got + i]
    BY <2>3
  <2>. HIDE DEF got
  <2>8. /\ rcv_nxt' \in [Peers -> Sn]
        /\ rcv_queue' \in [Peers -> Seq(Segment)]
        /\ DOMAIN rcv_buf' = Peers
        /\ DOMAIN rcv_buf'[p] \subseteq Sn
        /\ rcv_buf'[p] \in [DOMAIN rcv_buf'[p] -> Segment]
        /\ \A r \in Peers \ {p} : /\ rcv_nxt'[r] = rcv_nxt[r]
                                  /\ rcv_buf'[r] = rcv_buf[r]
                                  /\ rcv_queue'[r] = rcv_queue[r]
        /\ rcv_nxt'[p] \in Nat /\ rcv_nxt[p] <= rcv_nxt'[p]
        /\ RcvBufInv(p)'
        /\ got + Len(rcv_queue'[p]) = rcv_nxt'[p]
        /\ Len(rcv_queue'[p]) <= RcvWnd
        /\ \A i \in 1..Len(rcv_queue'[p]) : rcv_queue'[p][i] = sent[q][got + i]
        /\ \A sn \in Nat :
             sn < rcv_nxt[p] \/ sn \in DOMAIN rcv_buf[p] => Has(p, sn)'
    <3>1. MovedUp(p, rcv_buf[p], got)
      BY <2>1, <2>4, <2>5, <2>6, <2>7, ReceiveFacts
    <3>. QED BY <3>1 DEF MovedUp
  <2>. QED BY <2>8 DEF got
<1>12. TypeOK'
  <2>1. delivered' \in [Peers -> Seq(Segment)]
    BY <1>1, <1>2, <1>9
  <2>2. ask_tell' \in [Peers -> BOOLEAN]
    BY <1>1, Zenon DEF IInv, TypeOK, FastRecover
  <2>3. \A r \in Peers : /\ DOMAIN rcv_buf'[r] \subseteq Sn
                         /\ rcv_buf'[r] \in [DOMAIN rcv_buf'[r] -> Segment]
    BY <1>11 DEF IInv, TypeOK
  <2>. QED BY <2>1, <2>2, <2>3, <1>1, <1>11 DEF IInv, TypeOK
<1>13. \A sn \in Nat : Has(p, sn) => Has(p, sn)'
  BY <1>11 DEF Has
<1>14. \A sn : Has(q, sn) => Has(q, sn)'
  BY <1>2, <1>11, PeerFacts DEF Has
<1>15. RcvQueueInv(p)'
  <2>1. (read + n) + Len(rcv_queue'[p]) = rcv_nxt'[p]
    BY <1>11
  <2>. QED BY <1>1, <1>9, <1>11, <2>1 DEF RcvQueueInv
<1>16. RcvQueueInv(q)' /\ RcvBufInv(q)'
  <2>1. /\ q # p /\ rcv_nxt'[q] = rcv_nxt[q] /\ rcv_buf'[q] = rcv_buf[q]
        /\ rcv_queue'[q] = rcv_queue[q] /\ delivered'[q] = delivered[q]
    BY <1>1, <1>2, <1>11, PeerFacts
  <2>2. RcvQueueInv(q) /\ RcvBufInv(q)
    BY <1>2 DEF IInv, LinkInv
  <2>. QED BY <1>1, <2>1, <2>2 DEF RcvQueueInv, RcvBufInv
<1>17. ASSUME NEW r \in Peers PROVE CopyInv(r)' /\ NetInv(r)'
  <2>1. \A s \in Peers : \A sn \in Nat : Has(s, sn) => Has(s, sn)'
    BY <1>13, <1>14, PeerFacts
  <2>2. CopyInv(r) /\ NetInv(r) /\ Other(r) \in Peers /\ snd_nxt[r] \in Nat
    BY PeerFacts, Ranges DEF IInv, LinkInv
  <2>3. \A sn \in 0..(snd_nxt[r] - 1) : sn \in Nat
    BY <2>2
  <2>4. CopyInv(r)'
    BY <1>1, <2>1, <2>2, <2>3 DEF CopyInv
  <2>5. /\ \A sn \in acklist[r] : sn \in Nat
        /\ \A d \in net[r] : d.una \in Nat /\ (d.kind = "ctl" => d.acks \subseteq Nat)
    BY HeldNumbers DEF IInv
  <2>6. rcv_nxt[r] \in Nat /\ rcv_nxt'[r] \in Nat /\ rcv_nxt[r] <= rcv_nxt'[r]
    <3>1. rcv_nxt[r] \in Nat
      BY Ranges
    <3>2. CASE r = p
      BY <3>1, <3>2, <1>11
    <3>3. CASE r # p
      <4>1. rcv_nxt'[r] = rcv_nxt[r]
        BY <3>3, <1>11
      <4>. QED BY <4>1, <3>1
    <3>. QED BY <3>2, <3>3
  <2>7. NetInv(r)'
    BY <1>1, <2>1, <2>2, <2>5, <2>6 DEF NetInv
  <2>. QED BY <2>4, <2>7
<1>18. ASSUME NEW r \in Peers
       PROVE  (WholeMessages(r) /\ QueueInv(r) /\ SndBufInv(r))'
  BY <1>1 DEF IInv, LinkInv, WholeMessages, QueueInv, SndBufInv
<1>. QED
  <2>1. RcvBufInv(p)'
    BY <1>11
  <2>. QED BY <2>1, <1>12, <1>15, <1>16, <1>17, <1>18, PeerFacts DEF IInv, LinkInv

\* Freeing acknowledged segments only advances snd_una, and no further than the
\* first segment kept.
LEMMA AckFacts ==
  ASSUME NoWrap, IInv, NEW p \in Peers, NEW buf, DOMAIN buf \subseteq DOMAIN snd_buf[p]
  PROVE  LET una == ShrinkBuf(buf, snd_nxt[p])
         IN  /\ una \in Sn /\ snd_una[p] <= una /\ una <= snd_nxt[p]
             /\ snd_nxt[p] <= una + SndWnd
             /\ \A sn \in DOMAIN buf : sn \in Nat /\ una <= sn /\ sn < snd_nxt[p]
<1>. DEFINE una == ShrinkBuf(buf, snd_nxt[p])
            half == SnMod \div 2
<1>1. SndBufInv(p) /\ DOMAIN snd_buf[p] \subseteq Nat
  BY DEF IInv, LinkInv, TypeOK, Sn
<1>2. /\ snd_nxt[p] \in Nat /\ snd_una[p] \in Nat /\ snd_una[p] <= snd_nxt[p]
      /\ SndWnd \in Nat /\ snd_nxt[p] <= snd_una[p] + SndWnd
  BY <1>1, Ranges DEF SndBufInv
<1>3. snd_nxt[p] < half /\ half <= SnMod /\ half \in Nat /\ SnMod \in Nat
  <2>1. /\ MaxSegs[p] + SndWnd + RcvWnd < half /\ snd_nxt[p] <= MaxSegs[p]
        /\ MaxSegs[p] \in Nat /\ SndWnd \in Nat /\ RcvWnd \in Nat /\ snd_nxt[p] \in Nat
    BY Ranges
  <2>2. half <= SnMod /\ half \in Nat /\ SnMod \in Nat
    BY Ranges
  <2>. HIDE DEF half
  <2>. QED BY <2>1, <2>2
<1>4. \A sn \in DOMAIN buf : sn \in Nat /\ snd_una[p] <= sn /\ sn < snd_nxt[p]
  BY <1>1 DEF SndBufInv
<1>5. DOMAIN buf \subseteq 0..(snd_nxt[p] - 1)
  BY <1>2, <1>4
<1>6. /\ una \in 0..snd_nxt[p]
      /\ \A sn \in DOMAIN buf : una <= sn
      /\ DOMAIN buf # {} => una \in DOMAIN buf
      /\ DOMAIN buf = {} => una = snd_nxt[p]
  BY <1>2, <1>3, <1>5, ShrinkFacts
<1>. HIDE DEF una, half
<1>7. snd_una[p] <= una /\ una <= snd_nxt[p] /\ una \in Nat
  <2>1. una <= snd_nxt[p] /\ una \in Nat
    BY <1>2, <1>6
  <2>2. CASE DOMAIN buf = {}
    BY <2>2, <1>2, <1>6
  <2>3. CASE DOMAIN buf # {}
    BY <2>3, <1>4, <1>6
  <2>. QED BY <2>1, <2>2, <2>3
<1>8. una \in Sn
  BY <1>2, <1>3, <1>7 DEF Sn
<1>9. snd_nxt[p] <= una + SndWnd
  BY <1>2, <1>7
<1>. QED BY <1>4, <1>6, <1>7, <1>8, <1>9 DEF una

\* ikcp_parse_una keeps what is not before una.
LEMMA UnaFacts ==
  ASSUME NoWrap, IInv, NEW p \in Peers, NEW una \in Nat, una <= rcv_nxt[Other(p)]
  PROVE  LET buf == ParseUna(snd_buf[p], una)
         IN  /\ DOMAIN buf \subseteq DOMAIN snd_buf[p]
             /\ \A sn \in DOMAIN buf : buf[sn] = snd_buf[p][sn]
             /\ \A sn \in DOMAIN snd_buf[p] : sn \in DOMAIN buf \/ sn < una
<1>. DEFINE half == SnMod \div 2
<1>1. SndBufInv(p) /\ DOMAIN snd_buf[p] \subseteq Nat
  BY DEF IInv, LinkInv, TypeOK, Sn
<1>2. /\ snd_nxt[p] \in Nat /\ snd_nxt[p] < half /\ half \in Nat
  <2>1. /\ MaxSegs[p] + SndWnd + RcvWnd < half /\ snd_nxt[p] <= MaxSegs[p]
        /\ MaxSegs[p] \in Nat /\ SndWnd \in Nat /\ RcvWnd \in Nat /\ snd_nxt[p] \in Nat
    BY Ranges
  <2>2. half \in Nat
    BY Ranges
  <2>. HIDE DEF half
  <2>. QED BY <2>1, <2>2
<1>3. una < half
  <2>1. /\ rcv_nxt[Other(p)] + SndWnd + RcvWnd < half /\ SndWnd \in Nat /\ RcvWnd \in Nat
        /\ rcv_nxt[Other(p)] \in Nat
    BY PeerFacts, Ranges
  <2>. HIDE DEF half
  <2>. QED BY <1>2, <2>1
<1>4. ASSUME NEW sn \in DOMAIN snd_buf[p]
      PROVE  SnDiff(una, sn) = una - sn /\ sn \in Nat
  <2>1. sn \in Nat /\ sn < snd_nxt[p]
    BY <1>1 DEF SndBufInv
  <2>2. sn < half
    BY <2>1, <1>2
  <2>. QED BY <2>1, <2>2, <1>3, SerialDiff
<1>. DEFINE buf == ParseUna(snd_buf[p], una)
            keep == {sn \in DOMAIN snd_buf[p] : SnDiff(una, sn) <= 0}
<1>5. DOMAIN buf = keep /\ \A sn \in keep : buf[sn] = snd_buf[p][sn]
  BY DEF ParseUna, Restrict
<1>6. ASSUME NEW sn \in DOMAIN snd_buf[p] PROVE sn \in keep \/ sn < una
  BY <1>4
<1>. QED BY <1>5, <1>6

\* A datagram that arrives was sent by the other peer, and the network keeps or
\* drops it.
LEMMA ArriveFacts ==
  ASSUME IInv, NEW p \in Peers, NEW d, Arrives(p, d)
  PROVE  /\ d \in net[Other(p)] /\ d \in Push \cup Ctl
         /\ net' \in [Peers -> SUBSET (Push \cup Ctl)]
         /\ \A r \in Peers : net'[r] \subseteq net[r]
<1>1. Other(p) \in Peers /\ net \in [Peers -> SUBSET (Push \cup Ctl)]
  BY PeerFacts DEF IInv, TypeOK
<1>2. d \in net[Other(p)]
  BY DEF Arrives
<1>3. CASE net' = net
  BY <1>1, <1>2, <1>3
<1>4. CASE net' = [net EXCEPT ![Other(p)] = @ \ {d}]
  BY <1>1, <1>2, <1>4
<1>. QED BY <1>3, <1>4 DEF Arrives

\* The window test of ikcp_input, below the wrap.
LEMMA WindowFacts ==
  ASSUME NoWrap, IInv, NEW p \in Peers, NEW sn \in Nat, sn < snd_nxt[Other(p)]
  PROVE  /\ InWindow(p, sn) <=> sn < rcv_nxt[p] + RcvWnd
         /\ SnDiff(sn, rcv_nxt[p]) = sn - rcv_nxt[p]
<1>. DEFINE half == SnMod \div 2
<1>1. /\ rcv_nxt[p] + SndWnd + RcvWnd < half /\ SndWnd \in Nat /\ RcvWnd \in Nat
      /\ rcv_nxt[p] \in Nat /\ half \in Nat /\ half <= SnMod /\ SnMod \in Nat
  BY Ranges
<1>2. /\ MaxSegs[Other(p)] + SndWnd + RcvWnd < half
      /\ snd_nxt[Other(p)] <= MaxSegs[Other(p)]
      /\ MaxSegs[Other(p)] \in Nat /\ snd_nxt[Other(p)] \in Nat
  BY PeerFacts, Ranges
<1>. HIDE DEF half
<1>3. sn < half /\ rcv_nxt[p] < half /\ rcv_nxt[p] + RcvWnd < half
      /\ rcv_nxt[p] + RcvWnd < SnMod /\ rcv_nxt[p] + RcvWnd \in Nat
  BY <1>1, <1>2
<1>4. SnAdd(rcv_nxt[p], RcvWnd) = rcv_nxt[p] + RcvWnd
  BY <1>1, <1>3, SerialSum
<1>5. SnDiff(sn, rcv_nxt[p] + RcvWnd) = sn - (rcv_nxt[p] + RcvWnd)
  BY <1>3, SerialDiff DEF half
<1>6. SnDiff(sn, rcv_nxt[p]) = sn - rcv_nxt[p]
  BY <1>1, <1>3, SerialDiff DEF half
<1>. QED BY <1>1, <1>3, <1>4, <1>5, <1>6 DEF InWindow

\* What acknowledgements do to the sender, of either kind of datagram: kept
\* segments stay what they were and freed ones are with the receiver.
LEMMA FreeFacts ==
  ASSUME NoWrap, IInv, NEW p \in Peers, UNCHANGED <<sent, snd_nxt>>,
         snd_una' \in [Peers -> Sn], DOMAIN snd_buf' = Peers,
         \A r \in Peers \ {p} : snd_una'[r] = snd_una[r] /\ snd_buf'[r] = snd_buf[r],
         snd_una'[p] <= snd_nxt[p], snd_nxt[p] <= snd_una'[p] + SndWnd,
         DOMAIN snd_buf'[p] \subseteq DOMAIN snd_buf[p],
         snd_buf'[p] \in [DOMAIN snd_buf'[p] -> Outgoing],
         \A sn \in DOMAIN snd_buf'[p] : /\ snd_una'[p] <= sn
                                        /\ snd_buf'[p][sn].seg = snd_buf[p][sn].seg,
         \A sn \in DOMAIN snd_buf[p] : sn \in DOMAIN snd_buf'[p] \/ Has(Other(p), sn),
         NEW r \in Peers
  PROVE  /\ DOMAIN snd_buf'[r] \subseteq Sn
         /\ snd_buf'[r] \in [DOMAIN snd_buf'[r] -> Outgoing]
         /\ SndBufInv(r)'
         /\ \A sn \in 0..(snd_nxt[r] - 1) :
              sn \in DOMAIN snd_buf'[r] \/ Has(Other(r), sn)
<1>1. /\ DOMAIN snd_buf[r] \subseteq Sn
      /\ snd_buf[r] \in [DOMAIN snd_buf[r] -> Outgoing]
      /\ SndBufInv(r) /\ CopyInv(r)
  BY DEF IInv, LinkInv, TypeOK
<1>2. CASE r = p
  BY <1>1, <1>2 DEF SndBufInv, CopyInv
<1>3. CASE r # p
  BY <1>1, <1>3 DEF SndBufInv, CopyInv
<1>. QED BY <1>2, <1>3

\* ikcp_input of a data segment keeps the invariant.
LEMMA InputPushStep ==
  ASSUME NoWrap, IInv, NEW p \in Peers, NEW d, InputPush(p, d)
  PROVE  IInv'
<1>. DEFINE q == Other(p)
            sn == d.sn
            read == Len(delivered[p])
            buf == ParseUna(snd_buf[p], d.una)
            held == Stored(rcv_buf[p], d.sn, d.seg)
            new == InWindow(p, d.sn) /\ SnDiff(d.sn, rcv_nxt[p]) >= 0
<1>1. /\ Arrives(p, d) /\ d.kind = "push"
      /\ rmt_wnd' = [rmt_wnd EXCEPT ![p] = d.wnd]
      /\ snd_buf' = [snd_buf EXCEPT ![p] = buf]
      /\ snd_una' = [snd_una EXCEPT ![p] = ShrinkBuf(snd_buf'[p], snd_nxt[p])]
      /\ acklist' = [acklist EXCEPT
           ![p] = IF InWindow(p, d.sn) THEN @ \cup {d.sn} ELSE @]
      /\ new => MoveAvailable(p, held, rcv_queue[p])
      /\ ~new => UNCHANGED <<rcv_nxt, rcv_buf, rcv_queue>>
      /\ UNCHANGED <<snd_queue, snd_nxt, probe_wait, ask_tell, sent, delivered>>
  BY DEF InputPush, AckPush, rcvVars
<1>2. /\ q \in Peers /\ Other(q) = p /\ q # p
      /\ \A r \in Peers : r = p \/ r = q
  BY PeerFacts
<1>3. /\ d \in net[q] /\ d \in Push \cup Ctl
      /\ net' \in [Peers -> SUBSET (Push \cup Ctl)]
      /\ \A r \in Peers : net'[r] \subseteq net[r]
  BY <1>1, ArriveFacts
<1>4. d.una \in Nat /\ d.wnd \in Nat /\ sn \in Nat /\ sn \in Sn /\ d.seg \in Segment
  BY <1>1, <1>3, RcvWndFacts, SerialAssumption DEF Push, Ctl, Sn
<1>5. d.una <= rcv_nxt[q] /\ sn < snd_nxt[q] /\ d.seg = sent[q][sn + 1]
  BY <1>1, <1>2, <1>3 DEF IInv, LinkInv, NetInv
<1>6. /\ DOMAIN buf \subseteq DOMAIN snd_buf[p]
      /\ \A s \in DOMAIN buf : buf[s] = snd_buf[p][s]
      /\ \A s \in DOMAIN snd_buf[p] : s \in DOMAIN buf \/ s < d.una
  BY <1>4, <1>5, UnaFacts
<1>. HIDE DEF buf
<1>7. /\ snd_una' \in [Peers -> Sn]
      /\ DOMAIN snd_buf' = Peers
      /\ \A r \in Peers : /\ DOMAIN snd_buf'[r] \subseteq Sn
                          /\ snd_buf'[r] \in [DOMAIN snd_buf'[r] -> Outgoing]
                          /\ SndBufInv(r)'
                          /\ \A s \in 0..(snd_nxt[r] - 1) :
                               s \in DOMAIN snd_buf'[r] \/ Has(Other(r), s)
  <2>1. /\ DOMAIN snd_buf[p] \subseteq Nat
        /\ snd_buf[p] \in [DOMAIN snd_buf[p] -> Outgoing] /\ DOMAIN snd_buf = Peers
        /\ snd_una \in [Peers -> Sn]
    BY DEF IInv, TypeOK, Sn
  <2>2. buf \in [DOMAIN buf -> Outgoing]
    <3>1. \A s \in DOMAIN buf : buf[s] \in Outgoing
      BY <2>1, <1>6
    <3>2. buf = [s \in DOMAIN buf |-> buf[s]]
      BY DEF buf, ParseUna, Restrict
    <3>. QED BY <3>1, <3>2
  <2>3. rcv_nxt[q] \in Nat
    BY <1>2, Ranges
  <2>4. \A s \in DOMAIN snd_buf[p] : s \in DOMAIN buf \/ Has(q, s)
    BY <2>1, <2>3, <1>4, <1>5, <1>6 DEF Has
  <2>. DEFINE una == ShrinkBuf(buf, snd_nxt[p])
  <2>5. /\ una \in Sn /\ una <= snd_nxt[p] /\ snd_nxt[p] <= una + SndWnd
        /\ \A s \in DOMAIN buf : una <= s
    BY <1>6, AckFacts
  <2>6. snd_buf'[p] = buf
    BY <1>1, <2>1
  <2>7. snd_una' = [snd_una EXCEPT ![p] = una]
    BY <1>1, <2>6
  <2>. HIDE DEF una
  <2>8. /\ snd_una' \in [Peers -> Sn] /\ DOMAIN snd_buf' = Peers
        /\ snd_una'[p] = una
        /\ \A r \in Peers \ {p} : /\ snd_una'[r] = snd_una[r]
                                  /\ snd_buf'[r] = snd_buf[r]
    BY <2>1, <2>5, <2>7, <1>1
  <2>9. /\ UNCHANGED <<sent, snd_nxt>>
        /\ snd_una'[p] <= snd_nxt[p] /\ snd_nxt[p] <= snd_una'[p] + SndWnd
        /\ DOMAIN snd_buf'[p] \subseteq DOMAIN snd_buf[p]
        /\ snd_buf'[p] \in [DOMAIN snd_buf'[p] -> Outgoing]
        /\ \A s \in DOMAIN snd_buf'[p] :
             snd_una'[p] <= s /\ snd_buf'[p][s].seg = snd_buf[p][s].seg
        /\ \A s \in DOMAIN snd_buf[p] : s \in DOMAIN snd_buf'[p] \/ Has(Other(p), s)
    BY <2>2, <2>4, <2>5, <2>6, <2>8, <1>1, <1>6
  <2>. QED BY <2>8, <2>9, FreeFacts
<1>8. /\ InWindow(p, sn) <=> sn < rcv_nxt[p] + RcvWnd
      /\ SnDiff(sn, rcv_nxt[p]) = sn - rcv_nxt[p] /\ rcv_nxt[p] \in Nat
      /\ RcvWnd \in Nat
  BY <1>4, <1>5, WindowFacts, Ranges
<1>9. new <=> sn < rcv_nxt[p] + RcvWnd /\ sn >= rcv_nxt[p]
  BY <1>4, <1>8
<1>. HIDE DEF new
<1>. DEFINE Received ==
       /\ rcv_nxt' \in [Peers -> Sn]
       /\ rcv_queue' \in [Peers -> Seq(Segment)]
       /\ DOMAIN rcv_buf' = Peers
       /\ DOMAIN rcv_buf'[p] \subseteq Sn
       /\ rcv_buf'[p] \in [DOMAIN rcv_buf'[p] -> Segment]
       /\ \A r \in Peers \ {p} : /\ rcv_nxt'[r] = rcv_nxt[r]
                                 /\ rcv_buf'[r] = rcv_buf[r]
                                 /\ rcv_queue'[r] = rcv_queue[r]
       /\ rcv_nxt'[p] \in Nat /\ rcv_nxt[p] <= rcv_nxt'[p]
       /\ RcvBufInv(p)'
       /\ read + Len(rcv_queue'[p]) = rcv_nxt'[p]
       /\ Len(rcv_queue'[p]) <= RcvWnd
       /\ \A i \in 1..Len(rcv_queue'[p]) : rcv_queue'[p][i] = sent[q][read + i]
       /\ \A s \in Nat : Has(p, s) => Has(p, s)'
       /\ InWindow(p, sn) => Has(p, sn)'
<1>10. /\ RcvQueueInv(p) /\ RcvBufInv(p) /\ rcv_queue[p] \in Seq(Segment)
       /\ DOMAIN rcv_buf[p] \subseteq Sn /\ rcv_buf[p] \in [DOMAIN rcv_buf[p] -> Segment]
       /\ rcv_nxt \in [Peers -> Sn] /\ rcv_queue \in [Peers -> Seq(Segment)]
       /\ DOMAIN rcv_buf = Peers /\ read \in Nat
  BY DEF IInv, LinkInv, TypeOK
<1>11. Received
  <2>1. CASE new
    <3>1. /\ DOMAIN held = DOMAIN rcv_buf[p] \cup {sn}
          /\ \A s \in DOMAIN rcv_buf[p] : held[s] = rcv_buf[p][s]
          /\ sn \notin DOMAIN rcv_buf[p] => held[sn] = d.seg
      BY DEF Stored
    <3>2. held \in [DOMAIN held -> Segment]
      BY <1>4, <1>10 DEF Stored
    <3>. HIDE DEF held
    <3>3. \A s \in DOMAIN held :
            /\ s \in Nat /\ rcv_nxt[p] <= s /\ s < snd_nxt[q]
            /\ s < rcv_nxt[p] + RcvWnd /\ held[s] = sent[q][s + 1]
      <4>1. \A s \in DOMAIN rcv_buf[p] :
              /\ s \in Nat /\ rcv_nxt[p] <= s /\ s < snd_nxt[q]
              /\ s < rcv_nxt[p] + RcvWnd /\ rcv_buf[p][s] = sent[q][s + 1]
        BY <1>10 DEF RcvBufInv, Sn
      <4>2. /\ rcv_nxt[p] <= sn /\ sn < snd_nxt[q]
            /\ sn < rcv_nxt[p] + RcvWnd
        BY <2>1, <1>4, <1>5, <1>8, <1>9
      <4>. QED BY <4>1, <4>2, <3>1, <1>4, <1>5
    <3>4. /\ read + Len(rcv_queue[p]) = rcv_nxt[p] /\ Len(rcv_queue[p]) <= RcvWnd
          /\ \A i \in 1..Len(rcv_queue[p]) : rcv_queue[p][i] = sent[q][read + i]
      BY <1>10 DEF RcvQueueInv
    <3>5. MoveAvailable(p, held, rcv_queue[p]) /\ UNCHANGED <<sent, snd_nxt>>
      BY <2>1, <1>1
    <3>6. /\ rcv_nxt' \in [Peers -> Sn]
          /\ rcv_queue' \in [Peers -> Seq(Segment)]
          /\ DOMAIN rcv_buf' = Peers
          /\ DOMAIN rcv_buf'[p] \subseteq Sn
          /\ rcv_buf'[p] \in [DOMAIN rcv_buf'[p] -> Segment]
          /\ \A r \in Peers \ {p} : /\ rcv_nxt'[r] = rcv_nxt[r]
                                    /\ rcv_buf'[r] = rcv_buf[r]
                                    /\ rcv_queue'[r] = rcv_queue[r]
          /\ rcv_nxt'[p] \in Nat /\ rcv_nxt[p] <= rcv_nxt'[p]
          /\ RcvBufInv(p)'
          /\ read + Len(rcv_queue'[p]) = rcv_nxt'[p]
          /\ Len(rcv_queue'[p]) <= RcvWnd
          /\ \A i \in 1..Len(rcv_queue'[p]) :
               rcv_queue'[p][i] = sent[q][read + i]
          /\ \A s \in Nat : s < rcv_nxt[p] \/ s \in DOMAIN held => Has(p, s)'
      <4>1. rcv_queue[p] \in Seq(Segment) /\ read \in Nat
        BY <1>10
      <4>. HIDE DEF read
      <4>2. MovedUp(p, held, read)
        BY <3>2, <3>3, <3>4, <3>5, <4>1, ReceiveFacts
      <4>. QED BY <4>2 DEF MovedUp
    <3>7. \A s \in Nat : Has(p, s) => Has(p, s)'
      BY <3>1, <3>6 DEF Has
    <3>8. Has(p, sn)'
      BY <3>1, <3>6, <1>4
    <3>. HIDE DEF read
    <3>. QED BY <3>6, <3>7, <3>8
  <2>2. CASE ~new
    <3>1. UNCHANGED <<rcv_nxt, rcv_buf, rcv_queue>>
      BY <2>2, <1>1
    <3>2. InWindow(p, sn) => Has(p, sn)'
      BY <2>2, <3>1, <1>4, <1>8, <1>9 DEF Has
    <3>3. RcvBufInv(p)'
      BY <3>1, <1>1, <1>10 DEF RcvBufInv
    <3>. QED BY <3>1, <3>2, <3>3, <1>8, <1>10 DEF RcvQueueInv, Has
  <2>. QED BY <2>1, <2>2
<1>12. TypeOK'
  <2>1. rmt_wnd' \in [Peers -> Nat] /\ acklist' \in [Peers -> SUBSET Sn]
    BY <1>1, <1>4 DEF IInv, TypeOK
  <2>2. \A r \in Peers : /\ DOMAIN rcv_buf'[r] \subseteq Sn
                         /\ rcv_buf'[r] \in [DOMAIN rcv_buf'[r] -> Segment]
    BY <1>11 DEF IInv, TypeOK
  <2>. QED BY <2>1, <2>2, <1>1, <1>3, <1>7, <1>11 DEF IInv, TypeOK
<1>13. \A r \in Peers : \A s \in Nat : Has(r, s) => Has(r, s)'
  <2>1. \A s \in Nat : Has(p, s) => Has(p, s)'
    BY <1>11
  <2>2. \A s : Has(q, s) => Has(q, s)'
    BY <1>2, <1>11 DEF Has
  <2>. QED BY <2>1, <2>2, <1>2
<1>14. RcvQueueInv(p)' /\ RcvBufInv(p)'
  BY <1>1, <1>10, <1>11 DEF RcvQueueInv
<1>15. RcvQueueInv(q)' /\ RcvBufInv(q)'
  <2>1. /\ rcv_nxt'[q] = rcv_nxt[q] /\ rcv_buf'[q] = rcv_buf[q]
        /\ rcv_queue'[q] = rcv_queue[q]
    BY <1>2, <1>11
  <2>2. RcvQueueInv(q) /\ RcvBufInv(q)
    BY <1>2 DEF IInv, LinkInv
  <2>. QED BY <1>1, <2>1, <2>2 DEF RcvQueueInv, RcvBufInv
<1>16. ASSUME NEW r \in Peers PROVE NetInv(r)'
  <2>1. NetInv(r) /\ rcv_nxt[r] \in Nat
    BY Ranges DEF IInv, LinkInv
  <2>2. rcv_nxt'[r] \in Nat /\ rcv_nxt[r] <= rcv_nxt'[r]
    <3>1. CASE r = p
      BY <3>1, <1>11
    <3>2. CASE r # p
      <4>1. rcv_nxt'[r] = rcv_nxt[r]
        BY <3>2, <1>11
      <4>. QED BY <4>1, <2>1
    <3>. QED BY <3>1, <3>2
  <2>3. /\ \A s \in acklist[r] : s \in Nat
        /\ \A e \in net[r] : e.una \in Nat /\ (e.kind = "ctl" => e.acks \subseteq Nat)
    BY HeldNumbers DEF IInv
  <2>4. \A s \in acklist'[r] : Has(r, s)'
    <3>1. CASE r = p
      <4>1. \A s \in acklist'[p] : s \in acklist[p] \/ (InWindow(p, sn) /\ s = sn)
        BY <1>1 DEF IInv, TypeOK
      <4>. QED BY <3>1, <4>1, <2>1, <2>3, <1>11, <1>13 DEF NetInv
    <3>2. CASE r # p
      <4>1. acklist'[r] = acklist[r]
        BY <3>2, <1>1 DEF IInv, TypeOK
      <4>. QED BY <4>1, <2>1, <2>3, <1>13 DEF NetInv
    <3>. QED BY <3>1, <3>2
  <2>5. \A e \in net'[r] :
          /\ e.una <= rcv_nxt'[r]
          /\ e.kind = "ctl" => \A s \in e.acks : Has(r, s)'
          /\ e.kind = "push" => e.sn < snd_nxt'[r] /\ e.seg = sent'[r][e.sn + 1]
    <3>. SUFFICES ASSUME NEW e \in net'[r]
                  PROVE  /\ e.una <= rcv_nxt'[r]
                         /\ e.kind = "ctl" => \A s \in e.acks : Has(r, s)'
                         /\ e.kind = "push" => /\ e.sn < snd_nxt'[r]
                                               /\ e.seg = sent'[r][e.sn + 1]
      OBVIOUS
    <3>1. e \in net[r]
      BY <1>3
    <3>2. /\ e.una <= rcv_nxt[r]
          /\ e.kind = "ctl" => \A s \in e.acks : Has(r, s)
          /\ e.kind = "push" => e.sn < snd_nxt[r] /\ e.seg = sent[r][e.sn + 1]
      BY <3>1, <2>1 DEF NetInv
    <3>3. e.una <= rcv_nxt'[r]
      BY <3>1, <3>2, <2>1, <2>2, <2>3
    <3>4. e.kind = "ctl" => \A s \in e.acks : Has(r, s)'
      BY <3>1, <3>2, <2>3, <1>13
    <3>. QED BY <3>2, <3>3, <3>4, <1>1
  <2>. QED BY <2>4, <2>5 DEF NetInv
<1>17. ASSUME NEW r \in Peers PROVE SndBufInv(r)' /\ CopyInv(r)'
  <2>1. SndBufInv(r)'
    BY <1>7
  <2>2. \A s \in 0..(snd_nxt[r] - 1) : s \in DOMAIN snd_buf'[r] \/ Has(Other(r), s)
    BY <1>7
  <2>3. Other(r) \in Peers /\ \A s \in 0..(snd_nxt[r] - 1) : s \in Nat
    BY PeerFacts, Ranges
  <2>4. \A s \in 0..(snd_nxt[r] - 1) : s \in DOMAIN snd_buf'[r] \/ Has(Other(r), s)'
    BY <2>2, <2>3, <1>13
  <2>. QED BY <2>1, <2>4, <1>1 DEF CopyInv
<1>18. ASSUME NEW r \in Peers PROVE WholeMessages(r)' /\ QueueInv(r)'
  BY <1>1 DEF IInv, LinkInv, WholeMessages, QueueInv
<1>. QED
  BY <1>2, <1>12, <1>14, <1>15, <1>16, <1>17, <1>18 DEF IInv, LinkInv

\* ikcp_parse_fastack counts, and changes nothing else of a segment.
LEMMA FastackFacts ==
  ASSUME NEW buf, NEW una, NEW nxt, NEW acks, buf \in [DOMAIN buf -> Outgoing]
  PROVE  LET new == ParseFastack(buf, una, nxt, acks)
         IN  /\ DOMAIN new = DOMAIN buf /\ new \in [DOMAIN buf -> Outgoing]
             /\ \A sn \in DOMAIN buf : new[sn].seg = buf[sn].seg
<1>. DEFINE maxack == CHOOSE sn \in acks : \A o \in acks : SnDiff(o, sn) <= 0
            counted == [sn \in DOMAIN buf |->
              IF SnDiff(maxack, sn) <= 0 THEN buf[sn]
              ELSE [buf[sn] EXCEPT !.fastack = Min({@ + 1, FastResend})]]
<1>1. ParseFastack(buf, una, nxt, acks) \in {buf, counted}
  BY DEF ParseFastack
<1>. HIDE DEF maxack
<1>2. ASSUME NEW sn \in DOMAIN buf
      PROVE  counted[sn] \in Outgoing /\ counted[sn].seg = buf[sn].seg
  <2>1. buf[sn] \in Outgoing
    OBVIOUS
  <2>2. Min({buf[sn].fastack + 1, FastResend}) \in Nat
    <3>1. buf[sn].fastack + 1 \in Nat /\ FastResend \in Nat
      BY <2>1, FastAssumption DEF Outgoing
    <3>. QED BY <3>1, MinPair
  <2>. QED BY <2>1, <2>2 DEF Outgoing
<1>3. DOMAIN counted = DOMAIN buf /\ counted \in [DOMAIN buf -> Outgoing]
  BY <1>2
<1>. HIDE DEF counted
<1>. QED BY <1>1, <1>2, <1>3

\* ikcp_input of control segments keeps the invariant.
LEMMA InputCtlStep ==
  ASSUME NoWrap, IInv, NEW p \in Peers, NEW d, InputCtl(p, d)
  PROVE  IInv'
<1>. DEFINE q == Other(p)
            left == ParseUna(snd_buf[p], d.una)
            buf == ParseAck(left, d.acks)
            una == ShrinkBuf(buf, snd_nxt[p])
            new == ParseFastack(buf, una, snd_nxt[p], d.acks)
<1>1. /\ Arrives(p, d) /\ d.kind = "ctl"
      /\ rmt_wnd' = [rmt_wnd EXCEPT ![p] = d.wnd]
      /\ snd_una' = [snd_una EXCEPT ![p] = una]
      /\ snd_buf' = [snd_buf EXCEPT ![p] = new]
      /\ ask_tell' = [ask_tell EXCEPT ![p] = @ \/ d.ask]
      /\ UNCHANGED <<snd_queue, snd_nxt, probe_wait, rcv_nxt, rcv_buf, rcv_queue,
                     acklist, sent, delivered>>
  BY DEF InputCtl, rcvVars
<1>2. /\ q \in Peers /\ Other(q) = p /\ q # p
      /\ \A r \in Peers : r = p \/ r = q
  BY PeerFacts
<1>3. /\ d \in net[q] /\ d \in Push \cup Ctl
      /\ net' \in [Peers -> SUBSET (Push \cup Ctl)]
      /\ \A r \in Peers : net'[r] \subseteq net[r]
  BY <1>1, ArriveFacts
<1>4. /\ d.una \in Nat /\ d.wnd \in Nat /\ d.acks \subseteq Nat /\ d.ask \in BOOLEAN
  BY <1>1, <1>3, RcvWndFacts, SerialAssumption DEF Push, Ctl, Sn
<1>5. d.una <= rcv_nxt[q] /\ \A s \in d.acks : Has(q, s)
  BY <1>1, <1>2, <1>3 DEF IInv, LinkInv, NetInv
<1>6. /\ DOMAIN left \subseteq DOMAIN snd_buf[p]
      /\ \A s \in DOMAIN left : left[s] = snd_buf[p][s]
      /\ \A s \in DOMAIN snd_buf[p] : s \in DOMAIN left \/ s < d.una
  BY <1>4, <1>5, UnaFacts
<1>. HIDE DEF left
<1>7. /\ DOMAIN buf = DOMAIN left \ d.acks
      /\ buf = [s \in DOMAIN left \ d.acks |-> left[s]]
  BY DEF ParseAck, Restrict
<1>. HIDE DEF buf
<1>8. /\ DOMAIN snd_buf[p] \subseteq Nat
      /\ snd_buf[p] \in [DOMAIN snd_buf[p] -> Outgoing] /\ DOMAIN snd_buf = Peers
      /\ snd_una \in [Peers -> Sn] /\ rcv_nxt[q] \in Nat
  <2>1. rcv_nxt[q] \in Nat
    BY <1>2, Ranges
  <2>. QED BY <2>1 DEF IInv, TypeOK, Sn
<1>9. /\ DOMAIN buf \subseteq DOMAIN snd_buf[p]
      /\ buf \in [DOMAIN buf -> Outgoing]
      /\ \A s \in DOMAIN buf : buf[s] = snd_buf[p][s]
  <2>1. \A s \in DOMAIN left : left[s] \in Outgoing
    BY <1>6, <1>8
  <2>. QED BY <2>1, <1>6, <1>7
<1>10. \A s \in DOMAIN snd_buf[p] : s \in DOMAIN buf \/ Has(q, s)
  BY <1>4, <1>5, <1>6, <1>7, <1>8 DEF Has
<1>11. /\ una \in Sn /\ una <= snd_nxt[p] /\ snd_nxt[p] <= una + SndWnd
       /\ \A s \in DOMAIN buf : una <= s
  BY <1>9, AckFacts
<1>. HIDE DEF una
<1>12. /\ DOMAIN new = DOMAIN buf /\ new \in [DOMAIN buf -> Outgoing]
       /\ \A s \in DOMAIN buf : new[s].seg = buf[s].seg
  BY <1>9, FastackFacts
<1>. HIDE DEF new
<1>13. /\ snd_una' \in [Peers -> Sn] /\ DOMAIN snd_buf' = Peers
       /\ snd_una'[p] = una /\ snd_buf'[p] = new
       /\ \A r \in Peers \ {p} : snd_una'[r] = snd_una[r] /\ snd_buf'[r] = snd_buf[r]
  BY <1>1, <1>8, <1>11
<1>14. /\ UNCHANGED <<sent, snd_nxt>>
       /\ snd_una'[p] <= snd_nxt[p] /\ snd_nxt[p] <= snd_una'[p] + SndWnd
       /\ DOMAIN snd_buf'[p] \subseteq DOMAIN snd_buf[p]
       /\ snd_buf'[p] \in [DOMAIN snd_buf'[p] -> Outgoing]
       /\ \A s \in DOMAIN snd_buf'[p] :
            snd_una'[p] <= s /\ snd_buf'[p][s].seg = snd_buf[p][s].seg
       /\ \A s \in DOMAIN snd_buf[p] : s \in DOMAIN snd_buf'[p] \/ Has(Other(p), s)
  BY <1>1, <1>9, <1>10, <1>11, <1>12, <1>13
<1>15. \A r \in Peers : /\ DOMAIN snd_buf'[r] \subseteq Sn
                        /\ snd_buf'[r] \in [DOMAIN snd_buf'[r] -> Outgoing]
                        /\ SndBufInv(r)'
                        /\ \A s \in 0..(snd_nxt[r] - 1) :
                             s \in DOMAIN snd_buf'[r] \/ Has(Other(r), s)
  BY <1>13, <1>14, FreeFacts
<1>16. TypeOK'
  <2>1. rmt_wnd' \in [Peers -> Nat]
    BY <1>1, <1>4 DEF IInv, TypeOK
  <2>2. ask_tell' \in [Peers -> BOOLEAN]
    BY <1>1, <1>4, Zenon DEF IInv, TypeOK
  <2>. QED BY <2>1, <2>2, <1>1, <1>3, <1>13, <1>15 DEF IInv, TypeOK
<1>17. ASSUME NEW r \in Peers
       PROVE  /\ WholeMessages(r)' /\ QueueInv(r)' /\ RcvBufInv(r)'
              /\ RcvQueueInv(r)' /\ NetInv(r)'
  <2>1. /\ WholeMessages(r) /\ QueueInv(r) /\ RcvBufInv(r)
        /\ RcvQueueInv(r) /\ NetInv(r)
    BY DEF IInv, LinkInv
  <2>2. NetInv(r)'
    BY <2>1, <1>1, <1>3 DEF NetInv, Has
  <2>. QED BY <2>1, <2>2, <1>1
       DEF WholeMessages, QueueInv, RcvBufInv, RcvQueueInv
<1>18. ASSUME NEW r \in Peers PROVE SndBufInv(r)' /\ CopyInv(r)'
  BY <1>1, <1>15 DEF CopyInv, Has
<1>. QED BY <1>16, <1>17, <1>18 DEF IInv, LinkInv

\* ikcp_flush numbers segments that are there and that the window admits.
LEMMA FreshFacts ==
  ASSUME NoWrap, IInv, NEW p \in Peers
  PROVE  /\ Fresh(p) \in Nat /\ Fresh(p) <= Len(snd_queue[p])
         /\ snd_nxt[p] + Fresh(p) <= snd_una[p] + SndWnd
         /\ snd_nxt[p] + Fresh(p) <= Len(sent[p])
         /\ snd_nxt[p] + Fresh(p) + RcvWnd < SnMod \div 2
<1>. DEFINE half == SnMod \div 2
            cwnd == Min({SndWnd, rmt_wnd[p]})
            room == SnDiff(SnAdd(snd_una[p], cwnd), snd_nxt[p])
            n == Fresh(p)
            waiting == Len(snd_queue[p])
            total == Len(sent[p])
<1>1. /\ snd_nxt[p] \in Nat /\ snd_una[p] \in Nat /\ snd_una[p] <= snd_nxt[p]
      /\ SndWnd \in Nat /\ RcvWnd \in Nat /\ half \in Nat /\ half <= SnMod
      /\ waiting \in Nat /\ total \in Nat /\ MaxSegs[p] \in Nat /\ total <= MaxSegs[p]
      /\ snd_nxt[p] <= MaxSegs[p] /\ MaxSegs[p] + SndWnd + RcvWnd < half
      /\ SnMod \in Nat
  BY Ranges
<1>2. snd_nxt[p] <= snd_una[p] + SndWnd /\ snd_nxt[p] + waiting = total
  BY DEF IInv, LinkInv, SndBufInv, QueueInv
<1>3. cwnd \in Nat /\ cwnd <= SndWnd
  <2>1. rmt_wnd[p] \in Nat
    BY DEF IInv, TypeOK
  <2>. QED BY <2>1, <1>1, MinPair
<1>4. n = Min({waiting, Max({0, room})})
  BY DEF Fresh
<1>. HIDE DEF half, cwnd, n, waiting, total
<1>5. /\ snd_una[p] + cwnd < half /\ snd_nxt[p] < half /\ snd_una[p] + cwnd < SnMod
      /\ snd_una[p] + cwnd \in Nat
  BY <1>1, <1>3
<1>6. room = (snd_una[p] + cwnd) - snd_nxt[p]
  <2>1. SnAdd(snd_una[p], cwnd) = snd_una[p] + cwnd
    BY <1>1, <1>3, <1>5, SerialSum
  <2>2. SnDiff(snd_una[p] + cwnd, snd_nxt[p]) = (snd_una[p] + cwnd) - snd_nxt[p]
    BY <1>1, <1>5, SerialDiff DEF half
  <2>. QED BY <2>1, <2>2
<1>. HIDE DEF room
<1>7. room \in Int /\ Max({0, room}) = IF room > 0 THEN room ELSE 0
  BY <1>1, <1>5, <1>6, MaxZero
<1>8. n \in Nat /\ n <= waiting /\ n <= (IF room > 0 THEN room ELSE 0)
  <2>1. (IF room > 0 THEN room ELSE 0) \in Nat
    BY <1>7
  <2>. QED BY <2>1, <1>1, <1>4, <1>7, MinPair
<1>9. snd_nxt[p] + n <= snd_una[p] + SndWnd
  BY <1>1, <1>2, <1>3, <1>6, <1>8
<1>10. snd_nxt[p] + n <= total
  BY <1>1, <1>2, <1>8
<1>11. snd_nxt[p] + n + RcvWnd < half
  BY <1>1, <1>8, <1>10
<1>. QED BY <1>8, <1>9, <1>10, <1>11 DEF half, n, waiting, total

\* The numbers it gives them are those of their places in the stream.
LEMMA NumberedFacts ==
  ASSUME NoWrap, IInv, NEW p \in Peers
  PROVE  LET n == Fresh(p)
             buf == Numbered(p, n)
         IN  /\ DOMAIN buf = DOMAIN snd_buf[p] \cup snd_nxt[p]..(snd_nxt[p] + n - 1)
             /\ buf \in [DOMAIN buf -> Outgoing]
             /\ \A sn \in DOMAIN buf :
                  /\ sn \in Nat /\ snd_una[p] <= sn /\ sn < snd_nxt[p] + n
                  /\ buf[sn].seg = sent[p][sn + 1]
<1>. DEFINE n == Fresh(p)
            nxt == snd_nxt[p]
            queue == snd_queue[p]
            waiting == Len(queue)
            half == SnMod \div 2
            new == {SnAdd(nxt, i) : i \in 0..(n - 1)}
            fresh(sn) == [seg |-> queue[SnDiff(sn, nxt) + 1], xmit |-> 0, fastack |-> 0]
            buf == Numbered(p, n)
<1>1. /\ n \in Nat /\ n <= waiting /\ nxt \in Nat /\ waiting \in Nat
      /\ nxt + n + RcvWnd < half /\ RcvWnd \in Nat /\ half \in Nat
      /\ half <= SnMod /\ SnMod \in Nat /\ snd_una[p] \in Nat /\ snd_una[p] <= nxt
  BY FreshFacts, Ranges
<1>2. /\ queue \in Seq(Segment) /\ SndBufInv(p) /\ QueueInv(p)
      /\ DOMAIN snd_buf[p] \subseteq Nat
      /\ snd_buf[p] \in [DOMAIN snd_buf[p] -> Outgoing]
  BY DEF IInv, LinkInv, TypeOK, Sn
<1>3. \A i \in 1..waiting : queue[i] = sent[p][nxt + i] /\ queue[i] \in Segment
  BY <1>2 DEF QueueInv
<1>4. DOMAIN buf = DOMAIN snd_buf[p] \cup new
  BY DEF Numbered
<1>5. /\ \A sn \in DOMAIN snd_buf[p] : buf[sn] = snd_buf[p][sn]
      /\ \A sn \in new : sn \notin DOMAIN snd_buf[p] => buf[sn] = fresh(sn)
  BY DEF Numbered
<1>6. buf = [sn \in DOMAIN buf |-> buf[sn]]
  BY DEF Numbered
<1>. HIDE DEF buf, n, waiting, half
<1>7. nxt + n < half /\ nxt + n < SnMod
  BY <1>1
<1>8. \A i \in 0..(n - 1) : SnAdd(nxt, i) = nxt + i
  BY <1>1, <1>7, SerialSum
<1>9. new = nxt..(nxt + n - 1)
  <2>. HIDE DEF nxt
  <2>1. new = {nxt + i : i \in 0..(n - 1)}
    BY <1>8
  <2>2. ASSUME NEW x \in nxt..(nxt + n - 1) PROVE x \in new
    <3>1. x - nxt \in 0..(n - 1) /\ x = nxt + (x - nxt)
      BY <1>1
    <3>. QED BY <2>1, <3>1
  <2>3. ASSUME NEW x \in new PROVE x \in nxt..(nxt + n - 1)
    <3>1. PICK i \in 0..(n - 1) : x = nxt + i
      BY <2>1
    <3>. QED BY <3>1, <1>1
  <2>. QED BY <2>2, <2>3
<1>. HIDE DEF new
<1>10. ASSUME NEW sn \in nxt..(nxt + n - 1)
       PROVE  /\ fresh(sn) \in Outgoing /\ fresh(sn).seg = sent[p][sn + 1]
              /\ sn \in Nat /\ snd_una[p] <= sn /\ sn < nxt + n
              /\ sn \notin DOMAIN snd_buf[p]
  <2>1. /\ sn \in Nat /\ snd_una[p] <= sn /\ nxt <= sn /\ sn < nxt + n
        /\ sn < half
    BY <1>1, <1>7
  <2>2. nxt < half
    BY <1>1, <1>7
  <2>3. SnDiff(sn, nxt) = sn - nxt
    BY <2>1, <2>2, <1>1, SerialDiff DEF half
  <2>4. (sn - nxt) + 1 \in 1..waiting /\ nxt + ((sn - nxt) + 1) = sn + 1
    BY <2>1, <1>1
  <2>5. queue[SnDiff(sn, nxt) + 1] = sent[p][sn + 1]
    BY <2>3, <2>4, <1>3
  <2>6. queue[SnDiff(sn, nxt) + 1] \in Segment
    BY <2>3, <2>4, <1>3
  <2>7. \A s \in DOMAIN snd_buf[p] : s < nxt
    BY <1>2 DEF SndBufInv
  <2>8. sn \notin DOMAIN snd_buf[p]
    BY <2>1, <2>7, <1>1
  <2>. QED BY <2>1, <2>5, <2>6, <2>8 DEF Outgoing
<1>11. ASSUME NEW sn \in DOMAIN snd_buf[p]
       PROVE  /\ snd_buf[p][sn] \in Outgoing
              /\ snd_buf[p][sn].seg = sent[p][sn + 1]
              /\ sn \in Nat /\ snd_una[p] <= sn /\ sn < nxt + n
  BY <1>1, <1>2 DEF SndBufInv
<1>12. ASSUME NEW sn \in DOMAIN buf
       PROVE  /\ buf[sn] \in Outgoing /\ buf[sn].seg = sent[p][sn + 1]
              /\ sn \in Nat /\ snd_una[p] <= sn /\ sn < nxt + n
  <2>1. CASE sn \in DOMAIN snd_buf[p]
    BY <2>1, <1>5, <1>11
  <2>2. CASE sn \in nxt..(nxt + n - 1)
    <3>. HIDE DEF fresh
    <3>. QED BY <2>2, <1>5, <1>9, <1>10
  <2>. QED BY <2>1, <2>2, <1>4, <1>9
<1>13. buf \in [DOMAIN buf -> Outgoing]
  BY <1>6, <1>12
<1>. QED BY <1>4, <1>9, <1>12, <1>13 DEF buf, n

\* Transmitting counts, and changes nothing else of a segment.
LEMMA TransmittedFacts ==
  ASSUME NEW buf, NEW out, NEW due, buf \in [DOMAIN buf -> Outgoing]
  PROVE  LET new == Transmitted(buf, out, due)
         IN  /\ DOMAIN new = DOMAIN buf /\ new \in [DOMAIN buf -> Outgoing]
             /\ \A sn \in DOMAIN buf : new[sn].seg = buf[sn].seg
<1>. DEFINE new == Transmitted(buf, out, due)
<1>1. XmitCap \in Nat
  BY FastAssumption DEF XmitCap
<1>2. ASSUME NEW sn \in DOMAIN buf
      PROVE  new[sn] \in Outgoing /\ new[sn].seg = buf[sn].seg
  <2>1. buf[sn] \in Outgoing
    OBVIOUS
  <2>2. Min({buf[sn].xmit + 1, XmitCap}) \in Nat
    <3>1. buf[sn].xmit + 1 \in Nat
      BY <2>1 DEF Outgoing
    <3>. QED BY <3>1, <1>1, MinPair
  <2>. QED BY <2>1, <2>2 DEF Transmitted, Outgoing
<1>3. DOMAIN new = DOMAIN buf /\ new = [sn \in DOMAIN buf |-> new[sn]]
  BY DEF Transmitted
<1>. HIDE DEF new
<1>. QED BY <1>2, <1>3 DEF new

\* ikcp_flush keeps the invariant.
LEMMA FlushStep ==
  ASSUME NoWrap, IInv, NEW p \in Peers, NEW due, NEW elapsed \in BOOLEAN,
         Flush(p, due, elapsed)
  PROVE  IInv'
<1>. DEFINE q == Other(p)
            n == Fresh(p)
            nxt == snd_nxt[p]
            buf == Numbered(p, n)
            out == NeedSend(buf, due)
            new == Transmitted(buf, out, due)
            ctl == Control(p, Probes(p, elapsed))
            data == {DataSeg(p, buf, sn) : sn \in out}
            rest == SubSeq(snd_queue[p], n + 1, Len(snd_queue[p]))
            waiting == Len(snd_queue[p])
<1>1. /\ probe_wait' = [probe_wait EXCEPT ![p] = (rmt_wnd[p] = 0)]
      /\ acklist' = [acklist EXCEPT ![p] = {}]
      /\ ask_tell' = [ask_tell EXCEPT ![p] = FALSE]
      /\ snd_queue' = [snd_queue EXCEPT ![p] = SubSeq(@, n + 1, Len(@))]
      /\ snd_nxt' = [snd_nxt EXCEPT ![p] = SnAdd(@, n)]
      /\ snd_buf' = [snd_buf EXCEPT ![p] = new]
      /\ Transmit(p, ctl \cup data)
      /\ UNCHANGED <<snd_una, rmt_wnd, rcv_nxt, rcv_buf, rcv_queue, sent, delivered>>
  BY DEF Flush, rcvVars
<1>2. /\ q \in Peers /\ Other(q) = p /\ q # p
      /\ \A r \in Peers : r = p \/ r = q
  BY PeerFacts
<1>3. TypeOK
  BY DEF IInv
<1>4. /\ n \in Nat /\ n <= waiting /\ nxt + n <= snd_una[p] + SndWnd
      /\ nxt + n <= Len(sent[p])
  BY FreshFacts
<1>5. nxt + n < SnMod /\ nxt \in Nat /\ waiting \in Nat /\ snd_una[p] \in Nat
      /\ snd_una[p] <= nxt /\ nxt + waiting = Len(sent[p])
  <2>1. /\ nxt + n + RcvWnd < SnMod \div 2 /\ SnMod \div 2 <= SnMod
        /\ SnMod \div 2 \in Nat /\ SnMod \in Nat /\ RcvWnd \in Nat
        /\ nxt \in Nat /\ waiting \in Nat
    BY FreshFacts, Ranges
  <2>2. nxt + waiting = Len(sent[p])
    BY DEF IInv, LinkInv, QueueInv
  <2>3. snd_una[p] \in Nat /\ snd_una[p] <= nxt
    BY Ranges
  <2>. DEFINE half == SnMod \div 2
  <2>. HIDE DEF half, n, nxt
  <2>4. nxt + n < SnMod
    <3>1. nxt + n + RcvWnd < half /\ half <= SnMod
      BY <2>1 DEF half
    <3>2. half \in Nat
      BY <2>1 DEF half
    <3>. QED BY <2>1, <3>1, <3>2, <1>4
  <2>. QED BY <2>1, <2>2, <2>3, <2>4
<1>6. /\ DOMAIN buf = DOMAIN snd_buf[p] \cup nxt..(nxt + n - 1)
      /\ buf \in [DOMAIN buf -> Outgoing]
      /\ \A sn \in DOMAIN buf : /\ sn \in Nat /\ snd_una[p] <= sn /\ sn < nxt + n
                                /\ buf[sn].seg = sent[p][sn + 1]
  BY NumberedFacts
<1>. HIDE DEF n, buf
<1>7. /\ DOMAIN new = DOMAIN buf /\ new \in [DOMAIN buf -> Outgoing]
      /\ \A sn \in DOMAIN buf : new[sn].seg = buf[sn].seg
  BY <1>6, TransmittedFacts
<1>8. out \subseteq DOMAIN buf
  BY DEF NeedSend
<1>. HIDE DEF out, new, nxt, waiting
<1>9. snd_nxt'[p] = nxt + n /\ snd_nxt'[q] = snd_nxt[q]
      /\ snd_nxt' \in [Peers -> Sn] /\ nxt + n \in Nat
  <2>1. SnAdd(nxt, n) = nxt + n
    BY <1>4, <1>5, SerialSum
  <2>2. nxt + n \in Sn /\ nxt + n \in Nat
    BY <1>4, <1>5, SerialAssumption DEF Sn
  <2>. QED BY <2>1, <2>2, <1>1, <1>2, <1>3 DEF TypeOK, nxt
<1>10. DOMAIN new \subseteq Sn
  <2>1. ASSUME NEW sn \in DOMAIN new PROVE sn \in Nat /\ sn < SnMod
    <3>1. sn \in Nat /\ sn < nxt + n
      BY <1>6, <1>7
    <3>. QED BY <3>1, <1>4, <1>5, SerialAssumption
  <2>. QED BY <2>1, SerialAssumption DEF Sn
<1>11. rcv_nxt[p] \in Sn /\ WndUnused(p) \in 0..RcvWnd /\ acklist[p] \subseteq Sn
       /\ ask_tell[p] \in BOOLEAN
  BY <1>3, RcvWndFacts DEF TypeOK, WndUnused
<1>12. \* what is put into the network is genuine and true
       /\ \A d \in ctl : /\ d \in Ctl /\ d.kind = "ctl" /\ d.una = rcv_nxt[p]
                         /\ d.acks = acklist[p]
       /\ \A d \in data : /\ d \in Push /\ d.kind = "push" /\ d.una = rcv_nxt[p]
                          /\ d.sn < nxt + n /\ d.seg = sent[p][d.sn + 1]
  <2>1. Probes(p, elapsed) \in BOOLEAN
    <3>1. probe_wait[p] \in BOOLEAN
      BY <1>3 DEF TypeOK
    <3>. QED BY <3>1, Zenon DEF Probes
  <2>2. ASSUME NEW d \in ctl
        PROVE  /\ d \in Ctl /\ d.kind = "ctl" /\ d.una = rcv_nxt[p]
               /\ d.acks = acklist[p]
    <3>1. d = [kind |-> "ctl", una |-> rcv_nxt[p], wnd |-> WndUnused(p),
               acks |-> acklist[p], ask |-> Probes(p, elapsed), tell |-> ask_tell[p]]
      BY DEF Control
    <3>. QED BY <3>1, <2>1, <1>11 DEF Ctl
  <2>3. ASSUME NEW sn \in out
        PROVE  LET d == DataSeg(p, buf, sn)
               IN  /\ d \in Push /\ d.kind = "push" /\ d.una = rcv_nxt[p]
                   /\ d.sn < nxt + n /\ d.seg = sent[p][d.sn + 1]
    <3>1. sn \in DOMAIN buf /\ sn \in Sn /\ buf[sn].seg \in Segment
      BY <1>6, <1>7, <1>8, <1>10 DEF Outgoing
    <3>. QED BY <3>1, <1>6, <1>11 DEF DataSeg, Push
  <2>. QED BY <2>2, <2>3
<1>. HIDE DEF ctl, data
<1>13. /\ net' \in [Peers -> SUBSET (Push \cup Ctl)]
       /\ net'[p] \subseteq net[p] \cup (ctl \cup data) /\ net'[q] = net[q]
  <2>1. PICK kept \in SUBSET (net[p] \cup (ctl \cup data)) :
          net' = [net EXCEPT ![p] = kept]
    BY <1>1 DEF Transmit
  <2>2. net \in [Peers -> SUBSET (Push \cup Ctl)]
    BY <1>3 DEF TypeOK
  <2>3. kept \subseteq Push \cup Ctl
    BY <2>1, <2>2, <1>12
  <2>. QED BY <2>1, <2>2, <2>3, <1>2
<1>14. /\ rest \in Seq(Segment) /\ Len(rest) = waiting - n
       /\ \A i \in 1..(waiting - n) : rest[i] = snd_queue[p][n + i]
  <2>. DEFINE queue == snd_queue[p]
  <2>1. queue \in Seq(Segment)
    BY <1>3 DEF TypeOK
  <2>2. \A i \in (n + 1)..waiting : queue[i] \in Segment
    BY <2>1, <1>4, <1>5 DEF waiting
  <2>3. rest = SubSeq(queue, n + 1, waiting)
    BY DEF waiting
  <2>. HIDE DEF queue, rest
  <2>4. /\ rest \in Seq(Segment)
        /\ Len(rest) = IF n + 1 <= waiting THEN waiting - (n + 1) + 1 ELSE 0
        /\ \A i \in 1..(waiting - (n + 1) + 1) : rest[i] = queue[(n + 1) + i - 1]
    <3>1. n + 1 \in Int /\ waiting \in Int
      BY <1>4, <1>5
    <3>. QED BY <2>2, <2>3, <3>1, SubSeqProperties
  <2>5. /\ waiting - (n + 1) + 1 = waiting - n
        /\ (IF n + 1 <= waiting THEN waiting - (n + 1) + 1 ELSE 0) = waiting - n
        /\ \A i \in 1..(waiting - n) : (n + 1) + i - 1 = n + i
    BY <1>4, <1>5
  <2>. QED BY <2>4, <2>5 DEF queue
<1>. HIDE DEF rest
<1>15. snd_queue'[p] = rest /\ snd_queue'[q] = snd_queue[q]
       /\ snd_queue' \in [Peers -> Seq(Segment)]
  BY <1>1, <1>2, <1>3, <1>14 DEF TypeOK, rest
<1>16. snd_buf'[p] = new /\ snd_buf'[q] = snd_buf[q] /\ DOMAIN snd_buf' = Peers
  BY <1>1, <1>2, <1>3 DEF TypeOK
<1>17. TypeOK'
  <2>1. /\ acklist' \in [Peers -> SUBSET Sn]
        /\ probe_wait' \in [Peers -> BOOLEAN] /\ ask_tell' \in [Peers -> BOOLEAN]
    <3>1. acklist' \in [Peers -> SUBSET Sn]
      BY <1>1, <1>3 DEF TypeOK
    <3>2. (rmt_wnd[p] = 0) \in BOOLEAN /\ FALSE \in BOOLEAN
      OBVIOUS
    <3>3. probe_wait' \in [Peers -> BOOLEAN] /\ ask_tell' \in [Peers -> BOOLEAN]
      BY <3>2, <1>1, <1>3, Zenon DEF TypeOK
    <3>. QED BY <3>1, <3>3
  <2>2. ASSUME NEW r \in Peers
        PROVE  /\ DOMAIN snd_buf'[r] \subseteq Sn
               /\ snd_buf'[r] \in [DOMAIN snd_buf'[r] -> Outgoing]
    <3>1. CASE r = p
      BY <3>1, <1>7, <1>10, <1>16
    <3>2. CASE r = q
      BY <3>2, <1>3, <1>16 DEF TypeOK
    <3>. QED BY <3>1, <3>2, <1>2
  <2>. QED BY <2>1, <2>2, <1>1, <1>3, <1>9, <1>13, <1>15, <1>16 DEF TypeOK
<1>18. QueueInv(p)'
  <2>1. \A i \in 1..waiting : snd_queue[p][i] = sent[p][nxt + i]
    BY DEF IInv, LinkInv, QueueInv, waiting, nxt
  <2>2. ASSUME NEW i \in 1..(waiting - n) PROVE rest[i] = sent[p][(nxt + n) + i]
    <3>1. n + i \in 1..waiting /\ nxt + (n + i) = (nxt + n) + i
      BY <1>4, <1>5
    <3>. QED BY <3>1, <2>1, <1>14
  <2>3. (nxt + n) + (waiting - n) = Len(sent[p]) /\ Len(sent[p]) <= MaxSegs[p]
    <3>1. (nxt + n) + (waiting - n) = nxt + waiting
      BY <1>4, <1>5
    <3>2. Len(sent[p]) <= MaxSegs[p]
      BY Ranges
    <3>. QED BY <3>1, <3>2, <1>5
  <2>. QED BY <2>2, <2>3, <1>1, <1>9, <1>14, <1>15 DEF QueueInv
<1>19. SndBufInv(p)'
  <2>1. snd_una[p] <= nxt + n
    BY <1>4, <1>5
  <2>. QED BY <2>1, <1>1, <1>4, <1>6, <1>7, <1>9, <1>16 DEF SndBufInv
<1>20. CopyInv(p)'
  <2>1. ASSUME NEW sn \in 0..(nxt + n - 1)
        PROVE  sn \in DOMAIN new \/ Has(q, sn)
    <3>1. CASE sn < nxt
      <4>1. sn \in 0..(nxt - 1)
        BY <3>1, <1>4, <1>5
      <4>2. \A s \in 0..(nxt - 1) : s \in DOMAIN snd_buf[p] \/ Has(q, s)
        BY DEF IInv, LinkInv, CopyInv, nxt
      <4>. QED BY <4>1, <4>2, <1>6, <1>7
    <3>2. CASE sn >= nxt
      <4>1. sn \in nxt..(nxt + n - 1)
        BY <3>2, <1>4, <1>5
      <4>. QED BY <4>1, <1>6, <1>7
    <3>. QED BY <3>1, <3>2, <1>5
  <2>2. \A sn : Has(q, sn) => Has(q, sn)'
    BY <1>1 DEF Has
  <2>3. ASSUME NEW sn \in 0..(snd_nxt'[p] - 1)
        PROVE  sn \in DOMAIN snd_buf'[p] \/ Has(q, sn)'
    <3>0. snd_nxt'[p] = nxt + n /\ nxt \in Nat /\ n \in Nat
      BY <1>4, <1>5, <1>9
    <3>1. sn \in 0..(nxt + n - 1)
      BY <3>0
    <3>2. sn \in DOMAIN new \/ Has(q, sn)'
      BY <3>1, <2>1, <2>2
    <3>. QED BY <3>2, <1>16
  <2>. QED BY <2>3 DEF CopyInv
<1>21. NetInv(p)'
  <2>1. NetInv(p)
    BY DEF IInv, LinkInv
  <2>2. \A d \in net[p] : d.kind = "push" => d.sn \in Nat
    BY <1>3, SerialAssumption DEF TypeOK, Push, Ctl, Sn
  <2>3. rcv_nxt[p] \in Nat
    BY Ranges
  <2>4. ASSUME NEW d \in net'[p]
        PROVE  /\ d.una <= rcv_nxt[p]
               /\ d.kind = "ctl" => \A sn \in d.acks : Has(p, sn)
               /\ d.kind = "push" => d.sn < nxt + n /\ d.seg = sent[p][d.sn + 1]
    <3>1. CASE d \in net[p]
      <4>1. /\ d.una <= rcv_nxt[p]
            /\ d.kind = "ctl" => \A sn \in d.acks : Has(p, sn)
            /\ d.kind = "push" => d.sn < nxt /\ d.seg = sent[p][d.sn + 1]
        BY <3>1, <2>1 DEF NetInv, nxt
      <4>2. d.kind = "push" => d.sn < nxt + n
        BY <3>1, <4>1, <2>2, <1>4, <1>5
      <4>. QED BY <4>1, <4>2
    <3>2. CASE d \in ctl
      <4>1. d.kind = "ctl" /\ d.una = rcv_nxt[p] /\ d.acks = acklist[p]
        BY <3>2, <1>12
      <4>2. \A sn \in acklist[p] : Has(p, sn)
        BY <2>1 DEF NetInv
      <4>. QED BY <4>1, <4>2, <2>3
    <3>3. CASE d \in data
      <4>1. /\ d.kind = "push" /\ d.una = rcv_nxt[p]
            /\ d.sn < nxt + n /\ d.seg = sent[p][d.sn + 1]
        BY <3>3, <1>12
      <4>. QED BY <4>1, <2>3
    <3>. QED BY <3>1, <3>2, <3>3, <1>13
  <2>5. \A sn \in acklist'[p] : FALSE
    BY <1>1, <1>3 DEF TypeOK
  <2>. QED BY <2>4, <2>5, <1>1, <1>9 DEF NetInv, Has
<1>22. RcvBufInv(q)'
  <2>1. /\ RcvBufInv(q) /\ rcv_nxt[q] \in Nat
        /\ DOMAIN rcv_buf[q] \subseteq Nat
    <3>1. rcv_nxt[q] \in Nat
      BY <1>2, Ranges
    <3>. QED BY <3>1, <1>2, SerialAssumption DEF IInv, LinkInv, TypeOK, Sn
  <2>2. \A s \in Nat : s < nxt => s < nxt + n
    BY <1>4, <1>5
  <2>3. rcv_nxt[q] <= nxt + n
    <3>1. rcv_nxt[q] <= nxt
      BY <2>1, <1>2 DEF RcvBufInv, nxt
    <3>. QED BY <3>1, <2>1, <1>4, <1>5
  <2>. QED BY <2>1, <2>2, <2>3, <1>1, <1>2, <1>9 DEF RcvBufInv, nxt
<1>23. RcvBufInv(p)'
  <2>1. RcvBufInv(p)
    BY DEF IInv, LinkInv
  <2>. QED BY <2>1, <1>1, <1>9 DEF RcvBufInv
<1>24. QueueInv(q)' /\ SndBufInv(q)' /\ CopyInv(q)' /\ NetInv(q)'
  <2>1. QueueInv(q) /\ SndBufInv(q) /\ CopyInv(q) /\ NetInv(q)
    BY <1>2 DEF IInv, LinkInv
  <2>2. acklist'[q] = acklist[q]
    BY <1>1, <1>2, <1>3 DEF TypeOK
  <2>3. QueueInv(q)' /\ SndBufInv(q)'
    BY <2>1, <1>1, <1>9, <1>15, <1>16 DEF QueueInv, SndBufInv
  <2>4. CopyInv(q)' /\ NetInv(q)'
    BY <2>1, <2>2, <1>1, <1>9, <1>13, <1>16 DEF CopyInv, NetInv, Has
  <2>. QED BY <2>3, <2>4
<1>25. ASSUME NEW r \in Peers PROVE WholeMessages(r)' /\ RcvQueueInv(r)'
  <2>1. WholeMessages(r) /\ RcvQueueInv(r)
    BY DEF IInv, LinkInv
  <2>2. UNCHANGED <<sent, delivered, rcv_queue, rcv_nxt>>
    BY <1>1
  <2>3. WholeMessages(r)'
    BY <2>1, <2>2 DEF WholeMessages
  <2>4. RcvQueueInv(r)'
    BY <2>1, <2>2 DEF RcvQueueInv
  <2>. QED BY <2>3, <2>4
<1>. QED
  BY <1>2, <1>17, <1>18, <1>19, <1>20, <1>21, <1>22, <1>23, <1>24, <1>25
  DEF IInv, LinkInv

-------------------------------------------------------------------------------
(* The theorems *)

\* Two new control blocks satisfy the invariant.
LEMMA InitInv == ASSUME NoWrap, Init PROVE IInv
<1>1. FirstSn = 0 /\ 0 \in Sn /\ \A p \in Peers : MaxSegs[p] \in Nat
  BY SerialAssumption, BoundAssumption DEF NoWrap, Sn
<1>2. TypeOK
  BY <1>1, WindowAssumption, SerialAssumption DEF Init, TypeOK
<1>3. ASSUME NEW p \in Peers
      PROVE  /\ WholeMessages(p) /\ QueueInv(p) /\ SndBufInv(p)
             /\ RcvBufInv(p) /\ RcvQueueInv(p) /\ CopyInv(p) /\ NetInv(p)
  <2>1. /\ Other(p) \in Peers /\ SndWnd \in Nat /\ RcvWnd \in Nat
    BY PeerFacts, WindowAssumption, RcvWndFacts
  <2>2. /\ snd_queue[p] = <<>> /\ sent[p] = <<>> /\ sent[Other(p)] = <<>>
        /\ delivered[p] = <<>> /\ rcv_queue[p] = <<>>
        /\ snd_buf[p] = <<>> /\ rcv_buf[p] = <<>>
        /\ snd_nxt[p] = 0 /\ snd_una[p] = 0 /\ rcv_nxt[p] = 0 /\ snd_nxt[Other(p)] = 0
        /\ acklist[p] = {} /\ net[p] = {}
    BY <1>1, <2>1 DEF Init
  <2>3. WholeMessages(p) /\ QueueInv(p)
    BY <1>1, <2>2 DEF WholeMessages, QueueInv
  <2>4. SndBufInv(p) /\ RcvBufInv(p)
    BY <2>1, <2>2 DEF SndBufInv, RcvBufInv
  <2>5. RcvQueueInv(p)
    BY <2>1, <2>2 DEF RcvQueueInv
  <2>6. CopyInv(p) /\ NetInv(p)
    BY <2>2 DEF CopyInv, NetInv
  <2>. QED BY <2>3, <2>4, <2>5, <2>6
<1>. QED BY <1>2, <1>3 DEF IInv, LinkInv

\* Every step keeps the invariant.
LEMMA NextInv == ASSUME NoWrap, IInv, [Next]_vars PROVE IInv'
<1>1. CASE Next
  <2>1. PICK p \in Peers :
          \/ \E count \in 1..MaxSegs[p] : Send(p, count)
          \/ Recv(p)
          \/ \E due \in SUBSET DOMAIN snd_buf[p], elapsed \in BOOLEAN :
               Flush(p, due, elapsed)
          \/ \E d \in net[Other(p)] : InputPush(p, d) \/ InputCtl(p, d)
    BY <1>1 DEF Next
  <2>2. ASSUME NEW count \in 1..MaxSegs[p], Send(p, count) PROVE IInv'
    <3>1. count \in Nat \ {0}
      BY BoundAssumption
    <3>. QED BY <2>2, <3>1, SendStep
  <2>3. CASE Recv(p)
    BY <2>3, RecvStep
  <2>4. ASSUME NEW due \in SUBSET DOMAIN snd_buf[p], NEW elapsed \in BOOLEAN,
               Flush(p, due, elapsed)
        PROVE  IInv'
    BY <2>4, FlushStep
  <2>5. ASSUME NEW d \in net[Other(p)], InputPush(p, d) PROVE IInv'
    BY <2>5, InputPushStep
  <2>6. ASSUME NEW d \in net[Other(p)], InputCtl(p, d) PROVE IInv'
    BY <2>6, InputCtlStep
  <2>. QED BY <2>1, <2>2, <2>3, <2>4, <2>5, <2>6
<1>2. CASE UNCHANGED vars
  <2>. USE <1>2 DEF vars, sndVars, rcvVars, sigVars
  <2>1. TypeOK'
    BY DEF IInv, TypeOK
  <2>2. ASSUME NEW p \in Peers
        PROVE  (/\ WholeMessages(p) /\ QueueInv(p) /\ SndBufInv(p)
                /\ RcvBufInv(p) /\ RcvQueueInv(p) /\ CopyInv(p) /\ NetInv(p))'
    <3>1. (WholeMessages(p) /\ QueueInv(p) /\ SndBufInv(p) /\ RcvBufInv(p))'
      BY DEF IInv, LinkInv, WholeMessages, QueueInv, SndBufInv, RcvBufInv
    <3>2. (RcvQueueInv(p) /\ CopyInv(p) /\ NetInv(p))'
      BY DEF IInv, LinkInv, RcvQueueInv, CopyInv, NetInv, Has
    <3>. QED BY <3>1, <3>2
  <2>. QED BY <2>1, <2>2 DEF IInv, LinkInv
<1>. QED BY <1>1, <1>2

\* The strengthened invariant holds in every state of a connection that ends
\* before its numbers are half used: the queues, buffers, acknowledgements and
\* datagrams of ikcp.c agree with the stream that was submitted.
THEOREM LinkInvariant == NoWrap => (Spec => [](TypeOK /\ LinkInv))
<1>. SUFFICES ASSUME NoWrap PROVE Spec => []IInv
  BY DEF IInv
<1>1. Init => IInv
  BY InitInv
<1>2. IInv /\ [Next]_vars => IInv'
  BY NextInv
<1>. QED BY <1>1, <1>2, PTL DEF Spec

\* Every variable of a connection has its type.
THEOREM TypeCorrect == NoWrap => (Spec => []TypeOK)
BY LinkInvariant, PTL

\* What was read is a prefix of what was submitted, by the invariant.
LEMMA InvInOrder == ASSUME NoWrap, IInv PROVE InOrderDelivery
<1>. SUFFICES ASSUME NEW p \in Peers
              PROVE  LET got == delivered[p]
                         src == sent[Other(p)]
                     IN  /\ Len(got) <= Len(src)
                         /\ \A i \in 1..Len(got) : got[i] = src[i]
                         /\ got # <<>> => got[Len(got)].frg = 0
  BY DEF InOrderDelivery
<1>. DEFINE read == Len(delivered[p])
            queued == Len(rcv_queue[p])
            total == Len(sent[Other(p)])
            nxt == snd_nxt[Other(p)]
<1>1. RcvQueueInv(p)
  BY DEF IInv, LinkInv
<1>2. /\ read \in Nat /\ queued \in Nat /\ rcv_nxt[p] \in Nat /\ rcv_nxt[p] <= nxt
      /\ read + queued = rcv_nxt[p]
  BY <1>1, Ranges DEF RcvQueueInv
<1>3. total \in Nat /\ nxt \in Nat /\ nxt <= total
  BY PeerFacts, Ranges
<1>. HIDE DEF read, queued, total, nxt
<1>4. read <= total
  BY <1>2, <1>3
<1>. QED BY <1>1, <1>4 DEF RcvQueueInv, read, total

\* Every segment not yet read is in some queue, by the invariant.
LEMMA InvNothingLost == ASSUME NoWrap, IInv PROVE NothingLost
<1>. SUFFICES ASSUME NEW p \in Peers,
                     NEW i \in (Len(delivered[Other(p)]) + 1)..Len(sent[p])
              PROVE  LET q == Other(p)
                     IN  \/ \E j \in 1..Len(rcv_queue[q]) : rcv_queue[q][j] = sent[p][i]
                         \/ \E sn \in DOMAIN rcv_buf[q] : rcv_buf[q][sn] = sent[p][i]
                         \/ \E sn \in DOMAIN snd_buf[p] : snd_buf[p][sn].seg = sent[p][i]
                         \/ \E j \in 1..Len(snd_queue[p]) : snd_queue[p][j] = sent[p][i]
  BY DEF NothingLost
<1>. DEFINE q == Other(p)
            read == Len(delivered[q])
            queued == Len(rcv_queue[q])
            waiting == Len(snd_queue[p])
            total == Len(sent[p])
            nxt == snd_nxt[p]
<1>1. q \in Peers /\ Other(q) = p
  BY PeerFacts
<1>2. /\ RcvQueueInv(q) /\ RcvBufInv(q) /\ SndBufInv(p) /\ QueueInv(p) /\ CopyInv(p)
  BY <1>1 DEF IInv, LinkInv
<1>3. /\ read \in Nat /\ queued \in Nat /\ rcv_nxt[q] \in Nat
      /\ read + queued = rcv_nxt[q]
  BY <1>1, <1>2, Ranges DEF RcvQueueInv
<1>4. /\ waiting \in Nat /\ total \in Nat /\ nxt \in Nat /\ nxt + waiting = total
  BY <1>2, Ranges DEF QueueInv
<1>5. i \in Nat /\ read < i /\ i <= total
  BY <1>3, <1>4
<1>6. /\ \A j \in 1..queued : rcv_queue[q][j] = sent[p][read + j]
      /\ \A j \in 1..waiting : snd_queue[p][j] = sent[p][nxt + j]
      /\ \A sn \in DOMAIN rcv_buf[q] : rcv_buf[q][sn] = sent[p][sn + 1]
      /\ \A sn \in DOMAIN snd_buf[p] : snd_buf[p][sn].seg = sent[p][sn + 1]
      /\ \A sn \in 0..(nxt - 1) : sn \in DOMAIN snd_buf[p] \/ Has(q, sn)
  BY <1>1, <1>2 DEF RcvQueueInv, QueueInv, RcvBufInv, SndBufInv, CopyInv
<1>. HIDE DEF q, read, queued, waiting, total, nxt
<1>7. CASE i > nxt
  <2>1. i - nxt \in 1..waiting /\ nxt + (i - nxt) = i
    BY <1>7, <1>4, <1>5
  <2>2. snd_queue[p][i - nxt] = sent[p][i]
    BY <2>1, <1>6
  <2>. QED BY <2>1, <2>2 DEF waiting
<1>8. CASE i <= nxt
  <2>1. i - 1 \in 0..(nxt - 1) /\ (i - 1) + 1 = i
    BY <1>8, <1>3, <1>4, <1>5
  <2>2. CASE i - 1 \in DOMAIN snd_buf[p]
    BY <2>1, <2>2, <1>6
  <2>3. CASE i - 1 \in DOMAIN rcv_buf[q]
    BY <2>1, <2>3, <1>6 DEF q
  <2>4. CASE i - 1 < rcv_nxt[q]
    <3>1. i - read \in 1..queued /\ read + (i - read) = i
      BY <2>4, <1>3, <1>5
    <3>2. rcv_queue[q][i - read] = sent[p][i]
      BY <3>1, <1>6
    <3>. QED BY <3>1, <3>2 DEF queued, q
  <2>. QED BY <2>1, <2>2, <2>3, <2>4, <1>6 DEF Has
<1>. QED BY <1>4, <1>5, <1>7, <1>8

\* Acknowledgements are of segments held, by the invariant.
LEMMA InvTruthfulAcks == ASSUME NoWrap, IInv PROVE TruthfulAcks
<1>. SUFFICES ASSUME NEW p \in Peers
              PROVE  /\ \A sn \in acklist[p] : Holds(p, sn)
                     /\ \A d \in net[p] :
                          /\ SnDiff(d.una, rcv_nxt[p]) <= 0
                          /\ d.kind = "ctl" => \A sn \in d.acks : Holds(p, sn)
  BY DEF TruthfulAcks
<1>. DEFINE half == SnMod \div 2
<1>1. NetInv(p) /\ RcvBufInv(p)
  BY DEF IInv, LinkInv
<1>2. rcv_nxt[p] \in Nat /\ rcv_nxt[p] < half /\ half \in Nat
  <2>1. /\ rcv_nxt[p] + SndWnd + RcvWnd < half /\ rcv_nxt[p] \in Nat
        /\ SndWnd \in Nat /\ RcvWnd \in Nat /\ half \in Nat
    BY Ranges
  <2>. HIDE DEF half
  <2>. QED BY <2>1
<1>3. /\ acklist[p] \subseteq Nat
      /\ \A d \in net[p] : d.una \in Nat /\ (d.kind = "ctl" => d.acks \subseteq Nat)
  BY SerialAssumption DEF IInv, TypeOK, Push, Ctl, Sn
<1>4. ASSUME NEW sn \in Nat, sn <= rcv_nxt[p]
      PROVE  SnDiff(sn, rcv_nxt[p]) = sn - rcv_nxt[p]
  BY <1>2, <1>4, SerialDiff
<1>5. ASSUME NEW sn \in Nat, Has(p, sn) PROVE Holds(p, sn)
  <2>1. CASE sn < rcv_nxt[p]
    <3>1. sn - rcv_nxt[p] < 0 /\ sn <= rcv_nxt[p]
      BY <2>1, <1>2
    <3>. QED BY <3>1, <1>4 DEF Holds
  <2>. QED BY <2>1, <1>5 DEF Has, Holds
<1>. HIDE DEF half
<1>6. \A sn \in acklist[p] : Holds(p, sn)
  BY <1>1, <1>3, <1>5 DEF NetInv
<1>7. ASSUME NEW d \in net[p]
      PROVE  /\ SnDiff(d.una, rcv_nxt[p]) <= 0
             /\ d.kind = "ctl" => \A sn \in d.acks : Holds(p, sn)
  <2>1. d.una <= rcv_nxt[p] /\ d.una \in Nat
    BY <1>1, <1>3 DEF NetInv
  <2>2. SnDiff(d.una, rcv_nxt[p]) <= 0
    BY <2>1, <1>2, <1>4
  <2>3. d.kind = "ctl" => \A sn \in d.acks : Holds(p, sn)
    BY <1>1, <1>3, <1>5 DEF NetInv
  <2>. QED BY <2>2, <2>3
<1>. QED BY <1>6, <1>7

\* The queues are within their windows, by the invariant.
LEMMA InvWindows == ASSUME NoWrap, IInv PROVE WindowsRespected
<1>. SUFFICES ASSUME NEW p \in Peers
              PROVE  /\ SnDiff(snd_nxt[p], snd_una[p]) <= SndWnd
                     /\ Cardinality(DOMAIN snd_buf[p]) <= SndWnd
                     /\ Len(rcv_queue[p]) <= RcvWnd
                     /\ Cardinality(DOMAIN rcv_buf[p]) <= RcvWnd
  BY DEF WindowsRespected
<1>. DEFINE half == SnMod \div 2
            nxt == snd_nxt[p]
            una == snd_una[p]
            rcv == rcv_nxt[p]
<1>1. SndBufInv(p) /\ RcvBufInv(p) /\ RcvQueueInv(p)
  BY DEF IInv, LinkInv
<1>2. /\ nxt \in Nat /\ una \in Nat /\ una <= nxt /\ rcv \in Nat
      /\ SndWnd \in Nat /\ RcvWnd \in Nat /\ half \in Nat
      /\ nxt <= MaxSegs[p] /\ MaxSegs[p] + SndWnd + RcvWnd < half
      /\ MaxSegs[p] \in Nat
  BY Ranges
<1>3. /\ DOMAIN snd_buf[p] \subseteq Nat /\ DOMAIN rcv_buf[p] \subseteq Nat
  BY SerialAssumption DEF IInv, TypeOK, Sn
<1>4. /\ nxt <= una + SndWnd
      /\ \A sn \in DOMAIN snd_buf[p] : una <= sn /\ sn < nxt
      /\ \A sn \in DOMAIN rcv_buf[p] : rcv <= sn /\ sn < rcv + RcvWnd
  BY <1>1 DEF SndBufInv, RcvBufInv
<1>. HIDE DEF half, nxt, una, rcv
<1>5. SnDiff(nxt, una) <= SndWnd
  <2>1. nxt < half /\ una < half
    BY <1>2
  <2>2. SnDiff(nxt, una) = nxt - una
    BY <2>1, <1>2, SerialDiff DEF half
  <2>. QED BY <2>2, <1>2, <1>4
<1>6. ASSUME NEW S \in SUBSET Nat, NEW a \in Nat, NEW w \in Nat,
             \A sn \in S : a <= sn /\ sn < a + w
      PROVE  Cardinality(S) <= w
  <2>1. S \subseteq a..(a + w - 1)
    BY <1>6
  <2>2. /\ IsFiniteSet(a..(a + w - 1))
        /\ Cardinality(a..(a + w - 1)) =
             IF a > a + w - 1 THEN 0 ELSE (a + w - 1) - a + 1
    BY FS_Interval
  <2>3. Cardinality(a..(a + w - 1)) = w
    BY <2>2
  <2>4. Cardinality(S) <= Cardinality(a..(a + w - 1))
    BY <2>1, <2>2, FS_Subset
  <2>. QED BY <2>3, <2>4
<1>7. Cardinality(DOMAIN snd_buf[p]) <= SndWnd
  <2>1. \A sn \in DOMAIN snd_buf[p] : una <= sn /\ sn < una + SndWnd
    BY <1>2, <1>3, <1>4
  <2>. QED BY <2>1, <1>2, <1>3, <1>6
<1>8. Cardinality(DOMAIN rcv_buf[p]) <= RcvWnd
  BY <1>2, <1>3, <1>4, <1>6
<1>9. Len(rcv_queue[p]) <= RcvWnd
  BY <1>1 DEF RcvQueueInv
<1>. QED BY <1>5, <1>7, <1>8, <1>9 DEF nxt, una

\* A full receive queue can be read, by the invariant.
LEMMA InvReadable == ASSUME NoWrap, IInv PROVE FullQueueReadable
<1>. SUFFICES ASSUME NEW p \in Peers, Len(rcv_queue[p]) >= RcvWnd
              PROVE  Readable(rcv_queue[p])
  BY DEF FullQueueReadable
<1>. DEFINE queue == rcv_queue[p]
<1>1. queue \in Seq(Segment) /\ Len(queue) \in Nat /\ Len(queue) >= RcvWnd
  BY DEF IInv, TypeOK
<1>2. RcvWnd \in Nat /\ RcvWnd >= WndRcv /\ RcvWnd >= 2 /\ WndRcv \in Nat
  BY RcvWndFacts, WindowAssumption
<1>. HIDE DEF queue
<1>3. queue # <<>> /\ 1 \in 1..Len(queue)
  BY <1>1, <1>2
<1>4. Head(queue) = queue[1] /\ queue[1] \in Segment
  BY <1>1, <1>3
<1>5. Head(queue).frg \in 0..(WndRcv - 2)
  BY <1>4 DEF Segment
<1>6. Len(queue) >= Head(queue).frg + 1
  BY <1>1, <1>2, <1>5
<1>. QED BY <1>3, <1>6 DEF Readable, queue

\* The safety properties of a connection, for every window and queue size, every
\* number of segments below the wrap, and any loss, delay, reordering or
\* duplication of datagrams.  What is read is what was sent, in order:
THEOREM InOrder == NoWrap => (Spec => []InOrderDelivery)
<1>. SUFFICES ASSUME NoWrap PROVE Spec => []InOrderDelivery
  OBVIOUS
<1>1. Spec => []IInv
  BY LinkInvariant DEF IInv
<1>2. IInv => InOrderDelivery
  BY InvInOrder
<1>. QED BY <1>1, <1>2, PTL

\* No acknowledgement ever frees the last copy of an unread segment.
THEOREM NoLoss == NoWrap => (Spec => []NothingLost)
<1>. SUFFICES ASSUME NoWrap PROVE Spec => []NothingLost
  OBVIOUS
<1>1. Spec => []IInv
  BY LinkInvariant DEF IInv
<1>2. IInv => NothingLost
  BY InvNothingLost
<1>. QED BY <1>1, <1>2, PTL

\* Every acknowledgement, pending or in the network however old, is true.
THEOREM AcksTrue == NoWrap => (Spec => []TruthfulAcks)
<1>. SUFFICES ASSUME NoWrap PROVE Spec => []TruthfulAcks
  OBVIOUS
<1>1. Spec => []IInv
  BY LinkInvariant DEF IInv
<1>2. IInv => TruthfulAcks
  BY InvTruthfulAcks
<1>. QED BY <1>1, <1>2, PTL

\* snd_buf, rcv_buf and rcv_queue never outgrow the configured windows, however
\* stale the window advertisements the sender acts on.
THEOREM Windows == NoWrap => (Spec => []WindowsRespected)
<1>. SUFFICES ASSUME NoWrap PROVE Spec => []WindowsRespected
  OBVIOUS
<1>1. Spec => []IInv
  BY LinkInvariant DEF IInv
<1>2. IInv => WindowsRespected
  BY InvWindows
<1>. QED BY <1>1, <1>2, PTL

\* A full receive queue can be read, so that the window can open again.
THEOREM Readability == NoWrap => (Spec => []FullQueueReadable)
<1>. SUFFICES ASSUME NoWrap PROVE Spec => []FullQueueReadable
  OBVIOUS
<1>1. Spec => []IInv
  BY LinkInvariant DEF IInv
<1>2. IInv => FullQueueReadable
  BY InvReadable
<1>. QED BY <1>1, <1>2, PTL

-------------------------------------------------------------------------------
(* Refinement: the connection is a reliable stream                         *)

\* The abstract specification has the same peers.
LEMMA StreamOther == ASSUME NEW p \in Peers PROVE Stream!Other(p) = Other(p)
<1>1. Other(p) \in Peers /\ Other(p) # p /\ \A r \in Peers : r # p => r = Other(p)
  BY PeerFacts
<1>2. Stream!Other(p) \in Peers /\ Stream!Other(p) # p
  BY <1>1 DEF Stream!Other
<1>. QED BY <1>1, <1>2

\* The message that is read is the next one of the peer's stream.
LEMMA RecvIsDeliver ==
  ASSUME NoWrap, IInv, NEW p \in Peers, Recv(p)
  PROVE  Stream!Deliver(p)
<1>. DEFINE q == Other(p)
            src == sent[q]
            queue == rcv_queue[p]
            n == MsgLen(queue)
            read == Len(delivered[p])
            queued == Len(queue)
            total == Len(src)
            next == read + 1
            last == next + src[next].frg
            head == SubSeq(queue, 1, n)
            message == SubSeq(src, next, last)
<1>1. /\ Readable(queue) /\ UNCHANGED sent
      /\ delivered' = [delivered EXCEPT ![p] = @ \o head]
  BY DEF Recv
<1>2. n \in 1..queued /\ n = queue[1].frg + 1
  BY <1>1, MsgLenFacts
<1>3. /\ RcvQueueInv(p) /\ queue \in Seq(Segment) /\ src \in Seq(Segment)
      /\ read \in Nat /\ queued \in Nat /\ total \in Nat /\ q \in Peers
  BY PeerFacts DEF IInv, LinkInv, TypeOK
<1>4. read + queued <= total
  <2>. DEFINE nxt == snd_nxt[q]
  <2>1. read + queued = rcv_nxt[p]
    BY <1>3 DEF RcvQueueInv
  <2>2. nxt \in Nat /\ nxt <= total
    BY <1>3, Ranges
  <2>3. rcv_nxt[p] \in Nat /\ rcv_nxt[p] <= nxt
    BY Ranges
  <2>. HIDE DEF read, queued, total, nxt
  <2>. QED BY <2>1, <2>2, <2>3, <1>3
<1>5. \A i \in 1..queued : queue[i] = src[read + i]
  BY <1>3 DEF RcvQueueInv
<1>. HIDE DEF n, read, queued, total, queue, src
<1>6. 1 \in 1..queued /\ queue[1] = src[next]
  BY <1>2, <1>3, <1>5
<1>7. n \in Nat /\ last = read + n /\ next <= total /\ last <= total /\ 1 <= n
      /\ n <= queued
  <2>1. n \in Nat /\ 1 <= n /\ n <= queued
    BY <1>2, <1>3
  <2>2. src[next].frg = n - 1
    <3>1. queue[1] \in Segment
      BY <1>3, <1>6 DEF queued
    <3>2. queue[1].frg \in Nat
      BY <3>1, WindowAssumption DEF Segment
    <3>. QED BY <3>2, <1>2, <1>6
  <2>3. last = read + n
    BY <2>1, <2>2, <1>3
  <2>. QED BY <2>1, <2>3, <1>3, <1>4
<1>. HIDE DEF last
<1>8. /\ head \in Seq(Segment) /\ Len(head) = n
      /\ \A i \in 1..n : head[i] = queue[i]
  <2>1. \A i \in 1..n : queue[i] \in Segment
    BY <1>3, <1>7 DEF queued
  <2>2. \A i \in 1..(n - 1 + 1) : head[i] = queue[1 + i - 1]
    BY <2>1, <1>7, SubSeqProperties
  <2>3. head \in Seq(Segment) /\ Len(head) = IF 1 <= n THEN n - 1 + 1 ELSE 0
    BY <2>1, <1>7, SubSeqProperties
  <2>4. n - 1 + 1 = n /\ \A i \in 1..n : 1 + i - 1 = i
    BY <1>7
  <2>. HIDE DEF head
  <2>. QED BY <2>2, <2>3, <2>4, <1>7
<1>9. /\ message \in Seq(Segment) /\ Len(message) = n
      /\ \A i \in 1..n : message[i] = src[read + i]
  <2>1. \A i \in next..last : src[i] \in Segment
    <3>1. \A i \in next..last : i \in 1..total
      BY <1>3, <1>7
    <3>. QED BY <3>1, <1>3 DEF total
  <2>2. next \in Int /\ last \in Int
    BY <1>3, <1>7
  <2>3. /\ message \in Seq(Segment)
        /\ Len(message) = IF next <= last THEN last - next + 1 ELSE 0
        /\ \A i \in 1..(last - next + 1) : message[i] = src[next + i - 1]
    <3>. HIDE DEF next
    <3>. QED BY <2>1, <2>2, SubSeqProperties
  <2>4. /\ next <= last /\ last - next + 1 = n
        /\ \A i \in 1..n : next + i - 1 = read + i
    BY <1>3, <1>7
  <2>. HIDE DEF message, next
  <2>. QED BY <2>3, <2>4
<1>10. head = message
  <2>1. ASSUME NEW i \in 1..n PROVE head[i] = message[i]
    <3>1. i \in 1..queued
      BY <1>3, <1>7
    <3>. QED BY <3>1, <1>5, <1>8, <1>9
  <2>. HIDE DEF head, message
  <2>. QED BY <2>1, <1>8, <1>9, SeqEqual
<1>11. /\ next <= Len(sent[Stream!Other(p)])
       /\ delivered' = [delivered EXCEPT ![p] = @ \o message]
       /\ UNCHANGED sent
  <2>1. next <= Len(sent[Stream!Other(p)])
    BY <1>7, StreamOther DEF total, src
  <2>. QED BY <2>1, <1>1, <1>10
<1>. QED
  BY <1>11, StreamOther DEF Stream!Deliver, read, src, last

\* The connection implements the order part of ReliableStream: every ikcp_send
\* is a Submit, every ikcp_recv a Deliver, and nothing else shows.
THEOREM Refinement == NoWrap => (Spec => StreamOrder)
<1>. SUFFICES ASSUME NoWrap PROVE Spec => StreamOrder
  OBVIOUS
<1>1. Spec => []IInv
  BY LinkInvariant DEF IInv
<1>2. Init => Stream!StreamInit
  BY DEF Init, Stream!StreamInit
<1>3. IInv /\ [Next]_vars => [Stream!StreamNext]_(Stream!streamVars)
  <2>. SUFFICES ASSUME IInv, [Next]_vars
                PROVE  Stream!StreamNext \/ UNCHANGED <<sent, delivered>>
    BY DEF Stream!streamVars
  <2>1. CASE UNCHANGED vars
    BY <2>1 DEF vars
  <2>2. CASE Next
    <3>1. PICK p \in Peers :
            \/ \E count \in 1..MaxSegs[p] : Send(p, count)
            \/ Recv(p)
            \/ \E due \in SUBSET DOMAIN snd_buf[p], elapsed \in BOOLEAN :
                 Flush(p, due, elapsed)
            \/ \E d \in net[Other(p)] : InputPush(p, d) \/ InputCtl(p, d)
      BY <2>2 DEF Next
    <3>2. ASSUME NEW count \in 1..MaxSegs[p], Send(p, count)
          PROVE  Stream!StreamNext
      <4>1. count \in 1..(WndRcv - 1)
        BY <3>2, BoundAssumption, WindowAssumption DEF Send
      <4>2. Stream!Submit(p, count)
        BY <3>2 DEF Send, Stream!Submit, Stream!Message, Fragments
      <4>. QED BY <4>1, <4>2 DEF Stream!StreamNext
    <3>3. CASE Recv(p)
      BY <3>3, RecvIsDeliver DEF Stream!StreamNext
    <3>4. ASSUME NEW due, NEW elapsed, Flush(p, due, elapsed)
          PROVE  UNCHANGED <<sent, delivered>>
      BY <3>4 DEF Flush
    <3>5. ASSUME NEW d, InputPush(p, d) \/ InputCtl(p, d)
          PROVE  UNCHANGED <<sent, delivered>>
      BY <3>5 DEF InputPush, InputCtl
    <3>. QED BY <3>1, <3>2, <3>3, <3>4, <3>5
  <2>. QED BY <2>1, <2>2
<1>. QED BY <1>1, <1>2, <1>3, PTL DEF Spec, StreamOrder, Stream!StreamSafe

-------------------------------------------------------------------------------
(* Steps that do not go backwards *)

\* snd_una and rcv_nxt never decrease.
LEMMA Monotone ==
  ASSUME NoWrap, IInv, [Next]_vars, NEW r \in Peers
  PROVE  snd_una[r] <= snd_una'[r] /\ rcv_nxt[r] <= rcv_nxt'[r]
<1>1. /\ snd_una[r] \in Nat /\ rcv_nxt[r] \in Nat
      /\ DOMAIN snd_una = Peers /\ DOMAIN snd_buf = Peers /\ DOMAIN rcv_nxt = Peers
  <2>1. snd_una[r] \in Nat /\ rcv_nxt[r] \in Nat
    BY Ranges
  <2>. QED BY <2>1 DEF IInv, TypeOK
<1>2. ASSUME NEW p \in Peers, NEW buf, NEW queue \in Seq(Segment),
             MoveAvailable(p, buf, queue), Len(queue) <= RcvWnd
      PROVE  rcv_nxt[r] <= rcv_nxt'[r]
  <2>. DEFINE k == Run(rcv_nxt[p], buf, RcvWnd - Len(queue))
  <2>1. /\ rcv_nxt[p] \in Nat /\ RcvWnd \in Nat /\ rcv_nxt[p] + RcvWnd < SnMod
        /\ RcvWnd - Len(queue) \in Nat
    <3>1. /\ rcv_nxt[p] + SndWnd + RcvWnd < SnMod \div 2 /\ SnMod \div 2 <= SnMod
          /\ rcv_nxt[p] \in Nat /\ RcvWnd \in Nat /\ SndWnd \in Nat
          /\ SnMod \in Nat /\ SnMod \div 2 \in Nat
      BY Ranges
    <3>2. RcvWnd - Len(queue) \in Nat
      BY <1>2, RcvWndFacts
    <3>. DEFINE half == SnMod \div 2
    <3>. HIDE DEF half
    <3>3. rcv_nxt[p] + RcvWnd < SnMod
      BY <3>1 DEF half
    <3>. QED BY <3>1, <3>2, <3>3
  <2>2. k \in 0..(RcvWnd - Len(queue))
    <3>. DEFINE room == RcvWnd - Len(queue)
    <3>1. room \in Nat /\ rcv_nxt[p] + room < SnMod
      BY <1>2, <2>1, SerialAssumption
    <3>. QED BY <3>1, <2>1, RunFacts
  <2>3. rcv_nxt' = [rcv_nxt EXCEPT ![p] = SnAdd(rcv_nxt[p], k)]
    BY <1>2 DEF MoveAvailable
  <2>4. SnAdd(rcv_nxt[p], k) = rcv_nxt[p] + k
    <3>. HIDE DEF k
    <3>1. k \in Nat /\ rcv_nxt[p] + k < SnMod
      BY <1>2, <2>1, <2>2, SerialAssumption
    <3>. QED BY <3>1, <2>1, SerialSum
  <2>. HIDE DEF k
  <2>5. CASE r = p
    BY <2>1, <2>2, <2>3, <2>4, <2>5, <1>1
  <2>6. CASE r # p
    BY <2>3, <2>6, <1>1
  <2>. QED BY <2>5, <2>6
<1>3. ASSUME NEW p \in Peers, NEW buf, DOMAIN buf \subseteq DOMAIN snd_buf[p],
             snd_una' = [snd_una EXCEPT ![p] = ShrinkBuf(buf, snd_nxt[p])]
      PROVE  snd_una[r] <= snd_una'[r]
  <2>1. snd_una[p] <= ShrinkBuf(buf, snd_nxt[p])
    BY <1>3, AckFacts
  <2>. QED BY <2>1, <1>1, <1>3
<1>4. CASE Next
  <2>1. PICK p \in Peers :
          \/ \E count \in 1..MaxSegs[p] : Send(p, count)
          \/ Recv(p)
          \/ \E due \in SUBSET DOMAIN snd_buf[p], elapsed \in BOOLEAN :
               Flush(p, due, elapsed)
          \/ \E d \in net[Other(p)] : InputPush(p, d) \/ InputCtl(p, d)
    BY <1>4 DEF Next
  <2>2. ASSUME NEW count, Send(p, count)
        PROVE  UNCHANGED <<snd_una, rcv_nxt>>
    BY <2>2 DEF Send, rcvVars
  <2>3. ASSUME NEW due, NEW elapsed, Flush(p, due, elapsed)
        PROVE  UNCHANGED <<snd_una, rcv_nxt>>
    BY <2>3 DEF Flush, rcvVars
  <2>4. CASE Recv(p)
    <3>. DEFINE queue == rcv_queue[p]
                n == MsgLen(queue)
                rest == SubSeq(queue, n + 1, Len(queue))
    <3>1. Readable(queue) /\ MoveAvailable(p, rcv_buf[p], rest) /\ UNCHANGED snd_una
      BY <2>4 DEF Recv, sndVars
    <3>2. n \in 1..Len(queue) /\ queue \in Seq(Segment) /\ Len(queue) \in Nat
          /\ Len(queue) <= RcvWnd
      <4>1. n \in 1..Len(queue)
        BY <3>1, MsgLenFacts
      <4>. QED BY <4>1 DEF IInv, LinkInv, TypeOK, RcvQueueInv
    <3>. HIDE DEF n, queue
    <3>3. rest \in Seq(Segment) /\ Len(rest) <= RcvWnd
      <4>1. \A i \in (n + 1)..Len(queue) : queue[i] \in Segment
        BY <3>2
      <4>2. /\ rest \in Seq(Segment)
            /\ Len(rest) = IF n + 1 <= Len(queue) THEN Len(queue) - (n + 1) + 1 ELSE 0
        BY <4>1, <3>2, SubSeqProperties
      <4>. DEFINE len == Len(queue)
                  left == Len(rest)
      <4>3. /\ left = IF n + 1 <= len THEN len - (n + 1) + 1 ELSE 0
            /\ len \in Nat /\ len <= RcvWnd /\ n \in 1..len /\ RcvWnd \in Nat
        BY <4>2, <3>2, RcvWndFacts
      <4>. HIDE DEF len, left, rest
      <4>4. left <= RcvWnd
        BY <4>3
      <4>. QED BY <4>2, <4>4 DEF left
    <3>. HIDE DEF rest
    <3>4. rcv_nxt[r] <= rcv_nxt'[r]
      BY <3>1, <3>3, <1>2
    <3>. QED BY <3>1, <3>4, <1>1
  <2>5. ASSUME NEW d \in net[Other(p)], InputPush(p, d)
        PROVE  snd_una[r] <= snd_una'[r] /\ rcv_nxt[r] <= rcv_nxt'[r]
    <3>. DEFINE buf == ParseUna(snd_buf[p], d.una)
                held == Stored(rcv_buf[p], d.sn, d.seg)
    <3>1. /\ snd_buf' = [snd_buf EXCEPT ![p] = buf]
          /\ snd_una' = [snd_una EXCEPT ![p] = ShrinkBuf(snd_buf'[p], snd_nxt[p])]
          /\ \/ MoveAvailable(p, held, rcv_queue[p])
             \/ UNCHANGED rcv_nxt
      BY <2>5 DEF InputPush, rcvVars
    <3>2. DOMAIN buf \subseteq DOMAIN snd_buf[p]
      BY DEF ParseUna, Restrict
    <3>. HIDE DEF buf, held
    <3>3. snd_una' = [snd_una EXCEPT ![p] = ShrinkBuf(buf, snd_nxt[p])]
      BY <3>1, <1>1
    <3>4. snd_una[r] <= snd_una'[r]
      BY <3>2, <3>3, <1>3
    <3>5. rcv_queue[p] \in Seq(Segment) /\ Len(rcv_queue[p]) <= RcvWnd
      BY DEF IInv, LinkInv, TypeOK, RcvQueueInv
    <3>6. CASE MoveAvailable(p, held, rcv_queue[p])
      BY <3>4, <3>5, <3>6, <1>2
    <3>7. CASE UNCHANGED rcv_nxt
      BY <3>4, <3>7, <1>1
    <3>. QED BY <3>1, <3>6, <3>7
  <2>6. ASSUME NEW d \in net[Other(p)], InputCtl(p, d)
        PROVE  snd_una[r] <= snd_una'[r] /\ rcv_nxt[r] <= rcv_nxt'[r]
    <3>. DEFINE buf == ParseAck(ParseUna(snd_buf[p], d.una), d.acks)
    <3>1. /\ snd_una' = [snd_una EXCEPT ![p] = ShrinkBuf(buf, snd_nxt[p])]
          /\ UNCHANGED rcv_nxt
      BY <2>6 DEF InputCtl, rcvVars
    <3>2. DOMAIN buf \subseteq DOMAIN snd_buf[p]
      BY DEF ParseAck, ParseUna, Restrict
    <3>. HIDE DEF buf
    <3>3. snd_una[r] <= snd_una'[r]
      BY <3>1, <3>2, <1>3
    <3>. QED BY <3>1, <3>3, <1>1
  <2>. QED BY <2>1, <2>2, <2>3, <2>4, <2>5, <2>6, <1>1
<1>5. CASE UNCHANGED vars
  BY <1>1, <1>5 DEF vars, sndVars, rcvVars
<1>. QED BY <1>4, <1>5

\* A late or repeated datagram never takes back what was acknowledged or
\* received.
THEOREM NoRegress == NoWrap => (Spec => NeverBackwards)
<1>. SUFFICES ASSUME NoWrap PROVE Spec => NeverBackwards
  OBVIOUS
<1>1. Spec => []IInv
  BY LinkInvariant DEF IInv
<1>. DEFINE Forward == \A p \in Peers : /\ SnDiff(snd_una'[p], snd_una[p]) >= 0
                                        /\ SnDiff(rcv_nxt'[p], rcv_nxt[p]) >= 0
<1>. DEFINE Below == \A p \in Peers :
                       /\ snd_una[p] \in Nat /\ snd_una[p] < SnMod \div 2
                       /\ rcv_nxt[p] \in Nat /\ rcv_nxt[p] < SnMod \div 2
<1>2. IInv => Below
  <2>. SUFFICES ASSUME IInv, NEW p \in Peers
                PROVE  /\ snd_una[p] \in Nat /\ snd_una[p] < SnMod \div 2
                       /\ rcv_nxt[p] \in Nat /\ rcv_nxt[p] < SnMod \div 2
    OBVIOUS
  <2>. DEFINE half == SnMod \div 2
  <2>1. /\ snd_una[p] \in Nat /\ snd_una[p] <= snd_nxt[p] /\ snd_nxt[p] <= MaxSegs[p]
        /\ snd_nxt[p] \in Nat /\ MaxSegs[p] \in Nat
        /\ MaxSegs[p] + SndWnd + RcvWnd < half
        /\ rcv_nxt[p] \in Nat /\ rcv_nxt[p] + SndWnd + RcvWnd < half
        /\ SndWnd \in Nat /\ RcvWnd \in Nat /\ half \in Nat
    BY Ranges
  <2>. HIDE DEF half
  <2>2. snd_una[p] < half /\ rcv_nxt[p] < half
    BY <2>1
  <2>. QED BY <2>1, <2>2 DEF half
<1>3. IInv /\ Below /\ Below' /\ [Next]_vars => Forward
  <2>. SUFFICES ASSUME IInv, Below, Below', [Next]_vars, NEW p \in Peers
                PROVE  /\ SnDiff(snd_una'[p], snd_una[p]) >= 0
                       /\ SnDiff(rcv_nxt'[p], rcv_nxt[p]) >= 0
    OBVIOUS
  <2>1. snd_una[p] <= snd_una'[p] /\ rcv_nxt[p] <= rcv_nxt'[p]
    BY Monotone
  <2>2. /\ SnDiff(snd_una'[p], snd_una[p]) = snd_una'[p] - snd_una[p]
        /\ SnDiff(rcv_nxt'[p], rcv_nxt[p]) = rcv_nxt'[p] - rcv_nxt[p]
    BY SerialDiff
  <2>. QED BY <2>1, <2>2
<1>4. NeverBackwards <=> [][Forward]_vars
  BY DEF NeverBackwards
<1>. HIDE DEF Below, Forward
<1>. QED BY <1>1, <1>2, <1>3, <1>4, PTL DEF Spec

===============================================================================
