------------------------------ MODULE SegmentList ------------------------------
(***************************************************************************)
(* The segments of one KCP control block in memory: four rings of doubly   *)
(* linked nodes (the IQUEUE macros of depends/kcp/ikcp.h), the counters    *)
(* kept beside them, and every operation of ikcp.c that links, unlinks,    *)
(* allocates or frees a segment.  The peer is whatever sends numbers of    *)
(* its window; what it acknowledges was sent.                              *)
(***************************************************************************)
EXTENDS Integers, Sequences, FiniteSets, FiniteSetsExt

CONSTANTS
  Blocks,       \* memory that malloc may return, numbers
  SnMod,        \* 2^32
  FirstSn,      \* the number both directions have reached
  SndWnd,       \* kcp->snd_wnd
  RcvWnd,       \* kcp->rcv_wnd, and IKCP_WND_RCV
  MaxSegs       \* bound of the model: segments per direction

ListAssumption ==
  /\ Blocks \subseteq Nat \ {0} /\ IsFiniteSet(Blocks)
  /\ SnMod \in Nat /\ RcvWnd \in Nat /\ SndWnd \in Nat
  /\ SnMod > 2 * RcvWnd /\ SnMod > 2 * SndWnd /\ RcvWnd > 1
  /\ FirstSn \in 0..SnMod - 1 /\ MaxSegs \in Nat

VARIABLES
  ring,         \* the IQUEUEHEAD of every head and block
  seg,          \* sn and frg of the segment in every allocated block
  kcp           \* snd_una, snd_nxt, rcv_nxt, the four counters, alive

vars == <<ring, seg, kcp>>

snd_buf == -1
snd_queue == -2
rcv_buf == -3
rcv_queue == -4
Heads == {snd_buf, snd_queue, rcv_buf, rcv_queue}
null == 0

SnAdd(sn, n) == (sn + n) % SnMod

\* _itimediff
SnDiff(later, earlier) ==
  LET d == (later - earlier) % SnMod
  IN  IF d >= SnMod \div 2 THEN d - SnMod ELSE d

--------------------------------------------------------------------------------
(* The queue macros, on the memory r.                                      *)

\* Mutant of iqueue_add: the old first node is looked up after head->next changed.
iqueue_add_late(r, node, head) ==
  [r EXCEPT ![node] = [next |-> r[head].next, prev |-> head],
            ![head].next = node,
            ![node].prev = node]

iqueue_add(r, node, head) ==
  [r EXCEPT ![node] = [next |-> r[head].next, prev |-> head],
            ![r[head].next].prev = node,
            ![head].next = node]

iqueue_add_tail(r, node, head) ==
  [r EXCEPT ![node] = [next |-> head, prev |-> r[head].prev],
            ![r[head].prev].next = node,
            ![head].prev = node]

iqueue_del(r, entry) ==
  [r EXCEPT ![r[entry].next].prev = r[entry].prev,
            ![r[entry].prev].next = r[entry].next,
            ![entry] = [next |-> null, prev |-> null]]

iqueue_is_empty(r, head) == r[head].next = head

\* The nodes of a ring, first to last; a chain that does not come back to its
\* head within as many steps as there are blocks is cut off.
RECURSIVE Chain(_, _, _)
Chain(r, p, left) ==
  IF p \in Heads \cup {null} \/ left = 0 THEN << >>
  ELSE <<p>> \o Chain(r, r[p].next, left - 1)
Walk(r, head) == Chain(r, r[head].next, Cardinality(Blocks))

Allocated == DOMAIN seg

\* ikcp_segment_new, ikcp_segment_delete: malloc and free.
Spare == Blocks \ Allocated
Freed(s, gone) == [b \in DOMAIN s \ gone |-> s[b]]
Unlinked == [next |-> null, prev |-> null]

\* ikcp_create
Init ==
  /\ ring = [x \in Heads \cup Blocks |->
               IF x \in Heads THEN [next |-> x, prev |-> x] ELSE Unlinked]
  /\ seg = << >>
  /\ kcp = [snd_una |-> FirstSn, snd_nxt |-> FirstSn, rcv_nxt |-> FirstSn,
            nsnd_buf |-> 0, nsnd_que |-> 0, nrcv_buf |-> 0, nrcv_que |-> 0,
            alive |-> TRUE]

--------------------------------------------------------------------------------
(* ikcp_send: count segments at the tail of snd_queue, frg counting down.  *)
RECURSIVE Fragment(_, _, _)
Fragment(r, s, left) ==
  IF left = 0 THEN [r |-> r, s |-> s]
  ELSE LET new == Min(Blocks \ DOMAIN s)
       IN  Fragment(iqueue_add_tail(r, new, snd_queue),
                    [b \in DOMAIN s \cup {new} |->
                       IF b = new THEN [sn |-> null, frg |-> left - 1] ELSE s[b]],
                    left - 1)

ikcp_send(count) ==
  /\ kcp.alive /\ count < RcvWnd /\ count <= Cardinality(Spare)
  /\ SnDiff(kcp.snd_nxt, FirstSn) + kcp.nsnd_que + count <= MaxSegs
  /\ LET done == Fragment(ring, seg, count)
     IN  ring' = done.r /\ seg' = done.s
  /\ kcp' = [kcp EXCEPT !.nsnd_que = @ + count]

(* ikcp_flush: "move data from snd_queue to snd_buf", the peer's window    *)
(* being rmt_wnd.                                                          *)
RECURSIVE Moved(_, _, _, _)
Moved(r, s, k, cwnd) ==
  IF SnDiff(k.snd_nxt, SnAdd(k.snd_una, cwnd)) >= 0 \/ iqueue_is_empty(r, snd_queue)
  THEN [r |-> r, s |-> s, k |-> k]
  ELSE LET new == r[snd_queue].next
       IN  Moved(iqueue_add_tail(iqueue_del(r, new), new, snd_buf),
                 [s EXCEPT ![new].sn = k.snd_nxt],
                 [k EXCEPT !.nsnd_que = @ - 1, !.nsnd_buf = @ + 1,
                           !.snd_nxt = SnAdd(@, 1)],
                 cwnd)

ikcp_flush(rmt_wnd) ==
  /\ kcp.alive
  /\ LET done == Moved(ring, seg, kcp, Min({SndWnd, rmt_wnd}))
     IN  ring' = done.r /\ seg' = done.s /\ kcp' = done.k

--------------------------------------------------------------------------------
(* ikcp_input: acknowledgements.                                           *)

\* ikcp_parse_una frees the segments before una, from the front.
RECURSIVE ParseUna(_, _, _, _, _)
ParseUna(r, s, k, p, una) ==
  IF p = snd_buf \/ SnDiff(una, s[p].sn) <= 0 THEN [r |-> r, s |-> s, k |-> k]
  ELSE ParseUna(iqueue_del(r, p), Freed(s, {p}), [k EXCEPT !.nsnd_buf = @ - 1],
                r[p].next, una)

\* ikcp_parse_ack frees the segment sn, if it finds it before a later one.
RECURSIVE ParseAck(_, _, _, _, _)
ParseAck(r, s, k, p, sn) ==
  IF \/ p = snd_buf \/ SnDiff(sn, s[p].sn) < 0
     \/ SnDiff(sn, k.snd_una) < 0 \/ SnDiff(sn, k.snd_nxt) >= 0
  THEN [r |-> r, s |-> s, k |-> k]
  ELSE IF sn = s[p].sn
  THEN [r |-> iqueue_del(r, p), s |-> Freed(s, {p}), k |-> [k EXCEPT !.nsnd_buf = @ - 1]]
  ELSE ParseAck(r, s, k, r[p].next, sn)

\* ikcp_shrink_buf
Shrunk(r, s, k) ==
  [k EXCEPT !.snd_una =
     IF iqueue_is_empty(r, snd_buf) THEN k.snd_nxt ELSE s[r[snd_buf].next].sn]

\* Each is followed by ikcp_shrink_buf.
Then(done) ==
  ring' = done.r /\ seg' = done.s /\ kcp' = Shrunk(done.r, done.s, done.k)

InputUna(una) == kcp.alive /\ Then(ParseUna(ring, seg, kcp, ring[snd_buf].next, una))

InputAck(sn) == kcp.alive /\ Then(ParseAck(ring, seg, kcp, ring[snd_buf].next, sn))

--------------------------------------------------------------------------------
(* ikcp_parse_data and ikcp_recv.                                          *)

\* "move available data from rcv_buf -> rcv_queue"
RECURSIVE Available(_, _, _)
Available(r, s, k) ==
  LET first == r[rcv_buf].next
  IN  IF \/ iqueue_is_empty(r, rcv_buf) \/ k.nrcv_que >= RcvWnd
         \/ s[first].sn # k.rcv_nxt
      THEN [r |-> r, s |-> s, k |-> k]
      ELSE Available(iqueue_add_tail(iqueue_del(r, first), first, rcv_queue), s,
                     [k EXCEPT !.nrcv_buf = @ - 1, !.nrcv_que = @ + 1,
                               !.rcv_nxt = SnAdd(@, 1)])

\* Mutant of NotAfter: numbers compared as unsigned integers.
NotAfterUnsigned(a, b) == a <= b

NotAfter(a, b) == SnDiff(b, a) >= 0

\* The node to put sn after, searched from the end: the last not after it.
RECURSIVE Place(_, _, _, _)
Place(r, s, p, sn) ==
  IF p = rcv_buf \/ NotAfter(s[p].sn, sn) THEN p ELSE Place(r, s, r[p].prev, sn)

\* Mutant of Repeated: a segment already there is put in once more.
RepeatedNever(p, sn) == FALSE

Repeated(p, sn) == p # rcv_buf /\ seg[p].sn = sn

Outside(sn) == SnDiff(sn, SnAdd(kcp.rcv_nxt, RcvWnd)) >= 0 \/ SnDiff(sn, kcp.rcv_nxt) < 0

\* ikcp_input allocates the segment only if it is before the window's end;
\* ikcp_parse_data frees it at once when it is not wanted.
ikcp_parse_data(sn, frg) ==
  /\ kcp.alive /\ Spare # {} /\ SnDiff(sn, FirstSn) < MaxSegs
  /\ LET p == Place(ring, seg, ring[rcv_buf].prev, sn)
         new == Min(Spare)
         held == [b \in Allocated \cup {new} |->
                    IF b = new THEN [sn |-> sn, frg |-> frg] ELSE seg[b]]
         done == IF Outside(sn) THEN [r |-> ring, s |-> seg, k |-> kcp]
                 ELSE IF Repeated(p, sn) THEN Available(ring, seg, kcp)
                 ELSE Available(iqueue_add(ring, new, p), held,
                                [kcp EXCEPT !.nrcv_buf = @ + 1])
     IN  ring' = done.r /\ seg' = done.s /\ kcp' = done.k

\* ikcp_peeksize: is the first message there?
Complete ==
  LET first == ring[rcv_queue].next
  IN  ~iqueue_is_empty(ring, rcv_queue) /\ kcp.nrcv_que >= seg[first].frg + 1

\* "merge fragment": segments are freed up to the one that ends the message.
RECURSIVE Merge(_, _, _, _)
Merge(r, s, k, p) ==
  IF p = rcv_queue THEN [r |-> r, s |-> s, k |-> k]
  ELSE LET left == [r |-> iqueue_del(r, p), s |-> Freed(s, {p}),
                    k |-> [k EXCEPT !.nrcv_que = @ - 1]]
       IN  IF s[p].frg = 0 THEN left ELSE Merge(left.r, left.s, left.k, r[p].next)

ikcp_recv ==
  /\ kcp.alive /\ Complete
  /\ LET read == Merge(ring, seg, kcp, ring[rcv_queue].next)
         done == Available(read.r, read.s, read.k)
     IN  ring' = done.r /\ seg' = done.s /\ kcp' = done.k

RECURSIVE Drained(_, _, _)
Drained(r, s, head) ==
  IF iqueue_is_empty(r, head) THEN [r |-> r, s |-> s]
  ELSE LET first == r[head].next
       IN  Drained(iqueue_del(r, first), Freed(s, {first}), head)

ikcp_release ==
  /\ kcp.alive
  /\ LET a == Drained(ring, seg, snd_buf)
         b == Drained(a.r, a.s, rcv_buf)
         c == Drained(b.r, b.s, snd_queue)
         d == Drained(c.r, c.s, rcv_queue)
     IN  ring' = d.r /\ seg' = d.s
  /\ kcp' = [kcp EXCEPT !.nrcv_buf = 0, !.nsnd_buf = 0, !.nrcv_que = 0,
                        !.nsnd_que = 0, !.alive = FALSE]

--------------------------------------------------------------------------------
\* Acknowledgements name a segment that was sent, lately or long ago.
Acks == {SnAdd(kcp.snd_nxt, -i) : i \in 1..SndWnd + 1}
Unas == {SnAdd(kcp.snd_nxt, -i) : i \in 0..SndWnd}

Next ==
  \/ \E count \in 1..RcvWnd : ikcp_send(count)
  \/ \E rmt_wnd \in 0..SndWnd : ikcp_flush(rmt_wnd)
  \/ \E una \in Unas : InputUna(una)
  \/ \E sn \in Acks : InputAck(sn)
  \/ \E i \in -1..RcvWnd, frg \in 0..1 : ikcp_parse_data(SnAdd(kcp.rcv_nxt, i), frg)
  \/ ikcp_recv
  \/ ikcp_release

Spec == Init /\ [][Next]_vars

--------------------------------------------------------------------------------
Nodes(head) == {Walk(ring, head)[i] : i \in 1..Len(Walk(ring, head))}
Sns(head) == [i \in 1..Len(Walk(ring, head)) |-> seg[Walk(ring, head)[i]].sn]
SnsOf(head) == {seg[b].sn : b \in Nodes(head)}

Counted ==
  [head \in Heads |->
     CASE head = snd_buf -> kcp.nsnd_buf   [] head = snd_queue -> kcp.nsnd_que
       [] head = rcv_buf -> kcp.nrcv_buf   [] head = rcv_queue -> kcp.nrcv_que]

(* Every link of a head or an allocated segment leads to one of them and   *)
(* back; every ring holds as many segments as its counter says, no segment *)
(* is in two, and what is allocated is in one: no operation reaches freed  *)
(* memory or leaks a segment, released control blocks included             *)
(* (ikcp.h:157-191, ikcp.c:284-324, 553-690).                              *)
RingsWhole ==
  /\ \A x \in Heads \cup Allocated :
       /\ {ring[x].next, ring[x].prev} \subseteq Heads \cup Allocated
       /\ ring[ring[x].next].prev = x /\ ring[ring[x].prev].next = x
  /\ \A head \in Heads : Cardinality(Nodes(head)) = Counted[head]
  /\ UNION {Nodes(head) : head \in Heads} = Allocated
  /\ Cardinality(Allocated) = MapThenSumSet(LAMBDA head : Counted[head], Heads)
  /\ ~kcp.alive => Allocated = {}

(* Both numbered rings strictly increase, the sender's from snd_una and    *)
(* below snd_nxt, the receiver's from rcv_nxt and within its window: what  *)
(* the loops that stop at the first larger or smaller number rely on       *)
(* (ikcp.c:553-609, 670-680).                                              *)
InOrder ==
  LET Increasing(sns) == \A i \in 2..Len(sns) : SnDiff(sns[i], sns[i - 1]) > 0
      out == Sns(snd_buf)
      in == Sns(rcv_buf)
  IN  /\ Increasing(out) /\ Increasing(in)
      /\ kcp.alive => IF out = << >> THEN kcp.snd_una = kcp.snd_nxt
                      ELSE out[1] = kcp.snd_una /\ SnDiff(kcp.snd_nxt, out[Len(out)]) > 0
      /\ \A i \in DOMAIN in : SnDiff(in[i], kcp.rcv_nxt) \in 0..RcvWnd - 1

(* The rings implement the sets, the sequence and the count that KcpLink   *)
(* keeps instead of them: each operation has the effect it has there.      *)
Sets == INSTANCE SegmentSets WITH
  waiting <- Len(Walk(ring, snd_queue)), unacked <- SnsOf(snd_buf),
  ahead <- SnsOf(rcv_buf), ready <- Sns(rcv_queue), nxt <- kcp.rcv_nxt
SetsPromise == Sets!Spec

================================================================================
