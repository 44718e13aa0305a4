---------------------------- MODULE ReliableStream ----------------------------
(***************************************************************************)
(* What a KCP connection promises the two programs that share it: whatever *)
(* one peer hands to ikcp_send comes out of the other peer's ikcp_recv as   *)
(* whole messages, in the order sent, without loss, duplication or change. *)
(* No window, sequence number, acknowledgement or network appears here.    *)
(***************************************************************************)
EXTENDS Integers, Sequences

CONSTANTS
  Peers,        \* the two ends of one connection
  MaxMsgSegs    \* segments of the longest message (ikcp_send refuses longer)

Other(p) == CHOOSE q \in Peers : q # p

(***************************************************************************)
(* A segment of the stream.  frg counts the segments of the same message   *)
(* that follow it (0 ends a message); data names its payload, which is its *)
(* position in everything the sender submitted.                            *)
(***************************************************************************)
Segment == [frg : Nat, data : Nat \ {0}]

\* The segments of a message of count segments, the first at position first.
Message(first, count) ==
  [i \in 1..count |-> [frg |-> count - i, data |-> first + i - 1]]

VARIABLES
  sent,       \* sent[p]: every segment p submitted, in order
  delivered   \* delivered[p]: every segment p read, in order

streamVars == <<sent, delivered>>

StreamInit ==
  /\ sent = [p \in Peers |-> <<>>]
  /\ delivered = [p \in Peers |-> <<>>]

\* p submits a message of count segments.
Submit(p, count) ==
  /\ sent' = [sent EXCEPT ![p] = @ \o Message(Len(@) + 1, count)]
  /\ UNCHANGED delivered

\* p reads the next whole message of its peer.
Deliver(p) ==
  LET next == Len(delivered[p]) + 1
      from == sent[Other(p)]
  IN  /\ next <= Len(from)
      /\ delivered' =
           [delivered EXCEPT ![p] = @ \o SubSeq(from, next, next + from[next].frg)]
      /\ UNCHANGED sent

StreamNext ==
  \E p \in Peers : Deliver(p) \/ \E count \in 1..MaxMsgSegs : Submit(p, count)

\* The order part of the promise.
StreamSafe == StreamInit /\ [][StreamNext]_streamVars

\* The order part and progress: a reader is never left behind for ever.
StreamSpec == StreamSafe /\ \A p \in Peers : WF_streamVars(Deliver(p))
===============================================================================
