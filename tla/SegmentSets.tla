------------------------------ MODULE SegmentSets ------------------------------
(***************************************************************************)
(* The four segment collections of a KCP control block as KcpLink sees     *)
(* them: a count of segments waiting for a number, the set of numbers not  *)
(* yet acknowledged, the set of numbers received ahead of their turn and   *)
(* the sequence of those ready to be read.  SegmentList keeps the same in  *)
(* linked rings and implements this specification.                         *)
(***************************************************************************)
EXTENDS Integers, Sequences, FiniteSets, FiniteSetsExt

CONSTANTS SnMod, RcvWnd

VARIABLES waiting, unacked, ahead, ready, nxt

vars == <<waiting, unacked, ahead, ready, nxt>>

Sn == 0..SnMod - 1
Plus(sn, n) == (sn + n) % SnMod
Before(a, b) == (b - a) % SnMod \in 1..(SnMod \div 2 - 1)

Init ==
  /\ waiting = 0 /\ unacked = {} /\ ahead = {} /\ ready = << >>
  /\ nxt \in Sn

Submit ==
  /\ \E n \in 1..RcvWnd : waiting' = waiting + n
  /\ UNCHANGED <<unacked, ahead, ready, nxt>>

\* The next numbers after first, as many as there are segments to have them.
Number ==
  /\ \E n \in 1..waiting, first \in Sn :
       LET new == {Plus(first, i) : i \in 0..n - 1}
       IN  /\ new \cap unacked = {}
           /\ \A sn \in unacked : Before(sn, first)
           /\ unacked' = unacked \cup new
           /\ waiting' = waiting - n
  /\ UNCHANGED <<ahead, ready, nxt>>

\* One number, or all before una, are acknowledged.
Acknowledge ==
  /\ \/ \E sn \in unacked : unacked' = unacked \ {sn}
     \/ \E una \in Sn : unacked' = {sn \in unacked : ~Before(sn, una)}
  /\ UNCHANGED <<waiting, ahead, ready, nxt>>

\* What is next, as far as there is room, becomes ready.
Advance(held, queue) ==
  LET n == Min({k \in 0..RcvWnd : Len(queue) + k >= RcvWnd \/ Plus(nxt, k) \notin held})
  IN  /\ ready' = queue \o [i \in 1..n |-> Plus(nxt, i - 1)]
      /\ ahead' = held \ {Plus(nxt, i) : i \in 0..n - 1}
      /\ nxt' = Plus(nxt, n)

\* A segment of the window arrives that is not there already.
Arrive ==
  /\ \E i \in 0..RcvWnd - 1 : /\ Plus(nxt, i) \notin ahead
                             /\ Advance(ahead \cup {Plus(nxt, i)}, ready)
  /\ UNCHANGED <<waiting, unacked>>

Take ==
  /\ \E n \in 1..Len(ready) : Advance(ahead, SubSeq(ready, n + 1, Len(ready)))
  /\ UNCHANGED <<waiting, unacked>>

Release ==
  /\ waiting' = 0 /\ unacked' = {} /\ ahead' = {} /\ ready' = << >>
  /\ UNCHANGED nxt

Next == Submit \/ Number \/ Acknowledge \/ Arrive \/ Take \/ Release

Spec == Init /\ [][Next]_vars

================================================================================
