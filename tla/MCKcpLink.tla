------------------------------- MODULE MCKcpLink -------------------------------
(* Values of the constants of KcpLink that a .cfg cannot write down.        *)
EXTENDS KcpLinkInv

CONSTANTS
  SegsA, SegsB,    \* segments submitted by A and by B
  NetA, NetB       \* datagrams of A and of B in flight

MCMaxSegs == [p \in Peers |-> IF p = A THEN SegsA ELSE SegsB]
MCNetCap == [p \in Peers |-> IF p = A THEN NetA ELSE NetB]

\* The program at B has stopped reading (its TCP peer takes no more data).
StalledReader == Init /\ [][Next /\ UNCHANGED delivered]_vars

\* The programs send messages of two segments, the longest there are.
LongMessages ==
  /\ Init /\ Fairness
  /\ [][/\ Next
        /\ \A p \in Peers : Len(sent'[p]) \in {Len(sent[p]), Len(sent[p]) + 2}]_vars
===============================================================================
