------------------------------ MODULE MCUdpServer ------------------------------
(* Symmetry of the sets of UdpServer: every action treats their members      *)
(* alike.  Not for runs that check an action property.                       *)
EXTENDS UdpServer, TLC

Symmetric ==
  Permutations(Clients) \cup Permutations(Convs)
    \cup Permutations(Endpoints) \cup Permutations(Blocks)

VARIABLE roaming   \* do the clients of this behaviour ever change their address?

\* Clients that keep their addresses and clients that do not.
EitherInit == Init /\ roaming \in BOOLEAN

EitherSpec ==
  /\ EitherInit
  /\ [][Next /\ UNCHANGED roaming /\ (at' # at => roaming)]_<<vars, roaming>>

\* While the clients keep their addresses, no control block is released twice,
\* whichever datagrams are late or come again after their client restarted
\* (udp.cpp:155-164).
ReleasedOnceAtHome == ~roaming => ReleasedOnce
================================================================================
