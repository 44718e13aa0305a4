------------------------------ MODULE MCKcpRestart ------------------------------
(* Values of the constants of KcpRestart that a .cfg cannot write down.     *)
EXTENDS KcpRestart

CONSTANTS SegsA, SegsB, NetA, NetB

MCMaxSegs == [p \in Peers |-> IF p = A THEN SegsA ELSE SegsB]
MCNetCap == [p \in Peers |-> IF p = A THEN NetA ELSE NetB]

\* One of the two programs has nothing to send: it is seen in the choice of
\* the first message which.
OneWay ==
  RestartInit /\ [][RestartNext /\ \E p \in Peers : sent'[p] = << >>]_restartVars
================================================================================
