--------------------------------- MODULE Relay ---------------------------------
(***************************************************************************)
(* What a proxy promises the programs at its two ends: of every flow (one  *)
(* direction of one session) what comes out is what went in, from the      *)
(* beginning, in order, and nothing else.  A flow may stop at any point.   *)
(***************************************************************************)
EXTENDS Integers, Sequences

CONSTANTS
  Flows,        \* one direction of one session each
  MaxPieces     \* pieces taken or given at once

VARIABLES
  taken,        \* taken[f]: how many pieces went in; they are numbered
  given         \* given[f]: the pieces that came out

relayVars == <<taken, given>>

RelayInit ==
  /\ taken = [f \in Flows |-> 0]
  /\ given = [f \in Flows |-> << >>]

\* n more pieces go in.
Take(f, n) ==
  /\ taken' = [taken EXCEPT ![f] = @ + n]
  /\ UNCHANGED given

\* The next n pieces come out.
Give(f, n) ==
  LET next == Len(given[f])
  IN  /\ next + n <= taken[f]
      /\ given' = [given EXCEPT ![f] = @ \o [i \in 1..n |-> next + i]]
      /\ UNCHANGED taken

RelayNext == \E f \in Flows, n \in 1..MaxPieces : Take(f, n) \/ Give(f, n)

RelaySafe == RelayInit /\ [][RelayNext]_relayVars

================================================================================
