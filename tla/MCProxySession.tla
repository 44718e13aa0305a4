---------------------------- MODULE MCProxySession ----------------------------
(* Symmetry of addresses and conversations: every action treats them alike.  *)
(* Not for runs that check a temporal property.                              *)
EXTENDS ProxySession, TLC

Symmetric == Permutations(Addresses) \cup Permutations(Convs)

================================================================================
