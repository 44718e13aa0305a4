-------------------------------- MODULE Endpoint --------------------------------
(***************************************************************************)
(* Endpoints (class endpoint and its std::hash in source/socket.h) as the  *)
(* server uses them: it takes one from the address of every datagram, keeps*)
(* one per client as a key of client_conv_ and one per conversation as the *)
(* place its answers go to.                                                *)
(*                                                                         *)
(* Abstracted: a byte is a number below Byte; addresses are model values;  *)
(* client_conv_ maps an endpoint to a conversation instead of its block,   *)
(* and the hash table is a set of entries, found by equal hash and ==.     *)
(* What becomes of released blocks is in UdpServer.                        *)
(***************************************************************************)
EXTENDS Naturals, FiniteSets

CONSTANTS
  Addresses,    \* IP addresses
  Convs,        \* conversation numbers
  NoConv,       \* none of them
  Byte,         \* a byte has this many values: 256
  Ports         \* the ports datagrams come from

EndpointAssumption ==
  /\ NoConv \notin Convs /\ Byte \in Nat \ {0}
  /\ Ports \subseteq 0..Byte * Byte - 1

VARIABLES
  client_conv_, \* set of entries [key, conv]
  conv_ep_,     \* set of entries [conv, ep]
  latest,       \* history: the last conversation to come from a place
  source,       \* history: the place a conversation last came from
  logged        \* history: place and printed port of the last new client

vars == <<client_conv_, conv_ep_, latest, source, logged>>

(* A place datagrams come from: an address and a port.                     *)
Places == [addr : Addresses, port : Ports]

(* htons on a little-endian machine, its own inverse.                      *)
htons(port) == (port % Byte) * Byte + port \div Byte

(* The sockaddr_in of a place: its port is in network order.               *)
SockAddr(p) == [sin_addr |-> p.addr, sin_port |-> htons(p.port)]

PlaceOf(sockaddr) == [addr |-> sockaddr.sin_addr, port |-> htons(sockaddr.sin_port)]

(* The constructor that takes a sockaddr_in: port_ is sin_port as it is.   *)
FromSockAddr(sa) == [port_ |-> sa.sin_port, host_ |-> sa.sin_addr, sockaddr_ |-> sa]

(* operator==                                                              *)
Same(e, f) == e.sockaddr_ = f.sockaddr_

(* std::hash: the address and port_ side by side in 64 bits.               *)
Hash(e) == <<e.sockaddr_.sin_addr, e.port_>>

(* Mutant of Hit: keys are hashed and compared by address alone.           *)
HitHost(e, f) == e.host_ = f.host_

(* How std::unordered_map finds a key.                                     *)
Hit(e, f) == Hash(e) = Hash(f) /\ Same(e, f)

Find(ep) == {x \in client_conv_ : Hit(x.key, ep)}

(* What operator<< and the log lines print after the colon.                *)
Printed(ep) == ep.port_

Init ==
  /\ client_conv_ = {} /\ conv_ep_ = {}
  /\ latest = [p \in Places |-> NoConv]
  /\ source = [c \in Convs |-> NoConv]
  /\ logged = {}

--------------------------------------------------------------------------------
(* udp_server::on_read of a conversation it does not know: it releases the *)
(* conversation of the endpoint, if there is one, and takes its place.     *)
NewConv(p, c, ep) ==
  LET old == {x.conv : x \in Find(ep)}
  IN /\ ~\E x \in conv_ep_ : x.conv = c
     /\ conv_ep_' = {x \in conv_ep_ : x.conv \notin old} \cup {[conv |-> c, ep |-> ep]}
     /\ client_conv_' = (client_conv_ \ Find(ep)) \cup {[key |-> ep, conv |-> c]}
     /\ latest' = [latest EXCEPT ![p] = c]
     /\ logged' = {[place |-> p, port |-> Printed(ep)]}

(* Of one it knows: a new endpoint gets its answers from now on.           *)
KnownConv(p, c, ep) ==
  \E x \in conv_ep_ :
    /\ x.conv = c
    /\ IF Same(x.ep, ep)
         THEN UNCHANGED <<client_conv_, conv_ep_, latest, logged>>
         ELSE /\ conv_ep_' = (conv_ep_ \ {x}) \cup {[conv |-> c, ep |-> ep]}
              /\ client_conv_' = (client_conv_ \ Find(ep)) \cup {[key |-> ep, conv |-> c]}
              /\ latest' = [latest EXCEPT ![p] = c]
              /\ logged' = {[place |-> p, port |-> Printed(ep)]}

(* A datagram of conversation c comes from p.                              *)
Receive(p, c) ==
  LET ep == FromSockAddr(SockAddr(p))
  IN /\ source' = [source EXCEPT ![c] = p]
     /\ NewConv(p, c, ep) \/ KnownConv(p, c, ep)

Next == \E p \in Places, c \in Convs : Receive(p, c)

Spec == Init /\ [][Next]_vars

--------------------------------------------------------------------------------
(* The table finds for a place what was stored for this address and port   *)
(* last, and nothing for another port of the address: the hash of keys made*)
(* of datagrams agrees with == (socket.h:46-48, 70-72, 166-173).           *)
KeyedByPlace ==
  \A p \in Places :
    {x.conv : x \in Find(FromSockAddr(SockAddr(p)))} = {latest[p]} \ {NoConv}

(* Answers go to the place the conversation's last datagram came from, also*)
(* when only its port changed, as after a rebinding of the client's NAT    *)
(* (udp.cpp:172-179, 206-211).                                             *)
AnswersReturn == \A x \in conv_ep_ : PlaceOf(x.ep.sockaddr_) = source[x.conv]

(* The log names the client by the port its datagrams come from            *)
(* (udp.cpp:166, 175).                                                     *)
PortsAsTheyAre == \A x \in logged : x.port = x.place.port

================================================================================
