------------------------------- MODULE UdpServer -------------------------------
(***************************************************************************)
(* The connection tables of the server's UDP socket (udp_server in         *)
(* source/udp.cpp): which KCP control block serves which connection, where *)
(* its answers go, and when it is released.  Around it, the clients that   *)
(* reach it: a client process picks a new conversation number when it      *)
(* starts, restarts at the same address, and may be moved to another by    *)
(* the network between them.                                               *)
(*                                                                         *)
(* Abstracted: what a control block does with a datagram (KcpLink) and     *)
(* what the session callback makes of the messages; neither touches the    *)
(* tables.  The server's own kcp_ (udp.cpp:39) is never in the tables.     *)
(***************************************************************************)
EXTENDS Integers, FiniteSets, Functions

CONSTANTS
  Clients,      \* the clients
  Convs,        \* conversation numbers; bound of the model: one per client start
  Endpoints,    \* client addresses as the server sees them
  Blocks,       \* addresses malloc may give a control block
  NoEndpoint,   \* endpoint{}, what unordered_map::operator[] inserts
  NetCap,       \* bound of the model: datagrams in flight
  Moves         \* may the network change the address of a running client?

ASSUME EndpointAssumption == NoEndpoint \notin Endpoints
ASSUME BoundAssumption == NetCap \in Nat /\ Moves \in BOOLEAN

VARIABLES
  conv,         \* conv[b]: kcp->conv of the block last created at address b
  live,         \* addresses of the blocks that are allocated
  timers,       \* addresses some 1 ms update timer runs on
  client_conv_, \* endpoint -> address of its control block
  conv_ep_,     \* conversation -> endpoint
  conv_kcp_,    \* conversation -> address of its control block
  aborted,      \* a block was released twice
  my_conv,      \* my_conv[k]: the conversation of client k
  at,           \* at[k]: the endpoint of client k
  used,         \* conversation numbers picked so far
  net,          \* datagrams of clients on their way to the server
  heard         \* history: the endpoint each conversation was last heard from

heap == <<conv, live, timers>>
tables == <<client_conv_, conv_ep_, conv_kcp_>>
client == <<my_conv, at, used>>
vars == <<heap, tables, aborted, client, net, heard>>

Datagram == [conv : Convs, ep : Endpoints]

TypeOK ==
  /\ DOMAIN conv \subseteq Blocks /\ conv \in [DOMAIN conv -> Convs]
  /\ live \subseteq DOMAIN conv
  /\ timers \subseteq DOMAIN conv
  /\ DOMAIN client_conv_ \subseteq Endpoints
  /\ client_conv_ \in [DOMAIN client_conv_ -> DOMAIN conv]
  /\ DOMAIN conv_ep_ \subseteq Convs
  /\ conv_ep_ \in [DOMAIN conv_ep_ -> Endpoints \cup {NoEndpoint}]
  /\ DOMAIN conv_kcp_ \subseteq Convs
  /\ conv_kcp_ \in [DOMAIN conv_kcp_ -> DOMAIN conv]
  /\ aborted \in BOOLEAN
  /\ my_conv \in [Clients -> Convs]
  /\ at \in [Clients -> Endpoints]
  /\ used \subseteq Convs
  /\ net \subseteq Datagram
  /\ DOMAIN heard \subseteq Convs /\ heard \in [DOMAIN heard -> Endpoints]

Init ==
  /\ conv = <<>> /\ live = {} /\ timers = {}
  /\ client_conv_ = <<>> /\ conv_ep_ = <<>> /\ conv_kcp_ = <<>>
  /\ aborted = FALSE
  /\ my_conv \in Injection(Clients, Convs)
  /\ at \in Injection(Clients, Endpoints)
  /\ used = Range(my_conv)
  /\ net = {}
  /\ heard = <<>>

-------------------------------------------------------------------------------
(* Maps                                                                    *)

\* m[key] = value, inserting key if need be.
Put(m, key, value) ==
  [k \in DOMAIN m \cup {key} |-> IF k = key THEN value ELSE m[k]]

\* m.erase(key)
Erase(m, key) == Restrict(m, DOMAIN m \ {key})

-------------------------------------------------------------------------------
(* The clients                                                             *)

\* The timer of a client's control block transmits.
ClientSends(k) ==
  /\ Cardinality(net) < NetCap
  /\ net' = net \cup {[conv |-> my_conv[k], ep |-> at[k]]}
  /\ UNCHANGED <<heap, tables, aborted, client, heard>>

\* A client process starts again on the port it is configured with.
ClientRestarts(k) ==
  /\ \E c \in Convs \ used : /\ my_conv' = [my_conv EXCEPT ![k] = c]
                             /\ used' = used \cup {c}
  /\ UNCHANGED <<heap, tables, aborted, at, net, heard>>

\* An address nobody uses becomes the client's.
ClientMoves(k) ==
  /\ Moves
  /\ \E ep \in Endpoints \ Range(at) : at' = [at EXCEPT ![k] = ep]
  /\ UNCHANGED <<heap, tables, aborted, my_conv, used, net, heard>>

-------------------------------------------------------------------------------
(* udp_server::on_read                                                     *)

\* connected_client
Connected(c) == c \in DOMAIN conv_kcp_

\* Mutant of EraseReleased: the conversation stays in the table.
EraseNothing(m, b) == m

\* What is left of a table indexed by conversation once block b is released.
EraseReleased(m, b) == Erase(m, conv[b])

\* Mutant of Claim: an endpoint keeps the first block it had.
ClaimOnce(ep, b) ==
  IF ep \in DOMAIN client_conv_ THEN client_conv_ ELSE Put(client_conv_, ep, b)

\* client_conv_[ep] = kcp
Claim(ep, b) == Put(client_conv_, ep, b)

\* crtete_kcp at some free address, entered in the tables; the arguments are
\* the allocated blocks and the tables as the caller leaves them.
Create(c, ep, alive, eps, kcps) ==
  \E b \in Blocks \ alive :
    /\ conv' = Put(conv, b, c)
    /\ live' = alive \cup {b}
    /\ timers' = timers \cup {b}
    /\ client_conv_' = Claim(ep, b)
    /\ conv_kcp_' = Put(kcps, c, b)
    /\ conv_ep_' = Put(eps, c, ep)

\* A conversation the server does not know, from an endpoint it does not know.
NewEndpoint(c, ep) ==
  /\ ~Connected(c)
  /\ ep \notin DOMAIN client_conv_
  /\ Create(c, ep, live, conv_ep_, conv_kcp_)
  /\ UNCHANGED aborted

\* The same from a known endpoint: its block makes way for a new one.
SameEndpoint(c, ep) ==
  /\ ~Connected(c)
  /\ ep \in DOMAIN client_conv_
  /\ LET old == client_conv_[ep]
     IN  IF old \in live
         THEN /\ Create(c, ep, live \ {old}, EraseReleased(conv_ep_, old),
                        EraseReleased(conv_kcp_, old))
              /\ UNCHANGED aborted
         ELSE aborted' = TRUE /\ UNCHANGED <<heap, tables>>

\* Mutant of Followed: answers keep going to the first endpoint.
FollowedNever(c, ep) == conv_ep_

\* conv_ep_ after a datagram of a known conversation.
Followed(c, ep) == IF conv_ep_[c] = ep THEN conv_ep_ ELSE Put(conv_ep_, c, ep)

KnownConv(c, ep) ==
  /\ Connected(c)
  /\ conv_ep_' = Followed(c, ep)
  /\ client_conv_' = IF conv_ep_[c] = ep THEN client_conv_
                     ELSE Claim(ep, conv_kcp_[c])
  /\ UNCHANGED <<heap, conv_kcp_, aborted>>

\* Datagrams come in any order, late, more than once or not at all.
OnRead(d) ==
  /\ ~aborted
  /\ d \in net
  /\ net' = net \/ net' = net \ {d}
  /\ NewEndpoint(d.conv, d.ep) \/ SameEndpoint(d.conv, d.ep) \/ KnownConv(d.conv, d.ep)
  /\ heard' = Put(heard, d.conv, d.ep)
  /\ UNCHANGED client

-------------------------------------------------------------------------------
(* The 1 ms timer of crtete_kcp: ikcp_update, which may have something to   *)
(* transmit and then calls udp_server::write.                               *)

\* conv_ep_[conv] inserts an empty endpoint for an unknown conversation.
Write(c) == IF c \in DOMAIN conv_ep_ THEN conv_ep_ ELSE Put(conv_ep_, c, NoEndpoint)

\* On a released block the timer finds what is left in the memory: nothing to
\* transmit, or the control block as it was.
Timer(b) ==
  /\ ~aborted
  /\ b \in timers
  /\ conv_ep_' = conv_ep_ \/ conv_ep_' = Write(conv[b])
  /\ UNCHANGED <<heap, client_conv_, conv_kcp_, aborted, client, net, heard>>

-------------------------------------------------------------------------------
Next ==
  \/ \E k \in Clients : ClientSends(k) \/ ClientRestarts(k) \/ ClientMoves(k)
  \/ \E d \in net : OnRead(d)
  \/ \E b \in timers : Timer(b)

Spec == Init /\ [][Next]_vars

-------------------------------------------------------------------------------
(* Properties                                                              *)

\* The conversations of conv_kcp_ and the allocated blocks correspond one to
\* one, so send() and on_read() never touch released memory, no allocated
\* block is unknown, and each has somewhere to send its answers.
TablesAgree ==
  ~aborted =>
    /\ \A c \in DOMAIN conv_kcp_ : /\ conv_kcp_[c] \in live
                                   /\ conv[conv_kcp_[c]] = c
                                   /\ c \in DOMAIN conv_ep_
                                   /\ conv_ep_[c] # NoEndpoint
    /\ live = Range(conv_kcp_)

\* A connection answers to where its client was last heard, although released
\* blocks still write and client addresses change hands.
AnswersFollow ==
  \A c \in DOMAIN conv_kcp_ : ~aborted => conv_ep_[c] = heard[c]

\* No control block is released twice, whichever datagrams are late or come
\* again after their client restarted.
ReleasedOnce == ~aborted

\* A connection is released only for a new one at its own endpoint (the
\* message at udp.cpp:159 names the released conversation with the endpoint).
ReleasesItsOwn ==
  [][\A c \in DOMAIN conv_kcp_ \ DOMAIN conv_kcp_' :
       \E new \in DOMAIN conv_kcp_' \ DOMAIN conv_kcp_ :
         conv_ep_'[new] = conv_ep_[c]]_vars

\* A timer only updates a control block that is still allocated (its guard at
\* udp.cpp:71 asks for one).
TimersOnLive == timers \subseteq live

\* The connection of a running client is never the "old kcp" of udp.cpp:159.
CurrentKept ==
  [][\A k \in Clients :
       my_conv[k] \in DOMAIN conv_kcp_ /\ my_conv'[k] = my_conv[k]
         => my_conv[k] \in DOMAIN conv_kcp_']_vars

===============================================================================
