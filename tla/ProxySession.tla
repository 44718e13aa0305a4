----------------------------- MODULE ProxySession -----------------------------
(***************************************************************************)
(* The sessions of the proxy (proxy_client and proxy_server in             *)
(* source/kcpss.cpp): every TCP connection of a local program is a session *)
(* of its client process; the server process opens a TCP connection to the *)
(* target of the session's SOCKS5 request; what either end reads crosses   *)
(* the KCP connection of the client with the session's number.             *)
(*                                                                         *)
(* The tunnels between client and server are queues: that is what KcpLink  *)
(* implements (ReliableStream).  A channel keeps what is written before it *)
(* is connected, and is deleted some time after it was disconnected; that  *)
(* is what Channel shows.  Its address may then be given to another one.   *)
(*                                                                         *)
(* Abstracted: bytes (a piece is at most MAX_PAYLOAD of them, numbered in  *)
(* its flow), the codec (FastCodec), and how a request names its target    *)
(* (Socks5).  The programs follow SOCKS5: they wait for each answer.       *)
(***************************************************************************)
EXTENDS Integers, Sequences, FiniteSets

CONSTANTS
  Convs,        \* client processes, by their conversation
  Sids,         \* session numbers; bound of the model: sessions of a client
  Addresses,    \* addresses malloc may give a Channel, in either process
  Reuse,        \* may a client's malloc give the address of a deleted one?
  MayClose,     \* may targets close their connections?
  HelloLike,    \* pieces of a program that look like a SOCKS5 hello
  MaxRead,      \* pieces of the longest read of a TCP connection
  MaxData,      \* bound of the model: pieces in one flow
  TunnelCap     \* bound of the model: messages in one tunnel

ASSUME SidAssumption == 0 \in Sids /\ \A n \in Sids : n \in Nat /\ (n > 0 => n - 1 \in Sids)
ASSUME SwitchAssumption == Reuse \in BOOLEAN /\ MayClose \in BOOLEAN
ASSUME PieceAssumption == HelloLike \subseteq Nat \ {0}
ASSUME SessionBounds ==
  MaxRead \in Nat \ {0} /\ MaxData \in Nat /\ TunnelCap \in Nat \ {0}

VARIABLES
  (* the client processes, by conversation *)
  max_sid_,
  client_channels_, \* session number -> address of its channel; never erased
  client_heap,      \* address -> the channel there: its session, connected_
  freed,            \* history: addresses of deleted channels
  (* the server process *)
  convs,            \* conversations its UDP side has a control block for
  server_channels_, \* key -> address of the channel to the target
  server_heap,      \* address -> the channel there: conv, sid, state, send_buffer_
  (* the tunnels *)
  up, down,
  (* the programs and the targets, by session *)
  asked,            \* what the program sent: nothing, hello, its request
  app_sent,         \* how many pieces of data it sent
  app_got,          \* what it received
  target_sent,
  target_got

client == <<max_sid_, client_channels_, client_heap, freed>>
server == <<convs, server_channels_, server_heap>>
program == <<asked, app_sent, app_got>>
target == <<target_sent, target_got>>
vars == <<client, server, up, down, program, target>>

(* key_t: conversation and session number.                                 *)
Key(conv, sid) == <<conv, sid>>

Keys == {Key(conv, sid) : conv \in Convs, sid \in Sids}

Sessions == Convs \X Sids

(* What crosses: SOCKS5 phrases and numbered pieces of data.               *)
Phrase == {"hello", "request", "unknown", "method", "ok", "fail", "heartbeat"}

Item == [kind : Phrase, n : {0}] \cup [kind : {"data"}, n : 1..MaxData]

Say(kind) == [kind |-> kind, n |-> 0]

Piece(n) == [kind |-> "data", n |-> n]

Data(first, count) == [i \in 1..count |-> Piece(first + i - 1)]

heartbeat_sid == -1989

Message == [sid : Sids \cup {heartbeat_sid}, item : Item]

(* Mutant of Addressed: the buffer does not advance.                       *)
AddressedFirst(sid, items) ==
  [i \in 1..Len(items) |-> [sid |-> sid, item |-> items[1]]]

(* udp::send: a read is cut into messages of one piece.                    *)
Addressed(sid, items) == [i \in 1..Len(items) |-> [sid |-> sid, item |-> items[i]]]

(* f[x] = y and erase on an unordered_map.                                 *)
Put(f, x, y) == [i \in DOMAIN f \cup {x} |-> IF i = x THEN y ELSE f[i]]

Without(f, x) == [i \in DOMAIN f \ {x} |-> f[i]]

TypeOK ==
  /\ max_sid_ \in [Convs -> Nat]
  /\ \A c \in Convs :
       /\ DOMAIN client_channels_[c] = 0..max_sid_[c] - 1
       /\ DOMAIN client_channels_[c] \subseteq Sids
       /\ \A s \in DOMAIN client_channels_[c] : client_channels_[c][s] \in Addresses
       /\ DOMAIN client_heap[c] \subseteq Addresses
       /\ \A a \in DOMAIN client_heap[c] :
            client_heap[c][a] \in [sid : Sids, connected : BOOLEAN]
       /\ freed[c] \subseteq Addresses
       /\ up[c] \in Seq(Message) /\ down[c] \in Seq(Message)
  /\ convs \subseteq Convs
  /\ DOMAIN server_channels_ \subseteq Keys
  /\ \A k \in DOMAIN server_channels_ : server_channels_[k] \in Addresses
  /\ DOMAIN server_heap \subseteq Addresses
  /\ \A a \in DOMAIN server_heap :
       /\ <<server_heap[a].conv, server_heap[a].sid>> \in Sessions
       /\ server_heap[a].state \in {"connecting", "up", "closed"}
       /\ server_heap[a].send_buffer_ \in Seq(Item)
  /\ asked \in [Sessions -> {"nothing", "hello", "request"}]
  /\ app_sent \in [Sessions -> 0..MaxData]
  /\ app_got \in [Sessions -> Seq([from : Sids, item : Item])]
  /\ target_sent \in [Sessions -> 0..MaxData]
  /\ target_got \in [Sessions -> Seq([from : Sessions, item : Item])]

Init ==
  /\ max_sid_ = [c \in Convs |-> 0]
  /\ client_channels_ = [c \in Convs |-> << >>]
  /\ client_heap = [c \in Convs |-> << >>]
  /\ freed = [c \in Convs |-> {}]
  /\ convs = Convs
  /\ server_channels_ = << >>
  /\ server_heap = << >>
  /\ up = [c \in Convs |-> << >>]
  /\ down = [c \in Convs |-> << >>]
  /\ asked = [k \in Sessions |-> "nothing"]
  /\ app_sent = [k \in Sessions |-> 0]
  /\ app_got = [k \in Sessions |-> << >>]
  /\ target_sent = [k \in Sessions |-> 0]
  /\ target_got = [k \in Sessions |-> << >>]

--------------------------------------------------------------------------------
(* The client process.                                                     *)

(* Mutant of ClientWrite: the channel of the newest session.               *)
ClientWriteNewest(c, sid, item) ==
  LET a == client_channels_[c][max_sid_[c] - 1]
  IN IF a \in DOMAIN client_heap[c] /\ client_heap[c][a].connected
     THEN app_got' = [app_got EXCEPT ![<<c, client_heap[c][a].sid>>] =
                        Append(@, [from |-> sid, item |-> item])]
     ELSE UNCHANGED app_got

(* Channel::write(channels_[sid], ...), static: the channel that is at the *)
(* address of sid now, if any.  A closed one keeps what it is given and    *)
(* never sends it.                                                         *)
ClientWrite(c, sid, item) ==
  LET a == client_channels_[c][sid]
  IN IF a \in DOMAIN client_heap[c] /\ client_heap[c][a].connected
     THEN app_got' = [app_got EXCEPT ![<<c, client_heap[c][a].sid>>] =
                        Append(@, [from |-> sid, item |-> item])]
     ELSE UNCHANGED app_got

(* max_sid_++                                                              *)
NextSid(c) == max_sid_[c]

(* accepted.                                                               *)
Accept(c, a) ==
  LET sid == NextSid(c)
  IN /\ c \in convs /\ sid \in Sids
     /\ a \notin DOMAIN client_heap[c]
     /\ Reuse \/ a \notin freed[c]
     /\ max_sid_' = [max_sid_ EXCEPT ![c] = @ + 1]
     /\ client_channels_' = [client_channels_ EXCEPT ![c] = Put(@, sid, a)]
     /\ client_heap' =
          [client_heap EXCEPT ![c] = Put(@, a, [sid |-> sid, connected |-> TRUE])]
     /\ UNCHANGED <<freed, server, up, down, program, target>>

(* socks5::is_hello of what was read.                                      *)
IsHello(items) ==
  /\ Len(items) = 1
  /\ items[1].kind = "hello" \/ items[1].n \in HelloLike

(* local_in: a hello is answered here, all else goes to the server in      *)
(* messages of MAX_PAYLOAD.                                                *)
LocalIn(c, sid, items) ==
  /\ \E a \in DOMAIN client_heap[c] :
       client_heap[c][a] = [sid |-> sid, connected |-> TRUE]
  /\ Len(up[c]) < TunnelCap
  /\ IF IsHello(items)
       THEN ClientWrite(c, sid, Say("method")) /\ UNCHANGED up
       ELSE /\ up' = [up EXCEPT ![c] = @ \o Addressed(sid, items)]
            /\ UNCHANGED app_got
  /\ UNCHANGED <<client, server, down, target>>

Heard(c, sid, kind) == \E i \in DOMAIN app_got[<<c, sid>>] :
                         app_got[<<c, sid>>][i].item = Say(kind)

(* What the local program of a session sends, one read of its channel.     *)
ProgramHello(c, sid) ==
  /\ asked[<<c, sid>>] = "nothing"
  /\ asked' = [asked EXCEPT ![<<c, sid>>] = "hello"]
  /\ LocalIn(c, sid, <<Say("hello")>>)
  /\ UNCHANGED app_sent

ProgramRequest(c, sid, kind) ==
  /\ asked[<<c, sid>>] = "hello" /\ Heard(c, sid, "method")
  /\ asked' = [asked EXCEPT ![<<c, sid>>] = "request"]
  /\ LocalIn(c, sid, <<Say(kind)>>)
  /\ UNCHANGED app_sent

ProgramData(c, sid, n) ==
  /\ asked[<<c, sid>>] = "request" /\ Heard(c, sid, "ok")
  /\ app_sent[<<c, sid>>] + n <= MaxData
  /\ app_sent' = [app_sent EXCEPT ![<<c, sid>>] = @ + n]
  /\ LocalIn(c, sid, Data(app_sent[<<c, sid>>] + 1, n))
  /\ UNCHANGED asked

(* The program closes its connection: on_disconnect, no callback is set,   *)
(* and nothing is sent to the server.                                      *)
LocalClose(c, a) ==
  /\ a \in DOMAIN client_heap[c] /\ client_heap[c][a].connected
  /\ client_heap' = [client_heap EXCEPT ![c][a].connected = FALSE]
  /\ UNCHANGED <<max_sid_, client_channels_, freed, server, up, down, program, target>>

(* check_connections deletes the channel; channels_ keeps its address.     *)
LocalDelete(c, a) ==
  /\ a \in DOMAIN client_heap[c] /\ ~client_heap[c][a].connected
  /\ client_heap' = [client_heap EXCEPT ![c] = Without(@, a)]
  /\ freed' = [freed EXCEPT ![c] = @ \cup {a}]
  /\ UNCHANGED <<max_sid_, client_channels_, server, up, down, program, target>>

(* remote_in                                                               *)
RemoteIn(c) ==
  /\ c \in convs /\ down[c] # << >>
  /\ down' = [down EXCEPT ![c] = Tail(@)]
  /\ LET m == Head(down[c])
     IN IF m.sid # heartbeat_sid /\ m.sid \in DOMAIN client_channels_[c]
        THEN ClientWrite(c, m.sid, m.item)
        ELSE UNCHANGED app_got
  /\ UNCHANGED <<client, server, up, asked, app_sent, target>>

(* The timer of the heartbeat.                                             *)
Heartbeat(c) ==
  /\ c \in convs /\ Len(up[c]) < TunnelCap
  /\ up' = [up EXCEPT ![c] = @ \o Addressed(heartbeat_sid, <<Say("heartbeat")>>)]
  /\ UNCHANGED <<client, server, down, program, target>>

--------------------------------------------------------------------------------
(* The server process.                                                     *)

(* udp_server::send: nothing for a conversation without a control block.   *)
SendDown(c, sid, items) ==
  IF c \in convs
  THEN down' = [down EXCEPT ![c] = @ \o Addressed(sid, items)]
  ELSE UNCHANGED down

(* Items that reach the target of the channel at a, whoever they are from. *)
Reach(a, from, items) ==
  target_got' = [target_got EXCEPT ![<<server_heap[a].conv, server_heap[a].sid>>] =
                   @ \o [i \in 1..Len(items) |-> [from |-> from, item |-> items[i]]]]

(* Mutant of Buffered: a channel drops what comes before it is connected.  *)
BufferedNot(a, item) == server_heap[a].send_buffer_

(* Channel::write before the connection is up.                             *)
Buffered(a, item) == Append(server_heap[a].send_buffer_, item)

(* Channel::write to the channel at a, static.                             *)
ServerWrite(a, from, item) ==
  IF a \notin DOMAIN server_heap \/ server_heap[a].state = "closed"
  THEN UNCHANGED <<server_heap, target_got>>
  ELSE IF server_heap[a].state = "up"
  THEN Reach(a, from, <<item>>) /\ UNCHANGED server_heap
  ELSE /\ server_heap' = [server_heap EXCEPT ![a].send_buffer_ = Buffered(a, item)]
       /\ UNCHANGED target_got

(* Mutant of Response: no answer to a request that cannot be served.       *)
ResponseIfOk(is_ok) == IF is_ok THEN <<Say("ok")>> ELSE << >>

(* The answer to a request.                                                *)
Response(is_ok) == IF is_ok THEN <<Say("ok")>> ELSE <<Say("fail")>>

(* A message of a session without a channel is taken for its request: the  *)
(* channel to its target is created, as a rule not yet connected, and      *)
(* success is answered at once.  Any data is no request.                   *)
NewRequest(c, sid, item, a, state) ==
  LET is_ok == item.kind = "request"
  IN /\ IF is_ok
          THEN /\ a \notin DOMAIN server_heap
               /\ server_heap' =
                    Put(server_heap, a, [conv |-> c, sid |-> sid, state |-> state,
                                         send_buffer_ |-> << >>])
               /\ server_channels_' = Put(server_channels_, Key(c, sid), a)
          ELSE UNCHANGED <<server_heap, server_channels_>>
     /\ SendDown(c, sid, Response(is_ok))

(* local_in of proxy_server.                                               *)
ServerIn(c, a, state) ==
  /\ c \in convs /\ up[c] # << >> /\ Len(down[c]) < TunnelCap
  /\ up' = [up EXCEPT ![c] = Tail(@)]
  /\ LET m == Head(up[c])
         key == Key(c, m.sid)
     IN IF m.sid = heartbeat_sid
        THEN UNCHANGED <<server_heap, server_channels_, down, target_got>>
        ELSE IF key \in DOMAIN server_channels_
        THEN /\ ServerWrite(server_channels_[key], <<c, m.sid>>, m.item)
             /\ UNCHANGED <<server_channels_, down>>
        ELSE /\ NewRequest(c, m.sid, m.item, a, state)
             /\ UNCHANGED target_got
  /\ UNCHANGED <<client, convs, program, target_sent>>

(* The connection to the target comes up and send_buffer_ is written.      *)
TargetUp(a) ==
  /\ a \in DOMAIN server_heap /\ server_heap[a].state = "connecting"
  /\ server_heap' = [server_heap EXCEPT ![a].state = "up", ![a].send_buffer_ = << >>]
  /\ Reach(a, <<server_heap[a].conv, server_heap[a].sid>>, server_heap[a].send_buffer_)
  /\ UNCHANGED <<client, convs, server_channels_, up, down, program, target_sent>>

(* remote_in of proxy_server: the target sent n pieces.                    *)
TargetSends(a, n) ==
  /\ a \in DOMAIN server_heap /\ server_heap[a].state = "up"
  /\ LET conv == server_heap[a].conv
         sid == server_heap[a].sid
         k == <<conv, sid>>
     IN /\ target_sent[k] + n <= MaxData /\ Len(down[conv]) < TunnelCap
        /\ target_sent' = [target_sent EXCEPT ![k] = @ + n]
        /\ SendDown(conv, sid, Data(target_sent[k] + 1, n))
  /\ UNCHANGED <<client, server, up, program, target_got>>

(* Mutant of RmMap: the callback erases nothing.                           *)
RmMapNothing(a) == server_channels_

(* rmMap: the key of the channel at a is erased.                           *)
RmMap(a) ==
  [k \in {k \in DOMAIN server_channels_ : server_channels_[k] # a}
     |-> server_channels_[k]]

(* The target closes, or the retries of the connection ran out.            *)
TargetClose(a) ==
  /\ MayClose
  /\ a \in DOMAIN server_heap /\ server_heap[a].state # "closed"
  /\ server_heap' =
       [server_heap EXCEPT ![a].state = "closed", ![a].send_buffer_ = << >>]
  /\ server_channels_' = RmMap(a)
  /\ UNCHANGED <<client, convs, up, down, program, target>>

TargetDelete(a) ==
  /\ a \in DOMAIN server_heap /\ server_heap[a].state = "closed"
  /\ server_heap' = Without(server_heap, a)
  /\ UNCHANGED <<client, convs, server_channels_, up, down, program, target>>

(* The client process ends; a new one at its address takes a conversation  *)
(* of its own and the server releases this one (UdpServer).  The channels  *)
(* to its targets stay.                                                    *)
Released(c) ==
  /\ MayClose /\ c \in convs
  /\ convs' = convs \ {c}
  /\ client_heap' = [client_heap EXCEPT ![c] = << >>]
  /\ up' = [up EXCEPT ![c] = << >>]
  /\ down' = [down EXCEPT ![c] = << >>]
  /\ UNCHANGED <<max_sid_, client_channels_, freed, server_channels_, server_heap,
                 program, target>>

Next ==
  \/ \E c \in Convs, a \in Addresses :
       \/ Accept(c, a) \/ LocalClose(c, a) \/ LocalDelete(c, a)
       \/ \E state \in {"connecting", "up"} : ServerIn(c, a, state)
  \/ \E c \in Convs, sid \in Sids :
       \/ ProgramHello(c, sid)
       \/ \E kind \in {"request", "unknown"} : ProgramRequest(c, sid, kind)
       \/ \E n \in 1..MaxRead : ProgramData(c, sid, n)
  \/ \E c \in Convs : RemoteIn(c) \/ Heartbeat(c) \/ Released(c)
  \/ \E a \in Addresses :
       \/ TargetUp(a) \/ TargetClose(a) \/ TargetDelete(a)
       \/ \E n \in 1..MaxRead : TargetSends(a, n)

Spec == Init /\ [][Next]_vars

(* What a tunnel carries is read at the other end (KcpLink's promise).     *)
Fairness ==
  \A c \in Convs :
    /\ WF_vars(\E a \in Addresses, state \in {"connecting", "up"} : ServerIn(c, a, state))
    /\ WF_vars(RemoteIn(c))

FairSpec == Spec /\ Fairness

--------------------------------------------------------------------------------
(* A program receives what belongs to its own session only, whatever       *)
(* sessions came before at the same address (kcpss.cpp:57-67, 80-88).      *)
NoCrossTalk ==
  \A k \in Sessions : \A i \in DOMAIN app_got[k] : app_got[k][i].from = k[2]

(* A target receives what its own session sent only, and the map of the    *)
(* server names a session's own channel, though addresses of deleted       *)
(* channels are used again and clients number their sessions alike         *)
(* (kcpss.cpp:114-117, 130-142).                                           *)
TargetsIsolated ==
  /\ \A k \in Sessions : \A i \in DOMAIN target_got[k] : target_got[k][i].from = k
  /\ \A k \in Sessions : Key(k[1], k[2]) \in DOMAIN server_channels_ =>
       LET a == server_channels_[Key(k[1], k[2])]
       IN /\ a \in DOMAIN server_heap /\ server_heap[a].state # "closed"
          /\ <<server_heap[a].conv, server_heap[a].sid>> = k

(* Once a program was told that its request succeeded, the answers of the  *)
(* SOCKS5 dialogue are over: what follows is data (socks5.h:66-72).        *)
NoAnswerInStream ==
  \A k \in Sessions : \A i, j \in DOMAIN app_got[k] :
    i < j /\ app_got[k][i].item = Say("ok") => app_got[k][j].item.kind = "data"

Items(got) == [i \in 1..Len(got) |-> got[i].item]

InBuffer(k) ==
  IF Key(k[1], k[2]) \in DOMAIN server_channels_
  THEN server_heap[server_channels_[Key(k[1], k[2])]].send_buffer_
  ELSE << >>

(* The pieces of session sid in a tunnel are those after the first low, as *)
(* far as high, each once and in order.                                    *)
Flowing(tunnel, sid, low, high) ==
  LET mine == {i \in DOMAIN tunnel : tunnel[i].sid = sid /\ tunnel[i].item.kind = "data"}
  IN /\ low <= high
     /\ {tunnel[i].item.n : i \in mine} = low + 1..high
     /\ \A i, j \in mine : i < j => tunnel[i].item.n < tunnel[j].item.n

(* As long as no target closes, every piece a program sent has reached its *)
(* target or is on its way, in order: in the tunnel, or in the buffer of   *)
(* a channel that is not connected yet (kcpss.cpp:69-78, 115-117).         *)
NothingSwallowed ==
  \A k \in Sessions :
    LET arrived == Items(target_got[k]) \o InBuffer(k)
    IN /\ \A i \in DOMAIN arrived : arrived[i] = Piece(i)
       /\ Flowing(up[k[1]], k[2], Len(arrived), app_sent[k])

(* The refinement: the flows of a session are those of the abstract relay. *)
(* What a program receives after "ok" is the flow down, what a target      *)
(* receives the flow up; anything in them that is not this session's data  *)
(* has no place in a flow.                                                 *)
Flows == {<<k, way>> : k \in Sessions, way \in {"up", "down"}}

AfterOk(got) ==
  LET oks == {i \in DOMAIN got : got[i].item = Say("ok")}
  IN IF oks = {} THEN << >>
     ELSE SubSeq(got, 1 + CHOOSE i \in oks : \A j \in oks : i <= j, Len(got))

FlowUp(k) ==
  [i \in 1..Len(target_got[k]) |->
     IF target_got[k][i].from = k THEN target_got[k][i].item.n ELSE 0]

FlowDown(k) ==
  LET got == AfterOk(app_got[k])
  IN [i \in 1..Len(got) |-> IF got[i].from = k[2] THEN got[i].item.n ELSE 0]

Proxied == INSTANCE Relay WITH
  MaxPieces <- MaxData,
  taken <- [f \in Flows |-> IF f[2] = "up" THEN app_sent[f[1]] ELSE target_sent[f[1]]],
  given <- [f \in Flows |-> IF f[2] = "up" THEN FlowUp(f[1]) ELSE FlowDown(f[1])]

(* The proxy relays: each session's data comes out at the other end in     *)
(* order, from the beginning, with nothing added (kcpss.cpp:39-169).       *)
RelayPromise == Proxied!RelaySafe

(* Every request is answered, as long as its client runs and its program   *)
(* keeps the connection open (kcpss.cpp:145-148).                          *)
RequestsAnswered ==
  \A k \in Sessions :
    asked[k] = "request" ~>
      \/ Heard(k[1], k[2], "ok") \/ Heard(k[1], k[2], "fail")
      \/ k[1] \notin convs
      \/ \A a \in DOMAIN client_heap[k[1]] :
           client_heap[k[1]][a] # [sid |-> k[2], connected |-> TRUE]

===============================================================================
