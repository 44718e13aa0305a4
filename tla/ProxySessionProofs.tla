--------------------------- MODULE ProxySessionProofs ---------------------------
(***************************************************************************)
(* A target hears its own session only, for any number of clients,         *)
(* sessions and addresses, with targets that close and clients that end;   *)
(* and so does a program, where a client never has two channels at one     *)
(* address in its life.                                                    *)
(*                                                                         *)
(* Where moreover no target closes and no data looks like a hello, every   *)
(* piece of data is at the other end or on its way, and the sessions       *)
(* implement the abstract relay: RelayInv says of each session what its    *)
(* tunnels, the buffer of its channel and the two ends hold together, and  *)
(* the refinement counts the flows by it.                                  *)
(***************************************************************************)
EXTENDS ProxySession, SequenceTheorems, TLAPS

(* What a target receives, and a channel of the server.                    *)
Got == [from : Sessions, item : Item]

Held == [conv : Convs, sid : Sids, state : {"connecting", "up", "closed"},
         send_buffer_ : Seq(Item)]

(* The types of what the way up to the targets is made of.                 *)
WayTypes ==
  /\ up \in [Convs -> Seq(Message)]
  /\ app_sent \in [Sessions -> 0..MaxData]
  /\ target_got \in [Sessions -> Seq(Got)]
  /\ server_heap \in [DOMAIN server_heap -> Held]

(* What a target has is its session's.                                     *)
OwnData == \A k \in Sessions : \A i \in DOMAIN target_got[k] : target_got[k][i].from = k

(* The map of the server names open channels of the key's own session.     *)
OwnChannel(k) ==
  LET a == server_channels_[k]
  IN /\ k \in Sessions /\ a \in DOMAIN server_heap
     /\ server_heap[a].state # "closed"
     /\ server_heap[a].conv = k[1] /\ server_heap[a].sid = k[2]

MapOwn == \A k \in DOMAIN server_channels_ : OwnChannel(k)

IsolationInv == WayTypes /\ OwnData /\ MapOwn

way == <<up, app_sent, target_got, server_heap, server_channels_>>

--------------------------------------------------------------------------------
(* Items and messages.                                                     *)

LEMMA SayType == \A kind \in Phrase : Say(kind) \in Item
  BY DEF Say, Item

LEMMA DataType ==
  ASSUME NEW first \in Nat, NEW count \in Nat, first + count <= MaxData
  PROVE  Data(first + 1, count) \in Seq(Item)
<1>1. \A i \in 1..count : Piece(first + 1 + i - 1) \in Item
  BY SessionBounds DEF Item, Piece
<1>2. QED BY <1>1 DEF Data

LEMMA AddressedType ==
  ASSUME NEW sid \in Sids \cup {heartbeat_sid}, NEW items \in Seq(Item)
  PROVE  Addressed(sid, items) \in Seq(Message)
<1>1. \A i \in 1..Len(items) : [sid |-> sid, item |-> items[i]] \in Message
  BY DEF Message
<1>2. Len(items) \in Nat
  OBVIOUS
<1>3. QED BY <1>1, <1>2 DEF Addressed

(* A step that leaves the way up alone.                                    *)
LEMMA SameWay == ASSUME IsolationInv, UNCHANGED way PROVE IsolationInv'
  BY DEF way, IsolationInv, WayTypes, OwnData, MapOwn, OwnChannel

(* A step that changes the tunnels and the programs only.                  *)
LEMMA OtherWay ==
  ASSUME IsolationInv, up' \in [Convs -> Seq(Message)],
         app_sent' \in [Sessions -> 0..MaxData],
         UNCHANGED <<target_got, server_heap, server_channels_>>
  PROVE  IsolationInv'
  BY DEF IsolationInv, WayTypes, OwnData, MapOwn, OwnChannel

--------------------------------------------------------------------------------
(* The client.                                                             *)

LEMMA LocalInStep ==
  ASSUME IsolationInv, NEW c \in Convs, NEW sid \in Sids, NEW items \in Seq(Item),
         LocalIn(c, sid, items), app_sent' \in [Sessions -> 0..MaxData]
  PROVE  IsolationInv'
<1>1. UNCHANGED <<target_got, server_heap, server_channels_>>
  BY DEF LocalIn, server, target
<1>2. up' \in [Convs -> Seq(Message)]
  <2>1. Addressed(sid, items) \in Seq(Message)
    BY AddressedType
  <2>2. up[c] \o Addressed(sid, items) \in Seq(Message)
    BY <2>1 DEF IsolationInv, WayTypes
  <2>3. up' = up \/ up' = [up EXCEPT ![c] = up[c] \o Addressed(sid, items)]
    BY DEF LocalIn
  <2>4. QED BY <2>2, <2>3 DEF IsolationInv, WayTypes
<1>3. QED BY <1>1, <1>2, OtherWay

LEMMA ProgramStep ==
  ASSUME IsolationInv, NEW c \in Convs, NEW sid \in Sids,
         \/ ProgramHello(c, sid)
         \/ \E kind \in {"request", "unknown"} : ProgramRequest(c, sid, kind)
         \/ \E n \in 1..MaxRead : ProgramData(c, sid, n)
  PROVE  IsolationInv'
<1>1. \A kind \in Phrase : <<Say(kind)>> \in Seq(Item)
  BY SayType
<1>2. app_sent \in [Sessions -> 0..MaxData]
  BY DEF IsolationInv, WayTypes
<1>3. CASE ProgramHello(c, sid)
  BY <1>1, <1>2, <1>3, LocalInStep DEF ProgramHello, Phrase
<1>4. ASSUME NEW kind \in {"request", "unknown"}, ProgramRequest(c, sid, kind)
      PROVE  IsolationInv'
  BY <1>1, <1>2, <1>4, LocalInStep DEF ProgramRequest, Phrase
<1>5. ASSUME NEW n \in 1..MaxRead, ProgramData(c, sid, n)
      PROVE  IsolationInv'
  <2> DEFINE k == <<c, sid>>
             s == app_sent[k]
  <2>1. /\ k \in Sessions /\ s \in Nat /\ n \in Nat /\ s + n <= MaxData
        /\ app_sent' = [app_sent EXCEPT ![k] = s + n]
        /\ LocalIn(c, sid, Data(s + 1, n))
    BY <1>2, <1>5, SessionBounds DEF ProgramData, Sessions
  <2>2. s + n \in 0..MaxData
    BY <2>1, SessionBounds
  <2>3. app_sent' \in [Sessions -> 0..MaxData]
    BY <1>2, <2>1, <2>2
  <2>4. Data(s + 1, n) \in Seq(Item)
    BY <2>1, DataType
  <2> HIDE DEF k, s
  <2>5. QED BY <2>1, <2>3, <2>4, LocalInStep
<1>6. QED BY <1>3, <1>4, <1>5

LEMMA HeartbeatStep ==
  ASSUME IsolationInv, NEW c \in Convs, Heartbeat(c) \/ Released(c)
  PROVE  IsolationInv'
<1>1. /\ UNCHANGED <<target_got, server_heap, server_channels_, app_sent>>
      /\ app_sent \in [Sessions -> 0..MaxData]
  BY DEF Heartbeat, Released, server, target, program, IsolationInv, WayTypes
<1>2. CASE Heartbeat(c)
  <2> DEFINE m == Addressed(heartbeat_sid, <<Say("heartbeat")>>)
  <2>1. m \in Seq(Message)
    <3>1. <<Say("heartbeat")>> \in Seq(Item)
      BY SayType DEF Phrase
    <3>2. QED BY <3>1, AddressedType
  <2>2. up' = [up EXCEPT ![c] = up[c] \o m]
    BY <1>2 DEF Heartbeat
  <2> HIDE DEF m
  <2>3. up' \in [Convs -> Seq(Message)]
    <3>1. up[c] \o m \in Seq(Message)
      BY <2>1 DEF IsolationInv, WayTypes
    <3>2. QED BY <2>2, <3>1 DEF IsolationInv, WayTypes
  <2>4. QED BY <1>1, <2>3, OtherWay
<1>3. CASE Released(c)
  <2>1. up' \in [Convs -> Seq(Message)]
    BY <1>3 DEF Released, IsolationInv, WayTypes
  <2>2. QED BY <1>1, <2>1, OtherWay
<1>4. QED BY <1>2, <1>3

--------------------------------------------------------------------------------
(* The server.                                                             *)

(* Items of a session that reach its target.                               *)
LEMMA ReachOwn ==
  ASSUME IsolationInv, NEW a \in DOMAIN server_heap, NEW items \in Seq(Item),
         Reach(a, <<server_heap[a].conv, server_heap[a].sid>>, items)
  PROVE  target_got' \in [Sessions -> Seq(Got)] /\ OwnData'
<1> DEFINE k == <<server_heap[a].conv, server_heap[a].sid>>
           new == [i \in 1..Len(items) |-> [from |-> k, item |-> items[i]]]
<1>1. k \in Sessions
  BY DEF IsolationInv, WayTypes, Held, Sessions
<1>2. new \in Seq(Got) /\ Len(new) = Len(items)
  <2>1. \A i \in 1..Len(items) : [from |-> k, item |-> items[i]] \in Got
    BY <1>1 DEF Got
  <2>2. QED BY <2>1
<1>3. \A i \in 1..Len(new) : new[i].from = k
  BY <1>2
<1>4. /\ target_got' = [target_got EXCEPT ![k] = target_got[k] \o new]
      /\ target_got \in [Sessions -> Seq(Got)] /\ OwnData
  BY DEF Reach, IsolationInv, WayTypes
<1> HIDE DEF new, k
<1>5. target_got[k] \in Seq(Got) /\ target_got[k] \o new \in Seq(Got)
  BY <1>1, <1>2, <1>4
<1>6. /\ target_got' \in [Sessions -> Seq(Got)] /\ target_got'[k] = target_got[k] \o new
      /\ \A j \in Sessions : j # k => target_got'[j] = target_got[j]
  BY <1>1, <1>4, <1>5
<1>7. \A i \in DOMAIN (target_got[k] \o new) : (target_got[k] \o new)[i].from = k
  <2> SUFFICES ASSUME NEW i \in 1..Len(target_got[k]) + Len(new)
               PROVE  (target_got[k] \o new)[i].from = k
    BY <1>2, <1>5
  <2>1. CASE i <= Len(target_got[k])
    <3>1. (target_got[k] \o new)[i] = target_got[k][i] /\ i \in DOMAIN target_got[k]
      BY <1>2, <1>5, <2>1
    <3>2. QED BY <1>1, <1>4, <3>1 DEF OwnData
  <2>2. CASE i > Len(target_got[k])
    <3>1. /\ (target_got[k] \o new)[i] = new[i - Len(target_got[k])]
          /\ i - Len(target_got[k]) \in 1..Len(new)
      BY <1>2, <1>5, <2>2
    <3>2. QED BY <1>3, <3>1
  <2>3. Len(target_got[k]) \in Nat /\ Len(new) \in Nat
    BY <1>2, <1>5
  <2>4. QED BY <2>1, <2>2, <2>3
<1>8. OwnData'
  BY <1>1, <1>4, <1>6, <1>7 DEF OwnData
<1>9. QED BY <1>6, <1>8

(* The channels after a change to the one at a that keeps it open and its  *)
(* session's.                                                              *)
LEMMA SameOwner ==
  ASSUME IsolationInv, NEW a \in DOMAIN server_heap, NEW h \in Held,
         h.conv = server_heap[a].conv, h.sid = server_heap[a].sid,
         h.state # "closed",
         server_heap' = [server_heap EXCEPT ![a] = h], UNCHANGED server_channels_
  PROVE  server_heap' \in [DOMAIN server_heap' -> Held] /\ MapOwn'
<1>1. /\ DOMAIN server_heap' = DOMAIN server_heap /\ server_heap'[a] = h
      /\ \A b \in DOMAIN server_heap : b # a => server_heap'[b] = server_heap[b]
      /\ server_heap \in [DOMAIN server_heap -> Held] /\ MapOwn
  BY DEF IsolationInv, WayTypes
<1>2. server_heap' \in [DOMAIN server_heap' -> Held]
  BY <1>1
<1>3. \A k \in DOMAIN server_channels_ : OwnChannel(k)'
  BY <1>1 DEF MapOwn, OwnChannel
<1>4. QED BY <1>2, <1>3 DEF MapOwn

LEMMA ServerWriteStep ==
  ASSUME IsolationInv, NEW k \in DOMAIN server_channels_, NEW item \in Item,
         ServerWrite(server_channels_[k], k, item), UNCHANGED server_channels_
  PROVE  /\ target_got' \in [Sessions -> Seq(Got)] /\ OwnData'
         /\ server_heap' \in [DOMAIN server_heap' -> Held] /\ MapOwn'
<1> DEFINE a == server_channels_[k]
           h == server_heap[a]
<1>1. /\ a \in DOMAIN server_heap /\ h \in Held /\ h.state # "closed"
      /\ k \in Sessions /\ h.conv = k[1] /\ h.sid = k[2]
  BY DEF IsolationInv, WayTypes, MapOwn, OwnChannel
<1>2. k = <<h.conv, h.sid>>
  BY <1>1 DEF Sessions
<1>3. /\ target_got \in [Sessions -> Seq(Got)] /\ OwnData
      /\ server_heap \in [DOMAIN server_heap -> Held] /\ MapOwn
  BY DEF IsolationInv, WayTypes
<1>4. CASE h.state = "up"
  <2>1. Reach(a, k, <<item>>) /\ UNCHANGED server_heap
    BY <1>1, <1>4 DEF ServerWrite
  <2>2. target_got' \in [Sessions -> Seq(Got)] /\ OwnData'
    BY <1>1, <1>2, <2>1, ReachOwn
  <2>3. MapOwn' /\ server_heap' \in [DOMAIN server_heap' -> Held]
    BY <1>3, <2>1 DEF MapOwn, OwnChannel
  <2>4. QED BY <2>2, <2>3
<1>5. CASE h.state # "up"
  <2> DEFINE g == [h EXCEPT !.send_buffer_ = Append(h.send_buffer_, item)]
  <2>1. server_heap' = [server_heap EXCEPT ![a] = g] /\ UNCHANGED target_got
    BY <1>1, <1>5 DEF ServerWrite, Buffered
  <2>2. g \in Held /\ g.conv = h.conv /\ g.sid = h.sid /\ g.state = h.state
    <3>1. Append(h.send_buffer_, item) \in Seq(Item)
      BY <1>1 DEF Held
    <3>2. QED BY <1>1, <3>1 DEF Held
  <2> HIDE DEF g
  <2>3. server_heap' \in [DOMAIN server_heap' -> Held] /\ MapOwn'
    BY <1>1, <2>1, <2>2, SameOwner
  <2>4. QED BY <1>3, <2>1, <2>3 DEF OwnData
<1>6. QED BY <1>4, <1>5

(* A channel for a new request, at an address that is free.                *)
LEMMA NewRequestStep ==
  ASSUME IsolationInv, NEW c \in Convs, NEW sid \in Sids, NEW item \in Item, NEW a,
         NEW state \in {"connecting", "up"}, NewRequest(c, sid, item, a, state)
  PROVE  server_heap' \in [DOMAIN server_heap' -> Held] /\ MapOwn'
<1>1. server_heap \in [DOMAIN server_heap -> Held] /\ MapOwn
  BY DEF IsolationInv, WayTypes
<1>2. CASE item.kind # "request"
  BY <1>1, <1>2 DEF NewRequest, MapOwn, OwnChannel
<1>3. CASE item.kind = "request"
  <2> DEFINE h == [conv |-> c, sid |-> sid, state |-> state, send_buffer_ |-> << >>]
             k == <<c, sid>>
  <2>1. /\ a \notin DOMAIN server_heap
        /\ server_heap' = Put(server_heap, a, h)
        /\ server_channels_' = Put(server_channels_, k, a)
    BY <1>3 DEF NewRequest, Key
  <2>2. /\ h \in Held /\ h.conv = c /\ h.sid = sid /\ h.state # "closed"
        /\ k \in Sessions /\ k[1] = c /\ k[2] = sid
    BY DEF Held, Sessions
  <2> HIDE DEF h, k
  <2>3. /\ DOMAIN server_heap' = DOMAIN server_heap \cup {a} /\ server_heap'[a] = h
        /\ \A b \in DOMAIN server_heap : server_heap'[b] = server_heap[b]
        /\ server_heap' = [b \in DOMAIN server_heap' |-> server_heap'[b]]
    BY <2>1 DEF Put
  <2>4. /\ DOMAIN server_channels_' = DOMAIN server_channels_ \cup {k}
        /\ server_channels_'[k] = a
        /\ \A j \in DOMAIN server_channels_ :
             j # k => server_channels_'[j] = server_channels_[j]
    BY <2>1 DEF Put
  <2>5. server_heap' \in [DOMAIN server_heap' -> Held]
    BY <1>1, <2>2, <2>3
  <2>6. ASSUME NEW j \in DOMAIN server_channels_' PROVE OwnChannel(j)'
    <3>1. CASE j = k
      BY <2>2, <2>3, <2>4, <3>1 DEF OwnChannel
    <3>2. CASE j # k
      <4>1. OwnChannel(j)
        BY <1>1, <2>4, <3>2 DEF MapOwn
      <4>2. QED BY <2>3, <2>4, <3>2, <4>1 DEF OwnChannel
    <3>3. QED BY <3>1, <3>2
  <2>7. QED BY <2>5, <2>6 DEF MapOwn
<1>4. QED BY <1>2, <1>3

LEMMA ServerInStep ==
  ASSUME IsolationInv, NEW c \in Convs, NEW a, NEW state \in {"connecting", "up"},
         ServerIn(c, a, state)
  PROVE  IsolationInv'
<1> DEFINE m == Head(up[c])
<1>1. /\ up \in [Convs -> Seq(Message)] /\ up[c] # << >>
      /\ up' = [up EXCEPT ![c] = Tail(up[c])] /\ UNCHANGED app_sent
      /\ app_sent \in [Sessions -> 0..MaxData]
      /\ target_got \in [Sessions -> Seq(Got)] /\ OwnData
      /\ server_heap \in [DOMAIN server_heap -> Held] /\ MapOwn
  BY DEF ServerIn, IsolationInv, WayTypes, program
<1>2. m \in Message /\ Tail(up[c]) \in Seq(Message)
  BY <1>1
<1>3. up' \in [Convs -> Seq(Message)]
  BY <1>1, <1>2
<1> HIDE DEF m
<1>4. /\ target_got' \in [Sessions -> Seq(Got)] /\ OwnData'
      /\ server_heap' \in [DOMAIN server_heap' -> Held] /\ MapOwn'
  <2>1. CASE m.sid = heartbeat_sid
    <3>1. UNCHANGED <<server_heap, server_channels_, target_got>>
      BY <2>1 DEF ServerIn, m
    <3>2. QED BY <1>1, <3>1 DEF OwnData, MapOwn, OwnChannel
  <2>2. CASE m.sid # heartbeat_sid /\ Key(c, m.sid) \in DOMAIN server_channels_
    <3>1. /\ ServerWrite(server_channels_[Key(c, m.sid)], Key(c, m.sid), m.item)
          /\ UNCHANGED server_channels_
      BY <2>2 DEF ServerIn, m, Key
    <3>2. m.item \in Item
      BY <1>2 DEF Message
    <3>3. QED BY <2>2, <3>1, <3>2, ServerWriteStep
  <2>3. CASE m.sid # heartbeat_sid /\ Key(c, m.sid) \notin DOMAIN server_channels_
    <3>1. NewRequest(c, m.sid, m.item, a, state) /\ UNCHANGED target_got
      BY <2>3 DEF ServerIn, m
    <3>2. m.item \in Item /\ m.sid \in Sids
      BY <1>2, <2>3 DEF Message
    <3>3. QED BY <1>1, <3>1, <3>2, NewRequestStep DEF OwnData
  <2>4. QED BY <2>1, <2>2, <2>3
<1>5. QED BY <1>1, <1>3, <1>4 DEF IsolationInv, WayTypes

LEMMA TargetUpStep ==
  ASSUME IsolationInv, NEW a, TargetUp(a)
  PROVE  IsolationInv'
<1> DEFINE h == server_heap[a]
           g == [h EXCEPT !.state = "up", !.send_buffer_ = << >>]
<1>1. /\ a \in DOMAIN server_heap /\ h \in Held
      /\ UNCHANGED <<server_channels_, up, app_sent>>
  BY DEF TargetUp, IsolationInv, WayTypes, program
<1>2. /\ target_got' \in [Sessions -> Seq(Got)] /\ OwnData'
  <2>1. h.send_buffer_ \in Seq(Item)
    BY <1>1 DEF Held
  <2>2. QED BY <1>1, <2>1, ReachOwn DEF TargetUp
<1>3. server_heap' = [server_heap EXCEPT ![a] = g]
  BY DEF TargetUp
<1>4. g \in Held /\ g.conv = h.conv /\ g.sid = h.sid /\ g.state = "up"
  <2>1. << >> \in Seq(Item)
    OBVIOUS
  <2>2. QED BY <1>1, <2>1 DEF Held
<1> HIDE DEF g
<1>5. server_heap' \in [DOMAIN server_heap' -> Held] /\ MapOwn'
  BY <1>1, <1>3, <1>4, SameOwner
<1>6. QED BY <1>1, <1>2, <1>5 DEF IsolationInv, WayTypes

(* rmMap leaves no key of the channel that closes.                         *)
LEMMA TargetCloseStep ==
  ASSUME IsolationInv, NEW a, TargetClose(a)
  PROVE  IsolationInv'
<1> DEFINE h == server_heap[a]
           g == [h EXCEPT !.state = "closed", !.send_buffer_ = << >>]
<1>1. /\ a \in DOMAIN server_heap /\ h \in Held
      /\ UNCHANGED <<target_got, up, app_sent>>
      /\ server_channels_' = RmMap(a)
  BY DEF TargetClose, IsolationInv, WayTypes, program, target
<1>2. server_heap' = [server_heap EXCEPT ![a] = g]
  BY DEF TargetClose
<1>3. g \in Held
  <2>1. << >> \in Seq(Item)
    OBVIOUS
  <2>2. QED BY <1>1, <2>1 DEF Held
<1> HIDE DEF g
<1>4. /\ DOMAIN server_heap' = DOMAIN server_heap
      /\ \A b \in DOMAIN server_heap : b # a => server_heap'[b] = server_heap[b]
      /\ server_heap' \in [DOMAIN server_heap' -> Held]
  BY <1>1, <1>2, <1>3 DEF IsolationInv, WayTypes
<1>5. \A k \in DOMAIN server_channels_' :
        /\ k \in DOMAIN server_channels_ /\ server_channels_[k] # a
        /\ server_channels_'[k] = server_channels_[k]
  BY <1>1 DEF RmMap
<1>6. MapOwn'
  BY <1>4, <1>5 DEF IsolationInv, MapOwn, OwnChannel
<1>7. QED BY <1>1, <1>4, <1>6 DEF IsolationInv, WayTypes, OwnData

LEMMA TargetDeleteStep ==
  ASSUME IsolationInv, NEW a, TargetDelete(a)
  PROVE  IsolationInv'
<1>1. /\ a \in DOMAIN server_heap /\ server_heap[a].state = "closed"
      /\ server_heap' = Without(server_heap, a)
      /\ UNCHANGED <<server_channels_, up, app_sent, target_got>>
  BY DEF TargetDelete, program, target
<1>2. /\ DOMAIN server_heap' = DOMAIN server_heap \ {a}
      /\ \A b \in DOMAIN server_heap' : server_heap'[b] = server_heap[b]
      /\ server_heap' = [b \in DOMAIN server_heap' |-> server_heap'[b]]
  BY <1>1 DEF Without
<1>3. server_heap' \in [DOMAIN server_heap' -> Held]
  BY <1>2 DEF IsolationInv, WayTypes
<1>4. MapOwn'
  BY <1>1, <1>2 DEF IsolationInv, MapOwn, OwnChannel
<1>5. QED BY <1>1, <1>3, <1>4 DEF IsolationInv, WayTypes, OwnData

--------------------------------------------------------------------------------
LEMMA IsolationInitially == Init => IsolationInv
<1> SUFFICES ASSUME Init PROVE IsolationInv
  OBVIOUS
<1>1. /\ up = [c \in Convs |-> << >>] /\ app_sent = [k \in Sessions |-> 0]
      /\ target_got = [k \in Sessions |-> << >>]
      /\ server_heap = << >> /\ server_channels_ = << >>
  BY DEF Init
<1>2. WayTypes
  <2>1. \A V : << >> \in Seq(V) /\ DOMAIN << >> = {} /\ << >> \in [{} -> V]
    OBVIOUS
  <2>2. up \in [Convs -> Seq(Message)] /\ target_got \in [Sessions -> Seq(Got)]
    BY <1>1, <2>1
  <2>3. app_sent \in [Sessions -> 0..MaxData]
    BY <1>1, SessionBounds
  <2>4. server_heap \in [DOMAIN server_heap -> Held]
    BY <1>1, <2>1
  <2>5. QED BY <2>2, <2>3, <2>4 DEF WayTypes
<1>3. OwnData /\ MapOwn
  BY <1>1 DEF OwnData, MapOwn
<1>4. QED BY <1>2, <1>3 DEF IsolationInv

LEMMA IsolationKept == IsolationInv /\ [Next]_vars => IsolationInv'
<1> SUFFICES ASSUME IsolationInv, [Next]_vars PROVE IsolationInv'
  OBVIOUS
<1>1. CASE UNCHANGED vars
  BY <1>1, SameWay DEF vars, server, program, target, way
<1>2. ASSUME NEW c \in Convs, NEW a \in Addresses,
             Accept(c, a) \/ LocalClose(c, a) \/ LocalDelete(c, a)
      PROVE  IsolationInv'
  BY <1>2, SameWay DEF Accept, LocalClose, LocalDelete, server, program, target, way
<1>3. ASSUME NEW c \in Convs, RemoteIn(c) PROVE IsolationInv'
  BY <1>3, SameWay DEF RemoteIn, server, target, way
<1>4. ASSUME NEW a \in Addresses, NEW n \in 1..MaxRead, TargetSends(a, n)
      PROVE  IsolationInv'
  BY <1>4, SameWay DEF TargetSends, server, program, way
<1>5. CASE Next
  BY <1>2, <1>3, <1>4, <1>5, ProgramStep, HeartbeatStep, ServerInStep, TargetUpStep,
     TargetCloseStep, TargetDeleteStep DEF Next
<1>6. QED BY <1>1, <1>5

(* A target receives what its own session sent only, and the map of the    *)
(* server names a session's own open channel, for any number of clients    *)
(* and sessions, whatever closes, ends or is made anew at a used address   *)
(* (kcpss.cpp:114-117, 130-142).                                           *)
THEOREM TargetsAlwaysIsolated == Spec => []TargetsIsolated
<1>1. IsolationInv => TargetsIsolated
  <2> SUFFICES ASSUME IsolationInv, NEW k \in Sessions, <<k[1], k[2]>> \in DOMAIN server_channels_
               PROVE  LET a == server_channels_[<<k[1], k[2]>>]
                      IN /\ a \in DOMAIN server_heap /\ server_heap[a].state # "closed"
                         /\ <<server_heap[a].conv, server_heap[a].sid>> = k
    BY DEF IsolationInv, OwnData, TargetsIsolated, Key
  <2>1. k = <<k[1], k[2]>>
    BY DEF Sessions
  <2>2. OwnChannel(k)
    BY <2>1 DEF IsolationInv, MapOwn
  <2>3. QED BY <2>1, <2>2 DEF OwnChannel
<1>2. QED BY <1>1, IsolationInitially, IsolationKept, PTL DEF Spec

--------------------------------------------------------------------------------
(* The way down.                                                           *)

(* What a program receives.                                                *)
Told == [from : Sids, item : Item]

DownTypes ==
  /\ down \in [Convs -> Seq(Message)]
  /\ target_sent \in [Sessions -> 0..MaxData]
  /\ app_got \in [Sessions -> Seq(Told)]

OwnAnswers == \A k \in Sessions : \A i \in DOMAIN app_got[k] : app_got[k][i].from = k[2]

(* The tables of a client: numbers are given once; the address of a number *)
(* holds its own channel or none, and none for good; and every channel is  *)
(* found under its number.                                                 *)
ClientOwn(c) ==
  /\ max_sid_[c] \in Nat
  /\ \A s \in DOMAIN client_channels_[c] :
       /\ s \in Nat /\ s < max_sid_[c]
       /\ IF client_channels_[c][s] \in DOMAIN client_heap[c]
            THEN client_heap[c][client_channels_[c][s]].sid = s
            ELSE client_channels_[c][s] \in freed[c] \/ c \notin convs
  /\ \A a \in DOMAIN client_heap[c] :
       /\ client_heap[c][a] \in [sid : Sids, connected : BOOLEAN]
       /\ client_heap[c][a].sid \in DOMAIN client_channels_[c]
       /\ client_channels_[c][client_heap[c][a].sid] = a

ClientTables ==
  /\ DOMAIN max_sid_ = Convs /\ max_sid_ = [c \in Convs |-> max_sid_[c]]
  /\ client_channels_ = [c \in Convs |-> client_channels_[c]]
  /\ client_heap = [c \in Convs |-> client_heap[c]]
  /\ freed = [c \in Convs |-> freed[c]]
  /\ \A c \in Convs : ClientOwn(c)

CrossInv == IsolationInv /\ DownTypes /\ OwnAnswers /\ ClientTables

(* The tables of the clients are not touched.                              *)
LEMMA SameTables ==
  ASSUME ClientTables, UNCHANGED client, convs' = convs
  PROVE  ClientTables'
  BY DEF ClientTables, ClientOwn, client

(* A channel of a client is written to under its own session's number.     *)
LEMMA ClientWriteStep ==
  ASSUME CrossInv, NEW c \in Convs, NEW sid \in DOMAIN client_channels_[c],
         NEW item \in Item, ClientWrite(c, sid, item)
  PROVE  app_got' \in [Sessions -> Seq(Told)] /\ OwnAnswers'
<1> DEFINE a == client_channels_[c][sid]
           k == <<c, sid>>
           e == [from |-> sid, item |-> item]
<1>1. /\ app_got \in [Sessions -> Seq(Told)] /\ OwnAnswers /\ ClientOwn(c)
  BY DEF CrossInv, DownTypes, ClientTables
<1>2. CASE UNCHANGED app_got
  BY <1>1, <1>2 DEF OwnAnswers
<1>3. CASE a \in DOMAIN client_heap[c] /\ client_heap[c][a].connected
  <2>1. client_heap[c][a].sid = sid /\ sid \in Sids
    BY <1>1, <1>3 DEF ClientOwn
  <2>2. app_got' = [app_got EXCEPT ![k] = Append(app_got[k], e)]
    BY <1>3, <2>1 DEF ClientWrite
  <2>3. k \in Sessions /\ k[2] = sid /\ e \in Told /\ e.from = sid
    BY <2>1 DEF Sessions, Told
  <2> HIDE DEF k, e
  <2>4. app_got[k] \in Seq(Told) /\ Append(app_got[k], e) \in Seq(Told)
    BY <1>1, <2>3
  <2>5. /\ app_got' \in [Sessions -> Seq(Told)] /\ app_got'[k] = Append(app_got[k], e)
        /\ \A j \in Sessions : j # k => app_got'[j] = app_got[j]
    BY <1>1, <2>2, <2>3, <2>4
  <2>6. \A i \in DOMAIN Append(app_got[k], e) : Append(app_got[k], e)[i].from = sid
    BY <1>1, <2>3, <2>4 DEF OwnAnswers
  <2>7. OwnAnswers'
    BY <1>1, <2>3, <2>5, <2>6 DEF OwnAnswers
  <2>8. QED BY <2>5, <2>7
<1>4. QED BY <1>2, <1>3 DEF ClientWrite

(* Messages added to the tunnel of a client.                               *)
LEMMA SendDownStep ==
  ASSUME CrossInv, NEW c \in Convs, NEW sid \in Sids, NEW items \in Seq(Item),
         SendDown(c, sid, items)
  PROVE  down' \in [Convs -> Seq(Message)]
<1>1. down \in [Convs -> Seq(Message)]
  BY DEF CrossInv, DownTypes
<1>2. CASE UNCHANGED down
  BY <1>1, <1>2
<1>3. CASE down' = [down EXCEPT ![c] = down[c] \o Addressed(sid, items)]
  <2>1. Addressed(sid, items) \in Seq(Message)
    BY AddressedType
  <2>2. down[c] \o Addressed(sid, items) \in Seq(Message)
    BY <1>1, <2>1
  <2>3. QED BY <1>1, <1>3, <2>2
<1>4. QED BY <1>2, <1>3 DEF SendDown

LEMMA AcceptTables ==
  ASSUME CrossInv, ~Reuse, NEW c \in Convs, NEW a \in Addresses, Accept(c, a)
  PROVE  ClientTables'
<1> DEFINE sid == max_sid_[c]
           h == [sid |-> sid, connected |-> TRUE]
<1>1. /\ c \in convs /\ sid \in Sids /\ a \notin DOMAIN client_heap[c] /\ a \notin freed[c]
      /\ max_sid_' = [max_sid_ EXCEPT ![c] = sid + 1]
      /\ client_channels_' = [client_channels_ EXCEPT ![c] = Put(client_channels_[c], sid, a)]
      /\ client_heap' = [client_heap EXCEPT ![c] = Put(client_heap[c], a, h)]
      /\ freed' = freed /\ convs' = convs
  BY DEF Accept, NextSid, server
<1>2. ClientTables
  BY DEF CrossInv
<1>3. /\ h \in [sid : Sids, connected : BOOLEAN] /\ h.sid = sid
  BY <1>1
<1> HIDE DEF h
<1>4. /\ max_sid_'[c] = sid + 1 /\ DOMAIN max_sid_' = Convs
      /\ client_channels_'[c] = Put(client_channels_[c], sid, a)
      /\ client_heap'[c] = Put(client_heap[c], a, h)
      /\ \A d \in Convs : d # c => /\ max_sid_'[d] = max_sid_[d]
                                   /\ client_channels_'[d] = client_channels_[d]
                                   /\ client_heap'[d] = client_heap[d]
      /\ max_sid_' = [d \in Convs |-> max_sid_'[d]]
      /\ client_channels_' = [d \in Convs |-> client_channels_'[d]]
      /\ client_heap' = [d \in Convs |-> client_heap'[d]]
      /\ freed' = [d \in Convs |-> freed'[d]]
  BY <1>1, <1>2 DEF ClientTables
<1>5. /\ DOMAIN client_channels_'[c] = DOMAIN client_channels_[c] \cup {sid}
      /\ client_channels_'[c][sid] = a
      /\ \A s \in DOMAIN client_channels_[c] :
           s # sid => client_channels_'[c][s] = client_channels_[c][s]
      /\ DOMAIN client_heap'[c] = DOMAIN client_heap[c] \cup {a}
      /\ client_heap'[c][a] = h
      /\ \A b \in DOMAIN client_heap[c] : client_heap'[c][b] = client_heap[c][b]
  BY <1>1, <1>4 DEF Put
<1>6. ClientOwn(c) /\ sid \in Nat
  BY <1>2 DEF ClientTables, ClientOwn
<1> HIDE DEF sid
<1>7. \A s \in DOMAIN client_channels_[c] : s \in Nat /\ s # sid /\ s < sid + 1
  BY <1>6 DEF ClientOwn, sid
<1>8. \A s \in DOMAIN client_channels_[c] : client_channels_[c][s] # a
  BY <1>1, <1>6 DEF ClientOwn
<1>9. ClientOwn(c)'
  <2>1. max_sid_'[c] \in Nat
    BY <1>4, <1>6
  <2>2. ASSUME NEW s \in DOMAIN client_channels_'[c]
        PROVE  /\ s \in Nat /\ s < max_sid_'[c]
               /\ IF client_channels_'[c][s] \in DOMAIN client_heap'[c]
                    THEN client_heap'[c][client_channels_'[c][s]].sid = s
                    ELSE client_channels_'[c][s] \in freed'[c] \/ c \notin convs'
    <3>1. CASE s = sid
      BY <1>3, <1>4, <1>5, <1>6, <3>1
    <3>2. CASE s # sid
      <4>1. s \in DOMAIN client_channels_[c] /\ client_channels_'[c][s] = client_channels_[c][s]
        BY <1>5, <3>2
      <4>2. s \in Nat /\ s < max_sid_'[c] /\ client_channels_[c][s] # a
        BY <1>4, <1>7, <1>8, <4>1
      <4>3. QED BY <1>1, <1>5, <1>6, <4>1, <4>2 DEF ClientOwn
    <3>3. QED BY <3>1, <3>2
  <2>3. ASSUME NEW b \in DOMAIN client_heap'[c]
        PROVE  /\ client_heap'[c][b] \in [sid : Sids, connected : BOOLEAN]
               /\ client_heap'[c][b].sid \in DOMAIN client_channels_'[c]
               /\ client_channels_'[c][client_heap'[c][b].sid] = b
    <3>1. CASE b = a
      BY <1>3, <1>5, <3>1
    <3>2. CASE b # a
      <4>1. b \in DOMAIN client_heap[c] /\ client_heap'[c][b] = client_heap[c][b]
        BY <1>5, <3>2
      <4>2. /\ client_heap[c][b] \in [sid : Sids, connected : BOOLEAN]
            /\ client_heap[c][b].sid \in DOMAIN client_channels_[c]
            /\ client_channels_[c][client_heap[c][b].sid] = b
        BY <1>6, <4>1 DEF ClientOwn
      <4>3. client_heap[c][b].sid # sid
        BY <1>7, <4>2
      <4>4. QED BY <1>5, <4>1, <4>2, <4>3
    <3>3. QED BY <3>1, <3>2
  <2>4. QED BY <2>1, <2>2, <2>3 DEF ClientOwn
<1>10. \A d \in Convs : ClientOwn(d)'
  <2> SUFFICES ASSUME NEW d \in Convs, d # c PROVE ClientOwn(d)'
    BY <1>9
  <2>1. ClientOwn(d)
    BY <1>2 DEF ClientTables
  <2>2. QED BY <1>1, <1>4, <2>1 DEF ClientOwn
<1>11. QED BY <1>4, <1>10 DEF ClientTables

(* The tables after a change to the channels there are of one client.      *)
LEMMA LocalCloseTables ==
  ASSUME CrossInv, NEW c \in Convs, NEW a, LocalClose(c, a)
  PROVE  ClientTables'
<1> DEFINE g == [client_heap[c][a] EXCEPT !.connected = FALSE]
           heap == [client_heap[c] EXCEPT ![a] = g]
<1>1. /\ a \in DOMAIN client_heap[c] /\ client_heap' = [client_heap EXCEPT ![c] = heap]
      /\ UNCHANGED <<max_sid_, client_channels_, freed, convs>>
  BY DEF LocalClose, server
<1>2. ClientTables /\ ClientOwn(c)
  BY DEF CrossInv, ClientTables
<1>3. g \in [sid : Sids, connected : BOOLEAN] /\ g.sid = client_heap[c][a].sid
  BY <1>1, <1>2 DEF ClientOwn
<1> HIDE DEF g
<1>4. /\ DOMAIN heap = DOMAIN client_heap[c] /\ heap[a] = g
      /\ \A b \in DOMAIN heap : b # a => heap[b] = client_heap[c][b]
  BY <1>1
<1> HIDE DEF heap
<1>5. /\ client_heap'[c] = heap
      /\ \A d \in Convs : d # c => client_heap'[d] = client_heap[d]
      /\ client_heap' = [d \in Convs |-> client_heap'[d]]
  BY <1>1, <1>2 DEF ClientTables
<1>6. ClientOwn(c)'
  BY <1>1, <1>2, <1>3, <1>4, <1>5 DEF ClientOwn
<1>7. \A d \in Convs : d # c => ClientOwn(d)'
  BY <1>1, <1>2, <1>5 DEF ClientTables, ClientOwn
<1>8. QED BY <1>1, <1>2, <1>5, <1>6, <1>7 DEF ClientTables

LEMMA LocalDeleteTables ==
  ASSUME CrossInv, NEW c \in Convs, NEW a, LocalDelete(c, a)
  PROVE  ClientTables'
<1> DEFINE heap == Without(client_heap[c], a)
<1>1. /\ a \in DOMAIN client_heap[c] /\ client_heap' = [client_heap EXCEPT ![c] = heap]
      /\ freed' = [freed EXCEPT ![c] = freed[c] \cup {a}]
      /\ UNCHANGED <<max_sid_, client_channels_, convs>>
  BY DEF LocalDelete, server
<1>2. ClientTables /\ ClientOwn(c)
  BY DEF CrossInv, ClientTables
<1>3. /\ DOMAIN heap = DOMAIN client_heap[c] \ {a}
      /\ \A b \in DOMAIN heap : heap[b] = client_heap[c][b]
  BY DEF Without
<1> HIDE DEF heap
<1>4. /\ client_heap'[c] = heap /\ freed'[c] = freed[c] \cup {a}
      /\ \A d \in Convs : d # c => client_heap'[d] = client_heap[d] /\ freed'[d] = freed[d]
      /\ client_heap' = [d \in Convs |-> client_heap'[d]]
      /\ freed' = [d \in Convs |-> freed'[d]]
  BY <1>1, <1>2 DEF ClientTables
<1>5. ClientOwn(c)'
  BY <1>1, <1>2, <1>3, <1>4 DEF ClientOwn
<1>6. \A d \in Convs : d # c => ClientOwn(d)'
  BY <1>1, <1>2, <1>4 DEF ClientTables, ClientOwn
<1>7. QED BY <1>1, <1>2, <1>4, <1>5, <1>6 DEF ClientTables

LEMMA ReleasedTables ==
  ASSUME CrossInv, NEW c \in Convs, Released(c)
  PROVE  ClientTables' /\ down' \in [Convs -> Seq(Message)]
<1> DEFINE none == << >>
<1>1. /\ client_heap' = [client_heap EXCEPT ![c] = none]
      /\ down' = [down EXCEPT ![c] = << >>] /\ convs' = convs \ {c}
      /\ UNCHANGED <<max_sid_, client_channels_, freed>>
  BY DEF Released
<1>2. ClientTables /\ ClientOwn(c) /\ down \in [Convs -> Seq(Message)]
  BY DEF CrossInv, ClientTables, DownTypes
<1>3. DOMAIN none = {} /\ down' \in [Convs -> Seq(Message)]
  BY <1>1, <1>2
<1> HIDE DEF none
<1>4. /\ client_heap'[c] = none
      /\ \A d \in Convs : d # c => client_heap'[d] = client_heap[d]
      /\ client_heap' = [d \in Convs |-> client_heap'[d]]
  BY <1>1, <1>2 DEF ClientTables
<1>5. ClientOwn(c)'
  BY <1>1, <1>2, <1>3, <1>4 DEF ClientOwn
<1>6. \A d \in Convs : d # c => ClientOwn(d)'
  BY <1>1, <1>2, <1>4 DEF ClientTables, ClientOwn
<1>7. ClientTables'
  BY <1>1, <1>2, <1>4, <1>5, <1>6 DEF ClientTables
<1>8. QED BY <1>3, <1>7

--------------------------------------------------------------------------------
(* The steps of the way down.                                              *)
DownInv == DownTypes /\ OwnAnswers /\ ClientTables

LEMMA SameDown ==
  ASSUME CrossInv, UNCHANGED <<down, target_sent, app_got>>, ClientTables'
  PROVE  DownInv'
  BY DEF CrossInv, DownInv, DownTypes, OwnAnswers

(* A program says something: only a hello is answered, to itself.          *)
LEMMA LocalInDown ==
  ASSUME CrossInv, NEW c \in Convs, NEW sid \in Sids, NEW items, LocalIn(c, sid, items)
  PROVE  DownInv'
<1>1. UNCHANGED <<client, server, down, target_sent>>
  BY DEF LocalIn, target
<1>2. ClientTables'
  BY <1>1, SameTables DEF CrossInv, server
<1>3. app_got' \in [Sessions -> Seq(Told)] /\ OwnAnswers'
  <2>1. CASE ClientWrite(c, sid, Say("method"))
    <3>1. PICK a \in DOMAIN client_heap[c] :
            client_heap[c][a] = [sid |-> sid, connected |-> TRUE]
      BY DEF LocalIn
    <3>2. sid \in DOMAIN client_channels_[c]
      BY <3>1 DEF CrossInv, ClientTables, ClientOwn
    <3>3. Say("method") \in Item
      BY SayType DEF Phrase
    <3>4. QED BY <2>1, <3>2, <3>3, ClientWriteStep
  <2>2. CASE UNCHANGED app_got
    BY <2>2 DEF CrossInv, DownTypes, OwnAnswers
  <2>3. QED BY <2>1, <2>2 DEF LocalIn
<1>4. QED BY <1>1, <1>2, <1>3 DEF CrossInv, DownInv, DownTypes

LEMMA RemoteInDown ==
  ASSUME CrossInv, NEW c \in Convs, RemoteIn(c)
  PROVE  DownInv'
<1> DEFINE m == Head(down[c])
<1>1. /\ down \in [Convs -> Seq(Message)] /\ down[c] # << >>
      /\ down' = [down EXCEPT ![c] = Tail(down[c])]
      /\ UNCHANGED <<client, server, target_sent>>
      /\ app_got \in [Sessions -> Seq(Told)] /\ OwnAnswers
  BY DEF RemoteIn, CrossInv, DownTypes, target
<1>2. m \in Message /\ Tail(down[c]) \in Seq(Message)
  BY <1>1
<1>3. down' \in [Convs -> Seq(Message)]
  BY <1>1, <1>2
<1>4. ClientTables'
  BY <1>1, SameTables DEF CrossInv, server
<1> HIDE DEF m
<1>5. app_got' \in [Sessions -> Seq(Told)] /\ OwnAnswers'
  <2>1. CASE m.sid # heartbeat_sid /\ m.sid \in DOMAIN client_channels_[c]
    <3>1. ClientWrite(c, m.sid, m.item)
      BY <2>1 DEF RemoteIn, m
    <3>2. m.item \in Item
      BY <1>2 DEF Message
    <3>3. QED BY <2>1, <3>1, <3>2, ClientWriteStep
  <2>2. CASE ~(m.sid # heartbeat_sid /\ m.sid \in DOMAIN client_channels_[c])
    <3>1. UNCHANGED app_got
      BY <2>2 DEF RemoteIn, m
    <3>2. QED BY <1>1, <3>1 DEF OwnAnswers
  <2>3. QED BY <2>1, <2>2
<1>6. QED BY <1>1, <1>3, <1>4, <1>5 DEF CrossInv, DownInv, DownTypes

(* The server answers a request.                                           *)
LEMMA ServerInDown ==
  ASSUME CrossInv, NEW c \in Convs, NEW a, NEW state, ServerIn(c, a, state)
  PROVE  DownInv'
<1> DEFINE m == Head(up[c])
<1>1. /\ up \in [Convs -> Seq(Message)] /\ up[c] # << >>
      /\ UNCHANGED <<client, convs, target_sent, app_got>>
      /\ down \in [Convs -> Seq(Message)]
  BY DEF ServerIn, CrossInv, DownTypes, IsolationInv, WayTypes, program
<1>2. m \in Message
  BY <1>1
<1>3. ClientTables'
  BY <1>1, SameTables DEF CrossInv
<1> HIDE DEF m
<1>4. down' \in [Convs -> Seq(Message)]
  <2>1. CASE UNCHANGED down
    BY <1>1, <2>1
  <2>2. CASE m.sid # heartbeat_sid /\ NewRequest(c, m.sid, m.item, a, state)
    <3>1. m.sid \in Sids
      BY <1>2, <2>2 DEF Message
    <3>2. \A is_ok : Response(is_ok) \in Seq(Item)
      <4>1. Say("ok") \in Item /\ Say("fail") \in Item
        BY SayType DEF Phrase
      <4>2. QED BY <4>1 DEF Response
    <3>3. PICK is_ok : SendDown(c, m.sid, Response(is_ok))
      BY <2>2 DEF NewRequest
    <3>4. QED BY <3>1, <3>2, <3>3, SendDownStep
  <2>3. QED BY <2>1, <2>2 DEF ServerIn, m
<1>5. QED BY <1>1, <1>3, <1>4 DEF CrossInv, DownInv, DownTypes, OwnAnswers

LEMMA TargetSendsDown ==
  ASSUME CrossInv, NEW a, NEW n \in 1..MaxRead, TargetSends(a, n)
  PROVE  DownInv'
<1> DEFINE h == server_heap[a]
           k == <<h.conv, h.sid>>
           s == target_sent[k]
<1>1. /\ target_sent \in [Sessions -> 0..MaxData]
      /\ UNCHANGED <<client, server, app_got>> /\ h \in Held
  BY DEF TargetSends, CrossInv, DownTypes, IsolationInv, WayTypes, program
<1>2. k \in Sessions /\ h.conv \in Convs /\ h.sid \in Sids
  BY <1>1 DEF Held, Sessions
<1>3. /\ s \in Nat /\ n \in Nat /\ s + n <= MaxData
      /\ target_sent' = [target_sent EXCEPT ![k] = s + n]
      /\ SendDown(h.conv, h.sid, Data(s + 1, n))
  BY <1>1, <1>2, SessionBounds DEF TargetSends
<1>4. Data(s + 1, n) \in Seq(Item)
  BY <1>3, DataType
<1> HIDE DEF k, s, h
<1>5. down' \in [Convs -> Seq(Message)]
  BY <1>2, <1>3, <1>4, SendDownStep
<1>6. target_sent' \in [Sessions -> 0..MaxData]
  <2>1. s + n \in 0..MaxData
    BY <1>3, SessionBounds
  <2>2. QED BY <1>1, <1>3, <2>1
<1>7. ClientTables'
  BY <1>1, SameTables DEF CrossInv, server
<1>8. QED BY <1>1, <1>5, <1>6, <1>7 DEF CrossInv, DownInv, DownTypes, OwnAnswers

LEMMA CrossInitially == Init => CrossInv
<1> SUFFICES ASSUME Init PROVE CrossInv
  OBVIOUS
<1>1. /\ down = [c \in Convs |-> << >>] /\ target_sent = [k \in Sessions |-> 0]
      /\ app_got = [k \in Sessions |-> << >>]
      /\ max_sid_ = [c \in Convs |-> 0] /\ client_channels_ = [c \in Convs |-> << >>]
      /\ client_heap = [c \in Convs |-> << >>] /\ freed = [c \in Convs |-> {}]
  BY DEF Init
<1>2. \A V : << >> \in Seq(V) /\ DOMAIN << >> = {}
  OBVIOUS
<1>3. down \in [Convs -> Seq(Message)] /\ app_got \in [Sessions -> Seq(Told)]
  BY <1>1, <1>2
<1>4. target_sent \in [Sessions -> 0..MaxData]
  BY <1>1, SessionBounds
<1>5. OwnAnswers
  BY <1>1, <1>2 DEF OwnAnswers
<1>6. \A c \in Convs : ClientOwn(c)
  BY <1>1, <1>2 DEF ClientOwn
<1>7. ClientTables
  BY <1>1, <1>6 DEF ClientTables
<1>8. QED BY <1>3, <1>4, <1>5, <1>7, IsolationInitially DEF CrossInv, DownTypes

LEMMA CrossKept == ASSUME ~Reuse PROVE CrossInv /\ [Next]_vars => CrossInv'
<1> SUFFICES ASSUME CrossInv, [Next]_vars PROVE CrossInv'
  OBVIOUS
<1>1. IsolationInv'
  BY IsolationKept DEF CrossInv
<1>2. CASE UNCHANGED vars
  <2>1. ClientTables'
    BY <1>2, SameTables DEF vars, server, CrossInv
  <2>2. DownInv'
    BY <1>2, <2>1, SameDown DEF vars, program, target
  <2>3. QED BY <1>1, <2>2 DEF CrossInv, DownInv
<1>3. ASSUME NEW c \in Convs, NEW a \in Addresses, Accept(c, a) PROVE DownInv'
  BY <1>3, AcceptTables, SameDown DEF Accept, program, target
<1>4. ASSUME NEW c \in Convs, NEW a \in Addresses, LocalClose(c, a) PROVE DownInv'
  BY <1>4, LocalCloseTables, SameDown DEF LocalClose, program, target
<1>5. ASSUME NEW c \in Convs, NEW a \in Addresses, LocalDelete(c, a) PROVE DownInv'
  BY <1>5, LocalDeleteTables, SameDown DEF LocalDelete, program, target
<1>6. ASSUME NEW c \in Convs, NEW sid \in Sids,
             \/ ProgramHello(c, sid)
             \/ \E kind \in {"request", "unknown"} : ProgramRequest(c, sid, kind)
             \/ \E n \in 1..MaxRead : ProgramData(c, sid, n)
      PROVE  DownInv'
  BY <1>6, LocalInDown DEF ProgramHello, ProgramRequest, ProgramData
<1>7. ASSUME NEW c \in Convs, Heartbeat(c) PROVE DownInv'
  BY <1>7, SameTables, SameDown DEF Heartbeat, server, program, target, CrossInv
<1>8. ASSUME NEW c \in Convs, Released(c) PROVE DownInv'
  BY <1>8, ReleasedTables
     DEF Released, program, target, CrossInv, DownInv, DownTypes, OwnAnswers
<1>9. ASSUME NEW a \in Addresses, TargetUp(a) \/ TargetClose(a) \/ TargetDelete(a)
      PROVE  DownInv'
  BY <1>9, SameTables, SameDown
     DEF TargetUp, TargetClose, TargetDelete, program, target, CrossInv
<1>10. CASE Next
  BY <1>3, <1>4, <1>5, <1>6, <1>7, <1>8, <1>9, <1>10, RemoteInDown, ServerInDown,
     TargetSendsDown, <1>1 DEF Next, CrossInv, DownInv
<1>11. QED BY <1>2, <1>10

(* Where a client never has two channels at one address, a program         *)
(* receives what is told to its own session only, for any number of        *)
(* clients and sessions, whatever closes or ends before an answer comes    *)
(* (kcpss.cpp:57-67, 80-88).                                               *)
THEOREM ProgramsAlwaysIsolated == ASSUME ~Reuse PROVE Spec => []NoCrossTalk
<1>1. CrossInv => NoCrossTalk
  BY DEF CrossInv, OwnAnswers, NoCrossTalk
<1>2. CrossInv /\ [Next]_vars => CrossInv'
  BY CrossKept
<1>3. QED BY <1>1, <1>2, CrossInitially, PTL DEF Spec

--------------------------------------------------------------------------------
(* The relay: what happens to the data of a session where no target closes,*)
(* no address of a client's channel is used twice and no piece of data     *)
(* looks like a hello.                                                     *)

Undisturbed == ~MayClose /\ ~Reuse /\ HelloLike = {}

(* A message of session sid in a tunnel that says kind.                    *)
Says(tunnel, sid, kind) ==
  \E i \in DOMAIN tunnel : tunnel[i].sid = sid /\ tunnel[i].item.kind = kind

Silent(tunnel, sid) == \A i \in DOMAIN tunnel : tunnel[i].sid # sid

(* The program of the session was told that its request succeeded.         *)
ToldOk(got) == \E p \in DOMAIN got : got[p].item = Say("ok")

(* What a program receives after that answer are pieces from 1 on.         *)
InOrderAfterOk(got) ==
  \A p, j \in DOMAIN got : got[p].item = Say("ok") /\ p < j => got[j].item = Piece(j - p)

(* The answer in a tunnel is one, and before all pieces.                   *)
OkFirst(tunnel, sid) ==
  \A i, j \in DOMAIN tunnel :
    tunnel[i].sid = sid /\ tunnel[j].sid = sid /\ i # j /\ tunnel[j].item.kind = "ok"
      => j < i /\ tunnel[i].item.kind = "data"

(* The program's channel is there and connected.                           *)
Listening(k) ==
  \E a \in DOMAIN client_heap[k[1]] :
    client_heap[k[1]][a] = [sid |-> k[2], connected |-> TRUE]

(* The way up of a session whose request was served.                       *)
RelayUp(tunnel, sid, got, buffer, sent) ==
  /\ \A i \in DOMAIN got : got[i].item = Piece(i)
  /\ \A i \in DOMAIN buffer : buffer[i] = Piece(Len(got) + i)
  /\ \A i \in DOMAIN tunnel : tunnel[i].sid = sid => tunnel[i].item.kind = "data"
  /\ Flowing(tunnel, sid, Len(got) + Len(buffer), sent)

(* The way down: the answer may be in the tunnel, with all pieces behind it. *)
RelayDown(tunnel, sid, got, sent) ==
  /\ \A i \in DOMAIN tunnel :
       tunnel[i].sid = sid => tunnel[i].item = Say("ok") \/ tunnel[i].item.kind = "data"
  /\ OkFirst(tunnel, sid)
  /\ Says(tunnel, sid, "ok") => ~ToldOk(got) /\ Flowing(tunnel, sid, 0, sent)

(* It is not: the program was told, and the pieces it does not have yet    *)
(* are in the tunnel.                                                      *)
Following(tunnel, sid, got, sent) ==
  \/ Says(tunnel, sid, "ok")
  \/ \E p \in DOMAIN got : /\ got[p].item = Say("ok")
                           /\ Flowing(tunnel, sid, Len(got) - p, sent)

(* A session whose request was not served, yet or at all: at most the      *)
(* request is on its way up, and then nothing on its way down.             *)
RelayIdle(tunnelUp, tunnelDown, sid, said) ==
  /\ ~Says(tunnelUp, sid, "data")
  /\ ~Says(tunnelDown, sid, "ok") /\ ~Says(tunnelDown, sid, "data")
  /\ \A i, j \in DOMAIN tunnelUp : tunnelUp[i].sid = sid /\ tunnelUp[j].sid = sid => i = j
  /\ Silent(tunnelUp, sid) \/ Silent(tunnelDown, sid)
  /\ said # "request" => Silent(tunnelUp, sid) /\ Silent(tunnelDown, sid)

SessionInv(k) ==
  /\ InOrderAfterOk(app_got[k])
  /\ IF k \in DOMAIN server_channels_
       THEN /\ asked[k] = "request"
            /\ RelayUp(up[k[1]], k[2], target_got[k], InBuffer(k), app_sent[k])
            /\ RelayDown(down[k[1]], k[2], app_got[k], target_sent[k])
            /\ Listening(k) => Following(down[k[1]], k[2], app_got[k], target_sent[k])
       ELSE /\ target_got[k] = << >> /\ app_sent[k] = 0 /\ target_sent[k] = 0
            /\ ~ToldOk(app_got[k])
            /\ RelayIdle(up[k[1]], down[k[1]], k[2], asked[k])

(* Every channel of the server is found under its session's key, and one   *)
(* that is up has nothing buffered.                                        *)
ChannelKeyed(a) ==
  LET k == <<server_heap[a].conv, server_heap[a].sid>>
  IN /\ k \in DOMAIN server_channels_ /\ server_channels_[k] = a
     /\ server_heap[a].state # "closed"
     /\ server_heap[a].state = "up" => server_heap[a].send_buffer_ = << >>

RelayInv ==
  /\ CrossInv
  /\ asked \in [Sessions -> {"nothing", "hello", "request"}]
  /\ \A k \in Sessions : asked[k] # "nothing" => k[2] \in DOMAIN client_channels_[k[1]]
  /\ convs = Convs
  /\ \A a \in DOMAIN server_heap : ChannelKeyed(a)
  /\ \A k \in Sessions : SessionInv(k)

--------------------------------------------------------------------------------
(* What a session sees of a tunnel.                                        *)

(* Two tunnels with the same messages of session sid, in the same order.   *)
Carries(tunnel, other, sid) ==
  \E o \in Int :
    /\ \A i \in DOMAIN other :
         other[i].sid = sid => i + o \in DOMAIN tunnel /\ tunnel[i + o] = other[i]
    /\ \A i \in DOMAIN tunnel :
         tunnel[i].sid = sid => i - o \in DOMAIN other /\ other[i - o] = tunnel[i]

LEMMA MessageParts ==
  ASSUME NEW q \in Seq(Message), NEW i \in DOMAIN q
  PROVE  /\ i \in Nat /\ i >= 1 /\ i <= Len(q) /\ Len(q) \in Nat
         /\ q[i].item \in Item /\ q[i].item.n \in Nat
<1>1. i \in 1..Len(q) /\ Len(q) \in Nat /\ q[i] \in Message
  OBVIOUS
<1>2. q[i].item \in Item
  BY <1>1 DEF Message
<1>3. q[i].item.n \in Nat
  BY <1>2, SessionBounds DEF Item
<1>4. QED BY <1>1, <1>2, <1>3

LEMMA SameCarried ==
  ASSUME NEW q \in Seq(Message), NEW sid
  PROVE  Carries(q, q, sid)
<1>1. \A i \in DOMAIN q : i + 0 = i /\ i - 0 = i
  BY MessageParts
<1>2. QED BY <1>1 DEF Carries

(* The tunnel r is q with the items of session sid behind it.              *)
AddedTo(q, r, sid, items) ==
  /\ r \in Seq(Message) /\ Len(r) = Len(q) + Len(items)
  /\ \A i \in DOMAIN q : i \in DOMAIN r /\ r[i] = q[i]
  /\ \A j \in DOMAIN items :
       Len(q) + j \in DOMAIN r /\ r[Len(q) + j] = [sid |-> sid, item |-> items[j]]
  /\ \A i \in DOMAIN r :
       \/ i \in DOMAIN q
       \/ i - Len(q) \in DOMAIN items /\ i > Len(q)

(* The tunnel r is q with data of session sid behind it.                   *)
DataAdded(q, r, sid) ==
  /\ r \in Seq(Message)
  /\ \A i \in DOMAIN q : i \in DOMAIN r /\ r[i] = q[i]
  /\ \A i \in DOMAIN r :
       \/ i \in DOMAIN q
       \/ /\ i > Len(q) /\ i \in Nat
          /\ r[i].sid = sid /\ r[i].item.kind = "data"

(* The tunnel r is q with one item of session sid behind it.               *)
WordAdded(q, r, sid, item) ==
  /\ r \in Seq(Message)
  /\ \A i \in DOMAIN q : i \in DOMAIN r /\ r[i] = q[i]
  /\ \A i \in DOMAIN r :
       \/ i \in DOMAIN q
       \/ i = Len(q) + 1 /\ r[i].sid = sid /\ r[i].item = item
  /\ Len(q) + 1 \in DOMAIN r /\ r[Len(q) + 1].sid = sid /\ r[Len(q) + 1].item = item

(* All the tunnel r has of session sid is one answer.                      *)
AnsweredBy(r, sid, kind) ==
  /\ \A i \in DOMAIN r : r[i].sid = sid => r[i].item = Say(kind)
  /\ \A i, j \in DOMAIN r : r[i].sid = sid /\ r[j].sid = sid => i = j
  /\ \A other : Says(r, sid, other) <=> other = kind

\* The messages of a tunnel that others are added to.
LEMMA AddedAt ==
  ASSUME NEW q \in Seq(Message), NEW sid, NEW items, items \in Seq(Item),
         Addressed(sid, items) \in Seq(Message)
  PROVE  AddedTo(q, q \o Addressed(sid, items), sid, items)
<1> DEFINE m == Addressed(sid, items)
           r == q \o m
<1>1. /\ m \in Seq(Message) /\ Len(m) = Len(items) /\ Len(items) \in Nat
      /\ \A j \in 1..Len(items) : m[j] = [sid |-> sid, item |-> items[j]]
  BY DEF Addressed
<1> HIDE DEF m
<1>2. r \in Seq(Message) /\ Len(r) = Len(q) + Len(items) /\ Len(q) \in Nat
  BY <1>1
<1>3. \A i \in 1..Len(q) : r[i] = q[i] /\ i \in 1..Len(r)
  BY <1>1, <1>2
<1>4. \A j \in 1..Len(items) : r[Len(q) + j] = m[j] /\ Len(q) + j \in 1..Len(r)
  BY <1>1, <1>2
<1>5. \A i \in 1..Len(r) : i \in 1..Len(q) \/ (i - Len(q) \in 1..Len(items) /\ i > Len(q))
  BY <1>2, <1>1
<1>6. DOMAIN q = 1..Len(q) /\ DOMAIN items = 1..Len(items) /\ DOMAIN r = 1..Len(r)
  BY <1>2
<1> HIDE DEF r
<1>7. AddedTo(q, r, sid, items)
  BY <1>1, <1>2, <1>3, <1>4, <1>5, <1>6 DEF AddedTo
<1>8. QED BY <1>7 DEF r, m

\* Messages of another session change nothing.
LEMMA AddedCarried ==
  ASSUME NEW q \in Seq(Message), NEW sid, NEW items, items \in Seq(Item),
         Addressed(sid, items) \in Seq(Message), NEW other, other # sid
  PROVE  Carries(q, q \o Addressed(sid, items), other)
<1> DEFINE r == q \o Addressed(sid, items)
<1>1. /\ r \in Seq(Message) /\ \A i \in DOMAIN q : i \in DOMAIN r /\ r[i] = q[i]
      /\ \A j \in DOMAIN items :
           Len(q) + j \in DOMAIN r /\ r[Len(q) + j] = [sid |-> sid, item |-> items[j]]
      /\ \A i \in DOMAIN r : i \in DOMAIN q \/ (i - Len(q) \in DOMAIN items /\ i > Len(q))
  <2>1. AddedTo(q, r, sid, items)
    BY AddedAt
  <2> HIDE DEF r
  <2>2. QED BY <2>1 DEF AddedTo
<1> HIDE DEF r
<1>2. \A i \in DOMAIN q : i + 0 = i /\ i - 0 = i
  BY MessageParts
<1>3. \A i \in DOMAIN r : i + 0 = i /\ i - 0 = i /\ Len(q) + (i - Len(q)) = i
  BY <1>1, MessageParts
<1>4. ASSUME NEW i \in DOMAIN r, r[i].sid = other
      PROVE  i \in DOMAIN q /\ q[i] = r[i]
  <2>1. CASE i \in DOMAIN q
    BY <1>1, <2>1
  <2>2. CASE i - Len(q) \in DOMAIN items
    <3>1. \A j \in DOMAIN items : r[Len(q) + j].sid = sid
      <4>1. TAKE j \in DOMAIN items
      <4>2. r[Len(q) + j] = [sid |-> sid, item |-> items[j]]
        BY <1>1
      <4>3. QED BY <4>2
    <3>2. r[Len(q) + (i - Len(q))].sid = sid
      BY <2>2, <3>1
    <3>3. QED BY <1>3, <1>4, <3>2
  <2>3. QED BY <1>1, <2>1, <2>2
<1>5. \A i \in DOMAIN r : r[i].sid = other => i + 0 \in DOMAIN q /\ q[i + 0] = r[i]
  BY <1>3, <1>4
<1>6. \A i \in DOMAIN q : q[i].sid = other => i - 0 \in DOMAIN r /\ r[i - 0] = q[i]
  BY <1>1, <1>2
<1>7. Carries(q, r, other)
  BY <1>5, <1>6 DEF Carries
<1>8. QED BY <1>7 DEF r

LEMMA TailAt ==
  ASSUME NEW q \in Seq(Message), q # << >>
  PROVE  /\ Tail(q) \in Seq(Message) /\ 1 \in DOMAIN q /\ Head(q) = q[1] /\ Head(q) \in Message
         /\ \A i \in DOMAIN Tail(q) : i + 1 \in DOMAIN q /\ Tail(q)[i] = q[i + 1] /\ i >= 1
         /\ \A i \in DOMAIN q : i # 1 => i - 1 \in DOMAIN Tail(q) /\ Tail(q)[i - 1] = q[i]
<1>1. Tail(q) \in Seq(Message) /\ Len(Tail(q)) = Len(q) - 1 /\ Len(q) \in Nat /\ Len(q) >= 1
  OBVIOUS
<1>2. \A i \in 1..Len(q) - 1 : Tail(q)[i] = q[i + 1]
  OBVIOUS
<1>3. DOMAIN q = 1..Len(q) /\ DOMAIN Tail(q) = 1..Len(q) - 1
  BY <1>1
<1>4. \A i \in 1..Len(q) : i # 1 => i - 1 \in 1..Len(q) - 1 /\ (i - 1) + 1 = i
  BY <1>1
<1>5. \A i \in DOMAIN q : i # 1 => i - 1 \in DOMAIN Tail(q) /\ Tail(q)[i - 1] = q[i]
  BY <1>2, <1>3, <1>4
<1>6. \A i \in DOMAIN Tail(q) : i + 1 \in DOMAIN q /\ Tail(q)[i] = q[i + 1] /\ i >= 1
  BY <1>1, <1>2, <1>3
<1>7. 1 \in DOMAIN q /\ Head(q) = q[1] /\ Head(q) \in Message
  BY <1>1, <1>3
<1>8. QED BY <1>1, <1>5, <1>6, <1>7

LEMMA TakenCarried ==
  ASSUME NEW q \in Seq(Message), q # << >>, NEW other, Head(q).sid # other
  PROVE  Carries(q, Tail(q), other)
<1>1. /\ \A i \in DOMAIN Tail(q) : i + 1 \in DOMAIN q /\ Tail(q)[i] = q[i + 1]
      /\ \A i \in DOMAIN q : i # 1 => i - 1 \in DOMAIN Tail(q) /\ Tail(q)[i - 1] = q[i]
      /\ Head(q) = q[1]
  BY TailAt
<1>2. QED BY <1>1 DEF Carries

(* What the invariant says of a tunnel is what a session sees of it.       *)
LEMMA CarriedWords ==
  ASSUME NEW q, NEW r, NEW sid, Carries(q, r, sid)
  PROVE  /\ \A kind : Says(r, sid, kind) <=> Says(q, sid, kind)
         /\ Silent(r, sid) <=> Silent(q, sid)
<1>1. PICK o \in Int :
        /\ \A i \in DOMAIN r : r[i].sid = sid => i + o \in DOMAIN q /\ q[i + o] = r[i]
        /\ \A i \in DOMAIN q : q[i].sid = sid => i - o \in DOMAIN r /\ r[i - o] = q[i]
  BY DEF Carries
<1>2. ASSUME NEW kind PROVE Says(r, sid, kind) <=> Says(q, sid, kind)
  BY <1>1 DEF Says
<1>3. Silent(r, sid) <=> Silent(q, sid)
  BY <1>1 DEF Silent
<1>4. QED BY <1>2, <1>3

(* A property of all messages of a session.                                *)
LEMMA CarriedAll ==
  ASSUME NEW q, NEW r, NEW sid, Carries(q, r, sid), NEW S,
         \A i \in DOMAIN q : q[i].sid = sid => q[i].item \in S
  PROVE  \A i \in DOMAIN r : r[i].sid = sid => r[i].item \in S
  BY DEF Carries

LEMMA CarriedFlow ==
  ASSUME NEW q \in Seq(Message), NEW r \in Seq(Message), NEW sid, Carries(q, r, sid),
         NEW low, NEW high, Flowing(q, sid, low, high)
  PROVE  Flowing(r, sid, low, high)
<1> DEFINE Mine(t) == {i \in DOMAIN t : t[i].sid = sid /\ t[i].item.kind = "data"}
<1>1. PICK o \in Int :
        /\ \A i \in DOMAIN r : r[i].sid = sid => i + o \in DOMAIN q /\ q[i + o] = r[i]
        /\ \A i \in DOMAIN q : q[i].sid = sid => i - o \in DOMAIN r /\ r[i - o] = q[i]
  BY DEF Carries
<1>2. \A i \in Mine(r) : i + o \in Mine(q) /\ q[i + o] = r[i]
  BY <1>1
<1>3. \A i \in Mine(q) : i - o \in Mine(r) /\ r[i - o] = q[i]
  BY <1>1
<1>4. \A i, j \in Mine(r) : i < j => i + o < j + o
  BY MessageParts
<1>5. /\ low <= high /\ {q[i].item.n : i \in Mine(q)} = low + 1..high
      /\ \A i, j \in Mine(q) : i < j => q[i].item.n < q[j].item.n
  BY DEF Flowing
<1> HIDE DEF Mine
<1>6. {r[i].item.n : i \in Mine(r)} = {q[i].item.n : i \in Mine(q)}
  BY <1>2, <1>3
<1>7. \A i, j \in Mine(r) : i < j => r[i].item.n < r[j].item.n
  BY <1>2, <1>4, <1>5
<1>8. QED BY <1>5, <1>6, <1>7 DEF Flowing, Mine

LEMMA CarriedOrder ==
  ASSUME NEW q \in Seq(Message), NEW r \in Seq(Message), NEW sid, Carries(q, r, sid)
  PROVE  /\ OkFirst(q, sid) => OkFirst(r, sid)
         /\ (\A i, j \in DOMAIN q : q[i].sid = sid /\ q[j].sid = sid => i = j)
            => \A i, j \in DOMAIN r : r[i].sid = sid /\ r[j].sid = sid => i = j
<1>1. PICK o \in Int :
        \A i \in DOMAIN r : r[i].sid = sid => i + o \in DOMAIN q /\ q[i + o] = r[i]
  BY DEF Carries
<1>2. \A i, j \in DOMAIN r : (i # j => i + o # j + o) /\ (j + o < i + o => j < i)
  BY MessageParts
<1>3. OkFirst(q, sid) => OkFirst(r, sid)
  BY <1>1, <1>2 DEF OkFirst
<1>4. QED BY <1>1, <1>2, <1>3

\* A flow is over where it has all.
LEMMA NoneFlowing ==
  ASSUME NEW q \in Seq(Message), NEW sid, NEW n \in Nat, ~Says(q, sid, "data")
  PROVE  Flowing(q, sid, n, n)
<1>1. {i \in DOMAIN q : q[i].sid = sid /\ q[i].item.kind = "data"} = {}
  BY DEF Says
<1>2. n <= n /\ n + 1..n = {}
  OBVIOUS
<1>3. QED BY <1>1, <1>2 DEF Flowing

\* The next pieces enter a tunnel.
LEMMA PiecesFlowing ==
  ASSUME NEW q \in Seq(Message), NEW sid, NEW low \in Nat, NEW high \in Nat,
         NEW n \in Nat, Flowing(q, sid, low, high), NEW items, items \in Seq(Item),
         Addressed(sid, items) \in Seq(Message), DOMAIN items = 1..n,
         \A j \in 1..n : items[j] = Piece(high + j)
  PROVE  Flowing(q \o Addressed(sid, items), sid, low, high + n)
<1> DEFINE r == q \o Addressed(sid, items)
           Mine(t) == {i \in DOMAIN t : t[i].sid = sid /\ t[i].item.kind = "data"}
<1>1. DOMAIN items = 1..n
  OBVIOUS
<1>3. /\ r \in Seq(Message)
      /\ \A i \in DOMAIN q : i \in DOMAIN r /\ r[i] = q[i]
      /\ \A j \in DOMAIN items :
           Len(q) + j \in DOMAIN r /\ r[Len(q) + j] = [sid |-> sid, item |-> items[j]]
      /\ \A i \in DOMAIN r : i \in DOMAIN q \/ (i - Len(q) \in DOMAIN items /\ i > Len(q))
  <2>1. AddedTo(q, r, sid, items)
    BY AddedAt
  <2> HIDE DEF r
  <2>2. QED BY <2>1 DEF AddedTo
<1> HIDE DEF r
<1>4. \A j \in 1..n : /\ Len(q) + j \in DOMAIN r /\ r[Len(q) + j].sid = sid
                      /\ r[Len(q) + j].item = Piece(high + j)
  <2>1. TAKE j \in 1..n
  <2>2. /\ r[Len(q) + j] = [sid |-> sid, item |-> items[j]]
        /\ Len(q) + j \in DOMAIN r /\ items[j] = Piece(high + j)
    BY <1>1, <1>3
  <2>3. QED BY <2>2
<1>5. \A j \in 1..n : Len(q) + j \in Mine(r) /\ r[Len(q) + j].item.n = high + j
  <2>1. TAKE j \in 1..n
  <2>2. Piece(high + j).kind = "data" /\ Piece(high + j).n = high + j
    BY DEF Piece
  <2>3. QED BY <1>4, <2>2
<1>6. \A i \in DOMAIN r : i \notin DOMAIN q => \E j \in 1..n : i = Len(q) + j
  <2>1. TAKE i \in DOMAIN r
  <2>2. i \in Nat /\ Len(q) \in Nat
    BY <1>3, MessageParts
  <2>3. i = Len(q) + (i - Len(q))
    BY <2>2
  <2>4. QED BY <1>1, <1>3, <2>3
<1>7. Mine(q) \subseteq Mine(r) /\ Mine(r) = Mine(q) \cup {Len(q) + j : j \in 1..n}
  BY <1>3, <1>5, <1>6
<1>8. /\ low <= high /\ {q[i].item.n : i \in Mine(q)} = low + 1..high
      /\ \A i, j \in Mine(q) : i < j => q[i].item.n < q[j].item.n
  BY DEF Flowing
<1>9. \A i \in Mine(q) : i \in Nat /\ i <= Len(q) /\ q[i].item.n \in low + 1..high /\ r[i] = q[i]
  BY <1>3, <1>8, MessageParts
<1>10. Len(q) \in Nat
  OBVIOUS
<1> DEFINE Q == Mine(q)
           R == Mine(r)
           ln == Len(q)
<1> HIDE DEF Mine, Q, R, ln
<1>11. \A i \in R : \/ i \in Q
                    \/ \E j \in 1..n : i = ln + j
  BY <1>7 DEF Q, R, ln
<1>12. {r[i].item.n : i \in R} = low + 1..high + n
  <2>1. \A i \in R : r[i].item.n \in low + 1..high + n
    <3>1. TAKE i \in R
    <3>2. CASE i \in Q
      <4>1. r[i].item.n \in low + 1..high
        BY <1>9, <3>2 DEF Q
      <4>2. QED BY <4>1
    <3>3. CASE i \notin Q
      <4>1. PICK j \in 1..n : i = ln + j
        BY <1>11, <3>3
      <4>2. r[i].item.n = high + j
        BY <1>5, <4>1 DEF ln
      <4>3. QED BY <1>8, <4>2
    <3>4. QED BY <3>2, <3>3
  <2>2. \A m \in low + 1..high + n : \E i \in R : r[i].item.n = m
    <3>1. TAKE m \in low + 1..high + n
    <3>2. CASE m <= high
      <4>1. m \in low + 1..high
        BY <3>2
      <4>2. PICK i \in Q : q[i].item.n = m
        BY <1>8, <4>1 DEF Q
      <4>3. i \in R /\ r[i].item.n = m
        BY <1>7, <1>9, <4>2 DEF Q, R
      <4>4. QED BY <4>3
    <3>3. CASE m > high
      <4>1. m - high \in 1..n /\ high + (m - high) = m
        BY <3>3
      <4>2. QED BY <1>5, <4>1 DEF R, ln
    <3>4. QED BY <3>2, <3>3
  <2>3. QED BY <2>1, <2>2
<1>13. \A i, j \in R : i < j => r[i].item.n < r[j].item.n
  <2>1. TAKE i, j \in R
  <2>2. HAVE i < j
  <2>3. CASE i \in Q /\ j \in Q
    BY <1>8, <1>9, <2>2, <2>3 DEF Q
  <2>4. CASE i \in Q /\ j \notin Q
    <3>1. PICK d \in 1..n : j = ln + d
      BY <1>11, <2>4
    <3>2. r[j].item.n = high + d
      BY <1>5, <3>1 DEF ln
    <3>3. r[i].item.n \in low + 1..high
      BY <1>9, <2>4 DEF Q
    <3>4. QED BY <3>2, <3>3
  <2>5. CASE i \notin Q
    <3>1. PICK d \in 1..n : i = ln + d
      BY <1>11, <2>5
    <3>2. \A x \in Q : x \in Nat /\ x <= ln
      BY <1>9 DEF Q, ln
    <3>3. j \notin Q
      BY <2>2, <3>1, <3>2, <1>10 DEF ln
    <3>4. PICK e \in 1..n : j = ln + e
      BY <1>11, <3>3
    <3>5. r[i].item.n = high + d /\ r[j].item.n = high + e
      BY <1>5, <3>1, <3>4 DEF ln
    <3>6. d < e
      BY <1>10, <2>2, <3>1, <3>4 DEF ln
    <3>7. QED BY <3>5, <3>6
  <2>6. QED BY <2>3, <2>4, <2>5
<1>14. low <= high + n
  BY <1>8
<1>15. Flowing(r, sid, low, high + n)
  BY <1>12, <1>13, <1>14 DEF Flowing, R, Mine
<1>16. QED BY <1>15 DEF r

LEMMA MoreFlowing ==
  ASSUME NEW q \in Seq(Message), NEW sid \in Sids, NEW low \in Nat, NEW high \in Nat,
         NEW n \in Nat, high + n <= MaxData, Flowing(q, sid, low, high)
  PROVE  Flowing(q \o Addressed(sid, Data(high + 1, n)), sid, low, high + n)
<1> DEFINE items == Data(high + 1, n)
<1>1. /\ items \in Seq(Item) /\ Addressed(sid, items) \in Seq(Message)
      /\ DOMAIN items = 1..n /\ \A j \in 1..n : items[j] = Piece(high + 1 + j - 1)
  BY DataType, AddressedType DEF Data
<1>2. \A j \in 1..n : high + 1 + j - 1 = high + j
  OBVIOUS
<1> HIDE DEF items
<1>3. QED BY <1>1, <1>2, PiecesFlowing DEF items

\* The next piece leaves a tunnel.
LEMMA PieceTaken ==
  ASSUME NEW q \in Seq(Message), q # << >>, NEW sid, NEW low \in Nat, NEW high \in Nat,
         Flowing(q, sid, low, high), Head(q).sid = sid, Head(q).item.kind = "data"
  PROVE  Head(q).item = Piece(low + 1) /\ Flowing(Tail(q), sid, low + 1, high)
<1> DEFINE t == Tail(q)
           Mine(x) == {i \in DOMAIN x : x[i].sid = sid /\ x[i].item.kind = "data"}
<1>1. /\ t \in Seq(Message) /\ 1 \in DOMAIN q /\ Head(q) = q[1] /\ Head(q) \in Message
      /\ \A i \in DOMAIN t : i + 1 \in DOMAIN q /\ t[i] = q[i + 1] /\ i >= 1
      /\ \A i \in DOMAIN q : i # 1 => i - 1 \in DOMAIN t /\ t[i - 1] = q[i]
  BY TailAt
<1> HIDE DEF t
<1>2. /\ low <= high /\ {q[i].item.n : i \in Mine(q)} = low + 1..high
      /\ \A i, j \in Mine(q) : i < j => q[i].item.n < q[j].item.n
  BY DEF Flowing
<1>3. 1 \in Mine(q)
  BY <1>1
<1>4. \A i \in Mine(q) : i \in Nat /\ i >= 1 /\ q[i].item.n \in low + 1..high
  BY <1>2, MessageParts
<1>5. \A i \in Mine(t) : i \in Nat /\ i + 1 \in Mine(q) /\ t[i] = q[i + 1] /\ i + 1 # 1
  <2>1. \A i \in DOMAIN t : i \in Nat /\ i >= 1
    BY <1>1, MessageParts
  <2>2. QED BY <1>1, <2>1
<1>6. \A i \in Mine(q) : i # 1 => i - 1 \in Mine(t) /\ t[i - 1] = q[i]
  BY <1>1
<1> HIDE DEF Mine
<1>7. q[1].item.n = low + 1
  <2>1. q[1].item.n \in low + 1..high
    BY <1>3, <1>4
  <2>2. low + 1 \in low + 1..high
    BY <2>1
  <2>3. PICK i \in Mine(q) : q[i].item.n = low + 1
    BY <1>2, <2>2
  <2>4. CASE i = 1
    BY <2>3, <2>4
  <2>5. CASE i # 1
    <3>1. 1 < i
      BY <1>4, <2>5
    <3>2. q[1].item.n < low + 1
      BY <1>2, <1>3, <2>3, <3>1
    <3>3. QED BY <2>1, <3>2
  <2>6. QED BY <2>4, <2>5
<1>8. Head(q).item = Piece(low + 1)
  <2>1. Head(q).item \in Item
    BY <1>1 DEF Message
  <2>2. QED BY <1>1, <1>7, <2>1 DEF Item, Piece, Phrase
<1>9. \A i \in Mine(q) : i # 1 => q[i].item.n \in low + 2..high
  <2>1. TAKE i \in Mine(q)
  <2>2. HAVE i # 1
  <2>3. 1 < i
    BY <1>4, <2>2
  <2>4. q[1].item.n < q[i].item.n /\ q[i].item.n \in low + 1..high
    BY <1>2, <1>3, <1>4, <2>3
  <2>5. QED BY <1>7, <2>4
<1>10. {t[i].item.n : i \in Mine(t)} = low + 2..high
  <2>1. \A i \in Mine(t) : t[i].item.n \in low + 2..high
    BY <1>5, <1>9
  <2>2. \A m \in low + 2..high : \E i \in Mine(t) : t[i].item.n = m
    <3>1. TAKE m \in low + 2..high
    <3>2. m \in low + 1..high /\ m # low + 1
      OBVIOUS
    <3>3. PICK i \in Mine(q) : q[i].item.n = m
      BY <1>2, <3>2
    <3>4. i # 1
      BY <1>7, <3>2, <3>3
    <3>5. QED BY <1>6, <3>3, <3>4
  <2>3. QED BY <2>1, <2>2
<1>11. \A i, j \in Mine(t) : i < j => t[i].item.n < t[j].item.n
  <2>1. TAKE i, j \in Mine(t)
  <2>2. HAVE i < j
  <2>3. i + 1 < j + 1
    BY <1>5, <2>2
  <2>4. QED BY <1>2, <1>5, <2>3
<1>12. low + 1 <= high /\ low + 1 + 1 = low + 2
  <2>1. low + 1 \in low + 1..high
    BY <1>3, <1>4, <1>7
  <2>2. QED BY <2>1
<1>13. Flowing(t, sid, low + 1, high)
  BY <1>10, <1>11, <1>12 DEF Flowing, Mine
<1>14. QED BY <1>8, <1>13 DEF t

\* Something else leaves it.
LEMMA WordTaken ==
  ASSUME NEW q \in Seq(Message), q # << >>, NEW sid, NEW low \in Nat, NEW high \in Nat,
         Flowing(q, sid, low, high), Head(q).item.kind # "data"
  PROVE  Flowing(Tail(q), sid, low, high)
<1> DEFINE t == Tail(q)
           Mine(x) == {i \in DOMAIN x : x[i].sid = sid /\ x[i].item.kind = "data"}
<1>1. /\ t \in Seq(Message) /\ 1 \in DOMAIN q /\ Head(q) = q[1]
      /\ \A i \in DOMAIN t : i + 1 \in DOMAIN q /\ t[i] = q[i + 1] /\ i >= 1
      /\ \A i \in DOMAIN q : i # 1 => i - 1 \in DOMAIN t /\ t[i - 1] = q[i]
  BY TailAt
<1> HIDE DEF t
<1>2. /\ low <= high /\ {q[i].item.n : i \in Mine(q)} = low + 1..high
      /\ \A i, j \in Mine(q) : i < j => q[i].item.n < q[j].item.n
  BY DEF Flowing
<1>3. \A i \in Mine(t) : i \in Nat /\ i + 1 \in Mine(q) /\ t[i] = q[i + 1]
  <2>1. \A i \in DOMAIN t : i \in Nat /\ i >= 1
    BY <1>1, MessageParts
  <2>2. QED BY <1>1, <2>1
<1>4. \A i \in Mine(q) : i - 1 \in Mine(t) /\ t[i - 1] = q[i]
  BY <1>1
<1> HIDE DEF Mine
<1>5. {t[i].item.n : i \in Mine(t)} = {q[i].item.n : i \in Mine(q)}
  BY <1>3, <1>4
<1>6. \A i, j \in Mine(t) : i < j => t[i].item.n < t[j].item.n
  <2>1. TAKE i, j \in Mine(t)
  <2>2. HAVE i < j
  <2>3. i + 1 < j + 1
    BY <1>3, <2>2
  <2>4. QED BY <1>2, <1>3, <2>3
<1>7. Flowing(t, sid, low, high)
  BY <1>2, <1>5, <1>6 DEF Flowing, Mine
<1>8. QED BY <1>7 DEF t

\* Data that is added to a tunnel is behind the rest.
LEMMA AddedData ==
  ASSUME NEW q \in Seq(Message), NEW sid, NEW items, items \in Seq(Item),
         Addressed(sid, items) \in Seq(Message), \A j \in DOMAIN items : items[j].kind = "data"
  PROVE  DataAdded(q, q \o Addressed(sid, items), sid)
<1> DEFINE r == q \o Addressed(sid, items)
<1>1. /\ r \in Seq(Message) /\ \A i \in DOMAIN q : i \in DOMAIN r /\ r[i] = q[i]
      /\ \A j \in DOMAIN items :
           Len(q) + j \in DOMAIN r /\ r[Len(q) + j] = [sid |-> sid, item |-> items[j]]
      /\ \A i \in DOMAIN r : i \in DOMAIN q \/ (i - Len(q) \in DOMAIN items /\ i > Len(q))
  <2>1. AddedTo(q, r, sid, items)
    BY AddedAt
  <2> HIDE DEF r
  <2>2. QED BY <2>1 DEF AddedTo
<1> HIDE DEF r
<1>2. \A i \in DOMAIN r : i \in Nat /\ Len(q) + (i - Len(q)) = i
  BY <1>1, MessageParts
<1>3. ASSUME NEW i \in DOMAIN r, i \notin DOMAIN q
      PROVE  i > Len(q) /\ i \in Nat /\ r[i].sid = sid /\ r[i].item.kind = "data"
  <2>1. PICK j \in DOMAIN items : j = i - Len(q) /\ i > Len(q)
    BY <1>1, <1>3
  <2>2. r[i] = [sid |-> sid, item |-> items[j]] /\ items[j].kind = "data"
    BY <1>1, <1>2, <2>1
  <2>3. r[i].sid = sid /\ r[i].item.kind = "data"
    BY <2>2
  <2>4. QED BY <1>2, <2>1, <2>3
<1>4. DataAdded(q, r, sid)
  BY <1>1, <1>3 DEF DataAdded
<1>5. QED BY <1>4 DEF r

--------------------------------------------------------------------------------
(* What a session's part of the invariant says, tunnel by tunnel.          *)

\* A tunnel changed by other sessions.
LEMMA OtherTunnels ==
  ASSUME NEW q \in Seq(Message), NEW r \in Seq(Message), NEW sid, Carries(q, r, sid)
  PROVE  /\ \A got, buffer, sent : RelayUp(q, sid, got, buffer, sent)
                                   => RelayUp(r, sid, got, buffer, sent)
         /\ \A got, sent : RelayDown(q, sid, got, sent) => RelayDown(r, sid, got, sent)
         /\ \A got, sent : Following(q, sid, got, sent) => Following(r, sid, got, sent)
         /\ \A d, said : RelayIdle(q, d, sid, said) => RelayIdle(r, d, sid, said)
         /\ \A u, said : RelayIdle(u, q, sid, said) => RelayIdle(u, r, sid, said)
<1>1. /\ \A kind : Says(r, sid, kind) <=> Says(q, sid, kind)
      /\ Silent(r, sid) <=> Silent(q, sid)
  BY CarriedWords
<1>2. \A low, high : Flowing(q, sid, low, high) => Flowing(r, sid, low, high)
  BY CarriedFlow
<1>3. /\ OkFirst(q, sid) => OkFirst(r, sid)
      /\ (\A i, j \in DOMAIN q : q[i].sid = sid /\ q[j].sid = sid => i = j)
         => \A i, j \in DOMAIN r : r[i].sid = sid /\ r[j].sid = sid => i = j
  BY CarriedOrder
<1>4. (\A i \in DOMAIN q : q[i].sid = sid => q[i].item.kind = "data")
      => \A i \in DOMAIN r : r[i].sid = sid => r[i].item.kind = "data"
  BY DEF Carries
<1>5. (\A i \in DOMAIN q : q[i].sid = sid => q[i].item = Say("ok") \/ q[i].item.kind = "data")
      => \A i \in DOMAIN r : r[i].sid = sid => r[i].item = Say("ok") \/ r[i].item.kind = "data"
  BY DEF Carries
<1>6. ASSUME NEW got, NEW buffer, NEW sent, RelayUp(q, sid, got, buffer, sent)
      PROVE  RelayUp(r, sid, got, buffer, sent)
  BY <1>2, <1>4, <1>6 DEF RelayUp
<1>7. ASSUME NEW got, NEW sent, RelayDown(q, sid, got, sent) PROVE RelayDown(r, sid, got, sent)
  BY <1>1, <1>2, <1>3, <1>5, <1>7 DEF RelayDown
<1>11. ASSUME NEW got, NEW sent, Following(q, sid, got, sent) PROVE Following(r, sid, got, sent)
  BY <1>1, <1>2, <1>11 DEF Following
<1>8. ASSUME NEW d, NEW said, RelayIdle(q, d, sid, said)
      PROVE  RelayIdle(r, d, sid, said)
  BY <1>1, <1>3, <1>8 DEF RelayIdle
<1>9. ASSUME NEW u, NEW said, RelayIdle(u, q, sid, said)
      PROVE  RelayIdle(u, r, sid, said)
  BY <1>1, <1>9 DEF RelayIdle
<1>10. QED BY <1>6, <1>7, <1>8, <1>9, <1>11

\* A program sends data.
LEMMA UpMore ==
  ASSUME NEW q \in Seq(Message), NEW sid \in Sids, NEW got \in Seq(Got), NEW buffer \in Seq(Item),
         NEW sent \in Nat, NEW n \in Nat, sent + n <= MaxData,
         RelayUp(q, sid, got, buffer, sent)
  PROVE  RelayUp(q \o Addressed(sid, Data(sent + 1, n)), sid, got, buffer, sent + n)
<1> DEFINE items == Data(sent + 1, n)
           r == q \o Addressed(sid, items)
<1>1. Len(got) + Len(buffer) \in Nat
  OBVIOUS
<1>2. Flowing(r, sid, Len(got) + Len(buffer), sent + n)
  BY <1>1, MoreFlowing DEF RelayUp
<1>3. /\ items \in Seq(Item) /\ Addressed(sid, items) \in Seq(Message)
      /\ \A j \in DOMAIN items : items[j].kind = "data"
  BY DataType, AddressedType DEF Data, Piece
<1> HIDE DEF items
<1>4. /\ \A i \in DOMAIN q : i \in DOMAIN r /\ r[i] = q[i]
      /\ \A i \in DOMAIN r : \/ i \in DOMAIN q
                             \/ /\ i > Len(q) /\ i \in Nat
                                /\ r[i].sid = sid /\ r[i].item.kind = "data"
  <2>1. DataAdded(q, r, sid)
    BY <1>3, AddedData
  <2> HIDE DEF r
  <2>2. QED BY <2>1 DEF DataAdded
<1> HIDE DEF r
<1>5. \A i \in DOMAIN r : r[i].sid = sid => r[i].item.kind = "data"
  BY <1>4 DEF RelayUp
<1>6. RelayUp(r, sid, got, buffer, sent + n)
  BY <1>2, <1>5 DEF RelayUp
<1>7. QED BY <1>6 DEF r, items

\* A target sends data.
LEMMA DownMore ==
  ASSUME NEW q \in Seq(Message), NEW sid \in Sids, NEW got \in Seq(Told),
         NEW sent \in Nat, NEW n \in Nat, sent + n <= MaxData, RelayDown(q, sid, got, sent)
  PROVE  LET r == q \o Addressed(sid, Data(sent + 1, n))
         IN /\ RelayDown(r, sid, got, sent + n)
            /\ Following(q, sid, got, sent) => Following(r, sid, got, sent + n)
<1> DEFINE items == Data(sent + 1, n)
           r == q \o Addressed(sid, items)
<1>1. /\ items \in Seq(Item) /\ Addressed(sid, items) \in Seq(Message)
      /\ \A j \in DOMAIN items : items[j].kind = "data"
  BY DataType, AddressedType DEF Data, Piece
<1>2. \A low \in Nat : Flowing(q, sid, low, sent) => Flowing(r, sid, low, sent + n)
  BY MoreFlowing
<1>3. \A p \in DOMAIN got : Len(got) - p \in Nat
  OBVIOUS
<1> HIDE DEF items
<1>4. /\ \A i \in DOMAIN q : i \in DOMAIN r /\ r[i] = q[i]
      /\ \A i \in DOMAIN r : \/ i \in DOMAIN q
                             \/ /\ i > Len(q) /\ i \in Nat
                                /\ r[i].sid = sid /\ r[i].item.kind = "data"
  <2>1. DataAdded(q, r, sid)
    BY <1>1, AddedData
  <2> HIDE DEF r
  <2>2. QED BY <2>1 DEF DataAdded
<1> HIDE DEF r
<1>5. \A j \in DOMAIN q : j \in Nat /\ j <= Len(q) /\ Len(q) \in Nat
  BY MessageParts
<1>6. \A i \in DOMAIN r : r[i].sid = sid => r[i].item = Say("ok") \/ r[i].item.kind = "data"
  BY <1>4 DEF RelayDown
<1>7. OkFirst(r, sid)
  <2>1. SUFFICES ASSUME NEW i \in DOMAIN r, NEW j \in DOMAIN r, r[i].sid = sid, r[j].sid = sid,
                        i # j, r[j].item.kind = "ok"
                 PROVE  j < i /\ r[i].item.kind = "data"
    BY DEF OkFirst
  <2>2. j \in DOMAIN q /\ r[j] = q[j]
    BY <1>4, <2>1
  <2>3. CASE i \in DOMAIN q
    BY <1>4, <2>1, <2>2, <2>3 DEF RelayDown, OkFirst
  <2>4. CASE i \notin DOMAIN q
    BY <1>4, <1>5, <2>2, <2>4
  <2>5. QED BY <2>3, <2>4
<1>8. Says(r, sid, "ok") <=> Says(q, sid, "ok")
  BY <1>4 DEF Says
<1>9. RelayDown(r, sid, got, sent + n)
  BY <1>2, <1>6, <1>7, <1>8 DEF RelayDown
<1>10. Following(q, sid, got, sent) => Following(r, sid, got, sent + n)
  BY <1>2, <1>3, <1>8 DEF Following
<1>11. QED BY <1>9, <1>10 DEF r, items

\* The server takes a piece from a tunnel, and it waits in the buffer.
LEMMA UpTaken ==
  ASSUME NEW q \in Seq(Message), q # << >>, NEW sid, Head(q).sid = sid,
         NEW got \in Seq(Got), NEW buffer \in Seq(Item), NEW sent \in Nat,
         RelayUp(q, sid, got, buffer, sent)
  PROVE  /\ Head(q).item = Piece(Len(got) + Len(buffer) + 1)
         /\ RelayUp(Tail(q), sid, got, Append(buffer, Head(q).item), sent)
<1> DEFINE item == Head(q).item
           more == Append(buffer, item)
           low == Len(got) + Len(buffer)
<1>1. /\ Tail(q) \in Seq(Message) /\ 1 \in DOMAIN q /\ Head(q) = q[1] /\ Head(q) \in Message
      /\ \A i \in DOMAIN Tail(q) : i + 1 \in DOMAIN q /\ Tail(q)[i] = q[i + 1] /\ i >= 1
  BY TailAt
<1>2. low \in Nat /\ Len(got) \in Nat /\ Len(buffer) \in Nat
  OBVIOUS
<1>3. Head(q).item.kind = "data"
  BY <1>1 DEF RelayUp
<1>4. item = Piece(low + 1) /\ Flowing(Tail(q), sid, low + 1, sent)
  BY <1>2, <1>3, PieceTaken DEF RelayUp
<1>5. /\ item \in Item /\ Len(more) = Len(buffer) + 1
      /\ \A i \in DOMAIN more : \/ i \in DOMAIN buffer /\ more[i] = buffer[i]
                                \/ i = Len(buffer) + 1 /\ more[i] = item
  <2>1. item \in Item
    BY <1>1 DEF Message
  <2> HIDE DEF item
  <2>2. QED BY <2>1
<1>6. Len(got) + Len(more) = low + 1 /\ Len(got) + (Len(buffer) + 1) = low + 1
  BY <1>2, <1>5
<1> HIDE DEF item, more
<1>7. \A i \in DOMAIN more : more[i] = Piece(Len(got) + i)
  <2>1. TAKE i \in DOMAIN more
  <2>2. CASE i = Len(buffer) + 1 /\ more[i] = item
    BY <1>4, <1>6, <2>2
  <2>3. CASE i \in DOMAIN buffer /\ more[i] = buffer[i]
    BY <2>3 DEF RelayUp
  <2>4. QED BY <1>5, <2>2, <2>3
<1>8. \A i \in DOMAIN Tail(q) : Tail(q)[i].sid = sid => Tail(q)[i].item.kind = "data"
  BY <1>1 DEF RelayUp
<1>9. \A i \in DOMAIN got : got[i].item = Piece(i)
  BY DEF RelayUp
<1>10. RelayUp(Tail(q), sid, got, more, sent)
  BY <1>4, <1>6, <1>7, <1>8, <1>9 DEF RelayUp
<1>11. QED BY <1>4, <1>10 DEF item, more

\* What reaches a target.
Arriving(from, items) == [i \in 1..Len(items) |-> [from |-> from, item |-> items[i]]]

LEMMA UpReached ==
  ASSUME NEW q, NEW sid, NEW got \in Seq(Got), NEW buffer \in Seq(Item), NEW sent,
         NEW from \in Sessions, RelayUp(q, sid, got, buffer, sent)
  PROVE  /\ RelayUp(q, sid, got \o Arriving(from, buffer), << >>, sent)
         /\ got \o Arriving(from, buffer) \in Seq(Got)
<1> DEFINE m == Arriving(from, buffer)
           all == got \o m
<1>1. /\ m \in Seq(Got) /\ Len(m) = Len(buffer)
      /\ \A i \in 1..Len(buffer) : m[i].item = buffer[i]
  <2>1. \A i \in 1..Len(buffer) : [from |-> from, item |-> buffer[i]] \in Got
    BY DEF Got
  <2>2. QED BY <2>1 DEF Arriving
<1> HIDE DEF m
<1>2. /\ all \in Seq(Got) /\ Len(all) = Len(got) + Len(buffer) /\ Len(got) \in Nat
      /\ \A i \in 1..Len(got) : all[i] = got[i]
      /\ \A i \in 1..Len(all) : ~(i \in 1..Len(got)) =>
           /\ i - Len(got) \in 1..Len(buffer) /\ all[i] = m[i - Len(got)]
           /\ Len(got) + (i - Len(got)) = i
  BY <1>1
<1> HIDE DEF all
<1>3. \A i \in DOMAIN all : all[i].item = Piece(i)
  <2>1. TAKE i \in DOMAIN all
  <2>2. i \in 1..Len(all)
    BY <1>2
  <2>3. CASE i \in 1..Len(got)
    BY <1>2, <2>3 DEF RelayUp
  <2>4. CASE ~(i \in 1..Len(got))
    <3>1. /\ i - Len(got) \in 1..Len(buffer) /\ all[i] = m[i - Len(got)]
          /\ Len(got) + (i - Len(got)) = i
      BY <1>2, <2>2, <2>4
    <3>2. m[i - Len(got)].item = buffer[i - Len(got)]
      BY <1>1, <3>1
    <3>3. \A j \in 1..Len(buffer) : buffer[j] = Piece(Len(got) + j)
      BY DEF RelayUp
    <3>4. buffer[i - Len(got)] = Piece(Len(got) + (i - Len(got)))
      BY <3>1, <3>3
    <3>5. QED BY <3>1, <3>2, <3>4
  <2>5. QED BY <2>3, <2>4
<1>4. Len(all) + Len(<< >>) = Len(got) + Len(buffer) /\ DOMAIN << >> = {}
  BY <1>2
<1>5. RelayUp(q, sid, all, << >>, sent)
  BY <1>3, <1>4 DEF RelayUp
<1>6. QED BY <1>2, <1>5 DEF all, m

\* What a program has after one more item.
LEMMA OneMore ==
  ASSUME NEW got \in Seq(Told), NEW e \in Told
  PROVE  /\ Append(got, e) \in Seq(Told) /\ Len(got) \in Nat
         /\ Len(Append(got, e)) = Len(got) + 1
         /\ \A i \in DOMAIN got : /\ i \in DOMAIN Append(got, e) /\ Append(got, e)[i] = got[i]
                                  /\ i \in Nat /\ i >= 1 /\ i <= Len(got)
         /\ \A i \in DOMAIN Append(got, e) :
              \/ i \in DOMAIN got
              \/ i = Len(got) + 1 /\ Append(got, e)[i] = e
         /\ Len(got) + 1 \in DOMAIN Append(got, e) /\ Append(got, e)[Len(got) + 1] = e
  OBVIOUS

\* The answer is told once.
LEMMA ToldOnce ==
  ASSUME NEW got \in Seq(Told), InOrderAfterOk(got)
  PROVE  \A p, r \in DOMAIN got : got[p].item = Say("ok") /\ got[r].item = Say("ok") => p = r
<1>1. \A p \in DOMAIN got : p \in Nat
  OBVIOUS
<1>2. \A n : Piece(n) # Say("ok")
  <2>1. \A n : Piece(n).kind = "data" /\ Say("ok").kind = "ok"
    BY DEF Piece, Say
  <2>2. QED BY <2>1
<1>3. SUFFICES ASSUME NEW p \in DOMAIN got, NEW r \in DOMAIN got, p < r,
                      got[p].item = Say("ok"), got[r].item = Say("ok")
               PROVE  FALSE
  <2>1. \A p, r \in DOMAIN got : p = r \/ p < r \/ r < p
    BY <1>1
  <2>2. QED BY <2>1
<1>4. QED BY <1>2, <1>3 DEF InOrderAfterOk

\* A program is told nothing of the kind before its request was served.
LEMMA WordTold ==
  ASSUME NEW got \in Seq(Told), NEW e \in Told, ~ToldOk(got), e.item # Say("ok")
  PROVE  ~ToldOk(Append(got, e)) /\ InOrderAfterOk(Append(got, e))
<1>1. \A i \in DOMAIN Append(got, e) : Append(got, e)[i].item # Say("ok")
  BY OneMore DEF ToldOk
<1>2. QED BY <1>1 DEF ToldOk, InOrderAfterOk

\* The answer.
LEMMA OkTold ==
  ASSUME NEW got \in Seq(Told), NEW e \in Told, ~ToldOk(got), e.item = Say("ok")
  PROVE  InOrderAfterOk(Append(got, e)) /\ Append(got, e)[Len(got) + 1].item = Say("ok")
<1> DEFINE more == Append(got, e)
<1>1. \A i \in DOMAIN more : i \in Nat /\ i <= Len(got) + 1 /\ Len(got) \in Nat
  OBVIOUS
<1>2. \A i \in DOMAIN more : more[i].item = Say("ok") => i = Len(got) + 1
  BY OneMore DEF ToldOk
<1> HIDE DEF more
<1>3. \A p, j \in DOMAIN more : more[p].item = Say("ok") => ~(p < j)
  BY <1>1, <1>2
<1>4. InOrderAfterOk(more)
  BY <1>3 DEF InOrderAfterOk
<1>5. QED BY <1>4, OneMore DEF more

\* The next piece.
LEMMA PieceTold ==
  ASSUME NEW got \in Seq(Told), NEW e \in Told, InOrderAfterOk(got), NEW p \in DOMAIN got,
         got[p].item = Say("ok"), e.item = Piece(Len(got) - p + 1)
  PROVE  InOrderAfterOk(Append(got, e))
<1> DEFINE more == Append(got, e)
<1>1. /\ \A i \in DOMAIN got : i \in DOMAIN more /\ more[i] = got[i] /\ i \in Nat /\ i <= Len(got)
      /\ \A i \in DOMAIN more : i \in DOMAIN got \/ (i = Len(got) + 1 /\ more[i] = e)
      /\ Len(got) \in Nat
  BY OneMore
<1> HIDE DEF more
<1>2. e.item # Say("ok")
  <2>1. \A n : Piece(n).kind = "data" /\ Say("ok").kind = "ok"
    BY DEF Piece, Say
  <2>2. QED BY <2>1
<1>3. SUFFICES ASSUME NEW r \in DOMAIN more, NEW j \in DOMAIN more,
                      more[r].item = Say("ok"), r < j
               PROVE  more[j].item = Piece(j - r)
  BY DEF InOrderAfterOk, more
<1>4. r \in DOMAIN got /\ got[r].item = Say("ok")
  BY <1>1, <1>2, <1>3
<1>5. r = p
  BY <1>4, ToldOnce
<1>6. CASE j \in DOMAIN got
  BY <1>1, <1>3, <1>4, <1>6 DEF InOrderAfterOk
<1>7. CASE j = Len(got) + 1 /\ more[j] = e
  <2>1. j - r = Len(got) - p + 1
    BY <1>1, <1>5, <1>7
  <2>2. QED BY <1>7, <2>1
<1>8. QED BY <1>1, <1>6, <1>7

\* What is left in a tunnel.
LEMMA TakenWords ==
  ASSUME NEW q \in Seq(Message), q # << >>, NEW sid
  PROVE  /\ \A kind : Says(Tail(q), sid, kind) => Says(q, sid, kind)
         /\ Silent(q, sid) => Silent(Tail(q), sid)
         /\ (\A i, j \in DOMAIN q : q[i].sid = sid /\ q[j].sid = sid => i = j)
            => \A i, j \in DOMAIN Tail(q) : Tail(q)[i].sid = sid /\ Tail(q)[j].sid = sid => i = j
         /\ (\A i, j \in DOMAIN q : q[i].sid = sid /\ q[j].sid = sid => i = j)
            /\ Head(q).sid = sid => Silent(Tail(q), sid)
<1> DEFINE t == Tail(q)
<1>1. /\ \A i \in DOMAIN t : i + 1 \in DOMAIN q /\ t[i] = q[i + 1] /\ i >= 1
      /\ t \in Seq(Message) /\ 1 \in DOMAIN q /\ q[1] = Head(q)
  BY TailAt
<1> HIDE DEF t
<1>2. \A i, j \in DOMAIN t : i + 1 # 1 /\ (i # j => i + 1 # j + 1)
  <2>1. \A i \in DOMAIN t : i \in Nat /\ i >= 1
    BY <1>1, MessageParts
  <2>2. QED BY <2>1
<1>3. /\ \A kind : Says(t, sid, kind) => Says(q, sid, kind)
      /\ Silent(q, sid) => Silent(t, sid)
  BY <1>1 DEF Says, Silent
<1>4. (\A i, j \in DOMAIN q : q[i].sid = sid /\ q[j].sid = sid => i = j)
      => \A i, j \in DOMAIN t : t[i].sid = sid /\ t[j].sid = sid => i = j
  BY <1>1, <1>2
<1>5. (\A i, j \in DOMAIN q : q[i].sid = sid /\ q[j].sid = sid => i = j) /\ Head(q).sid = sid
      => Silent(t, sid)
  BY <1>1, <1>2 DEF Silent
<1>6. QED BY <1>3, <1>4, <1>5 DEF t

LEMMA JoinedTunnels ==
  ASSUME NEW q \in Seq(Message), NEW m \in Seq(Message)
  PROVE  /\ q \o m \in Seq(Message) /\ Len(q) \in Nat /\ Len(q \o m) = Len(q) + Len(m)
         /\ \A i \in 1..Len(q) : (q \o m)[i] = q[i]
         /\ \A j \in 1..Len(m) : (q \o m)[Len(q) + j] = m[j]
  OBVIOUS

\* One message is added to a tunnel.
LEMMA AddedWord ==
  ASSUME NEW q \in Seq(Message), NEW sid \in Sids, NEW item \in Item
  PROVE  WordAdded(q, q \o Addressed(sid, <<item>>), sid, item)
<1> DEFINE e == [sid |-> sid, item |-> item]
           m == Addressed(sid, <<item>>)
           r == q \o m
<1>1. m = <<e>> /\ e \in Message /\ e.sid = sid /\ e.item = item
  BY DEF Addressed, Message
<1> HIDE DEF e, m
<1>7. m \in Seq(Message) /\ Len(m) = 1 /\ m[1] = e
  BY <1>1
<1>2. /\ r \in Seq(Message) /\ Len(q) \in Nat /\ Len(r) = Len(q) + 1
      /\ \A i \in 1..Len(q) : r[i] = q[i]
      /\ r[Len(q) + 1] = e
  <2>1. /\ r \in Seq(Message) /\ Len(q) \in Nat /\ Len(r) = Len(q) + Len(m)
        /\ \A i \in 1..Len(q) : r[i] = q[i]
        /\ \A j \in 1..Len(m) : r[Len(q) + j] = m[j]
    BY <1>7, JoinedTunnels
  <2> HIDE DEF r
  <2>2. 1 \in 1..Len(m)
    BY <1>7
  <2>3. QED BY <1>7, <2>1, <2>2
<1> HIDE DEF r
<1>3. DOMAIN q = 1..Len(q) /\ DOMAIN r = 1..Len(q) + 1
  BY <1>2
<1>4. \A i \in 1..Len(q) + 1 : i \in 1..Len(q) \/ i = Len(q) + 1
  BY <1>2
<1>5. Len(q) + 1 \in 1..Len(q) + 1 /\ 1..Len(q) \subseteq 1..Len(q) + 1
  BY <1>2
<1>6. WordAdded(q, r, sid, item)
  BY <1>1, <1>2, <1>3, <1>4, <1>5 DEF WordAdded
<1>8. QED BY <1>6 DEF r, m

\* The head of a tunnel down is the answer, or what comes after it.
LEMMA DownTaken ==
  ASSUME NEW q \in Seq(Message), q # << >>, NEW sid \in Sids, Head(q).sid = sid,
         NEW got \in Seq(Told), NEW sent \in Nat, InOrderAfterOk(got),
         RelayDown(q, sid, got, sent)
  PROVE  LET item == Head(q).item
             more == Append(got, [from |-> sid, item |-> item])
         IN /\ \A other : RelayDown(Tail(q), sid, other, sent)
            /\ Following(q, sid, got, sent) =>
                 /\ Following(Tail(q), sid, more, sent) /\ InOrderAfterOk(more)
                 /\ \/ item = Say("ok") /\ ~ToldOk(got)
                    \/ \E p \in DOMAIN got :
                         /\ got[p].item = Say("ok") /\ item = Piece(Len(got) - p + 1)
                         /\ Len(got) - p + 1 <= sent
<1> DEFINE item == Head(q).item
           e == [from |-> sid, item |-> item]
           more == Append(got, e)
           t == Tail(q)
<1>1. /\ t \in Seq(Message) /\ 1 \in DOMAIN q /\ Head(q) = q[1] /\ Head(q) \in Message
      /\ \A i \in DOMAIN t : i + 1 \in DOMAIN q /\ t[i] = q[i + 1] /\ i >= 1
      /\ \A i \in DOMAIN q : i # 1 => i - 1 \in DOMAIN t /\ t[i - 1] = q[i]
  BY TailAt
<1>2. item = Say("ok") \/ item.kind = "data"
  BY <1>1 DEF RelayDown
<1>3. e \in Told /\ e.item = item
  BY <1>1 DEF Told, Message
<1>4. \A i, j \in DOMAIN t : /\ (i # j => i + 1 # j + 1) /\ (j + 1 < i + 1 => j < i)
                             /\ i + 1 # 1 /\ ~(i + 1 < 1)
  BY <1>1, MessageParts
<1> HIDE DEF t, e
<1>5. \A i \in DOMAIN t : t[i].sid = sid => t[i].item = Say("ok") \/ t[i].item.kind = "data"
  BY <1>1 DEF RelayDown
<1>6. OkFirst(t, sid)
  <2>1. SUFFICES ASSUME NEW i \in DOMAIN t, NEW j \in DOMAIN t, t[i].sid = sid, t[j].sid = sid,
                        i # j, t[j].item.kind = "ok"
                 PROVE  j < i /\ t[i].item.kind = "data"
    BY DEF OkFirst
  <2>2. /\ i + 1 \in DOMAIN q /\ t[i] = q[i + 1] /\ j + 1 \in DOMAIN q /\ t[j] = q[j + 1]
        /\ i + 1 # j + 1
    BY <1>1, <1>4, <2>1
  <2>3. j + 1 < i + 1 /\ q[i + 1].item.kind = "data"
    BY <2>1, <2>2 DEF RelayDown, OkFirst
  <2>4. QED BY <1>4, <2>2, <2>3
<1>7. ~Says(t, sid, "ok")
  <2>1. SUFFICES ASSUME NEW i \in DOMAIN t, t[i].sid = sid, t[i].item.kind = "ok"
                 PROVE  FALSE
    BY DEF Says
  <2>2. i + 1 \in DOMAIN q /\ q[i + 1] = t[i] /\ i + 1 # 1 /\ ~(i + 1 < 1) /\ q[1].sid = sid
    BY <1>1, <1>4
  <2>3. QED BY <1>1, <2>1, <2>2 DEF RelayDown, OkFirst
<1>8. \A other : RelayDown(t, sid, other, sent)
  BY <1>5, <1>6, <1>7 DEF RelayDown
<1>9. CASE item = Say("ok")
  <2>1. item.kind = "ok"
    BY <1>9 DEF Say
  <2>2. Says(q, sid, "ok")
    BY <1>1, <2>1 DEF Says
  <2>3. ~ToldOk(got) /\ Flowing(q, sid, 0, sent)
    BY <2>2 DEF RelayDown
  <2>4. Flowing(t, sid, 0, sent)
    BY <2>1, <2>3, WordTaken DEF t
  <2>5. InOrderAfterOk(more) /\ more[Len(got) + 1].item = Say("ok")
    BY <1>3, <1>9, <2>3, OkTold
  <2>6. Len(got) + 1 \in DOMAIN more /\ Len(more) - (Len(got) + 1) = 0
    <3>1. Len(more) = Len(got) + 1 /\ Len(got) \in Nat /\ Len(got) + 1 \in DOMAIN more
      BY <1>3, OneMore
    <3>2. QED BY <3>1
  <2> HIDE DEF more
  <2>7. Flowing(t, sid, Len(more) - (Len(got) + 1), sent)
    BY <2>4, <2>6
  <2>8. Following(t, sid, more, sent)
    BY <2>5, <2>6, <2>7 DEF Following
  <2>9. QED BY <1>8, <1>9, <2>3, <2>5, <2>8 DEF t, e, more
<1>10. CASE item.kind = "data"
  <2>1. ~Says(q, sid, "ok")
    <3>1. SUFFICES ASSUME NEW j \in DOMAIN q, q[j].sid = sid, q[j].item.kind = "ok"
                   PROVE  FALSE
      BY DEF Says
    <3>2. j # 1 /\ q[1].sid = sid
      BY <1>1, <1>10, <3>1
    <3>3. j < 1
      BY <1>1, <3>1, <3>2 DEF RelayDown, OkFirst
    <3>4. QED BY <3>3, MessageParts
  <2>2. CASE ~Following(q, sid, got, sent)
    BY <1>8, <2>2 DEF t, e
  <2>3. CASE Following(q, sid, got, sent)
    <3>1. PICK p \in DOMAIN got : /\ got[p].item = Say("ok")
                                  /\ Flowing(q, sid, Len(got) - p, sent)
      BY <2>1, <2>3 DEF Following
    <3>2. Len(got) - p \in Nat /\ p \in Nat /\ Len(got) \in Nat
      OBVIOUS
    <3> DEFINE low == Len(got) - p
    <3>3. item = Piece(low + 1) /\ Flowing(t, sid, low + 1, sent)
      BY <1>10, <3>1, <3>2, PieceTaken DEF t
    <3>4. InOrderAfterOk(more)
      BY <1>3, <3>1, <3>3, PieceTold
    <3>5. /\ Len(more) = Len(got) + 1 /\ p \in DOMAIN more /\ more[p] = got[p]
      BY <1>3, OneMore
    <3> HIDE DEF more
    <3>6. Len(more) - p = low + 1
      BY <3>2, <3>5
    <3>7. more[p].item = Say("ok") /\ Flowing(t, sid, Len(more) - p, sent)
      BY <3>1, <3>3, <3>5, <3>6
    <3>8. Following(t, sid, more, sent)
      BY <3>5, <3>7 DEF Following
    <3>9. low + 1 <= sent
      BY <3>3 DEF Flowing
    <3>10. QED BY <1>8, <3>1, <3>3, <3>4, <3>8, <3>9 DEF t, e, more
  <2>4. QED BY <2>2, <2>3
<1>11. QED BY <1>2, <1>9, <1>10

--------------------------------------------------------------------------------
(* The steps of the relay.                                                 *)

RelayRest ==
  /\ asked \in [Sessions -> {"nothing", "hello", "request"}]
  /\ \A k \in Sessions : asked[k] # "nothing" => k[2] \in DOMAIN client_channels_[k[1]]
  /\ convs = Convs
  /\ \A a \in DOMAIN server_heap : ChannelKeyed(a)

LEMMA RelayParts ==
  /\ RelayInv <=> CrossInv /\ RelayRest /\ \A k \in Sessions : SessionInv(k)
  /\ RelayInv' <=> CrossInv' /\ RelayRest' /\ \A k \in Sessions : SessionInv(k)'
  BY DEF RelayInv, RelayRest

(* What the relay is made of, and its types.                               *)
RelayTypes ==
  /\ up \in [Convs -> Seq(Message)] /\ down \in [Convs -> Seq(Message)]
  /\ app_sent \in [Sessions -> 0..MaxData] /\ target_sent \in [Sessions -> 0..MaxData]
  /\ app_got \in [Sessions -> Seq(Told)] /\ target_got \in [Sessions -> Seq(Got)]
  /\ \A k \in Sessions : k[1] \in Convs /\ k[2] \in Sids /\ k = <<k[1], k[2]>>

LEMMA TypesOfRelay == (CrossInv => RelayTypes) /\ (CrossInv' => RelayTypes')
<1>1. \A k \in Sessions : k[1] \in Convs /\ k[2] \in Sids /\ k = <<k[1], k[2]>>
  BY DEF Sessions
<1>2. QED BY <1>1 DEF CrossInv, DownTypes, IsolationInv, WayTypes, RelayTypes

(* A step that is not about session k.                                     *)
Alone(k) ==
  /\ app_got'[k] = app_got[k] /\ asked'[k] = asked[k] /\ app_sent'[k] = app_sent[k]
  /\ target_sent'[k] = target_sent[k] /\ target_got'[k] = target_got[k]
  /\ k \in DOMAIN server_channels_' <=> k \in DOMAIN server_channels_
  /\ InBuffer(k)' = InBuffer(k)
  /\ Carries(up[k[1]], up'[k[1]], k[2])
  /\ Carries(down[k[1]], down'[k[1]], k[2])
  /\ k \in DOMAIN server_channels_ /\ Listening(k)' => Listening(k)

LEMMA AloneKept ==
  ASSUME RelayTypes, RelayTypes', NEW k \in Sessions, SessionInv(k), Alone(k)
  PROVE  SessionInv(k)'
<1> DEFINE sid == k[2]
           u == up[k[1]]
           v == up'[k[1]]
           d == down[k[1]]
           e == down'[k[1]]
<1>1. u \in Seq(Message) /\ v \in Seq(Message) /\ d \in Seq(Message) /\ e \in Seq(Message)
  BY DEF RelayTypes
<1>2. Carries(u, v, sid) /\ Carries(d, e, sid)
  BY DEF Alone
<1> HIDE DEF sid, u, v, d, e
<1>3. /\ \A got, buffer, sent : RelayUp(u, sid, got, buffer, sent)
                                => RelayUp(v, sid, got, buffer, sent)
      /\ \A t, said : RelayIdle(u, t, sid, said) => RelayIdle(v, t, sid, said)
  BY <1>1, <1>2, OtherTunnels
<1>4. /\ \A got, sent : RelayDown(d, sid, got, sent) => RelayDown(e, sid, got, sent)
      /\ \A got, sent : Following(d, sid, got, sent) => Following(e, sid, got, sent)
      /\ \A t, said : RelayIdle(t, d, sid, said) => RelayIdle(t, e, sid, said)
  BY <1>1, <1>2, OtherTunnels
<1>5. CASE k \in DOMAIN server_channels_
  <2>1. /\ InOrderAfterOk(app_got[k]) /\ asked[k] = "request"
        /\ RelayUp(u, sid, target_got[k], InBuffer(k), app_sent[k])
        /\ RelayDown(d, sid, app_got[k], target_sent[k])
        /\ Listening(k) => Following(d, sid, app_got[k], target_sent[k])
    BY <1>5 DEF SessionInv, u, d, sid
  <2>2. /\ RelayUp(v, sid, target_got[k], InBuffer(k), app_sent[k])
        /\ RelayDown(e, sid, app_got[k], target_sent[k])
        /\ Listening(k)' => Following(e, sid, app_got[k], target_sent[k])
    BY <1>3, <1>4, <1>5, <2>1 DEF Alone
  <2>3. QED BY <1>5, <2>1, <2>2 DEF Alone, SessionInv, v, e, sid
<1>6. CASE k \notin DOMAIN server_channels_
  <2>1. /\ InOrderAfterOk(app_got[k]) /\ target_got[k] = << >> /\ app_sent[k] = 0
        /\ target_sent[k] = 0 /\ ~ToldOk(app_got[k]) /\ RelayIdle(u, d, sid, asked[k])
    BY <1>6 DEF SessionInv, u, d, sid
  <2>2. RelayIdle(v, e, sid, asked[k])
    BY <1>3, <1>4, <2>1
  <2>3. QED BY <1>6, <2>1, <2>2 DEF Alone, SessionInv, v, e, sid
<1>7. QED BY <1>5, <1>6

(* What the others see of the tunnels.                                     *)
LEMMA SeenSame ==
  ASSUME NEW T \in [Convs -> Seq(Message)], NEW k \in Sessions
  PROVE  Carries(T[k[1]], T[k[1]], k[2])
<1>1. k[1] \in Convs
  BY DEF Sessions
<1>2. QED BY <1>1, SameCarried

LEMMA SeenAdded ==
  ASSUME NEW T \in [Convs -> Seq(Message)], NEW U, NEW c \in Convs, NEW k \in Sessions,
         NEW sid \in Sids \cup {heartbeat_sid}, NEW items \in Seq(Item),
         U = [T EXCEPT ![c] = T[c] \o Addressed(sid, items)], k # <<c, sid>>
  PROVE  Carries(T[k[1]], U[k[1]], k[2])
<1>1. k[1] \in Convs /\ k = <<k[1], k[2]>> /\ T[k[1]] \in Seq(Message) /\ T[c] \in Seq(Message)
  BY DEF Sessions
<1>2. CASE k[1] # c
  BY <1>1, <1>2, SeenSame
<1>3. CASE k[1] = c
  <2>1. k[2] # sid /\ U[c] = T[c] \o Addressed(sid, items)
    BY <1>1, <1>3
  <2>2. Addressed(sid, items) \in Seq(Message)
    BY AddressedType
  <2>3. Carries(T[c], T[c] \o Addressed(sid, items), k[2])
    BY <1>1, <2>1, <2>2, AddedCarried
  <2>4. QED BY <1>3, <2>1, <2>3
<1>4. QED BY <1>2, <1>3

LEMMA SeenTaken ==
  ASSUME NEW T \in [Convs -> Seq(Message)], NEW U, NEW c \in Convs, NEW k \in Sessions,
         T[c] # << >>, U = [T EXCEPT ![c] = Tail(T[c])], k # <<c, Head(T[c]).sid>>
  PROVE  Carries(T[k[1]], U[k[1]], k[2])
<1>1. k[1] \in Convs /\ k = <<k[1], k[2]>> /\ T[k[1]] \in Seq(Message) /\ T[c] \in Seq(Message)
  BY DEF Sessions
<1>2. CASE k[1] # c
  BY <1>1, <1>2, SeenSame
<1>3. CASE k[1] = c
  <2>1. k[2] # Head(T[c]).sid /\ U[c] = Tail(T[c])
    BY <1>1, <1>3
  <2>2. Carries(T[c], Tail(T[c]), k[2])
    BY <1>1, <2>1, TakenCarried
  <2>3. QED BY <1>3, <2>1, <2>2
<1>4. QED BY <1>2, <1>3

(* Where the server is untouched and a client forgets no session.          *)
LEMMA RestKept ==
  ASSUME RelayRest, UNCHANGED <<server, asked>>,
         \A c \in Convs : DOMAIN client_channels_[c] \subseteq DOMAIN client_channels_'[c]
  PROVE  RelayRest'
<1>1. \A k \in Sessions : k[1] \in Convs
  BY DEF Sessions
<1>2. \A k \in Sessions : asked'[k] # "nothing" => k[2] \in DOMAIN client_channels_'[k[1]]
  BY <1>1 DEF RelayRest
<1>3. \A a \in DOMAIN server_heap' : ChannelKeyed(a)'
  BY DEF RelayRest, ChannelKeyed, server
<1>4. QED BY <1>2, <1>3 DEF RelayRest, server

(* A program that listens after a step of its client listened before.      *)
LEMMA NobodyNew ==
  ASSUME RelayInv, NEW c \in Convs, NEW a \in Addresses,
         Accept(c, a) \/ LocalClose(c, a) \/ LocalDelete(c, a),
         NEW k \in Sessions, k \in DOMAIN server_channels_, Listening(k)'
  PROVE  Listening(k)
<1> DEFINE l == [sid |-> k[2], connected |-> TRUE]
<1>1. /\ l.sid = k[2] /\ l.connected = TRUE
  OBVIOUS
<1>2. PICK b \in DOMAIN client_heap'[k[1]] : client_heap'[k[1]][b] = l
  BY DEF Listening
<1>3. k[1] \in Convs /\ ClientTables
  BY DEF Sessions, RelayInv, CrossInv
<1> HIDE DEF l
<1>4. SUFFICES b \in DOMAIN client_heap[k[1]] /\ client_heap[k[1]][b] = l
  BY DEF Listening, l
<1>5. CASE Accept(c, a)
  <2> DEFINE sid == max_sid_[c]
             h == [sid |-> sid, connected |-> TRUE]
  <2>1. client_heap' = [client_heap EXCEPT ![c] = Put(client_heap[c], a, h)] /\ h.sid = sid
    BY <1>5 DEF Accept, NextSid
  <2>2. asked[k] # "nothing" /\ k[2] \in DOMAIN client_channels_[k[1]]
    BY DEF RelayInv, SessionInv
  <2>3. k[2] \in Nat /\ k[2] < max_sid_[k[1]] /\ max_sid_[k[1]] \in Nat
    BY <1>3, <2>2 DEF ClientTables, ClientOwn
  <2> HIDE DEF sid, h
  <2>4. CASE k[1] # c
    BY <1>2, <1>3, <2>1, <2>4 DEF ClientTables
  <2>5. CASE k[1] = c
    <3>1. client_heap'[c] = Put(client_heap[c], a, h)
      BY <1>3, <2>1 DEF ClientTables
    <3>2. b \in DOMAIN client_heap[c] \cup {a} /\ l = IF b = a THEN h ELSE client_heap[c][b]
      BY <1>2, <2>5, <3>1 DEF Put
    <3>3. l # h
      BY <1>1, <2>1, <2>3, <2>5 DEF sid
    <3>4. QED BY <2>5, <3>2, <3>3
  <2>6. QED BY <2>4, <2>5
<1>6. CASE LocalClose(c, a)
  <2>1. client_heap' = [client_heap EXCEPT ![c][a].connected = FALSE]
    BY <1>6 DEF LocalClose
  <2>2. CASE k[1] # c
    BY <1>2, <1>3, <2>1, <2>2 DEF ClientTables
  <2>3. CASE k[1] = c
    <3>1. client_heap'[c] = [client_heap[c] EXCEPT ![a].connected = FALSE]
      BY <1>3, <2>1 DEF ClientTables
    <3>2. CASE b = a
      <4>1. client_heap'[c][a] = [client_heap[c][a] EXCEPT !.connected = FALSE]
        BY <1>2, <2>3, <3>1, <3>2
      <4>2. client_heap[c][a] \in [sid : Sids, connected : BOOLEAN]
        BY <1>3, <1>6 DEF LocalClose, ClientTables, ClientOwn
      <4>3. client_heap'[c][a].connected = FALSE
        BY <4>1, <4>2
      <4>4. QED BY <1>1, <1>2, <2>3, <3>2, <4>3
    <3>3. CASE b # a
      BY <1>2, <2>3, <3>1, <3>3
    <3>4. QED BY <3>2, <3>3
  <2>4. QED BY <2>2, <2>3
<1>7. CASE LocalDelete(c, a)
  <2>1. client_heap' = [client_heap EXCEPT ![c] = Without(client_heap[c], a)]
    BY <1>7 DEF LocalDelete
  <2>2. CASE k[1] # c
    BY <1>2, <1>3, <2>1, <2>2 DEF ClientTables
  <2>3. CASE k[1] = c
    <3>1. client_heap'[c] = Without(client_heap[c], a)
      BY <1>3, <2>1 DEF ClientTables
    <3>2. QED BY <1>2, <2>3, <3>1 DEF Without
  <2>4. QED BY <2>2, <2>3
<1>8. QED BY <1>5, <1>6, <1>7

LEMMA ClientStep ==
  ASSUME RelayInv, CrossInv', NEW c \in Convs, NEW a \in Addresses,
         Accept(c, a) \/ LocalClose(c, a) \/ LocalDelete(c, a)
  PROVE  RelayInv'
<1>1. UNCHANGED <<server, up, down, program, target>>
  BY DEF Accept, LocalClose, LocalDelete
<1>2. \A d \in Convs : DOMAIN client_channels_[d] \subseteq DOMAIN client_channels_'[d]
  BY DEF Accept, LocalClose, LocalDelete, Put, RelayInv, CrossInv, ClientTables
<1>3. RelayRest'
  BY <1>1, <1>2, RestKept, RelayParts DEF program
<1>4. RelayTypes /\ RelayTypes'
  BY TypesOfRelay DEF RelayInv
<1>5. ASSUME NEW k \in Sessions PROVE SessionInv(k)'
  <2>1. k \in DOMAIN server_channels_ /\ Listening(k)' => Listening(k)
    BY NobodyNew
  <2>2. /\ Carries(up[k[1]], up'[k[1]], k[2])
        /\ Carries(down[k[1]], down'[k[1]], k[2])
    BY <1>1, <1>4, SeenSame DEF RelayTypes
  <2>3. InBuffer(k)' = InBuffer(k)
    BY <1>1 DEF InBuffer, server
  <2>4. Alone(k)
    BY <1>1, <2>1, <2>2, <2>3 DEF Alone, server, program, target
  <2>5. QED BY <1>4, <2>4, AloneKept DEF RelayInv
<1>6. QED BY <1>3, <1>5, RelayParts

LEMMA HeartbeatRelay ==
  ASSUME RelayInv, CrossInv', NEW c \in Convs, Heartbeat(c)
  PROVE  RelayInv'
<1> DEFINE items == <<Say("heartbeat")>>
<1>1. /\ UNCHANGED <<client, server, down, program, target>>
      /\ up' = [up EXCEPT ![c] = up[c] \o Addressed(heartbeat_sid, items)]
  BY DEF Heartbeat
<1>2. RelayRest'
  BY <1>1, RestKept, RelayParts DEF program, client
<1>3. RelayTypes /\ RelayTypes'
  BY TypesOfRelay DEF RelayInv
<1>4. items \in Seq(Item) /\ heartbeat_sid \in Sids \cup {heartbeat_sid}
  BY SayType DEF Phrase
<1> HIDE DEF items
<1>5. ASSUME NEW k \in Sessions PROVE SessionInv(k)'
  <2>1. k # <<c, heartbeat_sid>>
    BY SidAssumption DEF Sessions, heartbeat_sid
  <2>2. Carries(up[k[1]], up'[k[1]], k[2])
    <3>1. up \in [Convs -> Seq(Message)]
      BY <1>3 DEF RelayTypes
    <3>2. QED BY <1>1, <1>4, <2>1, <3>1, SeenAdded
  <2>3. Carries(down[k[1]], down'[k[1]], k[2])
    BY <1>1, <1>3, SeenSame DEF RelayTypes
  <2>4. InBuffer(k)' = InBuffer(k) /\ Listening(k)' = Listening(k)
    BY <1>1 DEF InBuffer, Listening, server, client
  <2>5. Alone(k)
    BY <1>1, <2>2, <2>3, <2>4 DEF Alone, server, program, target
  <2>6. QED BY <1>3, <2>5, AloneKept DEF RelayInv
<1>6. QED BY <1>2, <1>5, RelayParts

(* A channel of a session with a connected program is the one it is told   *)
(* through.                                                                *)
LEMMA WriteIfListening ==
  ASSUME CrossInv, NEW c \in Convs, NEW sid \in DOMAIN client_channels_[c], sid \in Sids,
         NEW item, ClientWrite(c, sid, item)
  PROVE  IF Listening(<<c, sid>>)
         THEN app_got' = [app_got EXCEPT ![<<c, sid>>] =
                            Append(app_got[<<c, sid>>], [from |-> sid, item |-> item])]
         ELSE app_got' = app_got
<1> DEFINE a == client_channels_[c][sid]
<1>1. ClientOwn(c)
  BY DEF CrossInv, ClientTables
<1>2. Listening(<<c, sid>>) <=> a \in DOMAIN client_heap[c] /\ client_heap[c][a].connected
  <2>1. ASSUME NEW b \in DOMAIN client_heap[c],
               client_heap[c][b] = [sid |-> sid, connected |-> TRUE]
        PROVE  b = a /\ client_heap[c][b].connected
    <3>1. client_heap[c][b].sid = sid /\ client_heap[c][b].connected = TRUE
      BY <2>1
    <3>2. QED BY <1>1, <3>1 DEF ClientOwn
  <2>2. ASSUME a \in DOMAIN client_heap[c], client_heap[c][a].connected
        PROVE  client_heap[c][a] = [sid |-> sid, connected |-> TRUE]
    <3>1. client_heap[c][a] \in [sid : Sids, connected : BOOLEAN] /\ client_heap[c][a].sid = sid
      BY <1>1, <2>2 DEF ClientOwn
    <3>2. client_heap[c][a].connected = TRUE
      BY <2>2, <3>1
    <3>3. QED BY <3>1, <3>2
  <2>3. QED BY <2>1, <2>2 DEF Listening
<1>3. a \in DOMAIN client_heap[c] => client_heap[c][a].sid = sid
  BY <1>1 DEF ClientOwn
<1>4. CASE Listening(<<c, sid>>)
  BY <1>2, <1>3, <1>4 DEF ClientWrite
<1>5. CASE ~Listening(<<c, sid>>)
  BY <1>2, <1>5 DEF ClientWrite
<1>6. QED BY <1>4, <1>5

(* What a program's step leaves to other sessions.                         *)
LEMMA ProgramAlone ==
  ASSUME RelayTypes, NEW c \in Convs, NEW sid \in Sids, NEW k \in Sessions, k # <<c, sid>>,
         UNCHANGED <<client, server, down, target>>,
         \A j \in Sessions : j # <<c, sid>> =>
           /\ app_got'[j] = app_got[j] /\ asked'[j] = asked[j] /\ app_sent'[j] = app_sent[j]
           /\ Carries(up[j[1]], up'[j[1]], j[2])
  PROVE  Alone(k)
<1>1. InBuffer(k)' = InBuffer(k) /\ Listening(k)' = Listening(k)
  BY DEF InBuffer, Listening, server, client
<1>2. Carries(down[k[1]], down'[k[1]], k[2])
  BY SeenSame DEF RelayTypes
<1>3. QED BY <1>1, <1>2 DEF Alone, server, target

(* The program's channel is known to its client.                           *)
LEMMA ProgramKnown ==
  ASSUME RelayInv, NEW c \in Convs, NEW sid \in Sids, NEW items, LocalIn(c, sid, items)
  PROVE  /\ sid \in DOMAIN client_channels_[c]
         /\ UNCHANGED <<client, server, down, target>>
<1>1. PICK a \in DOMAIN client_heap[c] :
        client_heap[c][a] = [sid |-> sid, connected |-> TRUE]
  BY DEF LocalIn
<1>2. sid \in DOMAIN client_channels_[c]
  BY <1>1 DEF RelayInv, CrossInv, ClientTables, ClientOwn
<1>3. QED BY <1>2 DEF LocalIn

LEMMA HelloRelay ==
  ASSUME RelayInv, CrossInv', NEW c \in Convs, NEW sid \in Sids, ProgramHello(c, sid)
  PROVE  RelayInv'
<1> DEFINE k == <<c, sid>>
           e == [from |-> sid, item |-> Say("method")]
<1>1. /\ k \in Sessions /\ asked[k] = "nothing" /\ asked' = [asked EXCEPT ![k] = "hello"]
      /\ LocalIn(c, sid, <<Say("hello")>>) /\ app_sent' = app_sent
      /\ k[1] = c /\ k[2] = sid
  BY DEF ProgramHello, Sessions
<1>2. sid \in DOMAIN client_channels_[c] /\ UNCHANGED <<client, server, down, target>>
  BY <1>1, ProgramKnown
<1>3. IsHello(<<Say("hello")>>)
  BY DEF IsHello, Say
<1>4. ClientWrite(c, sid, Say("method")) /\ up' = up
  BY <1>1, <1>3 DEF LocalIn
<1>5. RelayTypes /\ RelayTypes' /\ asked \in [Sessions -> {"nothing", "hello", "request"}]
  BY TypesOfRelay DEF RelayInv
<1>6. \/ app_got' = [app_got EXCEPT ![k] = Append(app_got[k], e)]
      \/ app_got' = app_got
  BY <1>2, <1>4, WriteIfListening DEF RelayInv
<1>7. e \in Told /\ e.item = Say("method")
  BY SayType DEF Told, Phrase
<1> HIDE DEF k, e
<1>8. RelayRest'
  <2>1. \A j \in Sessions : asked'[j] # "nothing" => j[2] \in DOMAIN client_channels_'[j[1]]
    BY <1>1, <1>2, <1>5 DEF RelayInv, client
  <2>2. asked' \in [Sessions -> {"nothing", "hello", "request"}]
    BY <1>1, <1>5
  <2>3. \A a \in DOMAIN server_heap' : ChannelKeyed(a)'
    BY <1>2 DEF RelayInv, ChannelKeyed, server
  <2>4. QED BY <1>2, <2>1, <2>2, <2>3 DEF RelayRest, RelayInv, server
<1>9. SessionInv(k)'
  <2>1. k \notin DOMAIN server_channels_
    BY <1>1 DEF RelayInv, SessionInv
  <2>2. /\ target_got[k] = << >> /\ app_sent[k] = 0 /\ target_sent[k] = 0
        /\ ~ToldOk(app_got[k]) /\ InOrderAfterOk(app_got[k])
        /\ RelayIdle(up[k[1]], down[k[1]], k[2], "nothing")
    BY <1>1, <2>1 DEF RelayInv, SessionInv
  <2>3. Say("method") # Say("ok")
    BY DEF Say
  <2>4. ~ToldOk(Append(app_got[k], e)) /\ InOrderAfterOk(Append(app_got[k], e))
    BY <1>1, <1>5, <1>7, <2>2, <2>3, WordTold DEF RelayTypes
  <2>5. app_got'[k] = Append(app_got[k], e) \/ app_got'[k] = app_got[k]
    BY <1>1, <1>5, <1>6 DEF RelayTypes
  <2>6. ~ToldOk(app_got'[k]) /\ InOrderAfterOk(app_got'[k])
    BY <2>2, <2>4, <2>5
  <2>7. RelayIdle(up'[k[1]], down'[k[1]], k[2], asked'[k])
    <3>1. asked'[k] = "hello"
      BY <1>1, <1>5
    <3>2. QED BY <1>2, <1>4, <2>2, <3>1 DEF RelayIdle
  <2>8. QED BY <1>1, <1>2, <2>1, <2>2, <2>6, <2>7 DEF SessionInv, server, target
<1>10. ASSUME NEW j \in Sessions, j # k PROVE SessionInv(j)'
  <2>1. \A i \in Sessions : i # k =>
          /\ app_got'[i] = app_got[i] /\ asked'[i] = asked[i] /\ app_sent'[i] = app_sent[i]
          /\ Carries(up[i[1]], up'[i[1]], i[2])
    BY <1>1, <1>4, <1>5, <1>6, SeenSame DEF RelayTypes
  <2>2. Alone(j)
    BY <1>2, <1>5, <1>10, <2>1, ProgramAlone DEF k
  <2>3. QED BY <1>5, <2>2, AloneKept DEF RelayInv
<1>11. QED BY <1>8, <1>9, <1>10, RelayParts

(* The buffer of a served session is that of its channel.                  *)
LEMMA BufferType ==
  ASSUME CrossInv, NEW k \in Sessions, k \in DOMAIN server_channels_
  PROVE  LET a == server_channels_[k]
         IN /\ a \in DOMAIN server_heap /\ server_heap[a] \in Held
            /\ server_heap[a].state # "closed"
            /\ server_heap[a].conv = k[1] /\ server_heap[a].sid = k[2]
            /\ InBuffer(k) = server_heap[a].send_buffer_ /\ InBuffer(k) \in Seq(Item)
<1>1. Key(k[1], k[2]) = k
  BY DEF Sessions, Key
<1>2. OwnChannel(k) /\ server_heap \in [DOMAIN server_heap -> Held]
  BY DEF CrossInv, IsolationInv, MapOwn, WayTypes
<1>3. server_heap[server_channels_[k]] \in Held
  BY <1>2 DEF OwnChannel
<1>4. QED BY <1>1, <1>2, <1>3 DEF OwnChannel, InBuffer, Held

LEMMA RequestRelay ==
  ASSUME RelayInv, CrossInv', NEW c \in Convs, NEW sid \in Sids,
         NEW kind \in {"request", "unknown"}, ProgramRequest(c, sid, kind)
  PROVE  RelayInv'
<1> DEFINE k == <<c, sid>>
           item == Say(kind)
           items == <<item>>
<1>1. /\ k \in Sessions /\ asked[k] = "hello" /\ asked' = [asked EXCEPT ![k] = "request"]
      /\ LocalIn(c, sid, items) /\ app_sent' = app_sent
      /\ k[1] = c /\ k[2] = sid
  BY DEF ProgramRequest, Sessions
<1>2. sid \in DOMAIN client_channels_[c] /\ UNCHANGED <<client, server, down, target>>
  BY <1>1, ProgramKnown
<1>3. /\ ~IsHello(items) /\ item \in Item /\ items \in Seq(Item)
      /\ item.kind # "data"
  <2>1. item.kind = kind /\ item.n = 0
    BY DEF Say
  <2>2. item \in Item
    BY SayType DEF Phrase
  <2>3. items[1] = item /\ items \in Seq(Item)
    BY <2>2
  <2>4. ~IsHello(items)
    BY <2>1, <2>3, PieceAssumption DEF IsHello
  <2>5. QED BY <2>1, <2>2, <2>3, <2>4
<1>4. up' = [up EXCEPT ![c] = up[c] \o Addressed(sid, items)] /\ app_got' = app_got
  BY <1>1, <1>3 DEF LocalIn
<1>5. RelayTypes /\ RelayTypes' /\ asked \in [Sessions -> {"nothing", "hello", "request"}]
  BY TypesOfRelay DEF RelayInv
<1> HIDE DEF k
<1>6. RelayRest'
  <2>1. \A j \in Sessions : asked'[j] # "nothing" => j[2] \in DOMAIN client_channels_'[j[1]]
    BY <1>1, <1>2, <1>5 DEF RelayInv, client
  <2>2. asked' \in [Sessions -> {"nothing", "hello", "request"}]
    BY <1>1, <1>5
  <2>3. \A a \in DOMAIN server_heap' : ChannelKeyed(a)'
    BY <1>2 DEF RelayInv, ChannelKeyed, server
  <2>4. QED BY <1>2, <2>1, <2>2, <2>3 DEF RelayRest, RelayInv, server
<1>7. SessionInv(k)'
  <2>1. k \notin DOMAIN server_channels_
    BY <1>1 DEF RelayInv, SessionInv
  <2>2. /\ target_got[k] = << >> /\ app_sent[k] = 0 /\ target_sent[k] = 0
        /\ ~ToldOk(app_got[k]) /\ InOrderAfterOk(app_got[k])
        /\ RelayIdle(up[c], down[c], sid, "hello")
    BY <1>1, <2>1 DEF RelayInv, SessionInv
  <2> DEFINE q == up[c]
             r == q \o Addressed(sid, items)
  <2>3. q \in Seq(Message) /\ up'[c] = r
    BY <1>4, <1>5 DEF RelayTypes
  <2> HIDE DEF item, q
  <2>4. /\ \A i \in DOMAIN q : i \in DOMAIN r /\ r[i] = q[i]
        /\ \A i \in DOMAIN r : \/ i \in DOMAIN q
                               \/ i = Len(q) + 1 /\ r[i].sid = sid /\ r[i].item = item
    <3>1. WordAdded(q, r, sid, item)
      BY <1>3, <2>3, AddedWord
    <3> HIDE DEF r
    <3>2. QED BY <3>1 DEF WordAdded
  <2> HIDE DEF r
  <2>5. Silent(q, sid) /\ Silent(down[c], sid)
    BY <2>2 DEF RelayIdle, q
  <2>6. /\ ~Says(r, sid, "data")
        /\ \A i, j \in DOMAIN r : r[i].sid = sid /\ r[j].sid = sid => i = j
    BY <1>3, <2>4, <2>5 DEF Says, Silent
  <2>7. RelayIdle(r, down[c], sid, "request")
    BY <2>2, <2>5, <2>6 DEF RelayIdle
  <2>8. asked'[k] = "request"
    BY <1>1, <1>5
  <2>9. QED BY <1>1, <1>2, <1>4, <2>1, <2>2, <2>3, <2>7, <2>8 DEF SessionInv, server, target
<1> HIDE DEF item, items
<1>8. ASSUME NEW j \in Sessions, j # k PROVE SessionInv(j)'
  <2>1. \A i \in Sessions : i # k => Carries(up[i[1]], up'[i[1]], i[2])
    <3>1. up \in [Convs -> Seq(Message)]
      BY <1>5 DEF RelayTypes
    <3>2. QED BY <1>3, <1>4, <3>1, SeenAdded DEF k
  <2>2. \A i \in Sessions : i # k =>
          /\ app_got'[i] = app_got[i] /\ asked'[i] = asked[i] /\ app_sent'[i] = app_sent[i]
    BY <1>1, <1>4, <1>5
  <2>3. Alone(j)
    BY <1>2, <1>5, <1>8, <2>1, <2>2, ProgramAlone DEF k
  <2>4. QED BY <1>5, <2>3, AloneKept DEF RelayInv
<1>9. QED BY <1>6, <1>7, <1>8, RelayParts

LEMMA DataRelay ==
  ASSUME RelayInv, CrossInv', Undisturbed, NEW c \in Convs, NEW sid \in Sids,
         NEW n \in 1..MaxRead, ProgramData(c, sid, n)
  PROVE  RelayInv'
<1> DEFINE k == <<c, sid>>
           s == app_sent[k]
           items == Data(s + 1, n)
<1>1. /\ k \in Sessions /\ k[1] = c /\ k[2] = sid
      /\ asked' = asked /\ Heard(c, sid, "ok") /\ s + n <= MaxData
      /\ app_sent' = [app_sent EXCEPT ![k] = s + n] /\ LocalIn(c, sid, items)
  BY DEF ProgramData, Sessions
<1>2. sid \in DOMAIN client_channels_[c] /\ UNCHANGED <<client, server, down, target>>
  BY <1>1, ProgramKnown
<1>3. RelayTypes /\ RelayTypes'
  BY TypesOfRelay DEF RelayInv
<1>4. s \in Nat /\ n \in Nat /\ n >= 1
  BY <1>1, <1>3, SessionBounds DEF RelayTypes
<1>5. items \in Seq(Item) /\ ~IsHello(items)
  <2>1. items \in Seq(Item)
    BY <1>1, <1>4, DataType
  <2>2. items[1].kind = "data"
    BY <1>4 DEF Data, Piece
  <2>3. QED BY <2>1, <2>2 DEF IsHello, Undisturbed
<1>6. up' = [up EXCEPT ![c] = up[c] \o Addressed(sid, items)] /\ app_got' = app_got
  BY <1>1, <1>5 DEF LocalIn
<1> HIDE DEF k
<1>7. RelayRest'
  BY <1>1, <1>2, RestKept, RelayParts DEF client
<1>8. SessionInv(k)'
  <2>1. ToldOk(app_got[k])
    BY <1>1 DEF Heard, ToldOk, k
  <2>2. k \in DOMAIN server_channels_
    BY <1>1, <2>1 DEF RelayInv, SessionInv
  <2>3. RelayUp(up[c], sid, target_got[k], InBuffer(k), s)
    BY <1>1, <2>2 DEF RelayInv, SessionInv
  <2>4. /\ up[c] \in Seq(Message) /\ target_got[k] \in Seq(Got)
        /\ up'[c] = up[c] \o Addressed(sid, items)
    BY <1>1, <1>3, <1>6 DEF RelayTypes
  <2>5. InBuffer(k) \in Seq(Item)
    BY <1>1, <2>2, BufferType DEF RelayInv
  <2>6. RelayUp(up'[c], sid, target_got[k], InBuffer(k), s + n)
    BY <1>1, <1>4, <2>3, <2>4, <2>5, UpMore
  <2>7. app_sent'[k] = s + n
    BY <1>1, <1>3 DEF RelayTypes
  <2>8. InBuffer(k)' = InBuffer(k) /\ Listening(k)' = Listening(k)
    BY <1>2 DEF InBuffer, Listening, server, client
  <2>9. QED BY <1>1, <1>2, <1>6, <2>2, <2>6, <2>7, <2>8
        DEF SessionInv, RelayInv, server, target
<1> HIDE DEF items
<1>9. ASSUME NEW j \in Sessions, j # k PROVE SessionInv(j)'
  <2>1. \A i \in Sessions : i # k => Carries(up[i[1]], up'[i[1]], i[2])
    <3>1. up \in [Convs -> Seq(Message)]
      BY <1>3 DEF RelayTypes
    <3>2. QED BY <1>5, <1>6, <3>1, SeenAdded DEF k
  <2>2. \A i \in Sessions : i # k =>
          /\ app_got'[i] = app_got[i] /\ asked'[i] = asked[i] /\ app_sent'[i] = app_sent[i]
    BY <1>1, <1>3, <1>6 DEF RelayTypes
  <2>3. Alone(j)
    BY <1>2, <1>3, <1>9, <2>1, <2>2, ProgramAlone DEF k
  <2>4. QED BY <1>3, <2>3, AloneKept DEF RelayInv
<1>10. QED BY <1>7, <1>8, <1>9, RelayParts

(* A client reads what the server sent.                                    *)
LEMMA RemoteInRelay ==
  ASSUME RelayInv, CrossInv', NEW c \in Convs, RemoteIn(c)
  PROVE  RelayInv'
<1> DEFINE m == Head(down[c])
           sid == m.sid
           to == <<c, sid>>
           e == [from |-> sid, item |-> m.item]
<1>1. /\ down[c] # << >> /\ down' = [down EXCEPT ![c] = Tail(down[c])]
      /\ UNCHANGED <<client, server, up, asked, app_sent, target>>
      /\ IF sid # heartbeat_sid /\ sid \in DOMAIN client_channels_[c]
           THEN ClientWrite(c, sid, m.item)
           ELSE app_got' = app_got
  BY DEF RemoteIn
<1>2. RelayTypes /\ RelayTypes'
  BY TypesOfRelay DEF RelayInv
<1>3. down \in [Convs -> Seq(Message)] /\ down[c] \in Seq(Message)
  BY <1>2 DEF RelayTypes
<1>4. m \in Message /\ m.item \in Item /\ (sid # heartbeat_sid => sid \in Sids) /\ sid = m.sid
  <2>1. m \in Message
    BY <1>1, <1>3
  <2>2. QED BY <2>1 DEF Message
<1>5. RelayRest'
  BY <1>1, RestKept, RelayParts DEF client
<1>6. IF sid \in Sids /\ sid # heartbeat_sid /\ sid \in DOMAIN client_channels_[c] /\ Listening(to)
        THEN app_got' = [app_got EXCEPT ![to] = Append(app_got[to], e)]
        ELSE app_got' = app_got
  <2> HIDE DEF m
  <2>1. CASE sid # heartbeat_sid /\ sid \in DOMAIN client_channels_[c]
    <3>1. sid \in Sids /\ ClientWrite(c, sid, m.item)
      BY <1>1, <1>4, <2>1
    <3>2. IF Listening(to) THEN app_got' = [app_got EXCEPT ![to] = Append(app_got[to], e)]
                          ELSE app_got' = app_got
      BY <2>1, <3>1, WriteIfListening DEF RelayInv
    <3>3. QED BY <2>1, <3>1, <3>2
  <2>2. CASE ~(sid # heartbeat_sid /\ sid \in DOMAIN client_channels_[c])
    BY <1>1, <2>2
  <2>3. QED BY <2>1, <2>2
<1>7. \A j \in Sessions : InBuffer(j)' = InBuffer(j) /\ Listening(j)' = Listening(j)
  BY <1>1 DEF InBuffer, Listening, server, client
<1>11. e = [from |-> sid, item |-> m.item]
  OBVIOUS
<1> HIDE DEF m, e, to, sid
<1>8. ASSUME NEW j \in Sessions, j # to PROVE SessionInv(j)'
  <2>1. Carries(down[j[1]], down'[j[1]], j[2])
    BY <1>1, <1>3, <1>8, SeenTaken DEF to, m, sid
  <2>2. Carries(up[j[1]], up'[j[1]], j[2])
    BY <1>1, <1>2, SeenSame DEF RelayTypes
  <2>3. app_got'[j] = app_got[j]
    BY <1>2, <1>6, <1>8 DEF RelayTypes
  <2>4. Alone(j)
    BY <1>1, <1>7, <2>1, <2>2, <2>3 DEF Alone, server, target
  <2>5. QED BY <1>2, <2>4, AloneKept DEF RelayInv
<1>9. ASSUME NEW k \in Sessions, k = to PROVE SessionInv(k)'
  <2> DEFINE q == down[c]
             got == app_got[k]
             more == Append(got, e)
             sent == target_sent[k]
  <2>1. k[1] = c /\ k[2] = sid /\ sid \in Sids
    BY <1>9 DEF to, Sessions
  <2>2. /\ got \in Seq(Told) /\ sent \in Nat /\ q \in Seq(Message) /\ q # << >>
        /\ Head(q) = m /\ Head(q).sid = sid /\ down'[c] = Tail(q)
    <3>1. got \in Seq(Told) /\ sent \in 0..MaxData
      BY <1>2, <1>9 DEF RelayTypes
    <3>2. Head(q) = m
      BY DEF m
    <3>3. QED BY <1>1, <1>3, <1>4, <3>1, <3>2, SessionBounds
  <2>8. e \in Told /\ e.item = m.item
    BY <1>4, <1>11, <2>1 DEF Told
  <2>3. app_got'[k] = got \/ (Listening(k) /\ app_got'[k] = more)
    BY <1>2, <1>6, <1>9 DEF RelayTypes
  <2>4. e = [from |-> sid, item |-> Head(q).item]
    BY <1>11, <2>2
  <2>5. CASE k \in DOMAIN server_channels_
    <3>1. InOrderAfterOk(got) /\ RelayDown(q, sid, got, sent)
      BY <1>9, <2>1, <2>5 DEF RelayInv, SessionInv
    <3>2. Listening(k) => Following(q, sid, got, sent)
      BY <1>9, <2>1, <2>5 DEF RelayInv, SessionInv
    <3> HIDE DEF q, got, sent
    <3>3. /\ \A o : RelayDown(Tail(q), sid, o, sent)
          /\ Following(q, sid, got, sent) =>
               Following(Tail(q), sid, more, sent) /\ InOrderAfterOk(more)
      BY <2>1, <2>2, <2>4, <3>1, DownTaken
    <3> HIDE DEF more
    <3>4. InOrderAfterOk(app_got'[k])
      BY <2>3, <3>1, <3>2, <3>3
    <3>5. Listening(k) => app_got'[k] = more
      <4>1. sid \in DOMAIN client_channels_[c]
        BY <1>9, <2>1, <2>5 DEF RelayInv, SessionInv
      <4>2. sid # heartbeat_sid
        BY <2>1, SidAssumption DEF heartbeat_sid
      <4>3. QED BY <1>2, <1>6, <1>9, <2>1, <4>1, <4>2 DEF RelayTypes, more, got
    <3>6. Listening(k) => Following(Tail(q), sid, app_got'[k], sent)
      BY <3>2, <3>3, <3>5
    <3>7. /\ asked[k] = "request" /\ RelayUp(up[c], sid, target_got[k], InBuffer(k), app_sent[k])
      BY <1>9, <2>1, <2>5 DEF RelayInv, SessionInv
    <3>8. QED BY <1>1, <1>7, <1>9, <2>1, <2>2, <2>5, <3>3, <3>4, <3>6, <3>7
          DEF SessionInv, server, target, sent
  <2>6. CASE k \notin DOMAIN server_channels_
    <3>1. /\ InOrderAfterOk(got) /\ ~ToldOk(got) /\ RelayIdle(up[c], q, sid, asked[k])
          /\ target_got[k] = << >> /\ app_sent[k] = 0 /\ target_sent[k] = 0
      BY <1>9, <2>1, <2>6 DEF RelayInv, SessionInv
    <3> HIDE DEF q, got
    <3>2. 1 \in DOMAIN q /\ Head(q) = q[1]
      BY <2>2, TailAt
    <3>3. e.item # Say("ok")
      <4>1. m.item.kind # "ok"
        BY <2>2, <3>1, <3>2 DEF RelayIdle, Says
      <4>2. QED BY <2>8, <4>1 DEF Say
    <3>4. ~ToldOk(more) /\ InOrderAfterOk(more)
      BY <2>2, <2>8, <3>1, <3>3, WordTold
    <3> HIDE DEF more
    <3>5. ~ToldOk(app_got'[k]) /\ InOrderAfterOk(app_got'[k])
      BY <2>3, <3>1, <3>4
    <3>6. /\ \A kind : Says(Tail(q), sid, kind) => Says(q, sid, kind)
          /\ Silent(q, sid) => Silent(Tail(q), sid)
      BY <2>2, TakenWords
    <3>7. RelayIdle(up[c], Tail(q), sid, asked[k])
      BY <3>1, <3>6 DEF RelayIdle
    <3>8. /\ k \notin DOMAIN server_channels_' /\ up'[k[1]] = up[c] /\ down'[k[1]] = Tail(q)
          /\ asked'[k] = asked[k] /\ target_got'[k] = << >> /\ app_sent'[k] = 0
          /\ target_sent'[k] = 0
      BY <1>1, <2>1, <2>2, <2>6, <3>1 DEF server, target
    <3>9. QED BY <2>1, <3>5, <3>7, <3>8 DEF SessionInv
  <2>7. QED BY <2>5, <2>6
<1>12. \A j \in Sessions : SessionInv(j)'
  BY <1>8, <1>9
<1>10. QED BY <1>5, <1>12, RelayParts

(* The server takes a message.                                             *)
LEMMA TakenByServer ==
  ASSUME RelayInv, NEW c \in Convs, NEW b, NEW state, ServerIn(c, b, state),
         NEW sid, sid = Head(up[c]).sid
  PROVE  /\ up[c] # << >> /\ up[c] \in Seq(Message) /\ up' = [up EXCEPT ![c] = Tail(up[c])]
         /\ Head(up[c]) \in Message /\ sid \in Sids \cup {heartbeat_sid}
         /\ UNCHANGED <<client, convs, program, target_sent>>
         /\ \A j \in Sessions : /\ j # <<c, sid>> => Carries(up[j[1]], up'[j[1]], j[2])
                                /\ Listening(j)' = Listening(j)
         /\ up'[c] = Tail(up[c])
<1>1. up \in [Convs -> Seq(Message)]
  BY TypesOfRelay DEF RelayInv, RelayTypes
<1>2. /\ up[c] # << >> /\ up' = [up EXCEPT ![c] = Tail(up[c])]
      /\ UNCHANGED <<client, convs, program, target_sent>>
  BY DEF ServerIn
<1>3. up[c] \in Seq(Message) /\ Head(up[c]) \in Message /\ up'[c] = Tail(up[c])
  BY <1>1, <1>2
<1>4. sid \in Sids \cup {heartbeat_sid}
  BY <1>3 DEF Message
<1>5. \A j \in Sessions : j # <<c, sid>> => Carries(up[j[1]], up'[j[1]], j[2])
  BY <1>1, <1>2, SeenTaken
<1>6. \A j \in Sessions : Listening(j)' = Listening(j)
  BY <1>2 DEF Listening, client
<1>7. QED BY <1>2, <1>3, <1>4, <1>5, <1>6

LEMMA HeartbeatTaken ==
  ASSUME RelayInv, CrossInv', NEW c \in Convs, NEW b, NEW state, ServerIn(c, b, state),
         Head(up[c]).sid = heartbeat_sid
  PROVE  RelayInv'
<1>1. UNCHANGED <<server_heap, server_channels_, down, target_got>>
  BY DEF ServerIn
<1>2. /\ UNCHANGED <<client, convs, program, target_sent>>
      /\ \A j \in Sessions : /\ j # <<c, heartbeat_sid>> => Carries(up[j[1]], up'[j[1]], j[2])
                             /\ Listening(j)' = Listening(j)
  BY TakenByServer
<1>3. RelayTypes /\ RelayTypes'
  BY TypesOfRelay DEF RelayInv
<1>4. RelayRest'
  BY <1>1, <1>2, RestKept, RelayParts DEF server, program, client
<1>5. ASSUME NEW k \in Sessions PROVE SessionInv(k)'
  <2>1. k # <<c, heartbeat_sid>>
    BY SidAssumption DEF Sessions, heartbeat_sid
  <2>2. Carries(down[k[1]], down'[k[1]], k[2])
    BY <1>1, <1>3, SeenSame DEF RelayTypes
  <2>3. InBuffer(k)' = InBuffer(k)
    BY <1>1 DEF InBuffer
  <2>4. Alone(k)
    BY <1>1, <1>2, <2>1, <2>2, <2>3 DEF Alone, program
  <2>5. QED BY <1>3, <2>4, AloneKept DEF RelayInv
<1>6. QED BY <1>4, <1>5, RelayParts

(* The channel of one session is no other's.                               *)
LEMMA OneChannelEach ==
  ASSUME RelayInv, NEW k \in Sessions, NEW j \in Sessions, j # k,
         k \in DOMAIN server_channels_, j \in DOMAIN server_channels_
  PROVE  server_channels_[j] # server_channels_[k]
<1>1. /\ server_heap[server_channels_[k]].conv = k[1]
      /\ server_heap[server_channels_[k]].sid = k[2]
      /\ server_heap[server_channels_[j]].conv = j[1]
      /\ server_heap[server_channels_[j]].sid = j[2]
  BY BufferType DEF RelayInv
<1>2. j = <<j[1], j[2]>> /\ k = <<k[1], k[2]>>
  BY DEF Sessions
<1>3. QED BY <1>1, <1>2

(* A step of the channel of session k.                                     *)
LEMMA ChannelAlone ==
  ASSUME RelayInv, NEW k \in Sessions, k \in DOMAIN server_channels_,
         UNCHANGED <<client, program, server_channels_>>,
         \A a \in DOMAIN server_heap : a # server_channels_[k] => server_heap'[a] = server_heap[a],
         NEW j \in Sessions, j # k,
         target_got'[j] = target_got[j], target_sent'[j] = target_sent[j],
         Carries(up[j[1]], up'[j[1]], j[2]), Carries(down[j[1]], down'[j[1]], j[2])
  PROVE  Alone(j)
<1>1. InBuffer(j)' = InBuffer(j)
  <2>1. CASE j \in DOMAIN server_channels_
    <3>1. server_channels_[j] # server_channels_[k] /\ server_channels_[j] \in DOMAIN server_heap
      BY <2>1, OneChannelEach, BufferType DEF RelayInv
    <3>2. server_heap'[server_channels_[j]] = server_heap[server_channels_[j]]
      BY <3>1
    <3>3. Key(j[1], j[2]) = j
      BY DEF Key, Sessions
    <3>4. QED BY <3>2, <3>3 DEF InBuffer
  <2>2. CASE j \notin DOMAIN server_channels_
    <3>1. Key(j[1], j[2]) = j
      BY DEF Key, Sessions
    <3>2. QED BY <2>2, <3>1 DEF InBuffer
  <2>3. QED BY <2>1, <2>2
<1>2. Listening(j)' = Listening(j)
  BY DEF Listening, client
<1>3. QED BY <1>1, <1>2 DEF Alone, program

(* A channel that is written to, or comes up, keeps its place.             *)
LEMMA ChannelsKept ==
  ASSUME RelayInv, UNCHANGED <<client, convs, program, server_channels_>>,
         NEW a \in DOMAIN server_heap, DOMAIN server_heap' = DOMAIN server_heap,
         \A b \in DOMAIN server_heap : b # a => server_heap'[b] = server_heap[b],
         server_heap'[a].conv = server_heap[a].conv, server_heap'[a].sid = server_heap[a].sid,
         server_heap'[a].state # "closed",
         server_heap'[a].state = "up" => server_heap'[a].send_buffer_ = << >>
  PROVE  RelayRest'
<1>1. \A b \in DOMAIN server_heap' : ChannelKeyed(b)'
  <2>1. ASSUME NEW b \in DOMAIN server_heap PROVE ChannelKeyed(b)'
    <3>1. ChannelKeyed(b)
      BY DEF RelayInv
    <3>2. CASE b = a
      BY <3>1, <3>2 DEF ChannelKeyed
    <3>3. CASE b # a
      BY <3>1, <3>3 DEF ChannelKeyed
    <3>4. QED BY <3>2, <3>3
  <2>2. QED BY <2>1
<1>2. QED BY <1>1 DEF RelayRest, RelayInv, client, program

(* A served session of which the way up changed only.                      *)
LEMMA ServedKept ==
  ASSUME RelayInv, NEW k \in Sessions, k \in DOMAIN server_channels_,
         UNCHANGED <<server_channels_, asked, app_sent, app_got, down, target_sent>>,
         Listening(k)' = Listening(k),
         RelayUp(up'[k[1]], k[2], target_got'[k], InBuffer(k)', app_sent[k])
  PROVE  SessionInv(k)'
<1>1. /\ InOrderAfterOk(app_got[k]) /\ asked[k] = "request"
      /\ RelayDown(down[k[1]], k[2], app_got[k], target_sent[k])
      /\ Listening(k) => Following(down[k[1]], k[2], app_got[k], target_sent[k])
  BY DEF RelayInv, SessionInv
<1>2. QED BY <1>1 DEF SessionInv

LEMMA PieceServed ==
  ASSUME RelayInv, CrossInv', NEW c \in Convs, NEW b, NEW state, ServerIn(c, b, state),
         NEW k \in Sessions, k = <<c, Head(up[c]).sid>>, k \in DOMAIN server_channels_
  PROVE  RelayInv'
<1> DEFINE q == up[c]
           sid == k[2]
           item == Head(up[c]).item
           a == server_channels_[k]
           h == server_heap[a]
           got == target_got[k]
           buffer == h.send_buffer_
           sent == app_sent[k]
<1>1. k[1] = c /\ sid = Head(up[c]).sid /\ sid \in Sids /\ Key(c, sid) = k /\ sid # heartbeat_sid
  BY SidAssumption DEF Sessions, Key, heartbeat_sid
<1>2. /\ q # << >> /\ q \in Seq(Message) /\ up'[c] = Tail(q)
      /\ UNCHANGED <<client, convs, program, target_sent>>
      /\ Head(up[c]) \in Message
      /\ \A j \in Sessions : /\ j # k => Carries(up[j[1]], up'[j[1]], j[2])
                             /\ Listening(j)' = Listening(j)
  BY <1>1, TakenByServer
<1>3. /\ UNCHANGED <<server_channels_, down>> /\ ServerWrite(a, k, item)
  BY <1>1 DEF ServerIn
<1>4. /\ a \in DOMAIN server_heap /\ h \in Held /\ h.state # "closed"
      /\ h.conv = c /\ h.sid = sid /\ InBuffer(k) = buffer /\ buffer \in Seq(Item)
  BY <1>1, BufferType DEF RelayInv
<1>5. RelayTypes /\ RelayTypes'
  BY TypesOfRelay DEF RelayInv
<1>6. item \in Item /\ got \in Seq(Got) /\ sent \in Nat /\ Head(q).item = item
  <2>1. item \in Item
    BY <1>2 DEF Message
  <2>2. got \in Seq(Got) /\ sent \in 0..MaxData
    BY <1>5 DEF RelayTypes
  <2>3. QED BY <2>1, <2>2, SessionBounds
<1>7. RelayUp(q, sid, got, buffer, sent)
  BY <1>1, <1>4 DEF RelayInv, SessionInv
<1>8. RelayUp(Tail(q), sid, got, Append(buffer, item), sent)
  <2> HIDE DEF q, sid, got, buffer, sent, item
  <2>1. Head(q).sid = sid
    BY <1>1 DEF q
  <2>2. QED BY <1>2, <1>4, <1>6, <1>7, <2>1, UpTaken
<1>9. ChannelKeyed(a)
  BY <1>4 DEF RelayInv
<1>10. CASE h.state = "up"
  <2> DEFINE all == got \o Arriving(k, <<item>>)
  <2>1. /\ server_heap' = server_heap
        /\ target_got' = [target_got EXCEPT ![k] = all]
    BY <1>1, <1>3, <1>4, <1>10 DEF ServerWrite, Reach, Arriving
  <2>2. buffer = << >>
    BY <1>9, <1>10 DEF ChannelKeyed
  <2>3. Append(buffer, item) = <<item>> /\ <<item>> \in Seq(Item)
    <3> HIDE DEF item, buffer
    <3>1. QED BY <1>6, <2>2
  <2>4. RelayUp(Tail(q), sid, all, << >>, sent)
    <3> HIDE DEF item, q, sid, got, sent, buffer
    <3>1. RelayUp(Tail(q), sid, got, <<item>>, sent)
      BY <1>8, <2>3
    <3>2. QED BY <1>6, <2>3, <3>1, UpReached
  <2>5. target_got'[k] = all /\ \A j \in Sessions : j # k => target_got'[j] = target_got[j]
    BY <1>5, <2>1 DEF RelayTypes
  <2> HIDE DEF all
  <2>6. InBuffer(k)' = << >>
    BY <1>3, <1>4, <2>1, <2>2 DEF InBuffer
  <2>7. RelayRest'
    BY <1>2, <1>3, <2>1, RestKept, RelayParts DEF server, program, client
  <2>8. SessionInv(k)'
    BY <1>1, <1>2, <1>3, <2>4, <2>5, <2>6, ServedKept DEF program
  <2>9. ASSUME NEW j \in Sessions, j # k PROVE SessionInv(j)'
    <3>1. Carries(down[j[1]], down'[j[1]], j[2])
      BY <1>3, <1>5, SeenSame DEF RelayTypes
    <3>2. Alone(j)
      BY <1>2, <1>3, <2>1, <2>5, <2>9, <3>1, ChannelAlone
    <3>3. QED BY <1>5, <3>2, AloneKept DEF RelayInv
  <2>10. QED BY <2>7, <2>8, <2>9, RelayParts
<1>11. CASE h.state # "up"
  <2> DEFINE more == Append(buffer, item)
  <2>1. /\ target_got' = target_got
        /\ server_heap' = [server_heap EXCEPT ![a].send_buffer_ = more]
    BY <1>3, <1>4, <1>11 DEF ServerWrite, Buffered
  <2>2. server_heap'[a] = [h EXCEPT !.send_buffer_ = more]
    BY <1>4, <2>1
  <2>3. /\ server_heap'[a].conv = h.conv /\ server_heap'[a].sid = h.sid
        /\ server_heap'[a].state = h.state /\ server_heap'[a].send_buffer_ = more
    <3> HIDE DEF h, more
    <3>1. QED BY <1>4, <2>2 DEF Held
  <2>4. /\ DOMAIN server_heap' = DOMAIN server_heap
        /\ \A d \in DOMAIN server_heap : d # a => server_heap'[d] = server_heap[d]
    BY <2>1
  <2> HIDE DEF more
  <2>5. RelayRest'
    BY <1>2, <1>3, <1>4, <1>11, <2>3, <2>4, ChannelsKept
  <2>6. InBuffer(k)' = more
    BY <1>1, <1>3, <2>3 DEF InBuffer
  <2>7. SessionInv(k)'
    BY <1>1, <1>2, <1>3, <1>8, <2>1, <2>6, ServedKept DEF program, more
  <2>8. ASSUME NEW j \in Sessions, j # k PROVE SessionInv(j)'
    <3>1. Carries(down[j[1]], down'[j[1]], j[2])
      BY <1>3, <1>5, SeenSame DEF RelayTypes
    <3>2. Alone(j)
      BY <1>2, <1>3, <2>1, <2>4, <2>8, <3>1, ChannelAlone
    <3>3. QED BY <1>5, <3>2, AloneKept DEF RelayInv
  <2>9. QED BY <2>5, <2>7, <2>8, RelayParts
<1>12. QED BY <1>10, <1>11

(* The channel of a session is found under its key.                        *)
LEMMA KeyOfChannel ==
  ASSUME RelayInv, NEW a \in DOMAIN server_heap, NEW k, k = <<server_heap[a].conv, server_heap[a].sid>>
  PROVE  /\ k \in Sessions /\ k \in DOMAIN server_channels_ /\ server_channels_[k] = a
         /\ k[1] = server_heap[a].conv /\ k[2] = server_heap[a].sid /\ Key(k[1], k[2]) = k
         /\ server_heap[a] \in Held
         /\ server_heap[a].state = "up" => server_heap[a].send_buffer_ = << >>
<1>1. server_heap[a] \in Held
  BY DEF RelayInv, CrossInv, IsolationInv, WayTypes
<1>2. ChannelKeyed(a)
  BY DEF RelayInv
<1>3. QED BY <1>1, <1>2 DEF ChannelKeyed, Held, Sessions, Key

LEMMA TargetUpRelay ==
  ASSUME RelayInv, CrossInv', NEW a \in Addresses, TargetUp(a)
  PROVE  RelayInv'
<1> DEFINE h == server_heap[a]
           buffer == h.send_buffer_
<1>1. PICK k : k = <<h.conv, h.sid>>
  OBVIOUS
<1>2. a \in DOMAIN server_heap
  BY DEF TargetUp
<1>3. /\ k \in Sessions /\ k \in DOMAIN server_channels_ /\ server_channels_[k] = a
      /\ k[1] = h.conv /\ k[2] = h.sid /\ Key(k[1], k[2]) = k /\ h \in Held
  BY <1>1, <1>2, KeyOfChannel
<1> DEFINE got == target_got[k]
           all == got \o Arriving(k, buffer)
<1>4. /\ server_heap' = [server_heap EXCEPT ![a].state = "up", ![a].send_buffer_ = << >>]
      /\ target_got' = [target_got EXCEPT ![k] = all]
      /\ UNCHANGED <<client, convs, server_channels_, up, down, program, target_sent>>
  BY <1>1 DEF TargetUp, Reach, Arriving
<1>5. RelayTypes /\ RelayTypes'
  BY TypesOfRelay DEF RelayInv
<1>6. target_got'[k] = all /\ \A j \in Sessions : j # k => target_got'[j] = target_got[j]
  BY <1>3, <1>4, <1>5 DEF RelayTypes
<1>7. /\ DOMAIN server_heap' = DOMAIN server_heap
      /\ \A b \in DOMAIN server_heap : b # a => server_heap'[b] = server_heap[b]
      /\ server_heap'[a] = [h EXCEPT !.state = "up", !.send_buffer_ = << >>]
  BY <1>2, <1>4
<1>8. /\ server_heap'[a].conv = h.conv /\ server_heap'[a].sid = h.sid
      /\ server_heap'[a].state = "up" /\ server_heap'[a].send_buffer_ = << >>
  <2> HIDE DEF h
  <2>1. QED BY <1>3, <1>7 DEF Held
<1>9. RelayRest'
  BY <1>2, <1>4, <1>7, <1>8, ChannelsKept
<1>10. InBuffer(k) = buffer /\ InBuffer(k)' = << >> /\ buffer \in Seq(Item)
  BY <1>3, <1>4, <1>8 DEF InBuffer, Held
<1>11. RelayUp(up[k[1]], k[2], got, buffer, app_sent[k])
  BY <1>3, <1>10 DEF RelayInv, SessionInv
<1>12. RelayUp(up[k[1]], k[2], all, << >>, app_sent[k])
  <2>1. got \in Seq(Got)
    BY <1>3, <1>5 DEF RelayTypes
  <2> HIDE DEF got, buffer
  <2>2. QED BY <1>3, <1>10, <1>11, <2>1, UpReached
<1> HIDE DEF all
<1>13. \A j \in Sessions : Listening(j)' = Listening(j)
  BY <1>4 DEF Listening, client
<1>14. SessionInv(k)'
  BY <1>3, <1>4, <1>6, <1>10, <1>12, <1>13, ServedKept DEF program
<1>15. ASSUME NEW j \in Sessions, j # k PROVE SessionInv(j)'
  <2>1. Carries(up[j[1]], up'[j[1]], j[2]) /\ Carries(down[j[1]], down'[j[1]], j[2])
    BY <1>4, <1>5, SeenSame DEF RelayTypes
  <2>2. Alone(j)
    BY <1>3, <1>4, <1>6, <1>7, <1>15, <2>1, ChannelAlone
  <2>3. QED BY <1>5, <2>2, AloneKept DEF RelayInv
<1>16. QED BY <1>9, <1>14, <1>15, RelayParts

LEMMA TargetSendsRelay ==
  ASSUME RelayInv, CrossInv', NEW a \in Addresses, NEW n \in 1..MaxRead, TargetSends(a, n)
  PROVE  RelayInv'
<1> DEFINE h == server_heap[a]
<1>1. PICK k : k = <<h.conv, h.sid>>
  OBVIOUS
<1>2. a \in DOMAIN server_heap
  BY DEF TargetSends
<1>3. /\ k \in Sessions /\ k \in DOMAIN server_channels_ /\ server_channels_[k] = a
      /\ k[1] = h.conv /\ k[2] = h.sid /\ k[1] \in Convs /\ k[2] \in Sids
      /\ k = <<k[1], k[2]>>
  BY <1>1, <1>2, KeyOfChannel DEF Sessions
<1> DEFINE sent == target_sent[k]
           items == Data(sent + 1, n)
           q == down[k[1]]
           r == q \o Addressed(k[2], items)
<1>4. /\ UNCHANGED <<client, server, up, program, target_got>>
      /\ target_sent' = [target_sent EXCEPT ![k] = sent + n] /\ sent + n <= MaxData
      /\ down' = [down EXCEPT ![k[1]] = r]
  BY <1>1, <1>3 DEF TargetSends, SendDown, RelayInv
<1>5. RelayTypes /\ RelayTypes'
  BY TypesOfRelay DEF RelayInv
<1>6. /\ sent \in Nat /\ n \in Nat /\ q \in Seq(Message) /\ app_got[k] \in Seq(Told)
      /\ down'[k[1]] = r /\ target_sent'[k] = sent + n
      /\ \A j \in Sessions : j # k => target_sent'[j] = target_sent[j]
  <2>1. /\ sent \in 0..MaxData /\ q \in Seq(Message) /\ app_got[k] \in Seq(Told)
        /\ down \in [Convs -> Seq(Message)] /\ target_sent \in [Sessions -> 0..MaxData]
    BY <1>3, <1>5 DEF RelayTypes
  <2> HIDE DEF r, sent
  <2>2. QED BY <1>3, <1>4, <2>1, SessionBounds
<1>7. items \in Seq(Item)
  BY <1>4, <1>6, DataType
<1>8. /\ InOrderAfterOk(app_got[k]) /\ asked[k] = "request"
      /\ RelayUp(up[k[1]], k[2], target_got[k], InBuffer(k), app_sent[k])
      /\ RelayDown(q, k[2], app_got[k], sent)
      /\ Listening(k) => Following(q, k[2], app_got[k], sent)
  BY <1>3 DEF RelayInv, SessionInv
<1>9. /\ RelayDown(r, k[2], app_got[k], sent + n)
      /\ Following(q, k[2], app_got[k], sent) => Following(r, k[2], app_got[k], sent + n)
  <2> HIDE DEF q, sent
  <2>1. QED BY <1>3, <1>4, <1>6, <1>8, DownMore
<1>10. \A j \in Sessions : InBuffer(j)' = InBuffer(j) /\ Listening(j)' = Listening(j)
  BY <1>4 DEF InBuffer, Listening, client, server
<1> HIDE DEF r, items
<1>11. RelayRest'
  BY <1>4, RestKept, RelayParts DEF program, client
<1>12. SessionInv(k)'
  BY <1>3, <1>4, <1>6, <1>8, <1>9, <1>10 DEF SessionInv, server, program
<1>13. ASSUME NEW j \in Sessions, j # k PROVE SessionInv(j)'
  <2>1. Carries(down[j[1]], down'[j[1]], j[2])
    <3>1. down \in [Convs -> Seq(Message)] /\ k[2] \in Sids \cup {heartbeat_sid}
      BY <1>3, <1>5 DEF RelayTypes
    <3>2. QED BY <1>3, <1>4, <1>7, <1>13, <3>1, SeenAdded DEF r, q
  <2>2. Carries(up[j[1]], up'[j[1]], j[2])
    BY <1>4, <1>5, SeenSame DEF RelayTypes
  <2>3. Alone(j)
    BY <1>4, <1>6, <1>10, <1>13, <2>1, <2>2 DEF Alone, server, program
  <2>4. QED BY <1>5, <2>3, AloneKept DEF RelayInv
<1>14. QED BY <1>11, <1>12, <1>13, RelayParts

(* A session without a channel whose request is the head of the tunnel.    *)
LEMMA RequestTaken ==
  ASSUME RelayInv, NEW c \in Convs, NEW b, NEW state, ServerIn(c, b, state),
         NEW k \in Sessions, k = <<c, Head(up[c]).sid>>, k \notin DOMAIN server_channels_
  PROVE  /\ Silent(up'[c], k[2]) /\ Silent(down[c], k[2]) /\ asked[k] = "request"
         /\ NewRequest(c, k[2], Head(up[c]).item, b, state)
         /\ UNCHANGED target_got
<1>1. k[1] = c /\ k[2] = Head(up[c]).sid /\ k[2] \in Sids /\ Key(c, k[2]) = k /\ k[2] # heartbeat_sid
  BY SidAssumption DEF Sessions, Key, heartbeat_sid
<1>2. up[c] # << >> /\ up[c] \in Seq(Message) /\ up'[c] = Tail(up[c])
  BY TakenByServer
<1>3. 1 \in DOMAIN up[c] /\ Head(up[c]) = up[c][1]
  BY <1>2, TailAt
<1>4. asked[k] \in {"nothing", "hello", "request"} /\ RelayIdle(up[c], down[c], k[2], asked[k])
  BY <1>1 DEF RelayInv, SessionInv
<1>5. ~Silent(up[c], k[2])
  BY <1>1, <1>3 DEF Silent
<1>6. Silent(down[c], k[2]) /\ asked[k] = "request"
  BY <1>4, <1>5 DEF RelayIdle
<1>7. Silent(up'[c], k[2])
  BY <1>1, <1>2, <1>4, TakenWords DEF RelayIdle
<1>8. NewRequest(c, k[2], Head(up[c]).item, b, state) /\ UNCHANGED target_got
  BY <1>1 DEF ServerIn
<1>9. QED BY <1>6, <1>7, <1>8

\* The answer enters a tunnel that was silent.
LEMMA AnswerSent ==
  ASSUME NEW q \in Seq(Message), NEW sid \in Sids, NEW kind, Say(kind) \in Item,
         Silent(q, sid)
  PROVE  AnsweredBy(q \o Addressed(sid, <<Say(kind)>>), sid, kind)
<1> DEFINE item == Say(kind)
           r == q \o Addressed(sid, <<item>>)
<1>1. item.kind = kind
  BY DEF Say
<1> HIDE DEF item
<1>2. /\ \A i \in DOMAIN q : i \in DOMAIN r /\ r[i] = q[i]
      /\ \A i \in DOMAIN r : \/ i \in DOMAIN q
                             \/ i = Len(q) + 1 /\ r[i].sid = sid /\ r[i].item = item
      /\ Len(q) + 1 \in DOMAIN r /\ r[Len(q) + 1].sid = sid /\ r[Len(q) + 1].item = item
  <2>1. item \in Item
    BY DEF item
  <2>2. WordAdded(q, r, sid, item)
    BY <2>1, AddedWord
  <2> HIDE DEF r
  <2>3. QED BY <2>2 DEF WordAdded
<1> HIDE DEF r
<1>3. /\ \A i \in DOMAIN r : r[i].sid = sid => r[i].item = item
      /\ \A i, j \in DOMAIN r : r[i].sid = sid /\ r[j].sid = sid => i = j
  BY <1>2 DEF Silent
<1>4. \A i \in DOMAIN r : r[i].sid = sid => r[i].item.kind = kind
  BY <1>1, <1>3
<1>5. \E i \in DOMAIN r : r[i].sid = sid /\ r[i].item.kind = kind
  BY <1>1, <1>2
<1>6. \A other : Says(r, sid, other) <=> other = kind
  BY <1>4, <1>5 DEF Says
<1>7. AnsweredBy(r, sid, kind)
  BY <1>3, <1>6 DEF AnsweredBy, item
<1>8. QED BY <1>7 DEF r, item

(* What a request leaves to other sessions.                                *)
LEMMA RequestAlone ==
  ASSUME RelayInv, NEW k \in Sessions, NEW b, NEW h, UNCHANGED <<client, program, target>>,
         \/ server_heap' = server_heap /\ server_channels_' = server_channels_
         \/ /\ b \notin DOMAIN server_heap
            /\ server_heap' = Put(server_heap, b, h)
            /\ server_channels_' = Put(server_channels_, k, b),
         NEW j \in Sessions, j # k,
         Carries(up[j[1]], up'[j[1]], j[2]), Carries(down[j[1]], down'[j[1]], j[2])
  PROVE  Alone(j)
<1>1. Key(j[1], j[2]) = j
  BY DEF Key, Sessions
<1>2. j \in DOMAIN server_channels_' <=> j \in DOMAIN server_channels_
  BY DEF Put
<1>3. InBuffer(j)' = InBuffer(j)
  <2>1. CASE j \in DOMAIN server_channels_
    <3>1. server_channels_[j] \in DOMAIN server_heap
      BY <2>1, BufferType DEF RelayInv
    <3>2. /\ server_channels_'[j] = server_channels_[j]
          /\ server_heap'[server_channels_[j]] = server_heap[server_channels_[j]]
      BY <2>1, <3>1 DEF Put
    <3>3. QED BY <1>1, <1>2, <3>2 DEF InBuffer
  <2>2. CASE j \notin DOMAIN server_channels_
    BY <1>1, <1>2, <2>2 DEF InBuffer
  <2>3. QED BY <2>1, <2>2
<1>4. Listening(j)' = Listening(j)
  BY DEF Listening, client
<1>5. QED BY <1>2, <1>3, <1>4 DEF Alone, program, target

LEMMA RequestServed ==
  ASSUME RelayInv, CrossInv', NEW c \in Convs, NEW b, NEW state \in {"connecting", "up"},
         ServerIn(c, b, state),
         NEW k \in Sessions, k = <<c, Head(up[c]).sid>>, k \notin DOMAIN server_channels_
  PROVE  RelayInv'
<1> DEFINE sid == k[2]
           item == Head(up[c]).item
           h == [conv |-> c, sid |-> sid, state |-> state, send_buffer_ |-> << >>]
           q == down[c]
           Answer(kind) == q \o Addressed(sid, <<Say(kind)>>)
<1>1. k[1] = c /\ sid = Head(up[c]).sid /\ sid \in Sids /\ Key(c, sid) = k /\ k = <<c, sid>>
  BY DEF Sessions, Key
<1>2. /\ up'[c] = Tail(up[c]) /\ UNCHANGED <<client, convs, program, target_sent>>
      /\ up[c] # << >> /\ up[c] \in Seq(Message)
      /\ \A j \in Sessions : /\ j # k => Carries(up[j[1]], up'[j[1]], j[2])
                             /\ Listening(j)' = Listening(j)
  BY <1>1, TakenByServer
<1>3. /\ Silent(up'[c], sid) /\ Silent(q, sid) /\ asked[k] = "request"
      /\ NewRequest(c, sid, item, b, state) /\ target_got' = target_got
  BY RequestTaken
<1>4. /\ target_got[k] = << >> /\ app_sent[k] = 0 /\ target_sent[k] = 0
      /\ ~ToldOk(app_got[k]) /\ InOrderAfterOk(app_got[k])
  BY DEF RelayInv, SessionInv
<1>5. RelayTypes /\ RelayTypes'
  BY TypesOfRelay DEF RelayInv
<1>6. /\ q \in Seq(Message) /\ up'[c] \in Seq(Message) /\ down'[c] \in Seq(Message)
      /\ down \in [Convs -> Seq(Message)]
  BY <1>5 DEF RelayTypes
<1>7. Say("ok") \in Item /\ Say("fail") \in Item
  BY SayType DEF Phrase
<1> HIDE DEF sid, item, q
<1>8. \A kind : Says(up'[c], sid, kind) => FALSE
  BY <1>3 DEF Says, Silent
<1>9. ASSUME NEW kind \in {"ok", "fail"},
             down' = [down EXCEPT ![c] = q \o Addressed(sid, <<Say(kind)>>)]
      PROVE  /\ down'[c] = Answer(kind)
             /\ \A j \in Sessions : j # k => Carries(down[j[1]], down'[j[1]], j[2])
  <2> DEFINE items == <<Say(kind)>>
  <2>1. items \in Seq(Item)
    BY <1>7
  <2>2. down' = [down EXCEPT ![c] = down[c] \o Addressed(sid, items)]
    BY <1>9 DEF q
  <2> HIDE DEF items
  <2>3. \A j \in Sessions : j # k => Carries(down[j[1]], down'[j[1]], j[2])
    <3>1. sid \in Sids \cup {heartbeat_sid}
      BY <1>1
    <3>2. QED BY <1>1, <1>6, <2>1, <2>2, <3>1, SeenAdded
  <2>4. QED BY <1>6, <1>9, <2>3
<1>10. CASE item.kind = "request"
  <2>1. /\ b \notin DOMAIN server_heap
        /\ server_heap' = Put(server_heap, b, h)
        /\ server_channels_' = Put(server_channels_, k, b)
        /\ down' = [down EXCEPT ![c] = q \o Addressed(sid, <<Say("ok")>>)]
    BY <1>1, <1>3, <1>10 DEF NewRequest, SendDown, Response, RelayInv, q
  <2> DEFINE r == Answer("ok")
  <2>2. /\ down'[c] = r
        /\ \A j \in Sessions : j # k => Carries(down[j[1]], down'[j[1]], j[2])
    BY <1>9, <2>1
  <2>3. /\ \A i \in DOMAIN r : r[i].sid = sid => r[i].item = Say("ok")
        /\ \A i, j \in DOMAIN r : r[i].sid = sid /\ r[j].sid = sid => i = j
        /\ \A other : Says(r, sid, other) <=> other = "ok"
    <3>1. AnsweredBy(r, sid, "ok")
      BY <1>1, <1>3, <1>6, <1>7, AnswerSent
    <3> HIDE DEF r
    <3>2. QED BY <3>1 DEF AnsweredBy
  <2> HIDE DEF r
  <2>4. /\ server_heap'[b] = h /\ DOMAIN server_heap' = DOMAIN server_heap \cup {b}
        /\ \A d \in DOMAIN server_heap : server_heap'[d] = server_heap[d] /\ d # b
        /\ server_channels_'[k] = b /\ DOMAIN server_channels_' = DOMAIN server_channels_ \cup {k}
        /\ \A j \in DOMAIN server_channels_ :
             server_channels_'[j] = server_channels_[j] /\ j # k
    BY <2>1 DEF Put
  <2>5. h.conv = c /\ h.sid = sid /\ h.state = state /\ h.send_buffer_ = << >>
    OBVIOUS
  <2> HIDE DEF h
  <2>6. RelayRest'
    <3>1. ASSUME NEW d \in DOMAIN server_heap' PROVE ChannelKeyed(d)'
      <4>1. CASE d = b
        BY <1>1, <2>4, <2>5, <4>1 DEF ChannelKeyed
      <4>2. CASE d \in DOMAIN server_heap
        <5>1. ChannelKeyed(d)
          BY <4>2 DEF RelayInv
        <5>2. QED BY <2>4, <4>2, <5>1 DEF ChannelKeyed
      <4>3. QED BY <2>4, <4>1, <4>2
    <3>2. QED BY <1>2, <3>1 DEF RelayRest, RelayInv, client, program
  <2>7. SessionInv(k)'
    <3>1. InBuffer(k)' = << >>
      BY <1>1, <2>4, <2>5 DEF InBuffer
    <3>2. Flowing(up'[c], sid, 0, 0) /\ Flowing(down'[c], sid, 0, 0)
      BY <1>6, <1>8, <2>2, <2>3, NoneFlowing
    <3>3. RelayUp(up'[c], sid, << >>, << >>, 0)
      <4>1. Len(<< >>) + Len(<< >>) = 0 /\ DOMAIN << >> = {}
        OBVIOUS
      <4>2. QED BY <1>3, <3>2, <4>1 DEF RelayUp, Silent
    <3>4. RelayDown(down'[c], sid, app_got[k], 0)
      <4>1. OkFirst(r, sid)
        BY <2>3 DEF OkFirst
      <4>2. QED BY <1>4, <2>2, <2>3, <3>2, <4>1 DEF RelayDown
    <3>5. Following(down'[c], sid, app_got[k], 0)
      BY <2>2, <2>3 DEF Following
    <3>6. /\ app_got'[k] = app_got[k] /\ asked'[k] = "request" /\ app_sent'[k] = 0
          /\ target_sent'[k] = 0 /\ target_got'[k] = << >> /\ k \in DOMAIN server_channels_'
          /\ k[1] = c /\ k[2] = sid
      BY <1>1, <1>2, <1>3, <1>4, <2>4 DEF program
    <3>7. QED BY <1>4, <3>1, <3>3, <3>4, <3>5, <3>6 DEF SessionInv
  <2>8. ASSUME NEW j \in Sessions, j # k PROVE SessionInv(j)'
    <3>1. Alone(j)
      BY <1>2, <1>3, <2>1, <2>2, <2>8, RequestAlone DEF target
    <3>2. QED BY <1>5, <3>1, AloneKept DEF RelayInv
  <2>9. QED BY <2>6, <2>7, <2>8, RelayParts
<1>11. CASE item.kind # "request"
  <2>1. /\ server_heap' = server_heap /\ server_channels_' = server_channels_
        /\ down' = [down EXCEPT ![c] = q \o Addressed(sid, <<Say("fail")>>)]
    BY <1>1, <1>3, <1>11 DEF NewRequest, SendDown, Response, RelayInv, q
  <2> DEFINE r == Answer("fail")
  <2>2. /\ down'[c] = r
        /\ \A j \in Sessions : j # k => Carries(down[j[1]], down'[j[1]], j[2])
    BY <1>9, <2>1
  <2>3. \A other : Says(r, sid, other) <=> other = "fail"
    <3>1. AnsweredBy(r, sid, "fail")
      BY <1>1, <1>3, <1>6, <1>7, AnswerSent
    <3> HIDE DEF r
    <3>2. QED BY <3>1 DEF AnsweredBy
  <2> HIDE DEF r
  <2>4. RelayRest'
    BY <1>2, <2>1, RestKept, RelayParts DEF server, program, client
  <2>5. SessionInv(k)'
    <3>1. RelayIdle(up'[c], r, sid, "request")
      BY <1>3, <1>8, <2>3 DEF RelayIdle, Silent
    <3>2. /\ app_got'[k] = app_got[k] /\ asked'[k] = "request" /\ app_sent'[k] = 0
          /\ target_sent'[k] = 0 /\ target_got'[k] = << >> /\ k \notin DOMAIN server_channels_'
          /\ k[1] = c /\ k[2] = sid
      BY <1>1, <1>2, <1>3, <1>4, <2>1 DEF program
    <3>3. QED BY <1>4, <2>2, <3>1, <3>2 DEF SessionInv
  <2>6. ASSUME NEW j \in Sessions, j # k PROVE SessionInv(j)'
    <3>1. Alone(j)
      BY <1>2, <1>3, <2>1, <2>2, <2>6, RequestAlone DEF target
    <3>2. QED BY <1>5, <3>1, AloneKept DEF RelayInv
  <2>7. QED BY <2>4, <2>5, <2>6, RelayParts
<1>12. QED BY <1>10, <1>11

LEMMA ServerInRelay ==
  ASSUME RelayInv, CrossInv', NEW c \in Convs, NEW b, NEW state \in {"connecting", "up"},
         ServerIn(c, b, state)
  PROVE  RelayInv'
<1>1. PICK sid : sid = Head(up[c]).sid
  OBVIOUS
<1>2. sid \in Sids \cup {heartbeat_sid}
  BY <1>1, TakenByServer
<1>3. CASE sid = heartbeat_sid
  BY <1>1, <1>3, HeartbeatTaken
<1>4. CASE sid # heartbeat_sid
  <2>1. <<c, sid>> \in Sessions
    BY <1>2, <1>4 DEF Sessions
  <2>2. QED BY <1>1, <2>1, PieceServed, RequestServed
<1>5. QED BY <1>3, <1>4

LEMMA RelayInitially == Init => RelayInv
<1> SUFFICES ASSUME Init PROVE RelayInv
  OBVIOUS
<1>1. /\ server_channels_ = << >> /\ server_heap = << >> /\ convs = Convs
      /\ up = [c \in Convs |-> << >>] /\ down = [c \in Convs |-> << >>]
      /\ asked = [k \in Sessions |-> "nothing"] /\ app_sent = [k \in Sessions |-> 0]
      /\ app_got = [k \in Sessions |-> << >>] /\ target_sent = [k \in Sessions |-> 0]
      /\ target_got = [k \in Sessions |-> << >>]
  BY DEF Init
<1>2. DOMAIN << >> = {}
  OBVIOUS
<1>3. ASSUME NEW k \in Sessions PROVE SessionInv(k)
  <2>1. k[1] \in Convs /\ k \notin DOMAIN server_channels_
    BY <1>1, <1>2 DEF Sessions
  <2>2. RelayIdle(up[k[1]], down[k[1]], k[2], asked[k])
    BY <1>1, <1>2, <2>1 DEF RelayIdle, Says, Silent
  <2>3. InOrderAfterOk(app_got[k]) /\ ~ToldOk(app_got[k])
    BY <1>1, <1>2 DEF InOrderAfterOk, ToldOk
  <2>4. QED BY <1>1, <2>1, <2>2, <2>3 DEF SessionInv
<1>4. RelayRest
  BY <1>1, <1>2 DEF RelayRest
<1>5. QED BY <1>3, <1>4, CrossInitially, RelayParts

LEMMA RelayKept == ASSUME Undisturbed PROVE RelayInv /\ [Next]_vars => RelayInv'
<1> SUFFICES ASSUME RelayInv, [Next]_vars PROVE RelayInv'
  OBVIOUS
<1>1. CrossInv'
  BY CrossKept DEF RelayInv, Undisturbed
<1>2. CASE UNCHANGED vars
  <2>1. RelayTypes /\ RelayTypes' /\ UNCHANGED <<client, server, up, down, program, target>>
    BY <1>1, <1>2, TypesOfRelay DEF RelayInv, vars
  <2>2. RelayRest'
    BY <2>1, RestKept, RelayParts DEF program, client
  <2>3. ASSUME NEW k \in Sessions PROVE SessionInv(k)'
    BY <2>1 DEF RelayInv, SessionInv, InBuffer, Listening, client, server, program, target
  <2>4. QED BY <1>1, <2>2, <2>3, RelayParts
<1>3. ASSUME NEW c \in Convs, NEW a \in Addresses,
             Accept(c, a) \/ LocalClose(c, a) \/ LocalDelete(c, a)
      PROVE  RelayInv'
  BY <1>1, <1>3, ClientStep
<1>4. ASSUME NEW c \in Convs, NEW a \in Addresses, NEW state \in {"connecting", "up"},
             ServerIn(c, a, state)
      PROVE  RelayInv'
  BY <1>1, <1>4, ServerInRelay
<1>5. ASSUME NEW c \in Convs, NEW sid \in Sids,
             \/ ProgramHello(c, sid)
             \/ \E kind \in {"request", "unknown"} : ProgramRequest(c, sid, kind)
             \/ \E n \in 1..MaxRead : ProgramData(c, sid, n)
      PROVE  RelayInv'
  BY <1>1, <1>5, HelloRelay, RequestRelay, DataRelay
<1>6. ASSUME NEW c \in Convs, RemoteIn(c) \/ Heartbeat(c) PROVE RelayInv'
  BY <1>1, <1>6, RemoteInRelay, HeartbeatRelay
<1>7. ASSUME NEW a \in Addresses, TargetUp(a) \/ \E n \in 1..MaxRead : TargetSends(a, n)
      PROVE  RelayInv'
  BY <1>1, <1>7, TargetUpRelay, TargetSendsRelay
<1>8. ASSUME NEW a \in Addresses, TargetClose(a) \/ TargetDelete(a) PROVE FALSE
  BY <1>8 DEF TargetClose, TargetDelete, Undisturbed, RelayInv, ChannelKeyed
<1>9. ASSUME NEW c \in Convs, Released(c) PROVE FALSE
  BY <1>9 DEF Released, Undisturbed
<1>10. CASE Next
  BY <1>3, <1>4, <1>5, <1>6, <1>7, <1>8, <1>9, <1>10 DEF Next
<1>11. QED BY <1>2, <1>10

LEMMA RelayHolds == ASSUME Undisturbed PROVE Spec => []RelayInv
<1>1. RelayInv /\ [Next]_vars => RelayInv'
  BY RelayKept
<1>2. QED BY <1>1, RelayInitially, PTL DEF Spec

LEMMA JoinedItems ==
  ASSUME NEW q \in Seq(Item), NEW m \in Seq(Item)
  PROVE  /\ q \o m \in Seq(Item) /\ Len(q \o m) = Len(q) + Len(m)
         /\ \A i \in 1..Len(q) : (q \o m)[i] = q[i]
         /\ \A i \in 1..Len(q \o m) : ~(i \in 1..Len(q)) =>
              /\ i - Len(q) \in 1..Len(m) /\ (q \o m)[i] = m[i - Len(q)]
              /\ Len(q) + (i - Len(q)) = i
  OBVIOUS

LEMMA RelaySwallowsNothing == ASSUME RelayInv PROVE NothingSwallowed
<1> SUFFICES ASSUME NEW k \in Sessions
             PROVE  LET arrived == Items(target_got[k]) \o InBuffer(k)
                    IN /\ \A i \in DOMAIN arrived : arrived[i] = Piece(i)
                       /\ Flowing(up[k[1]], k[2], Len(arrived), app_sent[k])
  BY DEF NothingSwallowed
<1> DEFINE got == target_got[k]
           items == Items(got)
           arrived == items \o InBuffer(k)
<1>1. got \in Seq(Got) /\ up[k[1]] \in Seq(Message)
  BY TypesOfRelay DEF RelayInv, RelayTypes
<1>2. /\ items \in Seq(Item) /\ Len(items) = Len(got)
      /\ \A i \in 1..Len(got) : items[i] = got[i].item
  <2> HIDE DEF got
  <2>1. \A i \in 1..Len(got) : got[i].item \in Item
    <3>1. \A i \in 1..Len(got) : got[i] \in Got
      BY <1>1
    <3>2. QED BY <3>1 DEF Got
  <2>2. QED BY <1>1, <2>1 DEF Items
<1> HIDE DEF items
<1>3. CASE k \in DOMAIN server_channels_
  <2> DEFINE buffer == InBuffer(k)
  <2>1. buffer \in Seq(Item)
    BY <1>3, BufferType DEF RelayInv
  <2>2. RelayUp(up[k[1]], k[2], got, buffer, app_sent[k])
    BY <1>3 DEF RelayInv, SessionInv
  <2> HIDE DEF buffer, got
  <2> DEFINE all == items \o buffer
  <2>3. /\ Len(all) = Len(got) + Len(buffer) /\ all \in Seq(Item)
        /\ \A i \in 1..Len(got) : all[i] = items[i]
        /\ \A i \in 1..Len(all) : ~(i \in 1..Len(got)) =>
             /\ i - Len(got) \in 1..Len(buffer) /\ all[i] = buffer[i - Len(got)]
             /\ Len(got) + (i - Len(got)) = i
    <3>1. items \in Seq(Item) /\ buffer \in Seq(Item) /\ Len(items) = Len(got)
      BY <1>2, <2>1
    <3>2. /\ all \in Seq(Item) /\ Len(all) = Len(items) + Len(buffer)
          /\ \A i \in 1..Len(items) : all[i] = items[i]
          /\ \A i \in 1..Len(all) : ~(i \in 1..Len(items)) =>
               /\ i - Len(items) \in 1..Len(buffer) /\ all[i] = buffer[i - Len(items)]
               /\ Len(items) + (i - Len(items)) = i
      BY <3>1, JoinedItems
    <3> HIDE DEF all
    <3>3. QED BY <3>1, <3>2
  <2>4. /\ \A i \in 1..Len(got) : got[i].item = Piece(i)
        /\ \A i \in 1..Len(buffer) : buffer[i] = Piece(Len(got) + i)
        /\ Flowing(up[k[1]], k[2], Len(got) + Len(buffer), app_sent[k])
    BY <1>1, <2>1, <2>2 DEF RelayUp
  <2> HIDE DEF all
  <2>5. \A i \in DOMAIN all : all[i] = Piece(i)
    <3>1. TAKE i \in DOMAIN all
    <3>2. i \in 1..Len(all)
      BY <2>3
    <3>3. CASE i \in 1..Len(got)
      BY <1>2, <2>3, <2>4, <3>3
    <3>4. CASE ~(i \in 1..Len(got))
      <4>1. /\ i - Len(got) \in 1..Len(buffer) /\ all[i] = buffer[i - Len(got)]
            /\ Len(got) + (i - Len(got)) = i
        BY <2>3, <3>2, <3>4
      <4>2. buffer[i - Len(got)] = Piece(Len(got) + (i - Len(got)))
        BY <2>4, <4>1
      <4>3. QED BY <4>1, <4>2
    <3>5. QED BY <3>3, <3>4
  <2>6. Flowing(up[k[1]], k[2], Len(all), app_sent[k])
    BY <2>3, <2>4
  <2>7. QED BY <2>5, <2>6 DEF all, buffer, items, got
<1>4. CASE k \notin DOMAIN server_channels_
  <2>1. got = << >> /\ app_sent[k] = 0 /\ ~Says(up[k[1]], k[2], "data")
    BY <1>4 DEF RelayInv, SessionInv, RelayIdle
  <2>2. InBuffer(k) = << >>
    BY <1>4 DEF InBuffer, Key, Sessions
  <2>3. arrived = << >> /\ Len(arrived) = 0 /\ DOMAIN arrived = {}
    <3>1. items = << >>
      BY <1>2, <2>1
    <3>2. QED BY <2>2, <3>1
  <2>4. Flowing(up[k[1]], k[2], 0, 0)
    BY <1>1, <2>1, NoneFlowing
  <2> HIDE DEF arrived
  <2>5. Flowing(up[k[1]], k[2], Len(arrived), app_sent[k])
    BY <2>1, <2>3, <2>4
  <2>6. QED BY <2>3, <2>5 DEF arrived, items, got
<1>5. QED BY <1>3, <1>4

(* Where no target closes, a client never has two channels at one address  *)
(* and no data looks like a hello, every piece a program sent has reached  *)
(* its target or is on its way, in order, for any number of clients and    *)
(* sessions and reads of any size (kcpss.cpp:69-78, 115-117).              *)
THEOREM NothingEverSwallowed == ASSUME Undisturbed PROVE Spec => []NothingSwallowed
<1>1. RelayInv => NothingSwallowed
  BY RelaySwallowsNothing
<1>2. QED BY <1>1, RelayHolds, PTL

--------------------------------------------------------------------------------
(* The refinement of the relay.                                            *)

Taken == [f \in Flows |-> IF f[2] = "up" THEN app_sent[f[1]] ELSE target_sent[f[1]]]

Given == [f \in Flows |-> IF f[2] = "up" THEN FlowUp(f[1]) ELSE FlowDown(f[1])]

LEMMA FlowParts ==
  /\ \A f \in Flows : f[1] \in Sessions /\ f[2] \in {"up", "down"} /\ f = <<f[1], f[2]>>
  /\ \A k \in Sessions : <<k, "up">> \in Flows /\ <<k, "down">> \in Flows
<1>1. \A k : <<k, "up">>[1] = k /\ <<k, "up">>[2] = "up"
  OBVIOUS
<1>2. \A k : <<k, "down">>[1] = k /\ <<k, "down">>[2] = "down"
  OBVIOUS
<1>3. QED BY <1>1, <1>2 DEF Flows

\* A flow takes pieces in.
LEMMA FlowTakes ==
  ASSUME NEW f \in Flows, NEW n \in 1..MaxData, Given' = Given,
         Taken' = [Taken EXCEPT ![f] = Taken[f] + n]
  PROVE  Proxied!RelayNext
<1>1. Proxied!Take(f, n)
  BY DEF Proxied!Take, Taken, Given
<1>2. QED BY <1>1 DEF Proxied!RelayNext

\* A flow gives pieces out.
LEMMA FlowGives ==
  ASSUME NEW f \in Flows, NEW n \in 1..MaxData, Taken' = Taken,
         Len(Given[f]) + n <= Taken[f],
         Given' = [Given EXCEPT ![f] = Given[f] \o [i \in 1..n |-> Len(Given[f]) + i]]
  PROVE  Proxied!RelayNext
<1>1. Proxied!Give(f, n)
  BY DEF Proxied!Give, Taken, Given
<1>2. QED BY <1>1 DEF Proxied!RelayNext

LEMMA FlowsStay ==
  ASSUME Taken' = Taken, Given' = Given
  PROVE  UNCHANGED Proxied!relayVars
  BY DEF Proxied!relayVars, Taken, Given

(* The first n pieces of a flow.                                           *)
Count(n) == [i \in 1..n |-> i]

LEMMA JoinedNumbers ==
  ASSUME NEW q \in Seq(Nat), NEW m \in Seq(Nat)
  PROVE  /\ q \o m \in Seq(Nat) /\ Len(q \o m) = Len(q) + Len(m)
         /\ \A i \in 1..Len(q) : (q \o m)[i] = q[i]
         /\ \A i \in 1..Len(q \o m) : ~(i \in 1..Len(q)) =>
              i - Len(q) \in 1..Len(m) /\ (q \o m)[i] = m[i - Len(q)]
  OBVIOUS

LEMMA CountIs ==
  ASSUME NEW n \in Nat, NEW q \in Seq(Nat), Len(q) = n, \A i \in 1..n : q[i] = i
  PROVE  q = Count(n)
<1>1. q = [i \in 1..Len(q) |-> q[i]]
  OBVIOUS
<1>2. QED BY <1>1 DEF Count

LEMMA CountMore ==
  ASSUME NEW m \in Nat, NEW n \in Nat
  PROVE  /\ Len(Count(m)) = m
         /\ Count(m + n) = Count(m) \o [i \in 1..n |-> Len(Count(m)) + i]
<1> DEFINE a == Count(m)
           b == [i \in 1..n |-> Len(a) + i]
           ab == a \o b
<1>1. a \in Seq(Nat) /\ Len(a) = m /\ \A i \in 1..m : a[i] = i
  BY DEF Count
<1> HIDE DEF a
<1>2. b \in Seq(Nat) /\ Len(b) = n /\ \A i \in 1..n : b[i] = m + i
  BY <1>1
<1> HIDE DEF b
<1>3. /\ ab \in Seq(Nat) /\ Len(ab) = Len(a) + Len(b)
      /\ \A i \in 1..Len(a) : ab[i] = a[i]
      /\ \A i \in 1..Len(ab) : ~(i \in 1..Len(a)) =>
           i - Len(a) \in 1..Len(b) /\ ab[i] = b[i - Len(a)]
  BY <1>1, <1>2, JoinedNumbers
<1> HIDE DEF ab
<1>4. Len(ab) = m + n /\ m + n \in Nat
  BY <1>1, <1>2, <1>3
<1>5. \A i \in 1..m + n : ab[i] = i
  <2>1. TAKE i \in 1..m + n
  <2>2. CASE i \in 1..m
    BY <1>1, <1>3, <2>2
  <2>3. CASE ~(i \in 1..m)
    <3>1. i - m \in 1..n /\ ab[i] = b[i - m]
      BY <1>1, <1>2, <1>3, <1>4, <2>3
    <3>2. b[i - m] = m + (i - m)
      BY <1>2, <3>1
    <3>3. QED BY <3>1, <3>2
  <2>4. QED BY <2>2, <2>3
<1>6. ab = Count(m + n)
  BY <1>3, <1>4, <1>5, CountIs
<1>7. QED BY <1>1, <1>6 DEF a, b, ab

LEMMA PieceNumber == \A i : Piece(i).n = i
  BY DEF Piece

(* What a program has after the answer, in numbers.                        *)
AfterInNumbers(got, sid) ==
  LET after == AfterOk(got)
  IN [i \in 1..Len(after) |-> IF after[i].from = sid THEN after[i].item.n ELSE 0]

LEMMA DownValue ==
  ASSUME NEW got \in Seq(Told), NEW sid, \A i \in DOMAIN got : got[i].from = sid,
         InOrderAfterOk(got)
  PROVE  /\ ~ToldOk(got) => AfterInNumbers(got, sid) = Count(0)
         /\ \A p \in DOMAIN got :
              got[p].item = Say("ok") => AfterInNumbers(got, sid) = Count(Len(got) - p)
<1> DEFINE down_ == AfterInNumbers(got, sid)
           oks == {i \in DOMAIN got : got[i].item = Say("ok")}
           after == AfterOk(got)
<1>1. down_ = [i \in 1..Len(after) |-> IF after[i].from = sid THEN after[i].item.n ELSE 0]
  BY DEF AfterInNumbers
<1> HIDE DEF down_
<1>2. ASSUME ~ToldOk(got) PROVE down_ = Count(0)
  <2>1. oks = {}
    BY <1>2 DEF ToldOk
  <2>2. after = << >>
    BY <2>1 DEF AfterOk
  <2>3. Len(after) = 0
    BY <2>2
  <2> HIDE DEF after
  <2>4. 1..Len(after) = {} /\ 1..0 = {}
    BY <2>3
  <2>5. QED BY <1>1, <2>4 DEF Count
<1>3. ASSUME NEW p \in DOMAIN got, got[p].item = Say("ok") PROVE down_ = Count(Len(got) - p)
  <2>1. \A i \in oks : i = p
    BY <1>3, ToldOnce
  <2>2. p \in oks /\ p \in Nat /\ Len(got) \in Nat /\ p <= Len(got) /\ p >= 1
    BY <1>3
  <2>3. oks = {p}
    BY <2>1, <2>2
  <2>4. (CHOOSE i \in oks : \A j \in oks : i <= j) = p
    BY <2>2, <2>3
  <2>5. after = SubSeq(got, 1 + p, Len(got))
    BY <2>2, <2>4 DEF AfterOk
  <2>6. Len(after) = Len(got) - p /\ Len(got) - p \in Nat
    BY <2>2, <2>5
  <2>7. \A i \in 1..Len(got) - p : after[i] = got[p + i] /\ p + i \in DOMAIN got /\ p < p + i
                                   /\ (p + i) - p = i
    <3>1. TAKE i \in 1..Len(got) - p
    <3>2. i \in Nat /\ i >= 1 /\ p + i <= Len(got) /\ p + i \in 1..Len(got)
      BY <2>2
    <3>3. after[i] = got[p + i]
      <4>1. i \in 1..Len(got) - (1 + p) + 1 /\ (1 + p) + i - 1 = p + i
        BY <2>2, <3>2
      <4>2. \A j \in 1 + p..Len(got) : got[j] \in Told
        BY <2>2
      <4>3. after[i] = got[(1 + p) + i - 1]
        <5>1. 1 + p \in Int /\ Len(got) \in Int
          BY <2>2
        <5>2. QED BY <2>5, <4>1, <4>2, <5>1, SubSeqProperties
      <4>4. QED BY <4>1, <4>3
    <3>4. QED BY <2>2, <3>2, <3>3
  <2> HIDE DEF after
  <2>8. \A i \in 1..Len(got) - p : after[i].from = sid /\ after[i].item = Piece(i)
    BY <1>3, <2>7 DEF InOrderAfterOk
  <2>9. \A i \in 1..Len(got) - p : (IF after[i].from = sid THEN after[i].item.n ELSE 0) = i
    BY <2>8, PieceNumber
  <2>10. QED BY <1>1, <2>6, <2>9 DEF Count
<1>4. QED BY <1>2, <1>3 DEF down_

(* The flows of a session, in numbers.                                     *)
FlowFacts(k) ==
  /\ FlowUp(k) = Count(Len(target_got[k]))
  /\ Len(target_got[k]) \in Nat /\ Len(target_got[k]) <= app_sent[k]
  /\ app_got[k] \in Seq(Told)
  /\ ~ToldOk(app_got[k]) => FlowDown(k) = Count(0)
  /\ \A p \in DOMAIN app_got[k] :
       app_got[k][p].item = Say("ok") =>
         /\ FlowDown(k) = Count(Len(app_got[k]) - p)
         /\ Listening(k) => Len(app_got[k]) - p <= target_sent[k]
  /\ k \notin DOMAIN server_channels_ => ~ToldOk(app_got[k])
  /\ app_sent[k] \in 0..MaxData /\ target_sent[k] \in 0..MaxData

LEMMA FlowsInNumbers == RelayInv => \A k \in Sessions : FlowFacts(k)
<1> SUFFICES ASSUME RelayInv, NEW k \in Sessions PROVE FlowFacts(k)
  OBVIOUS
<1> DEFINE got == target_got[k]
           told == app_got[k]
<1>1. /\ got \in Seq(Got) /\ Len(got) \in Nat /\ DOMAIN got = 1..Len(got) /\ told \in Seq(Told)
      /\ app_sent[k] \in 0..MaxData /\ target_sent[k] \in 0..MaxData
  BY TypesOfRelay DEF RelayInv, RelayTypes
<1>2. /\ \A i \in DOMAIN got : got[i].from = k
      /\ \A i \in DOMAIN told : told[i].from = k[2]
  BY DEF RelayInv, CrossInv, IsolationInv, OwnData, OwnAnswers
<1>3. /\ InOrderAfterOk(told) /\ (k \notin DOMAIN server_channels_ => ~ToldOk(told))
      /\ SessionInv(k)
  BY DEF RelayInv, SessionInv
<1>4. (\A i \in DOMAIN got : got[i].item = Piece(i)) /\ Len(got) <= app_sent[k]
  <2>1. CASE k \in DOMAIN server_channels_
    <3> DEFINE buffer == InBuffer(k)
    <3>1. RelayUp(up[k[1]], k[2], got, buffer, app_sent[k])
      BY <1>3, <2>1 DEF SessionInv
    <3>2. buffer \in Seq(Item)
      BY <2>1, BufferType DEF RelayInv
    <3> HIDE DEF buffer, got
    <3>3. Len(buffer) \in Nat
      BY <3>2
    <3>4. Len(got) + Len(buffer) <= app_sent[k]
      BY <3>1 DEF RelayUp, Flowing
    <3>5. QED BY <1>1, <3>1, <3>3, <3>4, SessionBounds DEF RelayUp
  <2>2. CASE k \notin DOMAIN server_channels_
    BY <1>1, <1>3, <2>2 DEF SessionInv
  <2>3. QED BY <2>1, <2>2
<1>5. FlowUp(k) = Count(Len(got))
  <2>1. FlowUp(k) = [i \in 1..Len(got) |-> IF got[i].from = k THEN got[i].item.n ELSE 0]
    BY DEF FlowUp
  <2> HIDE DEF got
  <2>2. \A i \in 1..Len(got) : got[i].from = k /\ got[i].item = Piece(i)
    BY <1>1, <1>2, <1>4
  <2>3. \A i \in 1..Len(got) : (IF got[i].from = k THEN got[i].item.n ELSE 0) = i
    BY <2>2, PieceNumber
  <2>4. QED BY <2>1, <2>3 DEF Count
<1>6. /\ ~ToldOk(told) => FlowDown(k) = Count(0)
      /\ \A p \in DOMAIN told : told[p].item = Say("ok") => FlowDown(k) = Count(Len(told) - p)
  <2>1. FlowDown(k) = AfterInNumbers(told, k[2])
    BY DEF FlowDown, AfterInNumbers
  <2> HIDE DEF told
  <2>2. QED BY <1>1, <1>2, <1>3, <2>1, DownValue
<1>7. ASSUME NEW p \in DOMAIN told, told[p].item = Say("ok"), Listening(k)
      PROVE  Len(told) - p <= target_sent[k]
  <2>1. k \in DOMAIN server_channels_ /\ ToldOk(told)
    BY <1>3, <1>7 DEF ToldOk
  <2>2. /\ RelayDown(down[k[1]], k[2], told, target_sent[k])
        /\ Following(down[k[1]], k[2], told, target_sent[k])
    BY <1>3, <1>7, <2>1 DEF SessionInv
  <2> HIDE DEF told
  <2>3. PICK r \in DOMAIN told : told[r].item = Say("ok") /\ Len(told) - r <= target_sent[k]
    BY <2>1, <2>2 DEF RelayDown, Following, Flowing
  <2>4. r = p
    BY <1>1, <1>3, <1>7, <2>3, ToldOnce
  <2>5. QED BY <2>3, <2>4
<1>8. QED BY <1>1, <1>3, <1>4, <1>5, <1>6, <1>7 DEF FlowFacts

LEMMA FlowChanges ==
  ASSUME NEW f \in Flows, \A g \in Flows : g # f => Taken'[g] = Taken[g] /\ Given'[g] = Given[g]
  PROVE  /\ Taken' = [Taken EXCEPT ![f] = Taken'[f]]
         /\ Given' = [Given EXCEPT ![f] = Given'[f]]
<1>1. /\ Taken = [g \in Flows |-> Taken[g]] /\ Taken' = [g \in Flows |-> Taken'[g]]
      /\ Given = [g \in Flows |-> Given[g]] /\ Given' = [g \in Flows |-> Given'[g]]
  BY DEF Taken, Given
<1>2. QED BY <1>1

LEMMA FlowValues ==
  ASSUME NEW k \in Sessions
  PROVE  /\ Taken[<<k, "up">>] = app_sent[k] /\ Taken'[<<k, "up">>] = app_sent'[k]
         /\ Taken[<<k, "down">>] = target_sent[k] /\ Taken'[<<k, "down">>] = target_sent'[k]
         /\ Given[<<k, "up">>] = FlowUp(k) /\ Given'[<<k, "up">>] = FlowUp(k)'
         /\ Given[<<k, "down">>] = FlowDown(k) /\ Given'[<<k, "down">>] = FlowDown(k)'
<1>1. <<k, "up">> \in Flows /\ <<k, "down">> \in Flows
  BY FlowParts
<1>2. /\ <<k, "up">>[1] = k /\ <<k, "up">>[2] = "up"
      /\ <<k, "down">>[1] = k /\ <<k, "down">>[2] = "down" /\ "down" # "up"
  OBVIOUS
<1>3. QED BY <1>1, <1>2 DEF Taken, Given

(* The flows that a step does not touch.                                   *)
UpStays(k) == app_sent'[k] = app_sent[k] /\ FlowUp(k)' = FlowUp(k)

DownStays(k) == target_sent'[k] = target_sent[k] /\ FlowDown(k)' = FlowDown(k)

LEMMA NothingFlows ==
  ASSUME \A k \in Sessions : UpStays(k) /\ DownStays(k)
  PROVE  UNCHANGED Proxied!relayVars
<1>1. ASSUME NEW f \in Flows PROVE Taken'[f] = Taken[f] /\ Given'[f] = Given[f]
  BY FlowParts DEF Taken, Given, UpStays, DownStays
<1>2. Taken' = Taken /\ Given' = Given
  <2>1. /\ Taken = [g \in Flows |-> Taken[g]] /\ Taken' = [g \in Flows |-> Taken'[g]]
        /\ Given = [g \in Flows |-> Given[g]] /\ Given' = [g \in Flows |-> Given'[g]]
    BY DEF Taken, Given
  <2>2. QED BY <1>1, <2>1
<1>3. QED BY <1>2, FlowsStay

(* Only one flow of session k is touched.                                  *)
LEMMA OnlyUp ==
  ASSUME NEW k \in Sessions, \A j \in Sessions : (j # k => UpStays(j)) /\ DownStays(j)
  PROVE  \A g \in Flows : g # <<k, "up">> => Taken'[g] = Taken[g] /\ Given'[g] = Given[g]
<1>1. TAKE g \in Flows
<1>2. g[1] \in Sessions /\ g[2] \in {"up", "down"} /\ g = <<g[1], g[2]>>
  BY FlowParts
<1>3. CASE g[2] = "up"
  <2>1. PICK j \in Sessions : g = <<j, "up">>
    BY <1>2, <1>3
  <2>2. g # <<k, "up">> => j # k
    BY <2>1
  <2>3. j # k => UpStays(j)
    OBVIOUS
  <2>4. QED BY <2>1, <2>2, <2>3, FlowValues DEF UpStays
<1>4. CASE g[2] = "down"
  <2>1. PICK j \in Sessions : g = <<j, "down">>
    BY <1>2, <1>4
  <2>2. DownStays(j)
    OBVIOUS
  <2>3. QED BY <2>1, <2>2, FlowValues DEF DownStays
<1>5. QED BY <1>2, <1>3, <1>4

LEMMA OnlyDown ==
  ASSUME NEW k \in Sessions, \A j \in Sessions : UpStays(j) /\ (j # k => DownStays(j))
  PROVE  \A g \in Flows : g # <<k, "down">> => Taken'[g] = Taken[g] /\ Given'[g] = Given[g]
<1>1. TAKE g \in Flows
<1>2. g[1] \in Sessions /\ g[2] \in {"up", "down"} /\ g = <<g[1], g[2]>>
  BY FlowParts
<1>3. CASE g[2] = "up"
  <2>1. PICK j \in Sessions : g = <<j, "up">>
    BY <1>2, <1>3
  <2>2. UpStays(j)
    OBVIOUS
  <2>3. QED BY <2>1, <2>2, FlowValues DEF UpStays
<1>4. CASE g[2] = "down"
  <2>1. PICK j \in Sessions : g = <<j, "down">>
    BY <1>2, <1>4
  <2>2. g # <<k, "down">> => j # k
    BY <2>1
  <2>3. j # k => DownStays(j)
    OBVIOUS
  <2>4. QED BY <2>1, <2>2, <2>3, FlowValues DEF DownStays
<1>5. QED BY <1>2, <1>3, <1>4

LEMMA TakesUp ==
  ASSUME NEW k \in Sessions, NEW n \in 1..MaxData, app_sent'[k] = app_sent[k] + n,
         FlowUp(k)' = FlowUp(k), \A j \in Sessions : (j # k => UpStays(j)) /\ DownStays(j)
  PROVE  Proxied!RelayNext
<1> DEFINE f == <<k, "up">>
<1>1. f \in Flows /\ \A g \in Flows : g # f => Taken'[g] = Taken[g] /\ Given'[g] = Given[g]
  BY FlowParts, OnlyUp
<1>2. Taken'[f] = Taken[f] + n /\ Given'[f] = Given[f]
  BY FlowValues
<1> HIDE DEF f
<1>3. Taken' = [Taken EXCEPT ![f] = Taken[f] + n] /\ Given' = [Given EXCEPT ![f] = Given[f]]
  BY <1>1, <1>2, FlowChanges
<1>4. Given' = Given
  BY <1>3 DEF Given
<1>5. QED BY <1>1, <1>3, <1>4, FlowTakes

LEMMA TakesDown ==
  ASSUME NEW k \in Sessions, NEW n \in 1..MaxData, target_sent'[k] = target_sent[k] + n,
         FlowDown(k)' = FlowDown(k), \A j \in Sessions : UpStays(j) /\ (j # k => DownStays(j))
  PROVE  Proxied!RelayNext
<1> DEFINE f == <<k, "down">>
<1>1. f \in Flows /\ \A g \in Flows : g # f => Taken'[g] = Taken[g] /\ Given'[g] = Given[g]
  BY FlowParts, OnlyDown
<1>2. Taken'[f] = Taken[f] + n /\ Given'[f] = Given[f]
  BY FlowValues
<1> HIDE DEF f
<1>3. Taken' = [Taken EXCEPT ![f] = Taken[f] + n] /\ Given' = [Given EXCEPT ![f] = Given[f]]
  BY <1>1, <1>2, FlowChanges
<1>4. Given' = Given
  BY <1>3 DEF Given
<1>5. QED BY <1>1, <1>3, <1>4, FlowTakes

LEMMA GivesUp ==
  ASSUME NEW k \in Sessions, NEW n \in 1..MaxData, NEW m \in Nat, m + n <= app_sent[k],
         FlowUp(k) = Count(m), FlowUp(k)' = Count(m + n), app_sent'[k] = app_sent[k],
         \A j \in Sessions : (j # k => UpStays(j)) /\ DownStays(j)
  PROVE  Proxied!RelayNext
<1> DEFINE f == <<k, "up">>
           more == [i \in 1..n |-> Len(Given[f]) + i]
<1>1. f \in Flows /\ \A g \in Flows : g # f => Taken'[g] = Taken[g] /\ Given'[g] = Given[g]
  BY FlowParts, OnlyUp
<1>2. Taken'[f] = Taken[f] /\ Taken[f] = app_sent[k] /\ Given[f] = Count(m) /\ Given'[f] = Count(m + n)
  BY FlowValues
<1> HIDE DEF f
<1>3. n \in Nat
  OBVIOUS
<1>4. Len(Given[f]) = m /\ Given'[f] = Given[f] \o more
  BY <1>2, <1>3, CountMore
<1> HIDE DEF more
<1>5. /\ Taken' = [Taken EXCEPT ![f] = Taken[f]]
      /\ Given' = [Given EXCEPT ![f] = Given[f] \o more]
  BY <1>1, <1>2, <1>4, FlowChanges
<1>6. Taken' = Taken
  BY <1>5 DEF Taken
<1>7. Len(Given[f]) + n <= Taken[f]
  BY <1>2, <1>4
<1>8. QED BY <1>1, <1>5, <1>6, <1>7, FlowGives DEF more

LEMMA GivesDown ==
  ASSUME NEW k \in Sessions, NEW n \in 1..MaxData, NEW m \in Nat, m + n <= target_sent[k],
         FlowDown(k) = Count(m), FlowDown(k)' = Count(m + n), target_sent'[k] = target_sent[k],
         \A j \in Sessions : UpStays(j) /\ (j # k => DownStays(j))
  PROVE  Proxied!RelayNext
<1> DEFINE f == <<k, "down">>
           more == [i \in 1..n |-> Len(Given[f]) + i]
<1>1. f \in Flows /\ \A g \in Flows : g # f => Taken'[g] = Taken[g] /\ Given'[g] = Given[g]
  BY FlowParts, OnlyDown
<1>2. /\ Taken'[f] = Taken[f] /\ Taken[f] = target_sent[k]
      /\ Given[f] = Count(m) /\ Given'[f] = Count(m + n)
  BY FlowValues
<1> HIDE DEF f
<1>3. n \in Nat
  OBVIOUS
<1>4. Len(Given[f]) = m /\ Given'[f] = Given[f] \o more
  BY <1>2, <1>3, CountMore
<1> HIDE DEF more
<1>5. /\ Taken' = [Taken EXCEPT ![f] = Taken[f]]
      /\ Given' = [Given EXCEPT ![f] = Given[f] \o more]
  BY <1>1, <1>2, <1>4, FlowChanges
<1>6. Taken' = Taken
  BY <1>5 DEF Taken
<1>7. Len(Given[f]) + n <= Taken[f]
  BY <1>2, <1>4
<1>8. QED BY <1>1, <1>5, <1>6, <1>7, FlowGives DEF more

InNumbers == \A k \in Sessions : FlowFacts(k)

LEMMA StaysIf ==
  ASSUME NEW k
  PROVE  /\ app_sent'[k] = app_sent[k] /\ target_got'[k] = target_got[k] => UpStays(k)
         /\ target_sent'[k] = target_sent[k] /\ app_got'[k] = app_got[k] => DownStays(k)
<1>1. app_got'[k] = app_got[k] => FlowDown(k)' = FlowDown(k)
  BY DEF FlowDown, AfterOk
<1>2. target_got'[k] = target_got[k] => FlowUp(k)' = FlowUp(k)
  BY DEF FlowUp
<1>3. QED BY <1>1, <1>2 DEF UpStays, DownStays

LEMMA QuietStep ==
  ASSUME UNCHANGED <<app_sent, app_got, target>>
  PROVE  UNCHANGED Proxied!relayVars
  BY StaysIf, NothingFlows DEF target

LEMMA TargetGets ==
  ASSUME InNumbers, InNumbers', NEW k \in Sessions,
         UNCHANGED <<app_sent, app_got, target_sent>>,
         Len(target_got[k]) <= Len(target_got'[k]),
         \A j \in Sessions : j # k => target_got'[j] = target_got[j]
  PROVE  [Proxied!RelayNext]_(Proxied!relayVars)
<1> DEFINE m == Len(target_got[k])
           n == Len(target_got'[k]) - m
<1>1. /\ m \in Nat /\ Len(target_got'[k]) \in Nat /\ FlowUp(k) = Count(m)
      /\ FlowUp(k)' = Count(Len(target_got'[k]))
      /\ app_sent[k] \in 0..MaxData /\ Len(target_got'[k]) <= app_sent[k]
  <2>1. FlowFacts(k) /\ FlowFacts(k)'
    BY DEF InNumbers
  <2>2. QED BY <2>1 DEF FlowFacts
<1>2. n \in Nat /\ m + n = Len(target_got'[k])
  BY <1>1
<1>3. \A j \in Sessions : (j # k => UpStays(j)) /\ DownStays(j)
  BY StaysIf
<1>4. FlowUp(k)' = Count(m + n) /\ m + n <= app_sent[k] /\ n <= MaxData
  BY <1>1, <1>2, SessionBounds
<1> HIDE DEF m, n
<1>5. CASE n = 0
  <2>1. m + n = m
    BY <1>1, <1>5
  <2>2. UpStays(k)
    BY <1>1, <1>4, <2>1 DEF UpStays
  <2>3. QED BY <1>3, <2>2, NothingFlows
<1>6. CASE n # 0
  <2>1. n \in 1..MaxData
    BY <1>2, <1>4, <1>6, SessionBounds
  <2>2. app_sent'[k] = app_sent[k]
    OBVIOUS
  <2>3. QED BY <1>1, <1>3, <1>4, <2>1, <2>2, GivesUp
<1>7. QED BY <1>5, <1>6

\* What a program is told before its request was served is no data.
LEMMA WordFlow ==
  ASSUME InNumbers, InNumbers', NEW k \in Sessions, k \notin DOMAIN server_channels_,
         UNCHANGED <<server, app_sent, target>>,
         \A j \in Sessions : j # k => app_got'[j] = app_got[j]
  PROVE  UNCHANGED Proxied!relayVars
<1>1. FlowDown(k) = Count(0)
  BY DEF InNumbers, FlowFacts
<1>2. FlowDown(k)' = Count(0)
  <2>1. FlowFacts(k)' /\ k \notin DOMAIN server_channels_'
    BY DEF InNumbers, server
  <2>2. QED BY <2>1 DEF FlowFacts
<1>3. DownStays(k)
  BY <1>1, <1>2 DEF DownStays, target
<1>4. \A j \in Sessions : UpStays(j) /\ DownStays(j)
  BY <1>3, StaysIf DEF target
<1>5. QED BY <1>4, NothingFlows

LEMMA ToldFlow ==
  ASSUME InNumbers, InNumbers', NEW k \in Sessions, NEW e, Listening(k)',
         UNCHANGED <<app_sent, target>>, app_got'[k] = Append(app_got[k], e),
         \A j \in Sessions : j # k => app_got'[j] = app_got[j]
  PROVE  [Proxied!RelayNext]_(Proxied!relayVars)
<1> DEFINE got == app_got[k]
           more == app_got'[k]
<1>1. FlowFacts(k) /\ FlowFacts(k)'
  BY DEF InNumbers
<1>2. /\ got \in Seq(Told) /\ more = Append(got, e) /\ more \in Seq(Told)
      /\ target_sent[k] \in 0..MaxData /\ target_sent'[k] = target_sent[k]
      /\ ~ToldOk(got) => FlowDown(k) = Count(0)
      /\ ~ToldOk(more) => FlowDown(k)' = Count(0)
      /\ \A p \in DOMAIN got : got[p].item = Say("ok") => FlowDown(k) = Count(Len(got) - p)
      /\ \A p \in DOMAIN more :
           more[p].item = Say("ok") =>
             /\ FlowDown(k)' = Count(Len(more) - p)
             /\ Len(more) - p <= target_sent[k]
  <2>1. more = Append(got, e) /\ target_sent' = target_sent
    BY DEF target
  <2>2. /\ got \in Seq(Told) /\ (~ToldOk(got) => FlowDown(k) = Count(0))
        /\ \A p \in DOMAIN got : got[p].item = Say("ok") => FlowDown(k) = Count(Len(got) - p)
        /\ target_sent[k] \in 0..MaxData
    BY <1>1 DEF FlowFacts
  <2>3. /\ more \in Seq(Told) /\ (~ToldOk(more) => FlowDown(k)' = Count(0))
        /\ \A p \in DOMAIN more :
             more[p].item = Say("ok") =>
               FlowDown(k)' = Count(Len(more) - p) /\ Len(more) - p <= target_sent'[k]
    <3>1. ToldOk(app_got[k])' <=> ToldOk(more)
      BY DEF ToldOk
    <3>2. QED BY <1>1, <3>1 DEF FlowFacts
  <2>4. QED BY <2>1, <2>2, <2>3
<1>3. \A j \in Sessions : UpStays(j) /\ (j # k => DownStays(j))
  BY StaysIf DEF target
<1> HIDE DEF got, more
<1>4. /\ Len(got) \in Nat /\ Len(more) = Len(got) + 1 /\ Len(more) \in DOMAIN more
      /\ DOMAIN more = DOMAIN got \cup {Len(more)}
      /\ \A p \in DOMAIN got : more[p] = got[p] /\ p \in Nat /\ p <= Len(got) /\ p \in DOMAIN more
  BY <1>2
<1>5. CASE ToldOk(got)
  <2>1. PICK p \in DOMAIN got : got[p].item = Say("ok")
    BY <1>5 DEF ToldOk
  <2> DEFINE m == Len(got) - p
  <2>2. m \in Nat /\ Len(more) - p = m + 1
    BY <1>4, <2>1
  <2>3. FlowDown(k) = Count(m) /\ FlowDown(k)' = Count(m + 1) /\ m + 1 <= target_sent[k]
    BY <1>2, <1>4, <2>1, <2>2
  <2> HIDE DEF m
  <2>4. 1 \in 1..MaxData
    BY <1>2, <2>2, <2>3, SessionBounds
  <2>5. QED BY <1>2, <1>3, <2>2, <2>3, <2>4, GivesDown
<1>6. CASE ~ToldOk(got)
  <2>1. FlowDown(k)' = Count(0)
    <3>1. CASE ~ToldOk(more)
      BY <1>2, <3>1
    <3>2. CASE ToldOk(more)
      <4>1. PICK p \in DOMAIN more : more[p].item = Say("ok")
        BY <3>2 DEF ToldOk
      <4>2. p = Len(more)
        BY <1>4, <1>6, <4>1 DEF ToldOk
      <4>3. Len(more) - p = 0
        BY <1>4, <4>2
      <4>4. QED BY <1>2, <4>1, <4>3
    <3>3. QED BY <3>1, <3>2
  <2>2. DownStays(k)
    BY <1>2, <1>6, <2>1 DEF DownStays
  <2>3. QED BY <1>3, <2>2, NothingFlows
<1>7. QED BY <1>5, <1>6

LEMMA HelloFlows ==
  ASSUME RelayInv, InNumbers, InNumbers', NEW c \in Convs, NEW sid \in Sids, ProgramHello(c, sid)
  PROVE  UNCHANGED Proxied!relayVars
<1> DEFINE k == <<c, sid>>
           e == [from |-> sid, item |-> Say("method")]
<1>1. /\ k \in Sessions /\ asked[k] = "nothing" /\ app_sent' = app_sent
      /\ LocalIn(c, sid, <<Say("hello")>>)
  BY DEF ProgramHello, Sessions
<1>2. sid \in DOMAIN client_channels_[c] /\ UNCHANGED <<client, server, down, target>>
  BY <1>1, ProgramKnown
<1>3. IsHello(<<Say("hello")>>)
  BY DEF IsHello, Say
<1>4. ClientWrite(c, sid, Say("method"))
  BY <1>1, <1>3 DEF LocalIn
<1>5. \/ app_got' = [app_got EXCEPT ![k] = Append(app_got[k], e)]
      \/ app_got' = app_got
  BY <1>2, <1>4, WriteIfListening DEF RelayInv
<1>6. app_got \in [Sessions -> Seq(Told)]
  BY TypesOfRelay DEF RelayInv, RelayTypes
<1> HIDE DEF k, e
<1>7. \A j \in Sessions : j # k => app_got'[j] = app_got[j]
  BY <1>5, <1>6
<1>8. k \notin DOMAIN server_channels_
  BY <1>1 DEF RelayInv, SessionInv
<1>9. QED BY <1>1, <1>2, <1>7, <1>8, WordFlow

LEMMA RequestFlows ==
  ASSUME RelayInv, NEW c \in Convs, NEW sid \in Sids,
         NEW kind \in {"request", "unknown"}, ProgramRequest(c, sid, kind)
  PROVE  UNCHANGED Proxied!relayVars
<1> DEFINE items == <<Say(kind)>>
<1>1. LocalIn(c, sid, items) /\ app_sent' = app_sent
  BY DEF ProgramRequest
<1>2. UNCHANGED target
  BY <1>1, ProgramKnown
<1>3. ~IsHello(items)
  <2>1. items[1].kind = kind /\ items[1].n = 0
    BY DEF Say
  <2>2. QED BY <2>1, PieceAssumption DEF IsHello
<1>4. app_got' = app_got
  BY <1>1, <1>3 DEF LocalIn
<1>5. QED BY <1>1, <1>2, <1>4, QuietStep

LEMMA DataFlows ==
  ASSUME RelayInv, Undisturbed, NEW c \in Convs, NEW sid \in Sids,
         NEW n \in 1..MaxRead, ProgramData(c, sid, n)
  PROVE  Proxied!RelayNext
<1> DEFINE k == <<c, sid>>
           s == app_sent[k]
           items == Data(s + 1, n)
<1>1. /\ k \in Sessions /\ s + n <= MaxData
      /\ app_sent' = [app_sent EXCEPT ![k] = s + n] /\ LocalIn(c, sid, items)
  BY DEF ProgramData, Sessions
<1>2. UNCHANGED target
  BY <1>1, ProgramKnown
<1>3. app_sent \in [Sessions -> 0..MaxData]
  BY TypesOfRelay DEF RelayInv, RelayTypes
<1>4. s \in Nat /\ n \in Nat /\ n >= 1
  BY <1>1, <1>3, SessionBounds
<1>5. ~IsHello(items)
  <2>1. items[1].kind = "data"
    BY <1>4 DEF Data, Piece
  <2>2. QED BY <2>1 DEF IsHello, Undisturbed
<1>6. app_got' = app_got
  BY <1>1, <1>5 DEF LocalIn
<1> HIDE DEF k, items
<1>7. app_sent'[k] = app_sent[k] + n /\ \A j \in Sessions : j # k => app_sent'[j] = app_sent[j]
  BY <1>1, <1>3
<1>8. n \in 1..MaxData
  BY <1>1, <1>4, SessionBounds
<1>9. FlowUp(k)' = FlowUp(k)
  BY <1>2 DEF FlowUp, target
<1>10. \A j \in Sessions : (j # k => UpStays(j)) /\ DownStays(j)
  BY <1>2, <1>6, <1>7, StaysIf DEF target
<1>11. QED BY <1>1, <1>7, <1>8, <1>9, <1>10, TakesUp

LEMMA TargetSendsFlows ==
  ASSUME RelayInv, NEW a \in Addresses, NEW n \in 1..MaxRead, TargetSends(a, n)
  PROVE  Proxied!RelayNext
<1>1. PICK k : k = <<server_heap[a].conv, server_heap[a].sid>>
  OBVIOUS
<1>2. /\ k \in Sessions /\ k[1] = server_heap[a].conv /\ k[2] = server_heap[a].sid
      /\ k = <<k[1], k[2]>>
  BY <1>1, KeyOfChannel DEF TargetSends
<1> DEFINE s == target_sent[k]
<1>3. /\ UNCHANGED <<program, target_got>>
      /\ target_sent' = [target_sent EXCEPT ![k] = s + n] /\ s + n <= MaxData
  BY <1>1 DEF TargetSends
<1>4. target_sent \in [Sessions -> 0..MaxData]
  BY TypesOfRelay DEF RelayInv, RelayTypes
<1>5. s \in Nat /\ n \in Nat /\ n >= 1
  BY <1>2, <1>4, SessionBounds
<1>6. n \in 1..MaxData
  BY <1>3, <1>5, SessionBounds
<1>7. /\ target_sent'[k] = target_sent[k] + n
      /\ \A j \in Sessions : j # k => target_sent'[j] = target_sent[j]
  BY <1>2, <1>3, <1>4
<1>8. FlowDown(k)' = FlowDown(k)
  BY <1>3 DEF FlowDown, AfterOk, program
<1>9. \A j \in Sessions : UpStays(j) /\ (j # k => DownStays(j))
  BY <1>3, <1>7, StaysIf DEF program
<1>10. QED BY <1>2, <1>6, <1>7, <1>8, <1>9, TakesDown

LEMMA RemoteInFlows ==
  ASSUME RelayInv, InNumbers, InNumbers', NEW c \in Convs, RemoteIn(c)
  PROVE  [Proxied!RelayNext]_(Proxied!relayVars)
<1> DEFINE m == Head(down[c])
           sid == m.sid
           e == [from |-> sid, item |-> m.item]
<1>1. /\ down[c] # << >> /\ UNCHANGED <<client, app_sent, target>>
      /\ IF sid # heartbeat_sid /\ sid \in DOMAIN client_channels_[c]
           THEN ClientWrite(c, sid, m.item)
           ELSE app_got' = app_got
  BY DEF RemoteIn
<1>2. /\ down \in [Convs -> Seq(Message)] /\ app_got \in [Sessions -> Seq(Told)]
  BY TypesOfRelay DEF RelayInv, RelayTypes
<1>3. m \in Message
  BY <1>1, <1>2
<1>4. CASE app_got' = app_got
  BY <1>1, <1>4, QuietStep
<1>5. CASE app_got' # app_got
  <2>1. sid \in Sids /\ sid \in DOMAIN client_channels_[c] /\ ClientWrite(c, sid, m.item)
    BY <1>1, <1>3, <1>5 DEF Message
  <2>2. PICK k : k = <<c, sid>>
    OBVIOUS
  <2> HIDE DEF m
  <2>3. k \in Sessions
    BY <2>1, <2>2 DEF Sessions
  <2>4. Listening(k) /\ app_got' = [app_got EXCEPT ![k] = Append(app_got[k], e)]
    BY <1>5, <2>1, <2>2, WriteIfListening DEF RelayInv
  <2> HIDE DEF e
  <2>5. /\ app_got'[k] = Append(app_got[k], e)
        /\ \A j \in Sessions : j # k => app_got'[j] = app_got[j]
    BY <1>2, <2>3, <2>4
  <2>6. Listening(k)'
    BY <1>1, <2>4 DEF Listening, client
  <2>7. QED BY <1>1, <2>3, <2>5, <2>6, ToldFlow
<1>6. QED BY <1>4, <1>5

\* What reaches a target is added to what it has.
LEMMA ReachedMore ==
  ASSUME NEW got \in Seq(Got), NEW items \in Seq(Item), NEW k \in Sessions
  PROVE  Len(got) <= Len(got \o Arriving(k, items))
<1>1. /\ Arriving(k, items) = [i \in 1..Len(items) |-> [from |-> k, item |-> items[i]]]
      /\ Len(items) \in Nat
  BY DEF Arriving
<1>2. /\ Arriving(k, items) \in Seq(Got) /\ Len(Arriving(k, items)) = Len(items)
  BY <1>1 DEF Got
<1> HIDE DEF Arriving
<1>3. QED BY <1>1, <1>2

LEMMA TargetUpFlows ==
  ASSUME RelayInv, InNumbers, InNumbers', NEW a \in Addresses, TargetUp(a)
  PROVE  [Proxied!RelayNext]_(Proxied!relayVars)
<1>1. PICK k : k = <<server_heap[a].conv, server_heap[a].sid>>
  OBVIOUS
<1> DEFINE buffer == server_heap[a].send_buffer_
           all == target_got[k] \o Arriving(k, buffer)
<1>2. k \in Sessions /\ server_heap[a] \in Held
  BY <1>1, KeyOfChannel DEF TargetUp
<1>3. /\ target_got' = [target_got EXCEPT ![k] = all]
      /\ UNCHANGED <<program, target_sent>>
  BY <1>1 DEF TargetUp, Reach, Arriving
<1>4. target_got \in [Sessions -> Seq(Got)]
  BY TypesOfRelay DEF RelayInv, RelayTypes
<1>5. Len(target_got[k]) <= Len(all)
  BY <1>2, <1>4, ReachedMore DEF Held
<1> HIDE DEF all
<1>6. /\ target_got'[k] = all
      /\ \A j \in Sessions : j # k => target_got'[j] = target_got[j]
  BY <1>2, <1>3, <1>4
<1>7. QED BY <1>2, <1>3, <1>5, <1>6, TargetGets DEF program

LEMMA ServerInFlows ==
  ASSUME RelayInv, InNumbers, InNumbers', NEW c \in Convs, NEW b,
         NEW state \in {"connecting", "up"}, ServerIn(c, b, state)
  PROVE  [Proxied!RelayNext]_(Proxied!relayVars)
<1>1. PICK sid : sid = Head(up[c]).sid
  OBVIOUS
<1>2. /\ sid \in Sids \cup {heartbeat_sid} /\ Head(up[c]) \in Message
      /\ UNCHANGED <<program, target_sent>>
  BY <1>1, TakenByServer
<1>3. CASE target_got' = target_got
  BY <1>2, <1>3, QuietStep DEF program, target
<1>4. CASE target_got' # target_got
  <2>1. PICK k : k = <<c, sid>>
    OBVIOUS
  <2> DEFINE a == server_channels_[k]
             item == Head(up[c]).item
             got == target_got[k]
             all == got \o Arriving(k, <<item>>)
  <2>2. sid # heartbeat_sid /\ k \in DOMAIN server_channels_ /\ ServerWrite(a, k, item)
    BY <1>1, <1>4, <2>1 DEF ServerIn, Key
  <2>3. k \in Sessions /\ k[1] = c /\ k[2] = sid /\ Key(c, sid) = k
    BY <1>2, <2>1, <2>2 DEF Sessions, Key
  <2>4. server_heap[a].conv = c /\ server_heap[a].sid = sid
    BY <2>2, <2>3, BufferType DEF RelayInv
  <2>5. target_got' = [target_got EXCEPT ![k] = all]
    BY <1>4, <2>1, <2>2, <2>4 DEF ServerWrite, Reach, Arriving
  <2>6. target_got \in [Sessions -> Seq(Got)] /\ item \in Item
    BY <1>2, TypesOfRelay DEF RelayInv, RelayTypes, Message
  <2>7. got \in Seq(Got) /\ <<item>> \in Seq(Item)
    <3> HIDE DEF item
    <3>1. QED BY <2>3, <2>6
  <2>8. Len(got) <= Len(all)
    <3> HIDE DEF got, item
    <3>1. QED BY <2>3, <2>7, ReachedMore
  <2> HIDE DEF all
  <2>9. /\ target_got'[k] = all
        /\ \A j \in Sessions : j # k => target_got'[j] = target_got[j]
    BY <2>3, <2>5, <2>6
  <2>10. QED BY <1>2, <2>3, <2>8, <2>9, TargetGets DEF program
<1>5. QED BY <1>3, <1>4

LEMMA FlowsInitially == Init => Proxied!RelayInit
<1> SUFFICES ASSUME Init PROVE Proxied!RelayInit
  OBVIOUS
<1>1. ASSUME NEW k \in Sessions
      PROVE  app_sent[k] = 0 /\ target_sent[k] = 0 /\ FlowUp(k) = << >> /\ FlowDown(k) = << >>
  <2>1. app_sent[k] = 0 /\ target_sent[k] = 0 /\ app_got[k] = << >> /\ target_got[k] = << >>
    BY DEF Init
  <2>2. FlowUp(k) = << >>
    BY <2>1 DEF FlowUp
  <2>3. {i \in DOMAIN << >> : (<< >>)[i].item = Say("ok")} = {}
    OBVIOUS
  <2>4. AfterOk(app_got[k]) = << >>
    BY <2>1, <2>3 DEF AfterOk
  <2>5. FlowDown(k) = << >>
    BY <2>4 DEF FlowDown
  <2>6. QED BY <2>1, <2>2, <2>5
<1>2. Taken = [f \in Flows |-> 0] /\ Given = [f \in Flows |-> << >>]
  <2>1. \A f \in Flows : f[1] \in Sessions
    BY FlowParts
  <2>2. QED BY <1>1, <2>1 DEF Taken, Given
<1>3. QED BY <1>2 DEF Proxied!RelayInit, Taken, Given

LEMMA FlowsStep ==
  ASSUME Undisturbed, RelayInv, InNumbers, InNumbers', [Next]_vars
  PROVE  [Proxied!RelayNext]_(Proxied!relayVars)
<1>1. ASSUME UNCHANGED <<program, target>> PROVE UNCHANGED Proxied!relayVars
  BY <1>1, QuietStep DEF program
<1>2. CASE UNCHANGED vars
  BY <1>1, <1>2 DEF vars
<1>3. ASSUME NEW c \in Convs, NEW a \in Addresses,
             Accept(c, a) \/ LocalClose(c, a) \/ LocalDelete(c, a)
      PROVE  UNCHANGED Proxied!relayVars
  BY <1>1, <1>3 DEF Accept, LocalClose, LocalDelete
<1>4. ASSUME NEW c \in Convs, Heartbeat(c) PROVE UNCHANGED Proxied!relayVars
  BY <1>1, <1>4 DEF Heartbeat
<1>5. ASSUME NEW c \in Convs, NEW a \in Addresses, NEW state \in {"connecting", "up"},
             ServerIn(c, a, state)
      PROVE  [Proxied!RelayNext]_(Proxied!relayVars)
  BY <1>5, ServerInFlows
<1>6. ASSUME NEW c \in Convs, NEW sid \in Sids,
             \/ ProgramHello(c, sid)
             \/ \E kind \in {"request", "unknown"} : ProgramRequest(c, sid, kind)
      PROVE  UNCHANGED Proxied!relayVars
  BY <1>6, HelloFlows, RequestFlows
<1>7. ASSUME NEW c \in Convs, NEW sid \in Sids, NEW n \in 1..MaxRead, ProgramData(c, sid, n)
      PROVE  Proxied!RelayNext
  BY <1>7, DataFlows
<1>8. ASSUME NEW c \in Convs, RemoteIn(c) PROVE [Proxied!RelayNext]_(Proxied!relayVars)
  BY <1>8, RemoteInFlows
<1>9. ASSUME NEW a \in Addresses, TargetUp(a)
      PROVE  [Proxied!RelayNext]_(Proxied!relayVars)
  BY <1>9, TargetUpFlows
<1>10. ASSUME NEW a \in Addresses, NEW n \in 1..MaxRead, TargetSends(a, n)
       PROVE  Proxied!RelayNext
  BY <1>10, TargetSendsFlows
<1>11. ASSUME NEW a \in Addresses, TargetClose(a) \/ TargetDelete(a) PROVE FALSE
  BY <1>11 DEF TargetClose, TargetDelete, Undisturbed, RelayInv, ChannelKeyed
<1>12. ASSUME NEW c \in Convs, Released(c) PROVE FALSE
  BY <1>12 DEF Released, Undisturbed
<1>13. CASE Next
  BY <1>3, <1>4, <1>5, <1>6, <1>7, <1>8, <1>9, <1>10, <1>11, <1>12, <1>13 DEF Next
<1>14. QED BY <1>2, <1>13

(* The proxy implements the relay: as long as no target closes, clients    *)
(* accept at fresh addresses and no data looks like a hello, what comes    *)
(* out of each flow of each session is what went in, in order, from the    *)
(* beginning, for any number of clients and sessions and reads of any size *)
(* (kcpss.cpp:39-169).                                                     *)
THEOREM RelayKeepsItsPromise == ASSUME Undisturbed PROVE Spec => RelayPromise
<1>1. Init => Proxied!RelayInit
  BY FlowsInitially
<1>2. RelayInv => InNumbers
  BY FlowsInNumbers DEF InNumbers
<1>3. RelayInv /\ InNumbers /\ InNumbers' /\ [Next]_vars => [Proxied!RelayNext]_(Proxied!relayVars)
  BY FlowsStep
<1>4. Spec => []RelayInv
  BY RelayHolds
<1>5. QED BY <1>1, <1>2, <1>3, <1>4, PTL DEF Spec, RelayPromise, Proxied!RelaySafe

===============================================================================
