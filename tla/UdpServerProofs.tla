---------------------------- MODULE UdpServerProofs ----------------------------
(* The connection tables of UdpServer agree, for any number of clients,      *)
(* conversations, endpoints and addresses, roaming or not; and no control    *)
(* block is released twice while the clients keep their addresses, also when *)
(* datagrams are late or come again.                                         *)
EXTENDS MCUdpServer, TLAPS

-------------------------------------------------------------------------------
(* Maps                                                                    *)

\* What m[key] = value does to a map.
LEMMA PutFacts ==
  ASSUME NEW m, NEW key, NEW value
  PROVE  /\ DOMAIN Put(m, key, value) = DOMAIN m \cup {key}
         /\ Put(m, key, value)[key] = value
         /\ \A k \in DOMAIN m : k # key => Put(m, key, value)[k] = m[k]
BY DEF Put

\* What m.erase(key) does to a map.
LEMMA EraseFacts ==
  ASSUME NEW m, NEW key
  PROVE  /\ DOMAIN Erase(m, key) = DOMAIN m \ {key}
         /\ \A k \in DOMAIN m : k # key => Erase(m, key)[k] = m[k]
BY DEF Erase, Restrict

\* An insertion keeps the type of a map's values.
LEMMA PutType ==
  ASSUME NEW V, NEW m, m \in [DOMAIN m -> V], NEW key, NEW value \in V
  PROVE  Put(m, key, value) \in [DOMAIN m \cup {key} -> V]
BY DEF Put

\* So does an erasure.
LEMMA EraseType ==
  ASSUME NEW V, NEW m, m \in [DOMAIN m -> V], NEW key
  PROVE  Erase(m, key) \in [DOMAIN m \ {key} -> V]
BY DEF Erase, Restrict

-------------------------------------------------------------------------------
(* The inductive invariant: besides the properties, every conversation in    *)
(* the tables has been heard.                                                *)

\* The part of the invariant that an abort gives up.
Agreement ==
  /\ \A c \in DOMAIN conv_kcp_ : /\ conv_kcp_[c] \in live
                                 /\ conv[conv_kcp_[c]] = c
                                 /\ c \in DOMAIN conv_ep_
                                 /\ c \in DOMAIN heard
                                 /\ conv_ep_[c] = heard[c]
  /\ \A b \in live : conv[b] \in DOMAIN conv_kcp_ /\ conv_kcp_[conv[b]] = b

IInv == TypeOK /\ (~aborted => Agreement)

\* What the part of the tables on_read keeps must satisfy before it creates a
\* block: Agreement, of the tables eps and kcps and the blocks in alive.
Kept(alive, eps, kcps) ==
  /\ alive \subseteq live
  /\ DOMAIN eps \subseteq Convs /\ eps \in [DOMAIN eps -> Endpoints \cup {NoEndpoint}]
  /\ DOMAIN kcps \subseteq Convs /\ kcps \in [DOMAIN kcps -> DOMAIN conv]
  /\ \A c \in DOMAIN kcps : /\ kcps[c] \in alive
                            /\ conv[kcps[c]] = c
                            /\ c \in DOMAIN eps
                            /\ c \in DOMAIN heard
                            /\ eps[c] = heard[c]
  /\ \A b \in alive : conv[b] \in DOMAIN kcps /\ kcps[conv[b]] = b

\* crtete_kcp and the three assignments after it, as on_read makes them.
LEMMA CreateStep ==
  ASSUME TypeOK, NEW c \in Convs, NEW ep \in Endpoints, NEW alive, NEW eps, NEW kcps,
         Kept(alive, eps, kcps), c \notin DOMAIN kcps,
         Create(c, ep, alive, eps, kcps), heard' = Put(heard, c, ep)
  PROVE  /\ DOMAIN conv' \subseteq Blocks /\ conv' \in [DOMAIN conv' -> Convs]
         /\ live' \subseteq DOMAIN conv' /\ timers' \subseteq DOMAIN conv'
         /\ DOMAIN client_conv_' \subseteq Endpoints
         /\ client_conv_' \in [DOMAIN client_conv_' -> DOMAIN conv']
         /\ DOMAIN conv_ep_' \subseteq Convs
         /\ conv_ep_' \in [DOMAIN conv_ep_' -> Endpoints \cup {NoEndpoint}]
         /\ DOMAIN conv_kcp_' \subseteq Convs
         /\ conv_kcp_' \in [DOMAIN conv_kcp_' -> DOMAIN conv']
         /\ Agreement'
PROOF
<1>1. PICK b \in Blocks \ alive :
        /\ conv' = Put(conv, b, c)
        /\ live' = alive \cup {b}
        /\ timers' = timers \cup {b}
        /\ client_conv_' = Put(client_conv_, ep, b)
        /\ conv_kcp_' = Put(kcps, c, b)
        /\ conv_ep_' = Put(eps, c, ep)
  BY DEF Create, Claim
<1>2. DOMAIN conv' = DOMAIN conv \cup {b} /\ conv'[b] = c
      /\ \A x \in DOMAIN conv : x # b => conv'[x] = conv[x]
  BY <1>1 DEF Put
<1>3. DOMAIN conv_kcp_' = DOMAIN kcps \cup {c} /\ conv_kcp_'[c] = b
      /\ \A x \in DOMAIN kcps : x # c => conv_kcp_'[x] = kcps[x]
  BY <1>1 DEF Put
<1>4. DOMAIN conv_ep_' = DOMAIN eps \cup {c} /\ conv_ep_'[c] = ep
      /\ \A x \in DOMAIN eps : x # c => conv_ep_'[x] = eps[x]
  BY <1>1 DEF Put
<1>5. DOMAIN heard' = DOMAIN heard \cup {c} /\ heard'[c] = ep
      /\ \A x \in DOMAIN heard : x # c => heard'[x] = heard[x]
  BY DEF Put
<1>6. DOMAIN conv' \subseteq Blocks /\ conv' \in [DOMAIN conv' -> Convs]
  <2>1. conv \in [DOMAIN conv -> Convs] /\ DOMAIN conv \subseteq Blocks BY DEF TypeOK
  <2>2. Put(conv, b, c) \in [DOMAIN conv \cup {b} -> Convs] BY <2>1, PutType
  <2> QED BY <1>1, <1>2, <2>1, <2>2
<1>7. live' \subseteq DOMAIN conv' /\ timers' \subseteq DOMAIN conv'
  BY <1>1, <1>2 DEF TypeOK, Kept
<1>8. /\ DOMAIN client_conv_' \subseteq Endpoints
      /\ client_conv_' \in [DOMAIN client_conv_' -> DOMAIN conv']
  <2>1. /\ client_conv_ \in [DOMAIN client_conv_ -> DOMAIN conv']
        /\ DOMAIN client_conv_ \subseteq Endpoints /\ b \in DOMAIN conv'
    BY <1>2 DEF TypeOK
  <2>2. Put(client_conv_, ep, b) \in [DOMAIN client_conv_ \cup {ep} -> DOMAIN conv']
    BY <2>1, PutType
  <2>3. DOMAIN client_conv_' = DOMAIN client_conv_ \cup {ep} BY <1>1 DEF Put
  <2> QED BY <1>1, <2>1, <2>2, <2>3
<1>9. /\ DOMAIN conv_ep_' \subseteq Convs
      /\ conv_ep_' \in [DOMAIN conv_ep_' -> Endpoints \cup {NoEndpoint}]
  <2>1. DOMAIN eps \subseteq Convs /\ eps \in [DOMAIN eps -> Endpoints \cup {NoEndpoint}]
    BY DEF Kept
  <2>2. Put(eps, c, ep) \in [DOMAIN eps \cup {c} -> Endpoints \cup {NoEndpoint}]
    BY <2>1, PutType
  <2> QED BY <1>1, <1>4, <2>1, <2>2
<1>10. /\ DOMAIN conv_kcp_' \subseteq Convs
       /\ conv_kcp_' \in [DOMAIN conv_kcp_' -> DOMAIN conv']
  <2>1. /\ kcps \in [DOMAIN kcps -> DOMAIN conv'] /\ b \in DOMAIN conv'
        /\ DOMAIN kcps \subseteq Convs
    BY <1>2 DEF Kept
  <2>2. Put(kcps, c, b) \in [DOMAIN kcps \cup {c} -> DOMAIN conv']
    BY <2>1, PutType
  <2> QED BY <1>1, <1>3, <2>1, <2>2
<1>11. ASSUME NEW x \in DOMAIN conv_kcp_'
       PROVE  /\ conv_kcp_'[x] \in live'
              /\ conv'[conv_kcp_'[x]] = x
              /\ x \in DOMAIN conv_ep_'
              /\ x \in DOMAIN heard'
              /\ conv_ep_'[x] = heard'[x]
  <2>1. CASE x = c BY <2>1, <1>1, <1>2, <1>3, <1>4, <1>5
  <2>2. CASE x # c
    <3>1. x \in DOMAIN kcps BY <2>2, <1>3
    <3>2. /\ kcps[x] \in alive /\ conv[kcps[x]] = x /\ kcps[x] \in DOMAIN conv
          /\ x \in DOMAIN eps /\ x \in DOMAIN heard /\ eps[x] = heard[x]
      BY <3>1 DEF Kept
    <3>3. kcps[x] # b BY <3>2, <1>1
    <3> QED BY <2>2, <3>1, <3>2, <3>3, <1>1, <1>2, <1>3, <1>4, <1>5
  <2> QED BY <2>1, <2>2
<1>12. ASSUME NEW a \in live'
       PROVE  conv'[a] \in DOMAIN conv_kcp_' /\ conv_kcp_'[conv'[a]] = a
  <2>1. CASE a = b BY <2>1, <1>2, <1>3
  <2>2. CASE a # b
    <3>1. a \in alive /\ a \in DOMAIN conv BY <2>2, <1>1 DEF Kept, TypeOK
    <3>2. conv[a] \in DOMAIN kcps /\ kcps[conv[a]] = a BY <3>1 DEF Kept
    <3> QED BY <2>2, <3>1, <3>2, <1>2, <1>3
  <2> QED BY <2>1, <2>2
<1> QED BY <1>6, <1>7, <1>8, <1>9, <1>10, <1>11, <1>12 DEF Agreement


\* A handler of on_read keeps the invariant.
LEMMA OnReadStep ==
  ASSUME IInv, NEW d \in net, OnRead(d)
  PROVE  IInv'
PROOF
<1> DEFINE c == d.conv
           ep == d.ep
<1>1. c \in Convs /\ ep \in Endpoints BY DEF IInv, TypeOK, Datagram
<1>2. TypeOK /\ Agreement BY DEF IInv, OnRead
<1>3. heard' = Put(heard, c, ep) BY DEF OnRead
<1>4. DOMAIN heard' \subseteq Convs /\ heard' \in [DOMAIN heard' -> Endpoints]
  <2>1. DOMAIN heard \subseteq Convs /\ heard \in [DOMAIN heard -> Endpoints]
    BY <1>2 DEF TypeOK
  <2>2. Put(heard, c, ep) \in [DOMAIN heard \cup {c} -> Endpoints]
    BY <1>1, <2>1, PutType
  <2>3. DOMAIN heard' = DOMAIN heard \cup {c} BY <1>3 DEF Put
  <2> QED BY <1>1, <1>3, <2>1, <2>2, <2>3
<1>5. /\ my_conv' \in [Clients -> Convs] /\ at' \in [Clients -> Endpoints]
      /\ used' \subseteq Convs /\ net' \subseteq Datagram
  BY <1>2 DEF OnRead, TypeOK, client
<1> HIDE DEF c, ep
<1>6. CASE NewEndpoint(c, ep)
  <2>1. aborted' \in BOOLEAN BY <1>2, <1>6 DEF NewEndpoint, TypeOK
  <2>2. c \notin DOMAIN conv_kcp_ /\ Create(c, ep, live, conv_ep_, conv_kcp_)
    BY <1>6 DEF NewEndpoint, Connected
  <2>3. Kept(live, conv_ep_, conv_kcp_) BY <1>2 DEF Kept, TypeOK, Agreement
  <2> QED BY <1>1, <1>2, <1>3, <1>4, <1>5, <2>1, <2>2, <2>3, CreateStep DEF IInv, TypeOK
<1>7. CASE SameEndpoint(c, ep)
  <2> DEFINE old == client_conv_[ep]
  <2>1. CASE old \in live
    <3> DEFINE alive == live \ {old}
               eps == EraseReleased(conv_ep_, old)
               kcps == EraseReleased(conv_kcp_, old)
    <3>1. /\ aborted' \in BOOLEAN /\ c \notin DOMAIN conv_kcp_
          /\ Create(c, ep, alive, eps, kcps)
      BY <1>2, <1>7, <2>1 DEF SameEndpoint, TypeOK, Connected
    <3>2. eps = Erase(conv_ep_, conv[old]) /\ kcps = Erase(conv_kcp_, conv[old])
      BY DEF EraseReleased
    <3>3. Kept(alive, eps, kcps)
      <4>1. /\ DOMAIN eps = DOMAIN conv_ep_ \ {conv[old]}
            /\ DOMAIN kcps = DOMAIN conv_kcp_ \ {conv[old]}
            /\ \A x \in DOMAIN eps : eps[x] = conv_ep_[x]
            /\ \A x \in DOMAIN kcps : kcps[x] = conv_kcp_[x]
        BY <3>2 DEF Erase, Restrict
      <4>2. eps \in [DOMAIN eps -> Endpoints \cup {NoEndpoint}]
        <5>1. Erase(conv_ep_, conv[old])
                \in [DOMAIN conv_ep_ \ {conv[old]} -> Endpoints \cup {NoEndpoint}]
          BY <1>2, EraseType DEF TypeOK
        <5> QED BY <3>2, <4>1, <5>1
      <4>3. kcps \in [DOMAIN kcps -> DOMAIN conv]
        <5>1. Erase(conv_kcp_, conv[old])
                \in [DOMAIN conv_kcp_ \ {conv[old]} -> DOMAIN conv]
          BY <1>2, EraseType DEF TypeOK
        <5> QED BY <3>2, <4>1, <5>1
      <4>4. ASSUME NEW x \in DOMAIN kcps
            PROVE  /\ kcps[x] \in alive /\ conv[kcps[x]] = x
                   /\ x \in DOMAIN eps /\ x \in DOMAIN heard /\ eps[x] = heard[x]
        BY <1>2, <4>1, <4>4 DEF Agreement
      <4>5. ASSUME NEW b \in alive
            PROVE  conv[b] \in DOMAIN kcps /\ kcps[conv[b]] = b
        <5>1. b \in live /\ b # old BY <4>5
        <5>2. conv[b] # conv[old] BY <1>2, <2>1, <5>1 DEF Agreement
        <5> QED BY <1>2, <4>1, <5>1, <5>2 DEF Agreement
      <4>6. DOMAIN eps \subseteq Convs /\ DOMAIN kcps \subseteq Convs
        BY <1>2, <4>1 DEF TypeOK
      <4> HIDE DEF eps, kcps
      <4> QED BY <4>2, <4>3, <4>4, <4>5, <4>6 DEF Kept
    <3>4. c \notin DOMAIN kcps BY <3>1, <3>2 DEF Erase, Restrict
    <3> HIDE DEF alive, eps, kcps
    <3> QED BY <1>1, <1>2, <1>3, <1>4, <1>5, <3>1, <3>3, <3>4, CreateStep DEF IInv, TypeOK
  <2>2. CASE old \notin live
    <3>1. aborted' = TRUE /\ UNCHANGED <<heap, tables>>
      BY <1>7, <2>2 DEF SameEndpoint
    <3> QED BY <1>2, <1>4, <1>5, <3>1 DEF IInv, TypeOK, heap, tables
  <2> QED BY <2>1, <2>2
<1>8. CASE KnownConv(c, ep)
  <2>1. /\ c \in DOMAIN conv_kcp_ /\ c \in DOMAIN conv_ep_ /\ conv_ep_[c] = heard[c]
        /\ conv_kcp_[c] \in DOMAIN conv
    BY <1>2, <1>8 DEF KnownConv, Connected, Agreement, TypeOK
  <2>2. /\ conv' = conv /\ live' = live /\ timers' = timers
        /\ conv_kcp_' = conv_kcp_ /\ aborted' = aborted
    BY <1>8 DEF KnownConv, heap
  <2>3. /\ DOMAIN conv_ep_' = DOMAIN conv_ep_ /\ conv_ep_'[c] = ep
        /\ \A x \in DOMAIN conv_ep_ : x # c => conv_ep_'[x] = conv_ep_[x]
        /\ conv_ep_' \in [DOMAIN conv_ep_' -> Endpoints \cup {NoEndpoint}]
    <3>1. CASE conv_ep_[c] = ep BY <1>2, <1>8, <3>1 DEF KnownConv, Followed, TypeOK
    <3>2. CASE conv_ep_[c] # ep
      <4>1. conv_ep_' = Put(conv_ep_, c, ep) BY <1>8, <3>2 DEF KnownConv, Followed
      <4>2. conv_ep_' \in [DOMAIN conv_ep_ \cup {c} -> Endpoints \cup {NoEndpoint}]
        BY <1>1, <1>2, <4>1, PutType DEF TypeOK
      <4>3. DOMAIN conv_ep_' = DOMAIN conv_ep_ BY <2>1, <4>1 DEF Put
      <4> QED BY <2>1, <4>1, <4>2, <4>3 DEF Put
    <3> QED BY <3>1, <3>2
  <2>4. /\ DOMAIN client_conv_' \subseteq Endpoints
        /\ client_conv_' \in [DOMAIN client_conv_' -> DOMAIN conv]
    <3>1. CASE conv_ep_[c] = ep BY <1>2, <1>8, <3>1 DEF KnownConv, TypeOK
    <3>2. CASE conv_ep_[c] # ep
      <4>1. client_conv_' = Put(client_conv_, ep, conv_kcp_[c])
        BY <1>8, <3>2 DEF KnownConv, Claim
      <4>2. client_conv_' \in [DOMAIN client_conv_ \cup {ep} -> DOMAIN conv]
        BY <1>2, <2>1, <4>1, PutType DEF TypeOK
      <4>3. DOMAIN client_conv_' = DOMAIN client_conv_ \cup {ep} BY <4>1 DEF Put
      <4> QED BY <1>1, <1>2, <4>2, <4>3 DEF TypeOK
    <3> QED BY <3>1, <3>2
  <2>5. /\ DOMAIN heard' = DOMAIN heard \cup {c} /\ heard'[c] = ep
        /\ \A x \in DOMAIN heard : x # c => heard'[x] = heard[x]
    BY <1>3 DEF Put
  <2>6. Agreement'
    BY <1>2, <2>2, <2>3, <2>5 DEF Agreement
  <2> QED BY <1>2, <1>4, <1>5, <2>2, <2>3, <2>4, <2>6 DEF IInv, TypeOK
<1> QED BY <1>6, <1>7, <1>8 DEF OnRead, c, ep


\* A timer, even on a released block, keeps the invariant: the conversation
\* whose endpoint it may insert is in no other table.
LEMMA TimerStep ==
  ASSUME IInv, NEW b \in timers, Timer(b)
  PROVE  IInv'
PROOF
<1>1. TypeOK /\ Agreement BY DEF IInv, Timer
<1>2. UNCHANGED <<conv, live, timers, client_conv_, conv_kcp_, aborted, my_conv, at,
                  used, net, heard>>
  BY DEF Timer, heap, client
<1>3. conv[b] \in Convs BY <1>1 DEF TypeOK
<1>4. /\ DOMAIN conv_ep_' \subseteq Convs
      /\ conv_ep_' \in [DOMAIN conv_ep_' -> Endpoints \cup {NoEndpoint}]
      /\ \A x \in DOMAIN conv_ep_ : x \in DOMAIN conv_ep_' /\ conv_ep_'[x] = conv_ep_[x]
  <2>1. CASE conv_ep_' = conv_ep_ BY <1>1, <2>1 DEF TypeOK
  <2>2. CASE conv[b] \notin DOMAIN conv_ep_
             /\ conv_ep_' = Put(conv_ep_, conv[b], NoEndpoint)
    <3>1. Put(conv_ep_, conv[b], NoEndpoint)
            \in [DOMAIN conv_ep_ \cup {conv[b]} -> Endpoints \cup {NoEndpoint}]
      BY <1>1, PutType DEF TypeOK
    <3>2. /\ DOMAIN conv_ep_' = DOMAIN conv_ep_ \cup {conv[b]}
          /\ \A x \in DOMAIN conv_ep_ : conv_ep_'[x] = conv_ep_[x]
      BY <2>2 DEF Put
    <3> QED BY <1>1, <1>3, <2>2, <3>1, <3>2 DEF TypeOK
  <2> QED BY <2>1, <2>2 DEF Timer, Write
<1>5. Agreement' BY <1>1, <1>2, <1>4 DEF Agreement
<1> QED BY <1>1, <1>2, <1>4, <1>5 DEF IInv, TypeOK

\* The clients leave the server's state alone.
LEMMA ClientStep ==
  ASSUME IInv, NEW k \in Clients,
         ClientSends(k) \/ ClientRestarts(k) \/ ClientMoves(k)
  PROVE  IInv'
PROOF
<1>1. UNCHANGED <<conv, live, timers, client_conv_, conv_ep_, conv_kcp_, aborted, heard>>
  BY DEF ClientSends, ClientRestarts, ClientMoves, heap, tables
<1>2. /\ my_conv' \in [Clients -> Convs] /\ at' \in [Clients -> Endpoints]
      /\ used' \subseteq Convs /\ net' \subseteq Datagram
  <2>1. CASE ClientSends(k) BY <2>1 DEF ClientSends, client, IInv, TypeOK, Datagram
  <2>2. CASE ClientRestarts(k) BY <2>2 DEF ClientRestarts, IInv, TypeOK
  <2>3. CASE ClientMoves(k) BY <2>3 DEF ClientMoves, IInv, TypeOK
  <2> QED BY <2>1, <2>2, <2>3
<1>3. TypeOK' BY <1>1, <1>2 DEF IInv, TypeOK
<1>4. ~aborted' => Agreement' BY <1>1 DEF IInv, Agreement
<1> QED BY <1>3, <1>4 DEF IInv

\* The tables are empty and every client has its address at the start.
LEMMA InitInv == ASSUME Init PROVE IInv
PROOF
<1>1. /\ my_conv \in [Clients -> Convs] /\ at \in [Clients -> Endpoints]
      /\ used \subseteq Convs
  BY DEF Init, Injection, Range
<1>2. TypeOK
  <2>1. \A V : DOMAIN <<>> = {} /\ <<>> \in [{} -> V] OBVIOUS
  <2>2. /\ conv = <<>> /\ live = {} /\ timers = {} /\ aborted = FALSE /\ net = {}
        /\ client_conv_ = <<>> /\ conv_ep_ = <<>> /\ conv_kcp_ = <<>> /\ heard = <<>>
    BY DEF Init
  <2>3. DOMAIN conv = {} /\ conv \in [DOMAIN conv -> Convs] BY <2>1, <2>2
  <2>4. DOMAIN client_conv_ = {} /\ client_conv_ \in [DOMAIN client_conv_ -> DOMAIN conv]
    BY <2>1, <2>2
  <2>5. DOMAIN conv_ep_ = {}
        /\ conv_ep_ \in [DOMAIN conv_ep_ -> Endpoints \cup {NoEndpoint}]
    BY <2>1, <2>2
  <2>6. DOMAIN conv_kcp_ = {} /\ conv_kcp_ \in [DOMAIN conv_kcp_ -> DOMAIN conv]
    BY <2>1, <2>2
  <2>7. DOMAIN heard = {} /\ heard \in [DOMAIN heard -> Endpoints] BY <2>1, <2>2
  <2> QED BY <1>1, <2>2, <2>3, <2>4, <2>5, <2>6, <2>7 DEF TypeOK
<1>3. Agreement BY DEF Init, Agreement
<1> QED BY <1>2, <1>3 DEF IInv

\* Every step keeps the invariant.
LEMMA NextInv == ASSUME IInv, [Next]_vars PROVE IInv'
PROOF
<1>1. CASE Next BY <1>1, ClientStep, OnReadStep, TimerStep DEF Next
<1>2. CASE UNCHANGED vars
  BY <1>2 DEF vars, heap, tables, client, IInv, TypeOK, Agreement
<1> QED BY <1>1, <1>2

\* The inductive invariant of the connection tables.
THEOREM Invariant == Spec => []IInv
PROOF
<1>1. Init => IInv BY InitInv
<1>2. IInv /\ [Next]_vars => IInv' BY NextInv
<1> QED BY <1>1, <1>2, PTL DEF Spec

\* Every variable of the server and of its clients has its type.
THEOREM TypeCorrect == Spec => []TypeOK
PROOF
<1>1. IInv => TypeOK BY DEF IInv
<1> QED BY <1>1, Invariant, PTL

\* conv_kcp_ and the allocated control blocks correspond one to one and every
\* connection has an endpoint, whatever clients restart, move or share.
THEOREM TablesAlwaysAgree == Spec => []TablesAgree
PROOF
<1>1. IInv => TablesAgree
  <2> SUFFICES ASSUME TypeOK, Agreement PROVE TablesAgree
    BY DEF IInv, TablesAgree
  <2>1. \A c \in DOMAIN conv_kcp_ : conv_ep_[c] # NoEndpoint
    BY EndpointAssumption DEF TypeOK, Agreement
  <2>2. live = Range(conv_kcp_) BY DEF Agreement, Range
  <2> QED BY <2>1, <2>2 DEF TablesAgree, Agreement
<1> QED BY <1>1, Invariant, PTL

\* A connection answers to the endpoint its client was last heard from.
THEOREM AnswersAlwaysFollow == Spec => []AnswersFollow
PROOF
<1>1. IInv => AnswersFollow BY DEF IInv, AnswersFollow, Agreement
<1> QED BY <1>1, Invariant, PTL

-------------------------------------------------------------------------------
(* The inductive invariant: every conversation has one home, the endpoint    *)
(* all its datagrams come from, and an endpoint of the table names a live    *)
(* block of a conversation that is at home there.                            *)

\* A conversation number is in use by one client, which sends from one place.
OneHome ==
  /\ \A j, k \in Clients : my_conv[j] = my_conv[k] => j = k
  /\ \A k \in Clients : my_conv[k] \in used
  /\ \A d \in net :
       /\ d.conv \in used
       /\ \A k \in Clients : my_conv[k] = d.conv => at[k] = d.ep
       /\ d.conv \in DOMAIN heard => heard[d.conv] = d.ep
       /\ \A e \in net : e.conv = d.conv => e.ep = d.ep
  /\ \A c \in DOMAIN heard :
       c \in used /\ \A k \in Clients : my_conv[k] = c => at[k] = heard[c]

\* Whoever an endpoint names lives and was heard from there.
NamesLive ==
  \A ep \in DOMAIN client_conv_ :
    /\ client_conv_[ep] \in live
    /\ heard[conv[client_conv_[ep]]] = ep

AtHome == ~aborted /\ OneHome /\ NamesLive

HomeInv == IInv /\ (~roaming => AtHome)

\* A datagram comes from the home of its conversation, and hearing it changes
\* no home.
LEMMA Heard ==
  ASSUME IInv, OneHome, NEW d \in net, OnRead(d)
  PROVE  /\ OneHome'
         /\ DOMAIN heard' = DOMAIN heard \cup {d.conv} /\ heard'[d.conv] = d.ep
         /\ \A c \in DOMAIN heard : heard'[c] = heard[c]
<1>1. /\ heard' = Put(heard, d.conv, d.ep) /\ net' \subseteq net
      /\ UNCHANGED <<my_conv, at, used>>
  BY DEF OnRead, client
<1>2. /\ DOMAIN heard' = DOMAIN heard \cup {d.conv} /\ heard'[d.conv] = d.ep
      /\ \A c \in DOMAIN heard : c # d.conv => heard'[c] = heard[c]
  BY <1>1 DEF Put
<1>3. \A c \in DOMAIN heard : heard'[c] = heard[c]
  BY <1>2 DEF OneHome
<1>4. ASSUME NEW e \in net'
      PROVE  /\ e.conv \in used
             /\ \A k \in Clients : my_conv[k] = e.conv => at[k] = e.ep
             /\ e.conv \in DOMAIN heard' => heard'[e.conv] = e.ep
             /\ \A f \in net' : f.conv = e.conv => f.ep = e.ep
  <2>1. e \in net
    BY <1>1
  <2>2. e.conv \in DOMAIN heard' => heard'[e.conv] = e.ep
    BY <1>2, <1>3, <2>1 DEF OneHome
  <2>3. QED BY <1>1, <2>1, <2>2 DEF OneHome
<1>5. ASSUME NEW c \in DOMAIN heard'
      PROVE  c \in used /\ \A k \in Clients : my_conv[k] = c => at[k] = heard'[c]
  BY <1>2, <1>3 DEF OneHome
<1>6. OneHome'
  BY <1>1, <1>4, <1>5 DEF OneHome
<1>7. QED BY <1>2, <1>3, <1>6

\* A new block for conversation c of endpoint ep, where the endpoints that
\* keep their entry name blocks that are still allocated.
LEMMA CreateHome ==
  ASSUME TypeOK, NEW c, NEW ep, NEW alive, NEW eps, NEW kcps,
         Create(c, ep, alive, eps, kcps), heard'[c] = ep,
         \A e \in DOMAIN client_conv_ \ {ep} :
           /\ client_conv_[e] \in alive
           /\ heard'[conv[client_conv_[e]]] = e
  PROVE  NamesLive'
<1>1. PICK b \in Blocks \ alive :
        /\ conv' = Put(conv, b, c) /\ live' = alive \cup {b}
        /\ client_conv_' = Put(client_conv_, ep, b)
  BY DEF Create, Claim
<1>2. /\ DOMAIN client_conv_' = DOMAIN client_conv_ \cup {ep} /\ client_conv_'[ep] = b
      /\ \A e \in DOMAIN client_conv_ : e # ep => client_conv_'[e] = client_conv_[e]
      /\ conv'[b] = c
      /\ \A x \in DOMAIN conv : x # b => conv'[x] = conv[x]
  BY <1>1 DEF Put
<1>3. ASSUME NEW e \in DOMAIN client_conv_'
      PROVE  client_conv_'[e] \in live' /\ heard'[conv'[client_conv_'[e]]] = e
  <2>1. CASE e = ep
    BY <1>1, <1>2, <2>1
  <2>2. CASE e # ep
    <3>1. e \in DOMAIN client_conv_ \ {ep} /\ client_conv_'[e] = client_conv_[e]
      BY <1>2, <2>2
    <3>2. client_conv_[e] \in alive /\ client_conv_[e] \in DOMAIN conv
      BY <3>1 DEF TypeOK
    <3>3. conv'[client_conv_[e]] = conv[client_conv_[e]]
      BY <1>1, <1>2, <3>2
    <3>4. QED BY <1>1, <3>1, <3>2, <3>3
  <2>3. QED BY <2>1, <2>2
<1>4. QED BY <1>3 DEF NamesLive

\* on_read, with datagrams of any age, releases no block twice.
LEMMA OnReadHome ==
  ASSUME IInv, AtHome, NEW d \in net, OnRead(d)
  PROVE  AtHome'
<1> DEFINE c == d.conv
           ep == d.ep
<1>1. TypeOK /\ Agreement /\ OneHome /\ NamesLive /\ aborted = FALSE
  BY DEF IInv, AtHome, TypeOK
<1>2. /\ OneHome' /\ heard'[c] = ep
      /\ \A x \in DOMAIN heard : heard'[x] = heard[x]
      /\ c \in DOMAIN heard => heard[c] = ep
  BY <1>1, Heard DEF OneHome
<1>3. ASSUME NEW e \in DOMAIN client_conv_
      PROVE  /\ client_conv_[e] \in live /\ conv[client_conv_[e]] \in DOMAIN heard
             /\ heard'[conv[client_conv_[e]]] = e
  BY <1>1, <1>2 DEF NamesLive, Agreement
<1> HIDE DEF c, ep
<1>4. CASE NewEndpoint(c, ep)
  <2>1. Create(c, ep, live, conv_ep_, conv_kcp_) /\ aborted' = FALSE
    BY <1>1, <1>4 DEF NewEndpoint
  <2>2. NamesLive'
    BY <1>1, <1>2, <1>3, <2>1, CreateHome
  <2>3. QED BY <1>2, <2>1, <2>2 DEF AtHome
<1>5. CASE SameEndpoint(c, ep)
  <2> DEFINE old == client_conv_[ep]
  <2>1. ep \in DOMAIN client_conv_ /\ old \in live
    BY <1>3, <1>5 DEF SameEndpoint
  <2>2. /\ Create(c, ep, live \ {old}, EraseReleased(conv_ep_, old),
                  EraseReleased(conv_kcp_, old))
        /\ aborted' = FALSE
    BY <1>1, <1>5, <2>1 DEF SameEndpoint
  <2>3. ASSUME NEW e \in DOMAIN client_conv_ \ {ep}
        PROVE  client_conv_[e] \in live \ {old} /\ heard'[conv[client_conv_[e]]] = e
    BY <1>3, <2>1
  <2>4. NamesLive'
    BY <1>1, <1>2, <2>2, <2>3, CreateHome
  <2>5. QED BY <1>2, <2>2, <2>4 DEF AtHome
<1>6. CASE KnownConv(c, ep)
  <2>1. c \in DOMAIN conv_kcp_ /\ conv_ep_[c] = ep
    BY <1>1, <1>2, <1>6 DEF KnownConv, Connected, Agreement
  <2>2. UNCHANGED <<conv, live, client_conv_, aborted>>
    BY <1>6, <2>1 DEF KnownConv, heap
  <2>3. NamesLive'
    BY <1>3, <2>2 DEF NamesLive
  <2>4. QED BY <1>1, <1>2, <2>2, <2>3 DEF AtHome
<1>7. QED BY <1>4, <1>5, <1>6 DEF OnRead, c, ep

\* A client that keeps its address keeps every home.
LEMMA ClientHome ==
  ASSUME IInv, AtHome, at' = at, NEW k \in Clients,
         ClientSends(k) \/ ClientRestarts(k) \/ ClientMoves(k)
  PROVE  AtHome'
<1>1. UNCHANGED <<conv, live, client_conv_, aborted, heard>>
  BY DEF ClientSends, ClientRestarts, ClientMoves, heap, tables
<1>2. NamesLive' /\ ~aborted'
  BY <1>1 DEF AtHome, NamesLive
<1>3. CASE ClientSends(k)
  <2> DEFINE s == [conv |-> my_conv[k], ep |-> at[k]]
  <2>1. net' = net \cup {s} /\ UNCHANGED <<my_conv, used>>
    BY <1>3 DEF ClientSends, client
  <2>2. /\ s.conv \in used
        /\ \A j \in Clients : my_conv[j] = s.conv => at[j] = s.ep
        /\ s.conv \in DOMAIN heard => heard[s.conv] = s.ep
        /\ \A e \in net : e.conv = s.conv => e.ep = s.ep
    BY DEF AtHome, OneHome
  <2> HIDE DEF s
  <2>3. OneHome'
    BY <1>1, <2>1, <2>2 DEF AtHome, OneHome
  <2>4. QED BY <1>2, <2>3 DEF AtHome
<1>4. CASE ClientRestarts(k)
  <2>1. PICK c \in Convs \ used : /\ my_conv' = [my_conv EXCEPT ![k] = c]
                                  /\ used' = used \cup {c}
    BY <1>4 DEF ClientRestarts
  <2>2. /\ my_conv'[k] = c /\ net' = net
        /\ \A j \in Clients : j # k => my_conv'[j] = my_conv[j]
    BY <1>4, <2>1 DEF ClientRestarts, IInv, TypeOK
  <2>3. /\ \A i, j \in Clients : my_conv'[i] = my_conv'[j] => i = j
        /\ \A j \in Clients : my_conv'[j] \in used'
    BY <2>1, <2>2 DEF AtHome, OneHome
  <2>4. ASSUME NEW x \in used, NEW j \in Clients, my_conv'[j] = x
        PROVE  my_conv[j] = x
    BY <2>1, <2>2, <2>4
  <2>5. OneHome'
    BY <1>1, <2>1, <2>2, <2>3, <2>4 DEF AtHome, OneHome
  <2>6. QED BY <1>2, <2>5 DEF AtHome
<1>5. CASE ClientMoves(k)
  <2>1. UNCHANGED <<my_conv, used, net>>
    BY <1>5 DEF ClientMoves
  <2>2. OneHome'
    BY <1>1, <2>1 DEF AtHome, OneHome
  <2>3. QED BY <1>2, <2>2 DEF AtHome
<1>6. QED BY <1>3, <1>4, <1>5

LEMMA HomeStep ==
  ASSUME IInv, AtHome, at' = at, [Next]_vars
  PROVE  AtHome'
<1>1. CASE UNCHANGED vars
  BY <1>1 DEF vars, heap, tables, client, AtHome, OneHome, NamesLive
<1>2. ASSUME NEW b \in timers, Timer(b) PROVE AtHome'
  BY <1>2 DEF Timer, heap, client, AtHome, OneHome, NamesLive
<1>3. QED BY <1>1, <1>2, ClientHome, OnReadHome DEF Next

LEMMA HomeInitially == ASSUME Init PROVE AtHome
<1>1. \A j, k \in Clients : my_conv[j] = my_conv[k] => j = k
  BY DEF Init, Injection, IsInjective
<1>2. \A k \in Clients : my_conv[k] \in used
  BY DEF Init, Injection, Range
<1>3. net = {} /\ DOMAIN heard = {} /\ DOMAIN client_conv_ = {} /\ ~aborted
  BY DEF Init
<1>4. QED BY <1>1, <1>2, <1>3 DEF AtHome, OneHome, NamesLive

\* While the clients keep their addresses, whichever of them restart and
\* whichever datagrams are late or come again, no control block is released
\* twice (udp.cpp:155-164).
THEOREM HomesReleaseOnce == EitherSpec => []ReleasedOnceAtHome
<1>1. EitherInit => HomeInv
  BY InitInv, HomeInitially DEF EitherInit, HomeInv
<1>2. HomeInv /\ [Next /\ UNCHANGED roaming /\ (at' # at => roaming)]_<<vars, roaming>>
        => HomeInv'
  <2> SUFFICES ASSUME HomeInv,
                      [Next /\ UNCHANGED roaming /\ (at' # at => roaming)]_<<vars, roaming>>
               PROVE  HomeInv'
    OBVIOUS
  <2>1. [Next]_vars /\ roaming' = roaming /\ (at' # at => roaming)
    BY DEF vars, client
  <2>2. IInv'
    BY <2>1, NextInv DEF HomeInv
  <2>3. ASSUME ~roaming' PROVE AtHome'
    <3>1. ~roaming
      BY <2>1, <2>3
    <3>2. QED BY <2>1, <3>1, HomeStep DEF HomeInv
  <2>4. QED BY <2>2, <2>3 DEF HomeInv
<1>3. HomeInv => ReleasedOnceAtHome
  BY DEF HomeInv, AtHome, ReleasedOnceAtHome, ReleasedOnce
<1>4. QED BY <1>1, <1>2, <1>3, PTL DEF EitherSpec

===============================================================================
