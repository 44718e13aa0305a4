----------------------------- MODULE ChannelProofs -----------------------------
(***************************************************************************)
(* Proofs about Channel, for any number of channels and descriptors,       *)
(* retries and writes: the type invariant, that a channel is disconnected  *)
(* exactly once before it is deleted, that writes reach the socket once    *)
(* and in order, and, where no two timers share an id, that every handler  *)
(* that runs is that of a channel that exists.                             *)
(***************************************************************************)
EXTENDS Channel, SequenceTheorems, TLAPS

\* The tables of a reactor are a record of five fields.
Fields(r) ==
  [timers : {r.timers}, ios : {r.ios}, active : {r.active},
   freed : {r.freed}, misused : {r.misused}]

Of(t, i, a, f, m) ==
  [timers |-> t, ios |-> i, active |-> a, freed |-> f, misused |-> m]

ReactorOK(r) ==
  /\ r \in Fields(r)
  /\ r.active \subseteq Watcher /\ r.freed \subseteq Watcher
  /\ \A id \in DOMAIN r.timers : r.timers[id] \in Watcher
  /\ \A f \in DOMAIN r.ios : r.ios[f] \in Watcher

\* What an active watcher says of its channel: one that retries was neither
\* connected nor disconnected since and is its channel's only one; one that
\* deletes follows a disconnection.
Tells(w) ==
  /\ fd_[w.owner] # -1
  /\ w.kind = "retry" =>
       /\ reconnect_count_[w.owner] = w.n + 1 /\ w.n < MaxRetries
       /\ closes[w.owner] = 0 /\ ~connected_[w.owner]
  /\ w.kind = "check" => closes[w.owner] = 1
  /\ w.kind # "retry" => w.n = 0

WatchersTell == \A w \in reactor.active : Tells(w)

\* What the fields of a channel say of its life.
Lives(c) ==
  /\ closes[c] \in {0, 1}
  /\ connected_[c] => closes[c] = 0
  /\ fd_[c] = -1 => c \notin channels_ /\ closes[c] = 0 /\ ~connected_[c]
                      /\ reconnect_count_[c] = 0
  /\ (fd_[c] # -1 /\ c \notin channels_) => closes[c] = 1

ChannelsLive == \A c \in Channels : Lives(c)

\* What is in the buffer and was not handed to ::write.
Waiting(c) == IF writing = c THEN << >> ELSE send_buffer_[c]

\* WritesInOrder of one channel.
Ordered(c) ==
  /\ sent[c] \o Waiting(c) = [i \in 1..given[c] |-> i]
  /\ connected_[c] => Waiting(c) = << >>

LifeInv == TypeOK /\ ReactorOK(reactor) /\ WatchersTell /\ ChannelsLive /\ WritesInOrder

--------------------------------------------------------------------------------
(* The tables of the reactor.                                              *)

LEMMA WatcherTypes ==
  ASSUME NEW c \in Channels
  PROVE  /\ Check(c) \in Watcher /\ Io(c) \in Watcher
         /\ \A n \in 0..MaxRetries : Retry(c, n) \in Watcher
  BY RetryAssumption DEF Check, Io, Retry, Watcher

LEMMA TimerSet ==
  ASSUME NEW r, r \in Fields(r), NEW t, NEW a
  PROVE  [r EXCEPT !.timers = t, !.active = a]
           = Of(t, r.ios, a, r.freed, r.misused)
<1> DEFINE p == [r EXCEPT !.timers = t]
<1>1. p = Of(t, r.ios, r.active, r.freed, r.misused)
  BY DEF Fields, Of
<1>2. p \in Fields(p)
  BY <1>1 DEF Fields, Of
<1>3. [p EXCEPT !.active = a] = Of(t, r.ios, a, r.freed, r.misused)
  <2> HIDE DEF p
  <2> QED BY <1>1, <1>2 DEF Fields, Of
<1> QED BY <1>3

LEMMA IoSet ==
  ASSUME NEW r, r \in Fields(r), NEW t, NEW a
  PROVE  [r EXCEPT !.ios = t, !.active = a]
           = Of(r.timers, t, a, r.freed, r.misused)
<1> DEFINE p == [r EXCEPT !.ios = t]
<1>1. p = Of(r.timers, t, r.active, r.freed, r.misused)
  BY DEF Fields, Of
<1>2. p \in Fields(p)
  BY <1>1 DEF Fields, Of
<1>3. [p EXCEPT !.active = a] = Of(r.timers, t, a, r.freed, r.misused)
  <2> HIDE DEF p
  <2> QED BY <1>1, <1>2 DEF Fields, Of
<1> QED BY <1>3

LEMMA ActiveSet ==
  ASSUME NEW r, r \in Fields(r), NEW a
  PROVE  [r EXCEPT !.active = a] = Of(r.timers, r.ios, a, r.freed, r.misused)
  BY DEF Fields, Of

LEMMA OfFacts ==
  ASSUME NEW t, NEW i, NEW a, NEW f, NEW m,
         \A id \in DOMAIN t : t[id] \in Watcher, \A fd \in DOMAIN i : i[fd] \in Watcher,
         a \subseteq Watcher, f \subseteq Watcher
  PROVE  ReactorOK(Of(t, i, a, f, m)) /\ Of(t, i, a, f, m).active = a
  BY DEF ReactorOK, Fields, Of

LEMMA RegisterIs ==
  ASSUME NEW r, r \in Fields(r), NEW id, NEW w
  PROVE  /\ RegisterTimer(r, id, w)
              = Of(Put(r.timers, id, w), r.ios, r.active \cup {w}, r.freed, r.misused)
         /\ RegisterIO(r, id, w)
              = Of(r.timers, Put(r.ios, id, w), r.active \cup {w}, r.freed, r.misused)
  BY TimerSet, IoSet DEF RegisterTimer, RegisterIO

LEMMA DiscardIs ==
  ASSUME NEW r, r \in Fields(r), NEW w
  PROVE  Discard(r, w) = Of(r.timers, r.ios, r.active \ {w}, r.freed \cup {w},
                            r.misused \/ w \in r.freed)
<1> DEFINE a == r.active \ {w}
           f == r.freed \cup {w}
           m == r.misused \/ w \in r.freed
           p == [r EXCEPT !.active = a]
           q == [p EXCEPT !.freed = f]
<1> SUFFICES Discard(r, w) = Of(r.timers, r.ios, a, f, m)
  OBVIOUS
<1> HIDE DEF a, f, m
<1>1. p = Of(r.timers, r.ios, a, r.freed, r.misused) /\ p \in Fields(p)
  BY DEF Fields, Of
<1>2. q = Of(r.timers, r.ios, a, f, r.misused) /\ q \in Fields(q)
  <2> HIDE DEF p
  <2> QED BY <1>1 DEF Fields, Of
<1>3. [q EXCEPT !.misused = m] = Of(r.timers, r.ios, a, f, m)
  <2> HIDE DEF q
  <2> QED BY <1>2 DEF Fields, Of
<1>4. QED BY <1>3, Zenon DEF Discard, a, f, m

LEMMA FiredIs ==
  ASSUME NEW r, r \in Fields(r), NEW w
  PROVE  Fired(r, w) = Of(r.timers, r.ios, r.active \ {w}, r.freed, r.misused)
  BY ActiveSet DEF Fired

LEMMA RegisterFacts ==
  ASSUME NEW r, ReactorOK(r), NEW id, NEW w \in Watcher
  PROVE  /\ ReactorOK(RegisterTimer(r, id, w)) /\ ReactorOK(RegisterIO(r, id, w))
         /\ RegisterTimer(r, id, w).active = r.active \cup {w}
         /\ RegisterIO(r, id, w).active = r.active \cup {w}
<1>1. /\ \A i \in DOMAIN Put(r.timers, id, w) : Put(r.timers, id, w)[i] \in Watcher
      /\ \A i \in DOMAIN Put(r.ios, id, w) : Put(r.ios, id, w)[i] \in Watcher
      /\ r.active \cup {w} \subseteq Watcher /\ r.freed \subseteq Watcher
      /\ \A i \in DOMAIN r.timers : r.timers[i] \in Watcher
      /\ \A i \in DOMAIN r.ios : r.ios[i] \in Watcher
  BY DEF Put, ReactorOK
<1>2. /\ RegisterTimer(r, id, w)
           = Of(Put(r.timers, id, w), r.ios, r.active \cup {w}, r.freed, r.misused)
      /\ RegisterIO(r, id, w)
           = Of(r.timers, Put(r.ios, id, w), r.active \cup {w}, r.freed, r.misused)
  BY RegisterIs DEF ReactorOK
<1>3. QED BY <1>1, <1>2, OfFacts

LEMMA DiscardFacts ==
  ASSUME NEW r, ReactorOK(r), NEW w \in Watcher
  PROVE  ReactorOK(Discard(r, w)) /\ Discard(r, w).active \subseteq r.active
<1> DEFINE m == r.misused \/ w \in r.freed
<1>1. Discard(r, w) = Of(r.timers, r.ios, r.active \ {w}, r.freed \cup {w}, m)
  BY DiscardIs, Zenon DEF ReactorOK
<1>2. /\ r.active \ {w} \subseteq Watcher /\ r.freed \cup {w} \subseteq Watcher
      /\ \A i \in DOMAIN r.timers : r.timers[i] \in Watcher
      /\ \A i \in DOMAIN r.ios : r.ios[i] \in Watcher
  BY DEF ReactorOK
<1> HIDE DEF m
<1>3. QED BY <1>1, <1>2, OfFacts

LEMMA RemoveFacts ==
  ASSUME NEW r, ReactorOK(r), NEW id
  PROVE  /\ ReactorOK(RemoveTimer(r, id)) /\ RemoveTimer(r, id).active \subseteq r.active
         /\ ReactorOK(RemoveIO(r, id)) /\ RemoveIO(r, id).active \subseteq r.active
<1>1. /\ id \in DOMAIN r.timers => r.timers[id] \in Watcher
      /\ id \in DOMAIN r.ios => r.ios[id] \in Watcher
  BY DEF ReactorOK
<1>2. QED BY <1>1, DiscardFacts DEF RemoveTimer, RemoveIO

LEMMA FiredFacts ==
  ASSUME NEW r, ReactorOK(r), NEW w
  PROVE  ReactorOK(Fired(r, w)) /\ Fired(r, w).active = r.active \ {w}
<1>1. Fired(r, w) = Of(r.timers, r.ios, r.active \ {w}, r.freed, r.misused)
  BY FiredIs DEF ReactorOK
<1>2. /\ r.active \ {w} \subseteq Watcher /\ r.freed \subseteq Watcher
      /\ \A i \in DOMAIN r.timers : r.timers[i] \in Watcher
      /\ \A i \in DOMAIN r.ios : r.ios[i] \in Watcher
  BY DEF ReactorOK
<1>3. QED BY <1>1, <1>2, OfFacts

\* Counting one further.
LEMMA CountOn ==
  ASSUME NEW n \in Nat
  PROVE  /\ [i \in 1..n |-> i] \in Seq(Nat)
         /\ Append([i \in 1..n |-> i], n + 1) = [i \in 1..n + 1 |-> i]
  OBVIOUS

\* An item appended to the second of two sequences ends both.
LEMMA ConcatAppend ==
  ASSUME NEW S, NEW s \in Seq(S), NEW t \in Seq(S), NEW x \in S
  PROVE  s \o Append(t, x) = Append(s \o t, x)
<1>1. <<x>> \in Seq(S) /\ s \o t \in Seq(S)
  BY ConcatProperties
<1>2. Append(t, x) = t \o <<x>>
  BY AppendIsConcat
<1>3. Append(s \o t, x) = (s \o t) \o <<x>>
  BY <1>1, AppendIsConcat
<1>4. (s \o t) \o <<x>> = s \o (t \o <<x>>)
  BY <1>1, ConcatAssociative
<1>5. QED BY <1>2, <1>3, <1>4

--------------------------------------------------------------------------------
(* A try to connect.                                                       *)

\* Nothing of another channel changes.
Others(c) ==
  \A d \in Channels \ {c} :
    /\ connected_'[d] = connected_[d] /\ closes'[d] = closes[d]
    /\ reconnect_count_'[d] = reconnect_count_[d]
    /\ send_buffer_'[d] = send_buffer_[d] /\ sent'[d] = sent[d]
    /\ writing = NoChannel => writing' # d

\* The outcomes of a try by c, whose tables were r.
Connected(c, r) ==
  /\ connected_'[c] /\ closes'[c] = closes[c]
  /\ reconnect_count_'[c] = reconnect_count_[c]
  /\ sent'[c] = sent[c] \o send_buffer_[c]
  /\ send_buffer_'[c] = << >> \/ writing' = c
  /\ reactor'.active \subseteq r.active

Unsent(c) ==
  send_buffer_'[c] = send_buffer_[c] /\ sent'[c] = sent[c] /\ writing' = writing

GaveUp(c, r) ==
  /\ ~connected_'[c] /\ closes'[c] = closes[c] + 1 /\ Unsent(c)
  /\ reconnect_count_'[c] = reconnect_count_[c] + 1
  /\ reactor'.active \subseteq r.active \cup {Check(c)}

TriesAgain(c, r) ==
  /\ connected_'[c] = connected_[c] /\ closes'[c] = closes[c] /\ Unsent(c)
  /\ reconnect_count_'[c] = reconnect_count_[c] + 1
  /\ reconnect_count_[c] < MaxRetries
  /\ reactor'.active \subseteq r.active \cup {Retry(c, reconnect_count_[c])}

LEMMA ConnectOutcomes ==
  ASSUME TypeOK, NEW c \in Channels, NEW r, ReactorOK(r), NEW writable \in BOOLEAN,
         reconnect_count_[c] \in 0..MaxRetries, OnConnect(c, r, writable)
  PROVE  /\ ReactorOK(reactor') /\ Others(c)
         /\ connected_' \in [Channels -> BOOLEAN] /\ closes' \in [Channels -> Nat]
         /\ reconnect_count_' \in [Channels -> 0..MaxRetries + 1]
         /\ send_buffer_' \in [Channels -> Seq(1..MaxWrites)]
         /\ sent' \in [Channels -> Seq(1..MaxWrites)]
         /\ writing' \in Channels \cup {NoChannel}
         /\ Connected(c, r) \/ GaveUp(c, r) \/ TriesAgain(c, r)
<1> DEFINE n == reconnect_count_[c]
<1>0. MaxRetries \in Nat /\ n \in Nat /\ n <= MaxRetries
  BY RetryAssumption
<1>1. CASE /\ writable
           /\ reactor' = IF n > 0 THEN RemoveTimer(r, RetryId(fd_'[c])) ELSE r
           /\ FlushBuffer(c)
           /\ UNCHANGED <<reconnect_count_, closes>>
  <2>1. ReactorOK(reactor') /\ reactor'.active \subseteq r.active
    BY <1>1, RemoveFacts
  <2>2. sent[c] \o send_buffer_[c] \in Seq(1..MaxWrites)
    BY DEF TypeOK
  <2>3. /\ connected_' = [connected_ EXCEPT ![c] = TRUE]
        /\ sent' = [sent EXCEPT ![c] = sent[c] \o send_buffer_[c]]
        /\ UNCHANGED <<reconnect_count_, closes>>
    BY <1>1 DEF FlushBuffer
  <2>4. \/ send_buffer_' = [send_buffer_ EXCEPT ![c] = << >>] /\ writing' = writing
        \/ send_buffer_' = send_buffer_ /\ writing' = c
    BY <1>1 DEF FlushBuffer
  <2>5. /\ send_buffer_' \in [Channels -> Seq(1..MaxWrites)]
        /\ writing' \in Channels \cup {NoChannel}
        /\ send_buffer_'[c] = << >> \/ writing' = c
        /\ \A d \in Channels \ {c} : send_buffer_'[d] = send_buffer_[d]
        /\ \A d \in Channels \ {c} : writing = NoChannel => writing' # d
    <3>1. /\ << >> \in Seq(1..MaxWrites) /\ writing \in Channels \cup {NoChannel}
          /\ send_buffer_ \in [Channels -> Seq(1..MaxWrites)]
      BY DEF TypeOK
    <3>2. CASE send_buffer_' = [send_buffer_ EXCEPT ![c] = << >>] /\ writing' = writing
      BY <3>1, <3>2, ChannelAssumption
    <3>3. CASE send_buffer_' = send_buffer_ /\ writing' = c
      BY <3>1, <3>3
    <3>4. QED BY <2>4, <3>2, <3>3
  <2>6. /\ sent' \in [Channels -> Seq(1..MaxWrites)]
        /\ sent'[c] = sent[c] \o send_buffer_[c]
        /\ \A d \in Channels \ {c} : sent'[d] = sent[d]
    BY <2>2, <2>3 DEF TypeOK
  <2>7. QED BY <2>1, <2>3, <2>5, <2>6 DEF TypeOK, Others, Connected
<1>2. CASE /\ GivesUp(n + 1)
           /\ reconnect_count_' = [reconnect_count_ EXCEPT ![c] = n + 1]
           /\ UNCHANGED <<send_buffer_, sent, writing>>
           /\ OnDisconnect(c, RemoveTimer(r, RetryId(fd_'[c])))
  <2>1. ReactorOK(reactor') /\ reactor'.active \subseteq r.active \cup {Check(c)}
    BY <1>2, RemoveFacts, RegisterFacts, WatcherTypes DEF OnDisconnect
  <2>2. QED BY <1>0, <1>2, <2>1, ChannelAssumption
                DEF TypeOK, OnDisconnect, Others, GaveUp, Unsent
<1>3. CASE /\ ~GivesUp(n + 1)
           /\ reconnect_count_' = [reconnect_count_ EXCEPT ![c] = n + 1]
           /\ UNCHANGED <<send_buffer_, sent, writing>>
           /\ reactor' = RegisterTimer(r, RetryId(fd_'[c]), Retry(c, n))
           /\ UNCHANGED <<connected_, closes>>
  <2>1. ReactorOK(reactor') /\ reactor'.active \subseteq r.active \cup {Retry(c, n)}
    BY <1>0, <1>3, RegisterFacts, WatcherTypes
  <2>2. n < MaxRetries
    BY <1>0, <1>3 DEF GivesUp
  <2>3. QED BY <1>0, <1>3, <2>1, <2>2, ChannelAssumption
                DEF TypeOK, Others, TriesAgain, Unsent
<1>4. QED BY <1>1, <1>2, <1>3 DEF OnConnect

\* After a try every part of the invariant holds again, if c was neither
\* connected nor disconnected and has no timer left in the tables.
LEMMA ConnectKeeps ==
  ASSUME LifeInv, NEW c \in Channels, NEW r, ReactorOK(r), NEW writable \in BOOLEAN,
         ~connected_[c], closes[c] = 0, reconnect_count_[c] \in 0..MaxRetries,
         \A w \in r.active : IF w.owner = c THEN w.kind = "io" /\ w.n = 0
                                            ELSE w \in reactor.active,
         OnConnect(c, r, writable), writing = NoChannel, UNCHANGED <<reading, given>>,
         fd_' \in [Channels -> Fds \cup {-1}], fd_'[c] # -1,
         \A d \in Channels \ {c} : fd_'[d] = fd_[d],
         channels_' \subseteq Channels, c \in channels_',
         \A d \in Channels \ {c} : d \in channels_' <=> d \in channels_
  PROVE  LifeInv'
<1>1. /\ ReactorOK(reactor') /\ Others(c)
      /\ connected_' \in [Channels -> BOOLEAN] /\ closes' \in [Channels -> Nat]
      /\ reconnect_count_' \in [Channels -> 0..MaxRetries + 1]
      /\ send_buffer_' \in [Channels -> Seq(1..MaxWrites)]
      /\ sent' \in [Channels -> Seq(1..MaxWrites)]
      /\ writing' \in Channels \cup {NoChannel}
      /\ Connected(c, r) \/ GaveUp(c, r) \/ TriesAgain(c, r)
  BY ConnectOutcomes DEF LifeInv
<1>2. TypeOK'
  BY <1>1 DEF LifeInv, TypeOK, ReactorOK
<1>3. WatchersTell'
  <2> SUFFICES ASSUME NEW w \in reactor'.active PROVE Tells(w)'
    BY DEF WatchersTell
  <2>1. w \in Watcher
    BY <1>1 DEF ReactorOK
  <2>2. w.owner \in Channels /\ (w.kind = "check" => w.kind # "retry")
    BY <2>1 DEF Watcher
  <2>3. CASE w \in r.active /\ w.owner # c
    <3>1. Tells(w)
      BY <2>3 DEF LifeInv, WatchersTell
    <3>2. QED BY <1>1, <2>2, <2>3, <3>1 DEF Tells, Others
  <2>4. CASE w \in r.active /\ w.owner = c
    BY <2>4 DEF Tells
  <2>5. CASE w \notin r.active /\ GaveUp(c, r)
    BY <2>5, <2>2 DEF GaveUp, Tells, Check
  <2>6. CASE w \notin r.active /\ TriesAgain(c, r)
    BY <2>6, <2>2 DEF TriesAgain, Tells, Retry
  <2>7. QED BY <1>1, <2>3, <2>4, <2>5, <2>6 DEF Connected
<1>4. ChannelsLive'
  <2> SUFFICES ASSUME NEW d \in Channels PROVE Lives(d)'
    BY DEF ChannelsLive
  <2>1. CASE d # c
    <3>1. Lives(d)
      BY DEF LifeInv, ChannelsLive
    <3>2. QED BY <1>1, <2>1, <3>1 DEF Lives, Others
  <2>2. CASE d = c
    <3>1. /\ closes'[c] \in {0, 1}
          /\ connected_'[c] => closes'[c] = 0
      <4>1. CASE Connected(c, r)
        BY <4>1 DEF Connected
      <4>2. CASE GaveUp(c, r)
        BY <4>2 DEF GaveUp
      <4>3. CASE TriesAgain(c, r)
        BY <4>3 DEF TriesAgain
      <4>4. QED BY <1>1, <4>1, <4>2, <4>3
    <3>2. QED BY <2>2, <3>1 DEF Lives
  <2>3. QED BY <2>1, <2>2
<1>5. WritesInOrder'
  <2> SUFFICES ASSUME NEW d \in Channels PROVE Ordered(d)'
    BY DEF WritesInOrder, Ordered, Waiting
  <2>1. /\ sent[d] \o send_buffer_[d] = [i \in 1..given[d] |-> i] /\ given' = given
        /\ connected_[d] => send_buffer_[d] = << >>
    BY ChannelAssumption DEF LifeInv, WritesInOrder
  <2>2. CASE d # c
    BY <1>1, <2>1, <2>2 DEF Others, Ordered, Waiting
  <2>3. CASE d = c /\ Connected(c, r)
    <3>1. sent[c] \o send_buffer_[c] \in Seq(1..MaxWrites)
      BY DEF LifeInv, TypeOK
    <3>2. (sent[c] \o send_buffer_[c]) \o << >> = sent[c] \o send_buffer_[c]
      BY <3>1, ConcatEmptySeq
    <3>3. Waiting(c)' = << >> /\ sent'[c] = sent[c] \o send_buffer_[c]
      BY <2>3 DEF Connected, Waiting
    <3>4. QED BY <2>1, <2>3, <3>2, <3>3 DEF Ordered
  <2>4. CASE d = c /\ (GaveUp(c, r) \/ TriesAgain(c, r))
    <3>1. Waiting(c)' = send_buffer_[c] /\ sent'[c] = sent[c]
      BY <2>4, ChannelAssumption DEF GaveUp, TriesAgain, Unsent, Waiting
    <3>2. ~connected_'[c]
      BY <2>4 DEF GaveUp, TriesAgain
    <3>3. QED BY <2>1, <2>4, <3>1, <3>2 DEF Ordered
  <2>5. QED BY <1>1, <2>2, <2>3, <2>4
<1>6. QED BY <1>1, <1>2, <1>3, <1>4, <1>5 DEF LifeInv

--------------------------------------------------------------------------------
(* The actions.                                                            *)

LEMMA CreateStep ==
  ASSUME LifeInv, NEW c \in Channels, NEW fd \in Fds, NEW writable \in BOOLEAN,
         Create(c, fd, writable)
  PROVE  LifeInv'
<1> DEFINE r == RegisterIO(reactor, fd, Io(c))
<1>1. /\ ReactorOK(r) /\ r.active = reactor.active \cup {Io(c)}
  BY RegisterFacts, WatcherTypes DEF LifeInv
<1>2. fd_[c] = -1
  BY DEF Create
<1>3. \A w \in reactor.active : w.owner # c
  BY <1>2 DEF LifeInv, WatchersTell, Tells
<1>4. \A w \in r.active : IF w.owner = c THEN w.kind = "io" /\ w.n = 0
                                            ELSE w \in reactor.active
  BY <1>1, <1>3 DEF Io
<1>5. ~connected_[c] /\ closes[c] = 0 /\ reconnect_count_[c] \in 0..MaxRetries
  BY <1>2, RetryAssumption DEF LifeInv, ChannelsLive, Lives
<1>6. /\ fd_' \in [Channels -> Fds \cup {-1}] /\ fd_'[c] # -1
      /\ \A d \in Channels \ {c} : fd_'[d] = fd_[d]
  BY FdAssumption DEF Create, LifeInv, TypeOK
<1>7. /\ channels_' \subseteq Channels /\ c \in channels_'
      /\ \A d \in Channels \ {c} : d \in channels_' <=> d \in channels_
  BY DEF Create, LifeInv, TypeOK
<1>8. OnConnect(c, r, writable) /\ writing = NoChannel /\ UNCHANGED <<reading, given>>
  BY DEF Create, Idle
<1> HIDE DEF r
<1>9. QED BY <1>1, <1>4, <1>5, <1>6, <1>7, <1>8, ConnectKeeps

LEMMA RetryStep ==
  ASSUME LifeInv, NEW c \in Channels, NEW writable \in BOOLEAN,
         RetryConnect(c, writable)
  PROVE  LifeInv'
<1>1. PICK n \in 0..MaxRetries :
        /\ Retry(c, n) \in reactor.active
        /\ UNCHANGED <<channels_, fd_, reading, given>>
        /\ OnConnect(c, Fired(reactor, Retry(c, n)), writable)
  BY DEF RetryConnect
<1> DEFINE r == Fired(reactor, Retry(c, n))
<1>2. ReactorOK(r) /\ r.active = reactor.active \ {Retry(c, n)}
  BY FiredFacts DEF LifeInv
<1>3. /\ fd_[c] # -1 /\ reconnect_count_[c] = n + 1 /\ n < MaxRetries
      /\ closes[c] = 0 /\ ~connected_[c]
  <2>1. Tells(Retry(c, n))
    BY <1>1 DEF LifeInv, WatchersTell
  <2>2. QED BY <2>1 DEF Tells, Retry
<1>4. reconnect_count_[c] \in 0..MaxRetries
  BY <1>3, RetryAssumption
<1>5. \A w \in r.active : IF w.owner = c THEN w.kind = "io" /\ w.n = 0
                                            ELSE w \in reactor.active
  <2> SUFFICES ASSUME NEW w \in r.active, w.owner = c PROVE w.kind = "io" /\ w.n = 0
    BY <1>2
  <2>1. w \in Watcher /\ Tells(w) /\ w # Retry(c, n)
    BY <1>2 DEF LifeInv, WatchersTell, ReactorOK
  <2>2. w.kind # "check"
    BY <1>3, <2>1 DEF Tells
  <2>3. w.kind # "retry"
    <3> SUFFICES ASSUME w.kind = "retry" PROVE FALSE
      OBVIOUS
    <3>1. w.n + 1 = n + 1 /\ w.n \in 0..MaxRetries
      BY <1>3, <2>1 DEF Tells, Watcher
    <3>2. w.n = n
      BY <3>1
    <3>3. w = Retry(c, n)
      BY <2>1, <3>2 DEF Watcher, Retry
    <3>4. QED BY <2>1, <3>3
  <2>4. QED BY <2>1, <2>2, <2>3 DEF Watcher, Tells
<1>6. c \in channels_
  BY <1>3 DEF LifeInv, ChannelsLive, Lives
<1>7. /\ fd_' \in [Channels -> Fds \cup {-1}] /\ fd_'[c] # -1
      /\ \A d \in Channels \ {c} : fd_'[d] = fd_[d]
      /\ channels_' \subseteq Channels /\ c \in channels_'
      /\ \A d \in Channels \ {c} : d \in channels_' <=> d \in channels_
  BY <1>1, <1>3, <1>6 DEF LifeInv, TypeOK
<1>8. OnConnect(c, r, writable) /\ writing = NoChannel /\ UNCHANGED <<reading, given>>
  BY <1>1 DEF RetryConnect, Idle
<1> HIDE DEF r
<1>9. QED BY <1>2, <1>3, <1>4, <1>5, <1>7, <1>8, ConnectKeeps

LEMMA WriteStep ==
  ASSUME LifeInv, NEW c \in Channels, Write(c)
  PROVE  LifeInv'
<1> DEFINE n == given[c]
<1>0. /\ n \in 0..MaxWrites /\ n < MaxWrites /\ given' = [given EXCEPT ![c] = n + 1]
      /\ given'[c] = n + 1 /\ n \in Nat /\ n + 1 \in 1..MaxWrites
      /\ \A d \in Channels \ {c} : given'[d] = given[d]
      /\ given' \in [Channels -> 0..MaxWrites]
  BY WriteAssumption DEF Write, LifeInv, TypeOK
<1>1. /\ sent[c] \in Seq(1..MaxWrites) /\ send_buffer_[c] \in Seq(1..MaxWrites)
      /\ sent[c] \o send_buffer_[c] = [i \in 1..n |-> i]
      /\ connected_[c] => send_buffer_[c] = << >>
      /\ writing = NoChannel
  BY ChannelAssumption DEF LifeInv, TypeOK, WritesInOrder, Write, Idle
<1>2. Append([i \in 1..n |-> i], n + 1) = [i \in 1..n + 1 |-> i]
  BY <1>0, CountOn
<1>3. /\ sent' \in [Channels -> Seq(1..MaxWrites)]
      /\ send_buffer_' \in [Channels -> Seq(1..MaxWrites)]
      /\ \A d \in Channels \ {c} : sent'[d] = sent[d] /\ send_buffer_'[d] = send_buffer_[d]
      /\ sent'[c] \o send_buffer_'[c] = [i \in 1..n + 1 |-> i]
      /\ connected_[c] => send_buffer_'[c] = << >>
  <2>1. CASE connected_[c]
    <3>1. /\ sent' = [sent EXCEPT ![c] = Append(sent[c], n + 1)]
          /\ send_buffer_' = send_buffer_
      BY <1>0, <2>1 DEF Write
    <3>2. Append(sent[c], n + 1) \in Seq(1..MaxWrites)
      BY <1>0, <1>1
    <3>3. sent[c] = [i \in 1..n |-> i]
      BY <1>1, <2>1, ConcatEmptySeq
    <3>4. Append(sent[c], n + 1) \o << >> = Append(sent[c], n + 1)
      BY <3>2, ConcatEmptySeq
    <3>5. QED BY <1>1, <1>2, <2>1, <3>1, <3>2, <3>3, <3>4 DEF LifeInv, TypeOK
  <2>2. CASE ~connected_[c]
    <3>1. /\ send_buffer_' = [send_buffer_ EXCEPT ![c] = Append(send_buffer_[c], n + 1)]
          /\ sent' = sent
      BY <1>0, <2>2 DEF Write
    <3>2. Append(send_buffer_[c], n + 1) \in Seq(1..MaxWrites)
      BY <1>0, <1>1
    <3>3. sent[c] \o Append(send_buffer_[c], n + 1)
            = Append(sent[c] \o send_buffer_[c], n + 1)
      <4>1. /\ sent[c] \in Seq(1..MaxWrites) /\ send_buffer_[c] \in Seq(1..MaxWrites)
            /\ n + 1 \in 1..MaxWrites
        BY <1>0, <1>1
      <4>2. \A s, t \in Seq(1..MaxWrites), x \in 1..MaxWrites :
               s \o Append(t, x) = Append(s \o t, x)
        BY ConcatAppend
      <4>3. QED BY <4>1, <4>2, Zenon
    <3>4. QED BY <1>1, <1>2, <2>2, <3>1, <3>2, <3>3 DEF LifeInv, TypeOK
  <2>3. QED BY <2>1, <2>2
<1>4. /\ UNCHANGED <<channels_, fd_, connected_, reconnect_count_, reactor, reading, closes>>
      /\ writing' \in {NoChannel, c} /\ (writing' = c => connected_[c])
  BY <1>1, ChannelAssumption DEF Write
<1>5. TypeOK'
  BY <1>0, <1>3, <1>4 DEF LifeInv, TypeOK
<1>6. WritesInOrder'
  <2> SUFFICES ASSUME NEW d \in Channels PROVE Ordered(d)'
    BY DEF WritesInOrder, Ordered, Waiting
  <2>1. CASE d # c
    <3>1. Ordered(d) /\ Waiting(d) = send_buffer_[d] /\ Waiting(d)' = send_buffer_'[d]
      BY <1>1, <1>4, <2>1, ChannelAssumption
         DEF LifeInv, WritesInOrder, Ordered, Waiting
    <3>2. QED BY <1>0, <1>3, <1>4, <2>1, <3>1 DEF Ordered
  <2>2. CASE d = c
    <3>1. Waiting(c)' = send_buffer_'[c]
      BY <1>3, <1>4, ChannelAssumption DEF Waiting
    <3>2. QED BY <1>0, <1>3, <1>4, <2>2, <3>1 DEF Ordered
  <2>3. QED BY <2>1, <2>2
<1>7. ReactorOK(reactor') /\ WatchersTell' /\ ChannelsLive'
  BY <1>4 DEF LifeInv, WatchersTell, Tells, ChannelsLive, Lives
<1>8. QED BY <1>5, <1>6, <1>7 DEF LifeInv

LEMMA ReturnStep ==
  ASSUME LifeInv, NEW c \in Channels, WriteReturns(c)
  PROVE  LifeInv'
<1>1. /\ UNCHANGED <<channels_, fd_, connected_, reconnect_count_, reactor, reading,
                     given, sent, closes>>
      /\ writing = c /\ writing' = NoChannel
      /\ send_buffer_' = [send_buffer_ EXCEPT ![c] = << >>]
  BY DEF WriteReturns
<1>2. TypeOK'
  BY <1>1 DEF LifeInv, TypeOK
<1>3. WritesInOrder'
  <2> SUFFICES ASSUME NEW d \in Channels PROVE Ordered(d)'
    BY DEF WritesInOrder, Ordered, Waiting
  <2>1. Waiting(d)' = Waiting(d)
    BY <1>1, ChannelAssumption DEF LifeInv, TypeOK, Waiting
  <2>2. Ordered(d)
    BY DEF LifeInv, WritesInOrder, Ordered, Waiting
  <2>3. QED BY <1>1, <2>1, <2>2 DEF Ordered
<1>4. ReactorOK(reactor') /\ WatchersTell' /\ ChannelsLive'
  BY <1>1 DEF LifeInv, WatchersTell, Tells, ChannelsLive, Lives
<1>5. QED BY <1>2, <1>3, <1>4 DEF LifeInv

LEMMA ReadStep ==
  ASSUME LifeInv, NEW c \in Channels, ReadFull(c) \/ ReadShort(c)
  PROVE  LifeInv'
<1>1. UNCHANGED <<object, reactor, writing, given, sent, closes>> /\ reading' \in {c, NoChannel}
  BY DEF ReadFull, ReadShort
<1>2. TypeOK' /\ ReactorOK(reactor') /\ WritesInOrder'
  BY <1>1 DEF LifeInv, TypeOK, WritesInOrder, object
<1>3. WatchersTell' /\ ChannelsLive'
  BY <1>1 DEF LifeInv, WatchersTell, Tells, ChannelsLive, Lives, object
<1>4. QED BY <1>2, <1>3 DEF LifeInv

LEMMA ReadEndStep ==
  ASSUME LifeInv, NEW c \in Channels, ReadEnd(c)
  PROVE  LifeInv'
<1>1. /\ connected_[c] /\ closes[c] = 0
  BY DEF ReadEnd, Readable, LifeInv, ChannelsLive, Lives
<1>2. /\ ReactorOK(reactor') /\ reactor'.active \subseteq reactor.active \cup {Check(c)}
  BY RegisterFacts, WatcherTypes DEF ReadEnd, OnDisconnect, LifeInv
<1>3. /\ UNCHANGED <<channels_, fd_, reconnect_count_, send_buffer_, writing, given, sent>>
      /\ reading' = NoChannel
      /\ closes' \in [Channels -> Nat] /\ closes'[c] = 1
      /\ connected_' \in [Channels -> BOOLEAN] /\ ~connected_'[c]
      /\ \A d \in Channels \ {c} : closes'[d] = closes[d] /\ connected_'[d] = connected_[d]
  BY <1>1 DEF ReadEnd, OnDisconnect, LifeInv, TypeOK
<1>4. TypeOK'
  BY <1>2, <1>3 DEF LifeInv, TypeOK, ReactorOK
<1>5. WatchersTell'
  <2> SUFFICES ASSUME NEW w \in reactor'.active PROVE Tells(w)'
    BY DEF WatchersTell
  <2>1. w \in Watcher /\ w.owner \in Channels
    BY <1>2 DEF ReactorOK, Watcher
  <2>2. CASE w \in reactor.active
    <3>1. Tells(w)
      BY <2>2 DEF LifeInv, WatchersTell
    <3>2. w.owner = c => w.kind # "retry"
      BY <1>1, <3>1 DEF Tells
    <3>3. QED BY <1>3, <2>1, <3>1, <3>2 DEF Tells
  <2>3. CASE w = Check(c)
    <3>1. fd_[c] # -1
      BY <1>1 DEF LifeInv, ChannelsLive, Lives
    <3>2. QED BY <1>3, <2>3, <3>1 DEF Tells, Check
  <2>4. QED BY <1>2, <2>2, <2>3
<1>6. ChannelsLive'
  <2> SUFFICES ASSUME NEW d \in Channels PROVE Lives(d)'
    BY DEF ChannelsLive
  <2>1. Lives(d) /\ fd_[c] # -1
    BY <1>1 DEF LifeInv, ChannelsLive, Lives
  <2>2. CASE d # c
    BY <1>3, <2>1, <2>2 DEF Lives
  <2>3. CASE d = c
    BY <1>3, <2>1, <2>3 DEF Lives
  <2>4. QED BY <2>2, <2>3
<1>7. WritesInOrder'
  BY <1>3 DEF LifeInv, WritesInOrder
<1>8. QED BY <1>2, <1>4, <1>5, <1>6, <1>7 DEF LifeInv

LEMMA CheckStep ==
  ASSUME LifeInv, NEW c \in Channels, CheckConnections(c)
  PROVE  LifeInv'
<1> DEFINE r == Fired(reactor, Check(c))
<1>1. ReactorOK(r) /\ r.active \subseteq reactor.active
  BY FiredFacts DEF LifeInv
<1>2. closes[c] = 1 /\ ~connected_[c] /\ fd_[c] # -1
  <2>1. Tells(Check(c))
    BY DEF CheckConnections, LifeInv, WatchersTell
  <2>2. closes[c] = 1 /\ fd_[c] # -1
    BY <2>1 DEF Tells, Check
  <2>3. QED BY <2>2 DEF LifeInv, ChannelsLive, Lives
<1>3. /\ UNCHANGED <<fd_, connected_, reconnect_count_, send_buffer_, reading, writing, given,
                     sent, closes>>
      /\ channels_' = channels_ \ {c} /\ reactor' = RemoveIO(r, fd_[c])
  BY <1>2 DEF CheckConnections, Delete
<1> HIDE DEF r
<1>4. ReactorOK(reactor') /\ reactor'.active \subseteq reactor.active
  BY <1>1, <1>3, RemoveFacts
<1>5. TypeOK'
  BY <1>3, <1>4 DEF LifeInv, TypeOK, ReactorOK
<1>6. WatchersTell'
  BY <1>3, <1>4 DEF LifeInv, WatchersTell, Tells
<1>7. ChannelsLive'
  BY <1>2, <1>3 DEF LifeInv, ChannelsLive, Lives
<1>8. WritesInOrder'
  BY <1>3 DEF LifeInv, WritesInOrder
<1>9. QED BY <1>4, <1>5, <1>6, <1>7, <1>8 DEF LifeInv

LEMMA LifeInitially == Init => LifeInv
<1> SUFFICES ASSUME Init PROVE LifeInv
  OBVIOUS
<1>1. /\ reactor.active = {} /\ ReactorOK(reactor) /\ reactor.freed = {}
  <2>1. reactor = Of(<< >>, << >>, {}, {}, FALSE)
    BY DEF Init, NewReactor, Of
  <2>2. /\ \A id \in DOMAIN << >> : << >>[id] \in Watcher
        /\ {} \subseteq Watcher
    OBVIOUS
  <2>3. /\ ReactorOK(Of(<< >>, << >>, {}, {}, FALSE))
        /\ Of(<< >>, << >>, {}, {}, FALSE).active = {}
    BY <2>2, OfFacts
  <2>4. Of(<< >>, << >>, {}, {}, FALSE).freed = {}
    BY DEF Of
  <2>5. QED BY <2>1, <2>3, <2>4, Zenon
<1>2. TypeOK
  BY <1>1, RetryAssumption, WriteAssumption DEF Init, TypeOK, ReactorOK
<1>3. WatchersTell /\ ChannelsLive
  BY <1>1 DEF Init, WatchersTell, ChannelsLive, Lives
<1>4. WritesInOrder
  <2>1. [i \in 1..0 |-> i] = << >> /\ << >> \o << >> = << >>
    OBVIOUS
  <2>2. QED BY <2>1 DEF Init, WritesInOrder
<1>5. QED BY <1>1, <1>2, <1>3, <1>4 DEF LifeInv

LEMMA LifeKept == LifeInv /\ [Next]_vars => LifeInv'
<1> SUFFICES ASSUME LifeInv, [Next]_vars PROVE LifeInv'
  OBVIOUS
<1>1. CASE UNCHANGED vars
  <2>1. UNCHANGED <<channels_, fd_, connected_, reconnect_count_, send_buffer_, reactor,
                    reading, writing, given, sent, closes>>
    BY <1>1 DEF vars, object
  <2>2. TypeOK' /\ WritesInOrder' /\ ReactorOK(reactor')
    BY <2>1 DEF LifeInv, TypeOK, WritesInOrder
  <2>3. WatchersTell' /\ ChannelsLive'
    BY <2>1 DEF LifeInv, WatchersTell, Tells, ChannelsLive, Lives
  <2>4. QED BY <2>2, <2>3 DEF LifeInv
<1>2. CASE Next
  <2>1. PICK c \in Channels :
          \/ \E fd \in Fds, w \in BOOLEAN : Create(c, fd, w)
          \/ \E w \in BOOLEAN : RetryConnect(c, w)
          \/ Write(c) \/ WriteReturns(c)
          \/ ReadFull(c) \/ ReadShort(c) \/ ReadEnd(c)
          \/ CheckConnections(c)
    BY <1>2 DEF Next, Accept, Connect
  <2>2. QED BY <2>1, CreateStep, RetryStep, WriteStep, ReturnStep, ReadStep,
                 ReadEndStep, CheckStep
<1>3. QED BY <1>1, <1>2

LEMMA LifeAlways == Spec => []LifeInv
  BY LifeInitially, LifeKept, PTL DEF Spec

--------------------------------------------------------------------------------
(* The tables of the reactor point at what they should, if the ids of the  *)
(* two timers are apart.                                                   *)

IdsApart == \A f, g \in Fds : RetryId(f) # CheckId(g)

\* The channels that connected or were disconnected.
Done == {c \in Channels : closes[c] # 0 \/ connected_[c]}

\* Tables r, the channels C that exist, their descriptors F and those that
\* are done, D: what was freed is not needed any more, what runs belongs to a
\* channel, and the entries that will be used are those of running watchers.
Sound(r, C, F, D) ==
  /\ r.misused = FALSE
  /\ \A w \in r.freed : /\ w.kind # "check" /\ F[w.owner] # -1
                        /\ w.kind = "io" => w.owner \notin C
                        /\ w.kind = "retry" => w.owner \in D
  /\ \A w \in r.active :
       /\ w.owner \in C
       /\ w.kind = "retry" => /\ RetryId(F[w.owner]) \in DOMAIN r.timers
                              /\ r.timers[RetryId(F[w.owner])] = w
  /\ \A c \in C : /\ F[c] \in Fds /\ Io(c) \in r.active
                  /\ F[c] \in DOMAIN r.ios /\ r.ios[F[c]] = Io(c)
  /\ \A c, d \in C : F[c] = F[d] => c = d

LEMMA OfFields ==
  ASSUME NEW t, NEW i, NEW a, NEW f, NEW m
  PROVE  /\ Of(t, i, a, f, m).timers = t /\ Of(t, i, a, f, m).ios = i
         /\ Of(t, i, a, f, m).active = a /\ Of(t, i, a, f, m).freed = f
         /\ Of(t, i, a, f, m).misused = m
  BY DEF Of

\* A timer that leaves the entries of the running ones alone.
LEMMA SoundTimer ==
  ASSUME NEW r, r \in Fields(r), NEW C \in SUBSET Channels, NEW F, NEW D, Sound(r, C, F, D),
         NEW id, NEW w \in Watcher, w.owner \in C, w.kind # "io",
         w.kind = "retry" => id = RetryId(F[w.owner]),
         \A v \in r.active : v.kind = "retry" => RetryId(F[v.owner]) # id
  PROVE  Sound(RegisterTimer(r, id, w), C, F, D)
<1> DEFINE t == Put(r.timers, id, w)
           s == RegisterTimer(r, id, w)
<1>1. s = Of(t, r.ios, r.active \cup {w}, r.freed, r.misused)
  BY RegisterIs
<1>2. /\ DOMAIN t = DOMAIN r.timers \cup {id} /\ t[id] = w
      /\ \A i \in DOMAIN r.timers : i # id => t[i] = r.timers[i]
  BY DEF Put
<1> HIDE DEF t, s
<1>3. /\ s.timers = t /\ s.ios = r.ios /\ s.active = r.active \cup {w}
      /\ s.freed = r.freed /\ s.misused = r.misused
  BY <1>1, OfFields
<1>4. Sound(s, C, F, D)
  BY <1>2, <1>3 DEF Sound
<1>5. QED BY <1>4 DEF s

\* A timer that has fired.
LEMMA SoundFired ==
  ASSUME NEW r, r \in Fields(r), NEW C, NEW F, NEW D, Sound(r, C, F, D),
         NEW w, w.kind # "io"
  PROVE  Sound(Fired(r, w), C, F, D)
<1> DEFINE s == Fired(r, w)
<1>1. s = Of(r.timers, r.ios, r.active \ {w}, r.freed, r.misused)
  BY FiredIs
<1> HIDE DEF s
<1>2. /\ s.timers = r.timers /\ s.ios = r.ios /\ s.active = r.active \ {w}
      /\ s.freed = r.freed /\ s.misused = r.misused
  BY <1>1, OfFields
<1>3. \A c : Io(c) # w
  BY DEF Io
<1>4. Sound(s, C, F, D)
  BY <1>2, <1>3 DEF Sound
<1>5. QED BY <1>4 DEF s

\* A watcher is deleted that was not deleted before: the timer of a channel
\* that is done, or the reader of a channel that is not to exist any more.
LEMMA SoundDiscard ==
  ASSUME NEW r, r \in Fields(r), NEW C, NEW F, NEW D, NEW w, NEW B,
         Sound(r, C, F, D), B \subseteq C, w \notin r.freed, F[w.owner] # -1,
         \/ w.kind = "retry" /\ w.owner \in D /\ B = C
         \/ w.kind = "io" /\ B = C \ {w.owner},
         \A v \in r.active : v # w => v.owner \in B
  PROVE  Sound(Discard(r, w), B, F, D)
<1> DEFINE m == r.misused \/ w \in r.freed
           s == Discard(r, w)
<1>1. s = Of(r.timers, r.ios, r.active \ {w}, r.freed \cup {w}, m)
  BY DiscardIs, Zenon
<1>2. m = FALSE
  BY DEF Sound
<1> HIDE DEF s, m
<1>3. /\ s.timers = r.timers /\ s.ios = r.ios /\ s.active = r.active \ {w}
      /\ s.freed = r.freed \cup {w} /\ s.misused = FALSE
  BY <1>1, <1>2, OfFields
<1>4. \A c \in B : Io(c) # w
  BY DEF Io
<1>5. Sound(s, B, F, D)
  BY <1>3, <1>4 DEF Sound
<1>6. QED BY <1>5 DEF s

\* The reader of a new channel, on a descriptor that is free.
LEMMA SoundReader ==
  ASSUME NEW r, r \in Fields(r), NEW C \in SUBSET Channels, NEW D, NEW c \in Channels,
         NEW F \in [Channels -> Fds \cup {-1}], NEW fd \in Fds, Sound(r, C, F, D),
         r.freed \subseteq Watcher,
         F[c] = -1, fd \notin {F[d] : d \in C}
  PROVE  Sound(RegisterIO(r, fd, Io(c)), C \cup {c}, [F EXCEPT ![c] = fd], D)
<1> DEFINE t == Put(r.ios, fd, Io(c))
           s == RegisterIO(r, fd, Io(c))
           G == [F EXCEPT ![c] = fd]
           B == C \cup {c}
<1>1. s = Of(r.timers, t, r.active \cup {Io(c)}, r.freed, r.misused)
  BY RegisterIs
<1>2. /\ DOMAIN t = DOMAIN r.ios \cup {fd} /\ t[fd] = Io(c)
      /\ \A i \in DOMAIN r.ios : i # fd => t[i] = r.ios[i]
  BY DEF Put
<1>3. /\ G[c] = fd /\ \A d \in Channels : d # c => G[d] = F[d]
      /\ c \notin C /\ fd # -1
  BY FdAssumption DEF Sound
<1>4. Io(c).kind = "io" /\ Io(c).owner = c
  BY DEF Io
<1> HIDE DEF s, t, G
<1>5. /\ s.timers = r.timers /\ s.ios = t /\ s.active = r.active \cup {Io(c)}
      /\ s.freed = r.freed /\ s.misused = r.misused
  BY <1>1, OfFields
<1>6. \A w \in s.freed : /\ w.kind # "check" /\ G[w.owner] # -1
                         /\ w.kind = "io" => w.owner \notin B
                         /\ w.kind = "retry" => w.owner \in D
  <2> SUFFICES ASSUME NEW w \in r.freed
               PROVE  /\ w.kind # "check" /\ G[w.owner] # -1
                      /\ w.kind = "io" => w.owner \notin B
                      /\ w.kind = "retry" => w.owner \in D
    BY <1>5
  <2>1. w.owner # c /\ w.owner \in Channels
    BY DEF Sound, Watcher
  <2>2. QED BY <1>3, <2>1 DEF Sound
<1>7. \A w \in s.active :
        /\ w.owner \in B
        /\ w.kind = "retry" => /\ RetryId(G[w.owner]) \in DOMAIN s.timers
                               /\ s.timers[RetryId(G[w.owner])] = w
  BY <1>3, <1>4, <1>5 DEF Sound
<1>8. \A d \in B : /\ G[d] \in Fds /\ Io(d) \in s.active
                   /\ G[d] \in DOMAIN s.ios /\ s.ios[G[d]] = Io(d)
  BY <1>2, <1>3, <1>5 DEF Sound
<1>9. \A d, e \in B : G[d] = G[e] => d = e
  BY <1>3 DEF Sound
<1>10. Sound(s, B, G, D)
  BY <1>5, <1>6, <1>7, <1>8, <1>9 DEF Sound
<1>11. QED BY <1>10 DEF s, G

\* A try by c: r are the tables it starts from, with the timer of the last
\* try, if there was one, still in its entry.
LEMMA ConnectSound ==
  ASSUME IdsApart, NEW c \in Channels, NEW r, NEW writable \in BOOLEAN,
         ReactorOK(r), channels_' \subseteq Channels, c \in channels_',
         Sound(r, channels_', fd_', Done), Done \subseteq Done', c \notin Done,
         fd_' \in [Channels -> Fds \cup {-1}],
         reconnect_count_[c] \in 0..MaxRetries, closes[c] \in Nat,
         connected_ \in [Channels -> BOOLEAN], closes \in [Channels -> Nat],
         reconnect_count_[c] > 0 =>
           /\ RetryId(fd_'[c]) \in DOMAIN r.timers
           /\ r.timers[RetryId(fd_'[c])] = Retry(c, reconnect_count_[c] - 1),
         \A w \in r.active : w.owner = c => w.kind = "io",
         OnConnect(c, r, writable)
  PROVE  Sound(reactor', channels_', fd_', Done')
<1> DEFINE n == reconnect_count_[c]
           q == RemoveTimer(r, RetryId(fd_'[c]))
<1>0. /\ n \in Nat /\ n <= MaxRetries /\ MaxRetries \in Nat /\ 1 <= MaxRetries
      /\ r \in Fields(r) /\ fd_'[c] \in Fds /\ fd_'[c] # -1
  BY RetryAssumption, FdAssumption DEF ReactorOK, Sound
<1>1. Sound(r, channels_', fd_', Done')
  BY DEF Sound
<1>2. ASSUME n > 0, c \in Done'
      PROVE  Sound(q, channels_', fd_', Done') /\ ReactorOK(q)
  <2> DEFINE w == Retry(c, n - 1)
  <2>1. q = Discard(r, w)
    BY <1>2 DEF RemoveTimer
  <2>2. w.kind = "retry" /\ w.owner = c /\ w.kind # "check"
    BY DEF Retry
  <2>3. w \notin r.freed
    BY <2>2 DEF Sound
  <2>4. \A v \in r.active : v.owner \in channels_'
    BY DEF Sound
  <2>5. ReactorOK(q)
    BY RemoveFacts
  <2> HIDE DEF w, q
  <2>6. QED BY <1>0, <1>1, <1>2, <2>1, <2>2, <2>3, <2>4, <2>5, SoundDiscard
<1>3. CASE /\ reactor' = IF n > 0 THEN q ELSE r
           /\ FlushBuffer(c)
  <2>1. c \in Done'
    BY <1>3 DEF FlushBuffer, Done
  <2>2. QED BY <1>0, <1>1, <1>2, <1>3, <2>1
<1>4. CASE /\ GivesUp(n + 1)
           /\ OnDisconnect(c, q)
  <2>1. n > 0
    BY <1>0, <1>4 DEF GivesUp
  <2>2. c \in Done'
    BY <1>4 DEF OnDisconnect, Done
  <2>3. Sound(q, channels_', fd_', Done') /\ q \in Fields(q)
    BY <1>2, <2>1, <2>2 DEF ReactorOK
  <2>4. /\ Check(c) \in Watcher /\ Check(c).owner = c /\ Check(c).kind = "check"
    BY WatcherTypes DEF Check
  <2>5. \A v \in q.active : v.kind = "retry" => RetryId(fd_'[v.owner]) # CheckId(fd_'[c])
    BY <1>0, <2>3 DEF Sound, IdsApart
  <2>6. reactor' = RegisterTimer(q, CheckId(fd_'[c]), Check(c))
    BY <1>4 DEF OnDisconnect
  <2> HIDE DEF q
  <2>7. QED BY <2>3, <2>4, <2>5, <2>6, SoundTimer
<1>5. CASE reactor' = RegisterTimer(r, RetryId(fd_'[c]), Retry(c, n))
  <2>1. /\ Retry(c, n) \in Watcher /\ Retry(c, n).owner = c /\ Retry(c, n).kind = "retry"
    BY <1>0, WatcherTypes DEF Retry
  <2>2. \A v \in r.active : v.kind = "retry" => RetryId(fd_'[v.owner]) # RetryId(fd_'[c])
    <3> SUFFICES ASSUME NEW v \in r.active, v.kind = "retry",
                        RetryId(fd_'[v.owner]) = RetryId(fd_'[c])
                 PROVE  FALSE
      OBVIOUS
    <3>1. v.owner \in channels_' /\ v.owner # c
      BY DEF Sound
    <3>2. fd_'[v.owner] \in Nat /\ fd_'[c] \in Nat
      BY <1>0, <3>1, FdAssumption DEF Sound
    <3>3. fd_'[v.owner] = fd_'[c]
      BY <3>2 DEF RetryId
    <3>4. QED BY <3>1, <3>3 DEF Sound
  <2>3. QED BY <1>0, <1>1, <1>5, <2>1, <2>2, SoundTimer
<1>6. QED BY <1>3, <1>4, <1>5 DEF OnConnect

TablesSound == Sound(reactor, channels_, fd_, Done)

\* Whoever is done stays so.
LEMMA DoneStays == LifeInv /\ [Next]_vars => Done \subseteq Done'
<1> SUFFICES ASSUME LifeInv, Next PROVE Done \subseteq Done'
  <2>1. UNCHANGED vars => Done' = Done
    BY DEF vars, object, Done
  <2>2. QED BY <2>1
<1>1. PICK c \in Channels :
        \/ \E r, w \in BOOLEAN : OnConnect(c, r, w)
        \/ \E r : OnConnect(c, r, TRUE) \/ OnConnect(c, r, FALSE)
        \/ UNCHANGED <<connected_, closes>>
        \/ OnDisconnect(c, reactor)
  BY DEF Next, Accept, Connect, Create, RetryConnect, Write, WriteReturns, ReadFull, ReadShort,
         ReadEnd, CheckConnections, object
<1>2. /\ connected_ \in [Channels -> BOOLEAN] /\ closes \in [Channels -> Nat]
  BY DEF LifeInv, TypeOK
<1>3. CASE UNCHANGED <<connected_, closes>>
  BY <1>3 DEF Done
<1>4. CASE \E r : OnDisconnect(c, r)
  BY <1>2, <1>4 DEF OnDisconnect, Done
<1>5. CASE FlushBuffer(c) /\ UNCHANGED closes
  BY <1>2, <1>5 DEF FlushBuffer, Done
<1>6. QED BY <1>1, <1>3, <1>4, <1>5 DEF OnConnect

LEMMA SoundKept ==
  ASSUME IdsApart, LifeInv, TablesSound, [Next]_vars
  PROVE  TablesSound'
<1>0. /\ Done \subseteq Done' /\ ReactorOK(reactor) /\ reactor \in Fields(reactor)
      /\ channels_ \subseteq Channels /\ fd_ \in [Channels -> Fds \cup {-1}]
      /\ connected_ \in [Channels -> BOOLEAN] /\ closes \in [Channels -> Nat]
  BY DoneStays DEF LifeInv, TypeOK, ReactorOK
<1>1. CASE UNCHANGED <<channels_, fd_, reactor>>
  BY <1>0, <1>1 DEF TablesSound, Sound
<1>2. ASSUME NEW c \in Channels, NEW fd \in Fds, NEW writable \in BOOLEAN,
             Create(c, fd, writable)
      PROVE  TablesSound'
  <2> DEFINE r == RegisterIO(reactor, fd, Io(c))
  <2>1. /\ fd_[c] = -1 /\ fd \notin {fd_[d] : d \in channels_}
        /\ fd_' = [fd_ EXCEPT ![c] = fd] /\ channels_' = channels_ \cup {c}
        /\ OnConnect(c, r, writable)
    BY <1>2 DEF Create, OpenFds
  <2>2. ReactorOK(r) /\ r.active = reactor.active \cup {Io(c)}
    BY <1>0, RegisterFacts, WatcherTypes
  <2>3. Sound(r, channels_', fd_', Done)
    BY <1>0, <2>1, SoundReader DEF TablesSound, ReactorOK
  <2>4. /\ ~connected_[c] /\ closes[c] = 0 /\ reconnect_count_[c] = 0
    BY <2>1 DEF LifeInv, ChannelsLive, Lives
  <2>5. \A w \in reactor.active : w.owner # c
    BY <2>1 DEF LifeInv, WatchersTell, Tells
  <2>6. \A w \in r.active : w.owner = c => w.kind = "io"
    BY <2>2, <2>5 DEF Io
  <2>7. /\ channels_' \subseteq Channels /\ c \in channels_' /\ c \notin Done
        /\ fd_' \in [Channels -> Fds \cup {-1}]
        /\ reconnect_count_[c] \in 0..MaxRetries /\ ~(reconnect_count_[c] > 0)
    BY <1>0, <2>1, <2>4, RetryAssumption DEF Done
  <2> HIDE DEF r
  <2>8. QED BY <1>0, <2>1, <2>2, <2>3, <2>6, <2>7, ConnectSound DEF TablesSound
<1>3. ASSUME NEW c \in Channels, NEW writable \in BOOLEAN, RetryConnect(c, writable)
      PROVE  TablesSound'
  <2>1. PICK n \in 0..MaxRetries :
          /\ Retry(c, n) \in reactor.active
          /\ UNCHANGED <<channels_, fd_, reading, given>>
          /\ OnConnect(c, Fired(reactor, Retry(c, n)), writable)
    BY <1>3 DEF RetryConnect
  <2> DEFINE r == Fired(reactor, Retry(c, n))
  <2>2. ReactorOK(r) /\ r.active = reactor.active \ {Retry(c, n)}
    BY <1>0, FiredFacts
  <2>3. Retry(c, n).kind = "retry" /\ Retry(c, n).owner = c /\ Retry(c, n).n = n
    BY DEF Retry
  <2>4. Sound(r, channels_, fd_, Done)
    BY <1>0, <2>3, SoundFired DEF TablesSound
  <2>5. /\ reconnect_count_[c] = n + 1 /\ n < MaxRetries
        /\ closes[c] = 0 /\ ~connected_[c]
    BY <2>1, <2>3 DEF LifeInv, WatchersTell, Tells
  <2>6. \A w \in r.active : w.owner = c => w.kind = "io"
    <3> SUFFICES ASSUME NEW w \in r.active, w.owner = c PROVE w.kind = "io"
      OBVIOUS
    <3>1. w \in Watcher /\ Tells(w) /\ w # Retry(c, n)
      BY <2>2 DEF LifeInv, WatchersTell, ReactorOK
    <3>2. w.kind # "check"
      BY <2>5, <3>1 DEF Tells
    <3>3. w.kind # "retry"
      <4> SUFFICES ASSUME w.kind = "retry" PROVE FALSE
        OBVIOUS
      <4>1. w.n + 1 = n + 1 /\ w.n \in 0..MaxRetries
        BY <2>5, <3>1 DEF Tells, Watcher
      <4>2. w.n = n
        BY <4>1
      <4>3. w = Retry(c, n)
        BY <3>1, <4>2 DEF Watcher, Retry
      <4>4. QED BY <3>1, <4>3
    <3>4. QED BY <3>1, <3>2, <3>3 DEF Watcher
  <2>7. /\ RetryId(fd_[c]) \in DOMAIN r.timers
        /\ r.timers[RetryId(fd_[c])] = Retry(c, n) /\ c \in channels_
    <3>1. r = Of(reactor.timers, reactor.ios, reactor.active \ {Retry(c, n)},
                 reactor.freed, reactor.misused)
      BY <1>0, FiredIs
    <3> HIDE DEF r
    <3>2. r.timers = reactor.timers
      BY <3>1, OfFields
    <3>3. QED BY <2>1, <2>3, <3>2 DEF TablesSound, Sound
  <2>8. /\ c \notin Done /\ reconnect_count_[c] \in 0..MaxRetries
        /\ reconnect_count_[c] - 1 = n
    BY <2>5, RetryAssumption DEF Done
  <2>9. channels_' = channels_ /\ fd_' = fd_ /\ OnConnect(c, r, writable)
    BY <2>1
  <2> HIDE DEF r
  <2>10. QED BY <1>0, <2>2, <2>4, <2>6, <2>7, <2>8, <2>9, ConnectSound DEF TablesSound
<1>4. ASSUME NEW c \in Channels, ReadEnd(c)
      PROVE  TablesSound'
  <2>1. /\ c \in channels_ /\ UNCHANGED <<channels_, fd_>>
        /\ reactor' = RegisterTimer(reactor, CheckId(fd_[c]), Check(c))
    BY <1>4 DEF ReadEnd, Readable, OnDisconnect, TablesSound, Sound, Io
  <2>2. /\ Check(c) \in Watcher /\ Check(c).owner = c /\ Check(c).kind = "check"
    BY WatcherTypes DEF Check
  <2>3. \A v \in reactor.active : v.kind = "retry" => RetryId(fd_[v.owner]) # CheckId(fd_[c])
    BY <2>1 DEF TablesSound, Sound, IdsApart
  <2>4. Sound(reactor, channels_, fd_, Done')
    BY <1>0 DEF TablesSound, Sound
  <2>5. QED BY <1>0, <2>1, <2>2, <2>3, <2>4, SoundTimer DEF TablesSound
<1>5. ASSUME NEW c \in Channels, CheckConnections(c)
      PROVE  TablesSound'
  <2> DEFINE r == Fired(reactor, Check(c))
  <2>1. closes[c] = 1 /\ ~connected_[c] /\ fd_[c] # -1 /\ c \in channels_
    <3>1. Tells(Check(c)) /\ Check(c).owner = c /\ Check(c).kind = "check"
      BY <1>5 DEF CheckConnections, LifeInv, WatchersTell, Check
    <3>2. closes[c] = 1 /\ fd_[c] # -1
      BY <3>1 DEF Tells
    <3>3. QED BY <1>5, <3>1, <3>2
              DEF LifeInv, ChannelsLive, Lives, CheckConnections, TablesSound, Sound
  <2>2. /\ UNCHANGED fd_ /\ channels_' = channels_ \ {c}
        /\ reactor' = RemoveIO(r, fd_[c])
    BY <1>5, <2>1 DEF CheckConnections, Delete
  <2>3. /\ ReactorOK(r) /\ r.active = reactor.active \ {Check(c)}
    BY <1>0, FiredFacts
  <2>4. Check(c).kind = "check"
    BY DEF Check
  <2>5. Sound(r, channels_, fd_, Done')
    <3>1. Sound(r, channels_, fd_, Done)
      BY <1>0, <2>4, SoundFired DEF TablesSound
    <3> HIDE DEF r
    <3>2. QED BY <1>0, <3>1 DEF Sound
  <2>6. Io(c).kind = "io" /\ Io(c).owner = c
    BY DEF Io
  <2>7. reactor' = Discard(r, Io(c)) /\ Io(c) \notin r.freed
    BY <2>1, <2>2, <2>5, <2>6 DEF RemoveIO, Sound
  <2>8. \A w \in r.active : w # Io(c) => w.owner \in channels_ \ {c}
    <3> SUFFICES ASSUME NEW w \in r.active, w # Io(c) PROVE w.owner \in channels_ \ {c}
      OBVIOUS
    <3>1. w \in Watcher /\ Tells(w) /\ w # Check(c) /\ w.owner \in channels_
      BY <2>3, <2>5 DEF LifeInv, WatchersTell, ReactorOK, Sound
    <3>2. w.owner = c => w.kind # "retry"
      BY <2>1, <3>1 DEF Tells
    <3>3. w.owner = c => w.kind # "check" /\ w.kind # "io"
      <4>1. w.kind \in {"check", "io"} => w.n = 0
        BY <3>1 DEF Tells
      <4>2. ASSUME w.owner = c, w.kind = "check" PROVE w = Check(c)
        BY <3>1, <4>1, <4>2 DEF Watcher, Check
      <4>3. ASSUME w.owner = c, w.kind = "io" PROVE w = Io(c)
        BY <3>1, <4>1, <4>3 DEF Watcher, Io
      <4>4. QED BY <3>1, <4>2, <4>3
    <3>4. QED BY <3>1, <3>2, <3>3 DEF Watcher
  <2> HIDE DEF r
  <2>9. QED BY <2>1, <2>2, <2>3, <2>5, <2>6, <2>7, <2>8, SoundDiscard
            DEF TablesSound, ReactorOK
<1>6. CASE UNCHANGED vars
  BY <1>1, <1>6 DEF vars, object
<1>7. CASE Next
  <2>1. PICK c \in Channels :
          \/ \E fd \in Fds, w \in BOOLEAN : Create(c, fd, w)
          \/ \E w \in BOOLEAN : RetryConnect(c, w)
          \/ UNCHANGED <<channels_, fd_, reactor>>
          \/ ReadEnd(c) \/ CheckConnections(c)
    BY <1>7 DEF Next, Accept, Connect, Write, WriteReturns, ReadFull, ReadShort, object
  <2>2. QED BY <2>1, <1>1, <1>2, <1>3, <1>4, <1>5
<1>8. QED BY <1>6, <1>7

LEMMA SoundInitially == Init => TablesSound
<1> SUFFICES ASSUME Init PROVE TablesSound
  OBVIOUS
<1>1. /\ reactor.misused = FALSE /\ reactor.freed = {} /\ reactor.active = {}
      /\ channels_ = {}
  BY DEF Init, NewReactor
<1>2. QED BY <1>1 DEF TablesSound, Sound

LEMMA AliveImplied == LifeInv /\ TablesSound => WatchersAlive
<1> SUFFICES ASSUME LifeInv, TablesSound PROVE WatchersAlive
  OBVIOUS
<1>1. reactor.active \cap reactor.freed = {}
  <2> SUFFICES ASSUME NEW w \in reactor.active, w \in reactor.freed PROVE FALSE
    OBVIOUS
  <2>1. /\ w \in Watcher /\ Tells(w) /\ w.owner \in channels_
        /\ w.kind # "check" /\ (w.kind = "io" => w.owner \notin channels_)
        /\ w.kind = "retry" => w.owner \in Done
    BY DEF LifeInv, WatchersTell, ReactorOK, TablesSound, Sound
  <2>2. w.kind = "retry"
    BY <2>1 DEF Watcher
  <2>3. QED BY <2>1, <2>2 DEF Tells, Done
<1>2. QED BY <1>1 DEF TablesSound, Sound, WatchersAlive

--------------------------------------------------------------------------------
(* Deletions that are pending.                                             *)

\* The tables after a watcher fired, and those after it was deleted.
LEMMA WithoutFacts ==
  ASSUME NEW r, ReactorOK(r), NEW w
  PROVE  /\ Fired(r, w).timers = r.timers /\ Fired(r, w).ios = r.ios
         /\ Fired(r, w).active = r.active \ {w}
         /\ Discard(r, w).active = r.active \ {w}
<1> DEFINE s == Fired(r, w)
           t == Discard(r, w)
           m == r.misused \/ w \in r.freed
<1>1. /\ s = Of(r.timers, r.ios, r.active \ {w}, r.freed, r.misused)
      /\ t = Of(r.timers, r.ios, r.active \ {w}, r.freed \cup {w}, m)
  BY FiredIs, DiscardIs, Zenon DEF ReactorOK
<1> HIDE DEF s, t, m
<1>2. /\ s.timers = r.timers /\ s.ios = r.ios
      /\ s.active = r.active \ {w} /\ t.active = r.active \ {w}
  BY <1>1, OfFields
<1>3. QED BY <1>2 DEF s, t

\* A watcher that deletes a channel is stopped by its own firing alone.
LEMMA DiscardKeepsChecks ==
  ASSUME NEW r, ReactorOK(r), NEW w, w.kind # "check", NEW d \in Channels,
         Check(d) \in r.active
  PROVE  Check(d) \in Discard(r, w).active /\ Check(d) \in Fired(r, w).active
<1>1. Check(d) # w
  BY DEF Check
<1>2. /\ Discard(r, w).active = r.active \ {w}
      /\ Fired(r, w).active = r.active \ {w}
  BY WithoutFacts
<1>3. QED BY <1>1, <1>2

\* A try by c, from tables r where the timer of the last try is in its entry,
\* stops no deletion, and sets that of c if it gives up.
LEMMA ConnectPending ==
  ASSUME NEW c \in Channels, NEW r, NEW writable \in BOOLEAN, ReactorOK(r),
         closes \in [Channels -> Nat], reconnect_count_[c] \in 0..MaxRetries,
         reconnect_count_[c] > 0 =>
           /\ RetryId(fd_'[c]) \in DOMAIN r.timers
           /\ r.timers[RetryId(fd_'[c])] = Retry(c, reconnect_count_[c] - 1),
         OnConnect(c, r, writable)
  PROVE  /\ \A d \in Channels : Check(d) \in r.active => Check(d) \in reactor'.active
         /\ \A d \in Channels : closes'[d] = closes[d] \/ Check(d) \in reactor'.active
<1> DEFINE n == reconnect_count_[c]
           q == RemoveTimer(r, RetryId(fd_'[c]))
<1>1. n \in Nat /\ MaxRetries \in Nat \ {0}
  BY RetryAssumption
<1>2. ReactorOK(q)
  BY RemoveFacts
<1>3. ASSUME n > 0, NEW d \in Channels, Check(d) \in r.active
      PROVE  Check(d) \in q.active
  <2> DEFINE w == Retry(c, n - 1)
  <2>1. q = Discard(r, w) /\ w.kind # "check"
    BY <1>3 DEF RemoveTimer, Retry
  <2> HIDE DEF w, q
  <2>2. QED BY <1>3, <2>1, DiscardKeepsChecks
<1> HIDE DEF q
<1>4. CASE /\ reactor' = IF n > 0 THEN q ELSE r
           /\ UNCHANGED closes
  BY <1>3, <1>4
<1>5. CASE /\ GivesUp(n + 1)
           /\ OnDisconnect(c, q)
  <2>1. n > 0
    BY <1>1, <1>5 DEF GivesUp
  <2>2. reactor'.active = q.active \cup {Check(c)}
    BY <1>2, <1>5, RegisterFacts, WatcherTypes DEF OnDisconnect
  <2>3. \A d \in Channels : d # c => closes'[d] = closes[d]
    BY <1>5 DEF OnDisconnect
  <2>4. QED BY <1>3, <2>1, <2>2, <2>3
<1>6. CASE /\ reactor' = RegisterTimer(r, RetryId(fd_'[c]), Retry(c, n))
           /\ UNCHANGED closes
  <2>1. Retry(c, n) \in Watcher
    BY <1>1, WatcherTypes
  <2>2. reactor'.active = r.active \cup {Retry(c, n)}
    BY <1>6, <2>1, RegisterFacts
  <2>3. QED BY <1>6, <2>2
<1>7. QED BY <1>4, <1>5, <1>6 DEF OnConnect, q

LEMMA PendingKept ==
  ASSUME LifeInv, TablesSound, DeletionPending, [Next]_vars
  PROVE  DeletionPending'
<1>0. /\ ReactorOK(reactor) /\ channels_ \subseteq Channels
      /\ fd_ \in [Channels -> Fds \cup {-1}]
      /\ connected_ \in [Channels -> BOOLEAN] /\ closes \in [Channels -> Nat]
      /\ \A d \in channels_ : closes[d] > 0 => Check(d) \in reactor.active
  BY DEF LifeInv, TypeOK, DeletionPending
<1>1. CASE UNCHANGED <<channels_, closes, reactor>>
  BY <1>1 DEF DeletionPending
<1>2. ASSUME NEW c \in Channels, NEW fd \in Fds, NEW writable \in BOOLEAN,
             Create(c, fd, writable)
      PROVE  DeletionPending'
  <2> DEFINE r == RegisterIO(reactor, fd, Io(c))
  <2>1. fd_[c] = -1 /\ channels_' = channels_ \cup {c} /\ OnConnect(c, r, writable)
    BY <1>2 DEF Create
  <2>2. ReactorOK(r) /\ r.active = reactor.active \cup {Io(c)}
    BY <1>0, RegisterFacts, WatcherTypes
  <2>3. /\ closes[c] = 0 /\ reconnect_count_[c] \in 0..MaxRetries
        /\ ~(reconnect_count_[c] > 0)
    BY <2>1, RetryAssumption DEF LifeInv, ChannelsLive, Lives
  <2> HIDE DEF r
  <2>4. /\ \A d \in Channels : Check(d) \in r.active => Check(d) \in reactor'.active
        /\ \A d \in Channels : closes'[d] = closes[d] \/ Check(d) \in reactor'.active
    BY <1>0, <2>1, <2>2, <2>3, ConnectPending
  <2>5. QED BY <1>0, <2>1, <2>2, <2>3, <2>4 DEF DeletionPending
<1>3. ASSUME NEW c \in Channels, NEW writable \in BOOLEAN, RetryConnect(c, writable)
      PROVE  DeletionPending'
  <2>1. PICK n \in 0..MaxRetries :
          /\ Retry(c, n) \in reactor.active
          /\ UNCHANGED <<channels_, fd_, reading, given>>
          /\ OnConnect(c, Fired(reactor, Retry(c, n)), writable)
    BY <1>3 DEF RetryConnect
  <2> DEFINE r == Fired(reactor, Retry(c, n))
  <2>2. Retry(c, n).kind = "retry" /\ Retry(c, n).owner = c /\ Retry(c, n).n = n
    BY DEF Retry
  <2>3. /\ ReactorOK(r)
        /\ \A d \in Channels : Check(d) \in reactor.active => Check(d) \in r.active
    BY <1>0, <2>2, FiredFacts, DiscardKeepsChecks
  <2>4. reconnect_count_[c] = n + 1 /\ n < MaxRetries
    BY <2>1, <2>2 DEF LifeInv, WatchersTell, Tells
  <2>5. reconnect_count_[c] \in 0..MaxRetries /\ reconnect_count_[c] - 1 = n
    BY <2>4, RetryAssumption
  <2>6. /\ RetryId(fd_[c]) \in DOMAIN r.timers
        /\ r.timers[RetryId(fd_[c])] = Retry(c, n)
    <3>1. r.timers = reactor.timers
      BY <1>0, WithoutFacts
    <3>2. QED BY <2>1, <2>2, <3>1 DEF TablesSound, Sound
  <2> HIDE DEF r
  <2>7. /\ \A d \in Channels : Check(d) \in r.active => Check(d) \in reactor'.active
        /\ \A d \in Channels : closes'[d] = closes[d] \/ Check(d) \in reactor'.active
    BY <1>0, <2>1, <2>3, <2>5, <2>6, ConnectPending DEF r
  <2>8. QED BY <1>0, <2>1, <2>3, <2>7 DEF DeletionPending
<1>4. ASSUME NEW c \in Channels, ReadEnd(c)
      PROVE  DeletionPending'
  <2>1. /\ UNCHANGED <<channels_, fd_>>
        /\ closes' = [closes EXCEPT ![c] = @ + 1]
        /\ reactor' = RegisterTimer(reactor, CheckId(fd_[c]), Check(c))
    BY <1>4 DEF ReadEnd, OnDisconnect
  <2>2. reactor'.active = reactor.active \cup {Check(c)}
    BY <1>0, <2>1, RegisterFacts, WatcherTypes
  <2>3. QED BY <1>0, <2>1, <2>2 DEF DeletionPending
<1>5. ASSUME NEW c \in Channels, CheckConnections(c)
      PROVE  DeletionPending'
  <2> DEFINE r == Fired(reactor, Check(c))
  <2>1. ~connected_[c] /\ fd_[c] # -1 /\ c \in channels_
    <3>1. Tells(Check(c)) /\ Check(c).owner = c /\ Check(c).kind = "check"
      BY <1>5 DEF CheckConnections, LifeInv, WatchersTell, Check
    <3>2. QED BY <1>5, <3>1
              DEF Tells, LifeInv, ChannelsLive, Lives, CheckConnections, TablesSound, Sound
  <2>2. /\ UNCHANGED closes /\ channels_' = channels_ \ {c}
        /\ reactor' = RemoveIO(r, fd_[c])
    BY <1>5, <2>1 DEF CheckConnections, Delete
  <2>3. ReactorOK(r) /\ r.active = reactor.active \ {Check(c)} /\ r.ios = reactor.ios
    BY <1>0, FiredFacts, WithoutFacts
  <2>4. reactor' = Discard(r, Io(c)) /\ Io(c).kind # "check"
    BY <2>1, <2>2, <2>3 DEF RemoveIO, TablesSound, Sound, Io
  <2>5. \A d \in Channels : d # c => Check(d) # Check(c)
    BY DEF Check
  <2> HIDE DEF r
  <2>6. \A d \in Channels : d # c /\ Check(d) \in reactor.active => Check(d) \in reactor'.active
    BY <2>3, <2>4, <2>5, DiscardKeepsChecks
  <2>7. QED BY <1>0, <2>2, <2>6 DEF DeletionPending
<1>6. CASE UNCHANGED vars
  BY <1>1, <1>6 DEF vars, object
<1>7. CASE Next
  <2>1. PICK c \in Channels :
          \/ \E fd \in Fds, w \in BOOLEAN : Create(c, fd, w)
          \/ \E w \in BOOLEAN : RetryConnect(c, w)
          \/ UNCHANGED <<channels_, closes, reactor>>
          \/ ReadEnd(c) \/ CheckConnections(c)
    BY <1>7 DEF Next, Accept, Connect, Write, WriteReturns, ReadFull, ReadShort, object
  <2>2. QED BY <2>1, <1>1, <1>2, <1>3, <1>4, <1>5
<1>8. QED BY <1>6, <1>7

--------------------------------------------------------------------------------
(* The variables of the channels and of the reactor keep their types: in   *)
(* particular the count of tries never passes MaxRetries + 1               *)
(* (Acceptor.cpp:176-191).                                                 *)
THEOREM TypeCorrect == Spec => []TypeOK
  BY LifeAlways, PTL DEF LifeInv

(* No handler runs for a channel that is gone, no watcher is deleted twice *)
(* or runs on after its deletion, and a channel that exists is listened to *)
(* by its own watcher, for any descriptors whose timers have ids of their  *)
(* own, however they are given out again (Reactor.cpp:65-90,               *)
(* Acceptor.cpp:182, 247-248, 304-322).                                    *)
THEOREM HandlersOfTheLiving == ASSUME IdsApart PROVE Spec => []WatchersAlive
<1>1. LifeInv /\ TablesSound /\ [Next]_vars => TablesSound'
  BY SoundKept
<1>2. QED BY <1>1, SoundInitially, AliveImplied, LifeAlways, PTL DEF Spec

(* A channel is disconnected, and its callback called, exactly once before *)
(* it is deleted, whatever timers and descriptors share an id              *)
(* (Acceptor.cpp:176-191, 236-250, 304-322).                               *)
THEOREM DisconnectsOnce == Spec => []DisconnectedOnce
<1>1. LifeInv => DisconnectedOnce
  BY DEF LifeInv, ChannelsLive, Lives, DisconnectedOnce
<1>2. QED BY <1>1, LifeAlways, PTL

(* What is handed to ::write is what was written, once and in order, with  *)
(* what was written before the connection was up first, also while ::write *)
(* holds the process in on_connect (Acceptor.cpp:193-198, 288-302).        *)
THEOREM WritesOrdered == Spec => []WritesInOrder
  BY LifeAlways, PTL DEF LifeInv

(* The deletion of a channel whose disconnection was called back is ahead: *)
(* its timer is pending until the channel is gone, and no other timer of   *)
(* the descriptor stops it (Acceptor.cpp:247-248, 304-322).                *)
THEOREM DeletionsPending == ASSUME IdsApart PROVE Spec => []DeletionPending
<1>1. LifeInv /\ TablesSound /\ [Next]_vars => TablesSound'
  BY SoundKept
<1>2. LifeInv /\ TablesSound /\ DeletionPending /\ [Next]_vars => DeletionPending'
  BY PendingKept
<1>3. Init => DeletionPending
  BY DEF Init, DeletionPending
<1>4. QED BY <1>1, <1>2, <1>3, SoundInitially, LifeAlways, PTL DEF Spec

================================================================================
