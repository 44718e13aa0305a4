---------------------------- MODULE EdgePartsProofs ----------------------------
(***************************************************************************)
(* Proofs about EdgeParts, for every value of its constants: endpoints as  *)
(* keys, SOCKS5 requests, the lines of the log and the variables of the    *)
(* configuration file.                                                     *)
(***************************************************************************)
EXTENDS EdgeParts, FiniteSetTheorems, WellFoundedInduction, TLAPS

--------------------------------------------------------------------------------
(* Endpoints.                                                              *)

LEMMA TableNumbers ==
  /\ NoConv \notin Convs /\ ByteValues \in Nat /\ ByteValues > 0
  /\ SourcePorts \subseteq 0..ByteValues * ByteValues - 1
  BY PartAssumptions DEF Table!EndpointAssumption

LEMMA Times ==
  ASSUME NEW a \in Int, NEW b \in Int
  PROVE  a * b \in Int /\ a * b = b * a /\ (a + 1) * b = a * b + b /\ (a - 1) * b = a * b - b
  OBVIOUS

LEMMA TimesMonotone ==
  ASSUME NEW a \in Int, NEW c \in Int, NEW b \in Nat, a <= c
  PROVE  a * b <= c * b
  OBVIOUS

\* A quotient and a remainder are those of the division.
LEMMA DividedOnce ==
  ASSUME NEW q \in Nat, NEW r \in Nat, NEW b \in Nat, r < b
  PROVE  (q * b + r) \div b = q /\ (q * b + r) % b = r
<1> DEFINE a == q * b + r
           d == a \div b
           m == a % b
<1>1. a \in Nat /\ b > 0
  <2>1. q * b \in Nat
    OBVIOUS
  <2>2. QED BY <2>1
<1>2. a = q * b + r
  OBVIOUS
<1> HIDE DEF a
<1>3. d \in Int /\ m \in Int /\ a = b * d + m /\ 0 <= m /\ m < b
  BY <1>1
<1> HIDE DEF d, m
<1>4. b * d = d * b
  BY <1>3, Times
<1>5. d <= q
  <2>1. SUFFICES ASSUME q + 1 <= d PROVE FALSE
    BY <1>3
  <2>2. (q + 1) * b <= d * b /\ (q + 1) * b = q * b + b
    BY <1>3, <2>1, Times, TimesMonotone
  <2>3. q * b \in Int /\ d * b \in Int
    BY <1>3
  <2>4. QED BY <1>2, <1>3, <1>4, <2>2, <2>3
<1>6. q <= d
  <2>1. SUFFICES ASSUME d + 1 <= q PROVE FALSE
    BY <1>3
  <2>2. (d + 1) * b <= q * b /\ (d + 1) * b = d * b + b
    BY <1>3, <2>1, Times, TimesMonotone
  <2>3. q * b \in Int /\ d * b \in Int
    BY <1>3
  <2>4. QED BY <1>2, <1>3, <1>4, <2>2, <2>3
<1>7. d = q
  BY <1>3, <1>5, <1>6
<1>8. m = r
  BY <1>2, <1>3, <1>4, <1>7, Times
<1>9. QED BY <1>7, <1>8 DEF d, m, a

\* htons swaps two bytes: done twice, it gives back the port.
LEMMA HtonsTwice ==
  ASSUME NEW port \in SourcePorts
  PROVE  Table!htons(Table!htons(port)) = port
<1> DEFINE h == port \div ByteValues
           l == port % ByteValues
<1>1. port \in Nat /\ port < ByteValues * ByteValues /\ ByteValues \in Nat /\ ByteValues > 0
  <2>1. ByteValues * ByteValues \in Int
    BY TableNumbers
  <2>2. QED BY <2>1, TableNumbers
<1>2. h \in Int /\ l \in Int /\ port = ByteValues * h + l /\ 0 <= l /\ l < ByteValues
  BY <1>1
<1> HIDE DEF h, l
<1>3. ByteValues * h = h * ByteValues
  BY <1>1, <1>2, Times
<1>4. h < ByteValues
  <2>1. SUFFICES ASSUME ByteValues <= h PROVE FALSE
    BY <1>1, <1>2
  <2>2. ByteValues * ByteValues <= h * ByteValues
    BY <1>1, <1>2, <2>1, TimesMonotone
  <2>3. ByteValues * ByteValues \in Int /\ h * ByteValues \in Int
    BY <1>1, <1>2
  <2>4. QED BY <1>1, <1>2, <1>3, <2>2, <2>3
<1>5. 0 <= h
  <2>1. SUFFICES ASSUME h <= -1 PROVE FALSE
    BY <1>2
  <2>2. h * ByteValues <= (-1) * ByteValues /\ (-1) * ByteValues = -ByteValues
    BY <1>1, <1>2, <2>1, TimesMonotone
  <2>3. h * ByteValues \in Int
    BY <1>1, <1>2
  <2>4. QED BY <1>1, <1>2, <1>3, <2>2, <2>3
<1>6. h \in Nat /\ l \in Nat
  BY <1>2, <1>5
<1>7. Table!htons(port) = l * ByteValues + h
  BY DEF Table!htons, h, l
<1>8. (l * ByteValues + h) \div ByteValues = l /\ (l * ByteValues + h) % ByteValues = h
  BY <1>1, <1>4, <1>6, DividedOnce
<1>9. Table!htons(l * ByteValues + h) = h * ByteValues + l
  BY <1>8 DEF Table!htons
<1>10. QED BY <1>2, <1>3, <1>7, <1>9

Key(p) == Table!FromSockAddr(Table!SockAddr(p))

\* An endpoint made of a datagram is found by the place it came from alone.
LEMMA KeysDiffer ==
  ASSUME NEW p \in Table!Places, NEW q \in Table!Places
  PROVE  /\ Table!Hit(Key(p), Key(q)) <=> p = q
         /\ Table!Same(Key(p), Key(q)) <=> p = q
         /\ Table!PlaceOf(Key(p).sockaddr_) = p
<1>1. /\ p = [addr |-> p.addr, port |-> p.port] /\ p.port \in SourcePorts
      /\ q = [addr |-> q.addr, port |-> q.port] /\ q.port \in SourcePorts
  BY DEF Table!Places
<1>2. /\ Key(p).sockaddr_ = [sin_addr |-> p.addr, sin_port |-> Table!htons(p.port)]
      /\ Key(q).sockaddr_ = [sin_addr |-> q.addr, sin_port |-> Table!htons(q.port)]
  BY DEF Key, Table!FromSockAddr, Table!SockAddr
<1>3. /\ Table!htons(Table!htons(p.port)) = p.port
      /\ Table!htons(Table!htons(q.port)) = q.port
  BY <1>1, HtonsTwice
<1>4. Table!PlaceOf(Key(p).sockaddr_) = p
  BY <1>1, <1>2, <1>3 DEF Table!PlaceOf
<1>5. Table!PlaceOf(Key(q).sockaddr_) = q
  BY <1>1, <1>2, <1>3 DEF Table!PlaceOf
<1>6. Table!Same(Key(p), Key(q)) <=> p = q
  BY <1>4, <1>5 DEF Table!Same
<1>7. Table!Hit(Key(p), Key(q)) <=> p = q
  BY <1>6 DEF Table!Hit
<1>8. QED BY <1>4, <1>6, <1>7

Entry(p) == [key |-> Key(p), conv |-> latest[p]]
Home(c) == [conv |-> c, ep |-> Key(source[c])]

(* The two tables are functions of what came from where: client_conv_ has  *)
(* one entry for each place, conv_ep_ at most one for each conversation.   *)
TableInv ==
  /\ latest \in [Table!Places -> Convs \cup {NoConv}]
  /\ source \in [Convs -> Table!Places \cup {NoConv}]
  /\ client_conv_ = {Entry(p) : p \in {q \in Table!Places : latest[q] # NoConv}}
  /\ conv_ep_ \subseteq {Home(c) : c \in {d \in Convs : source[d] \in Table!Places}}

LEMMA TableInitially == ASSUME Table!Init PROVE TableInv
<1>1. /\ client_conv_ = {} /\ conv_ep_ = {}
      /\ latest = [p \in Table!Places |-> NoConv] /\ source = [c \in Convs |-> NoConv]
  BY DEF Table!Init
<1>2. \A p \in Table!Places : latest[p] = NoConv
  BY <1>1
<1>3. QED BY <1>1, <1>2 DEF TableInv

\* What the server finds for a place.
LEMMA FindIs ==
  ASSUME TableInv, NEW p \in Table!Places
  PROVE  Table!Find(Key(p)) = IF latest[p] = NoConv THEN {} ELSE {Entry(p)}
<1>1. client_conv_ = {Entry(q) : q \in {q \in Table!Places : latest[q] # NoConv}}
  BY DEF TableInv
<1>2. \A q \in Table!Places : Entry(q).key = Key(q)
  BY DEF Entry
<1>3. \A q \in Table!Places : Table!Hit(Entry(q).key, Key(p)) <=> q = p
  BY <1>2, KeysDiffer
<1>4. Table!Find(Key(p)) = {x \in client_conv_ : Table!Hit(x.key, Key(p))}
  BY DEF Table!Find
<1>5. \A x \in client_conv_ : Table!Hit(x.key, Key(p)) <=> x = Entry(p) /\ latest[p] # NoConv
  BY <1>1, <1>3
<1>6. latest[p] # NoConv => Entry(p) \in client_conv_
  BY <1>1
<1>7. QED BY <1>4, <1>5, <1>6

(* The tables after a new entry for p.                                     *)
Replaced(p, c) ==
  /\ latest' = [latest EXCEPT ![p] = c]
  /\ client_conv_' = (client_conv_ \ Table!Find(Key(p))) \cup {[key |-> Key(p), conv |-> c]}

LEMMA ReplacedStep ==
  ASSUME TableInv, NEW p \in Table!Places, NEW c \in Convs, Replaced(p, c)
  PROVE  /\ latest' \in [Table!Places -> Convs \cup {NoConv}]
         /\ client_conv_' = {Entry(q) : q \in {q \in Table!Places : latest[q] # NoConv}}'
<1>1. /\ latest \in [Table!Places -> Convs \cup {NoConv}]
      /\ client_conv_ = {Entry(q) : q \in {q \in Table!Places : latest[q] # NoConv}}
  BY DEF TableInv
<1>2. /\ latest' \in [Table!Places -> Convs \cup {NoConv}]
      /\ latest'[p] = c /\ \A q \in Table!Places : q # p => latest'[q] = latest[q]
  BY <1>1 DEF Replaced
<1>3. c # NoConv
  BY TableNumbers
<1>4. client_conv_ \ Table!Find(Key(p))
        = {Entry(q) : q \in {q \in Table!Places : latest[q] # NoConv /\ q # p}}
  <2>1. \A q, r \in Table!Places : Key(q) = Key(r) => q = r
    BY KeysDiffer
  <2>2. \A q \in Table!Places : Entry(q).key = Key(q)
    BY DEF Entry
  <2>3. \A q \in Table!Places : Entry(q) = Entry(p) => q = p
    BY <2>1, <2>2
  <2>4. Table!Find(Key(p)) = IF latest[p] = NoConv THEN {} ELSE {Entry(p)}
    BY FindIs
  <2>5. QED BY <1>1, <2>3, <2>4
<1>5. Entry(p)' = [key |-> Key(p), conv |-> c]
  BY <1>2 DEF Entry
<1>6. \A q \in Table!Places : q # p => Entry(q)' = Entry(q)
  BY <1>2 DEF Entry
<1>7. client_conv_' = (client_conv_ \ Table!Find(Key(p))) \cup {[key |-> Key(p), conv |-> c]}
  BY DEF Replaced
<1>8. {Entry(q) : q \in {q \in Table!Places : latest[q] # NoConv}}'
        = {Entry(q) : q \in {q \in Table!Places : latest[q] # NoConv /\ q # p}}
            \cup {[key |-> Key(p), conv |-> c]}
  BY <1>2, <1>3, <1>5, <1>6
<1>9. QED BY <1>2, <1>4, <1>7, <1>8

LEMMA ReceiveStep ==
  ASSUME TableInv, NEW p \in Table!Places, NEW c \in Convs, Table!Receive(p, c)
  PROVE  TableInv'
<1>1. /\ source \in [Convs -> Table!Places \cup {NoConv}]
      /\ conv_ep_ \subseteq {Home(d) : d \in {d \in Convs : source[d] \in Table!Places}}
  BY DEF TableInv
<1>2. source' = [source EXCEPT ![c] = p]
  BY DEF Table!Receive
<1>3. /\ source' \in [Convs -> Table!Places \cup {NoConv}]
      /\ source'[c] = p /\ \A d \in Convs : d # c => source'[d] = source[d]
  BY <1>1, <1>2
<1>4. Home(c)' = [conv |-> c, ep |-> Key(p)] /\ \A d \in Convs : d # c => Home(d)' = Home(d)
  BY <1>3 DEF Home
<1>5. \A x \in conv_ep_ : /\ x.conv \in Convs /\ source[x.conv] \in Table!Places
                         /\ x = Home(x.conv) /\ x.ep = Key(source[x.conv])
  BY <1>1 DEF Home
<1>6. ASSUME NEW x \in conv_ep_, x.conv # c
      PROVE  x \in {Home(d) : d \in {d \in Convs : source[d] \in Table!Places}}'
  <2>1. x.conv \in Convs /\ x = Home(x.conv)' /\ source'[x.conv] \in Table!Places
    BY <1>3, <1>4, <1>5, <1>6
  <2>2. QED BY <2>1
<1>7. [conv |-> c, ep |-> Key(p)]
        \in {Home(d) : d \in {d \in Convs : source[d] \in Table!Places}}'
  BY <1>3, <1>4
<1>8. CASE Table!NewConv(p, c, Key(p))
  <2>1. Replaced(p, c)
    BY <1>8 DEF Table!NewConv, Replaced
  <2>2. /\ \A x \in conv_ep_ : x.conv # c
        /\ conv_ep_' \subseteq conv_ep_ \cup {[conv |-> c, ep |-> Key(p)]}
    BY <1>8 DEF Table!NewConv
  <2>3. QED BY <1>3, <1>6, <1>7, <2>1, <2>2, ReplacedStep DEF TableInv
<1>9. CASE Table!KnownConv(p, c, Key(p))
  <2>1. PICK x \in conv_ep_ :
          /\ x.conv = c
          /\ IF Table!Same(x.ep, Key(p))
               THEN UNCHANGED <<client_conv_, conv_ep_, latest, logged>>
               ELSE /\ conv_ep_' = (conv_ep_ \ {x}) \cup {[conv |-> c, ep |-> Key(p)]}
                    /\ Replaced(p, c)
    BY <1>9 DEF Table!KnownConv, Replaced
  <2>2. \A y \in conv_ep_ : y # x => y.conv # c
    BY <1>5, <2>1
  <2>3. CASE Table!Same(x.ep, Key(p))
    <3>1. source[c] = p
      BY <1>5, <2>1, <2>3, KeysDiffer
    <3>2. source' = source
      BY <1>1, <1>2, <3>1
    <3>3. QED BY <2>1, <2>3, <3>2 DEF TableInv, Entry, Home
  <2>4. CASE ~Table!Same(x.ep, Key(p))
    <3>1. \A y \in conv_ep_' : (y \in conv_ep_ /\ y.conv # c) \/ y = [conv |-> c, ep |-> Key(p)]
      BY <2>1, <2>2, <2>4
    <3>2. conv_ep_' \subseteq {Home(d) : d \in {d \in Convs : source[d] \in Table!Places}}'
      BY <1>6, <1>7, <3>1
    <3>3. QED BY <1>3, <2>1, <2>4, <3>2, ReplacedStep DEF TableInv
  <2>5. QED BY <2>3, <2>4
<1>10. QED BY <1>8, <1>9 DEF Table!Receive, Key

(* For every number of addresses, ports and conversations, whatever order  *)
(* datagrams come in: the server finds for a place the conversation that   *)
(* came from there last, and answers a conversation where its last datagram*)
(* came from (socket.h:46-48, 70-72, 166-173, udp.cpp:172-179, 206-211).   *)
THEOREM AnswersGoBack == PartsSpec => []AnswersReturn
<1>1. PartsInit => TableInv
  BY TableInitially DEF PartsInit
<1>2. TableInv /\ [PartsNext]_AllVars => TableInv'
  <2>1. CASE Table!Next
    BY <2>1, ReceiveStep DEF Table!Next
  <2>2. CASE UNCHANGED tableVars
    BY <2>2 DEF TableInv, tableVars, Entry, Home
  <2>3. [PartsNext]_AllVars => Table!Next \/ UNCHANGED tableVars
    BY DEF PartsNext, AllVars
  <2>4. QED BY <2>1, <2>2, <2>3
<1>3. TableInv => AnswersReturn
  <2>1. SUFFICES ASSUME TableInv
                 PROVE  Table!KeyedByPlace /\ Table!AnswersReturn
    BY DEF AnswersReturn
  <2>2. ASSUME NEW p \in Table!Places
        PROVE  {x.conv : x \in Table!Find(Key(p))} = {latest[p]} \ {NoConv}
    <3>1. Table!Find(Key(p)) = IF latest[p] = NoConv THEN {} ELSE {Entry(p)}
      BY <2>1, FindIs
    <3>2. Entry(p).conv = latest[p]
      BY DEF Entry
    <3>3. QED BY <3>1, <3>2
  <2>3. ASSUME NEW x \in conv_ep_
        PROVE  Table!PlaceOf(x.ep.sockaddr_) = source[x.conv]
    <3>1. PICK c \in Convs : source[c] \in Table!Places /\ x = Home(c)
      BY <2>1 DEF TableInv
    <3>2. x.conv = c /\ x.ep = Key(source[c])
      BY <3>1 DEF Home
    <3>3. QED BY <3>1, <3>2, KeysDiffer
  <2>4. QED BY <2>2, <2>3 DEF Table!KeyedByPlace, Table!AnswersReturn, Key
<1>4. QED BY <1>1, <1>2, <1>3, PTL DEF PartsSpec

--------------------------------------------------------------------------------
(* The lines of the log.                                                   *)

Entire(m) == <<m.level>> \o [k \in 1..m.pieces |-> k]

Passes(m) == m.level >= m.limit

\* Of the temporaries of an expression at most the last one is live.
OnlyLast(ts, live) ==
  /\ ts \in Seq(BOOLEAN) /\ ts # << >>
  /\ \A j \in 1..Len(ts) - 1 : ts[j] = FALSE
  /\ ts[Len(ts)] = live

LogMessage == [level : Int, limit : Int, pieces : Nat]

(* What was printed of the expression that is being evaluated, and of those*)
(* before it.                                                              *)
LogInv ==
  /\ level \in Int /\ message \in LogMessage /\ due \in Seq(LogMessage)
  /\ printed = [j \in 1..Len(due) |-> Entire(due[j])]
  /\ temps = << >> => line = << >>
  /\ temps # << >> => /\ OnlyLast(temps, Passes(message))
                      /\ line = IF Passes(message) THEN Entire(message) ELSE << >>

\* The same sequence with one more in front of the last.
LEMMA OneMore ==
  ASSUME NEW S, NEW ts \in Seq(S), ts # << >>, NEW f \in S, NEW l \in S,
         \A j \in 1..Len(ts) - 1 : ts[j] = f,
         NEW c, c = SubSeq(ts, 1, Len(ts) - 1) \o <<f, l>>
  PROVE  /\ c \in Seq(S) /\ c # << >>
         /\ \A j \in 1..Len(c) - 1 : c[j] = f
         /\ c[Len(c)] = l
<1> DEFINE a == SubSeq(ts, 1, Len(ts) - 1)
           n == Len(ts) - 1
<1>1. n \in Nat /\ Len(ts) = n + 1 /\ 1..n \subseteq DOMAIN ts
  OBVIOUS
<1> HIDE DEF n
<1>2. a \in Seq(S) /\ Len(a) = n /\ \A j \in 1..n : a[j] = f
  <2>1. a = SubSeq(ts, 1, n)
    BY DEF n
  <2>2. a \in Seq(S) /\ Len(a) = n /\ \A j \in 1..n : a[j] = ts[j]
    <3> HIDE DEF a
    <3>1. QED BY <1>1, <2>1
  <2>3. QED BY <2>2 DEF n
<1>3. c = a \o <<f, l>>
  OBVIOUS
<1> HIDE DEF a
<1>4. c \in Seq(S) /\ Len(c) = n + 2
  BY <1>1, <1>2, <1>3
<1>5. \A j \in 1..n : c[j] = a[j]
  BY <1>1, <1>2, <1>3
<1>6. c[n + 1] = f /\ c[n + 2] = l
  BY <1>1, <1>2, <1>3
<1>7. \A j \in 1..Len(c) - 1 : j \in 1..n \/ j = n + 1
  BY <1>1, <1>4
<1>8. \A j \in 1..Len(c) - 1 : c[j] = f
  BY <1>2, <1>5, <1>6, <1>7
<1>9. QED BY <1>1, <1>4, <1>6, <1>8

LEMMA CopyKeepsLast ==
  ASSUME NEW ts, NEW live \in BOOLEAN, OnlyLast(ts, live)
  PROVE  /\ OnlyLast(Log!Copy(ts), live)
         /\ Log!Last(ts) = live
<1> DEFINE c == SubSeq(ts, 1, Len(ts) - 1) \o <<FALSE, live>>
<1>1. Log!Last(ts) = live
  BY DEF Log!Last, OnlyLast
<1>2. Log!Copy(ts) = c
  BY <1>1, Zenon DEF Log!Copy, Log!Front
<1>3. /\ ts \in Seq(BOOLEAN) /\ ts # << >> /\ FALSE \in BOOLEAN
      /\ \A j \in 1..Len(ts) - 1 : ts[j] = FALSE
  BY Zenon DEF OnlyLast
<1>4. /\ c \in Seq(BOOLEAN) /\ c # << >>
      /\ \A j \in 1..Len(c) - 1 : c[j] = FALSE
      /\ c[Len(c)] = live
  <2> DEFINE f == FALSE
  <2> HIDE DEF f
  <2>1. f \in BOOLEAN /\ \A j \in 1..Len(ts) - 1 : ts[j] = f
    BY <1>3, Zenon DEF f
  <2>2. c = SubSeq(ts, 1, Len(ts) - 1) \o <<f, live>>
    BY Zenon DEF f
  <2> HIDE DEF c
  <2>3. /\ c \in Seq(BOOLEAN) /\ c # << >>
        /\ \A j \in 1..Len(c) - 1 : c[j] = f
        /\ c[Len(c)] = live
    <3>1. ts \in Seq(BOOLEAN) /\ ts # << >> /\ live \in BOOLEAN
      BY <1>3, Zenon
    <3>2. QED BY <3>1, <2>1, <2>2, OneMore
  <2>4. QED BY <2>3, Zenon DEF f
<1> HIDE DEF c
<1>5. QED BY <1>1, <1>2, <1>4, Zenon DEF OnlyLast

LEMMA LastEnds ==
  ASSUME NEW n \in Nat \ {0}
  PROVE  /\ n \in 1..n
         /\ \A j \in 1..n : j # n => j \in 1..n - 1
  OBVIOUS

LEMMA EndsOnce ==
  ASSUME NEW ts, NEW live \in BOOLEAN, OnlyLast(ts, live)
  PROVE  Log!LineEnds(ts) = IF live THEN 1 ELSE 0
<1> DEFINE ends == {j \in DOMAIN ts : ts[j]}
<1>1. ts \in Seq(BOOLEAN) /\ ts # << >>
  BY Zenon DEF OnlyLast
<1>2. DOMAIN ts = 1..Len(ts) /\ Len(ts) \in Nat \ {0}
  BY <1>1
<1>3. \A j \in DOMAIN ts : j # Len(ts) => ts[j] = FALSE
  BY <1>2, LastEnds, Zenon DEF OnlyLast
<1>4. ts[Len(ts)] = live /\ Len(ts) \in DOMAIN ts
  BY <1>2, LastEnds, Zenon DEF OnlyLast
<1>5. CASE live
  <2>1. ends = {Len(ts)}
    BY <1>3, <1>4, <1>5, Zenon
  <2>2. Cardinality(ends) = 1
    BY <2>1, FS_Singleton, Zenon
  <2>3. QED BY <1>5, <2>2, Zenon DEF Log!LineEnds, Log!Cardinality, Cardinality
<1>6. CASE ~live
  <2>1. ends = {}
    BY <1>3, <1>4, <1>6, Zenon
  <2>2. Cardinality(ends) = 0
    BY <2>1, FS_EmptySet, Zenon
  <2>3. QED BY <1>6, <2>2, Zenon DEF Log!LineEnds, Log!Cardinality, Cardinality
<1>7. QED BY <1>5, <1>6

LEMMA PieceJoins ==
  ASSUME NEW m \in LogMessage, NEW n \in LogMessage, n.level = m.level,
         n.pieces = m.pieces + 1
  PROVE  Entire(n) = Append(Entire(m), n.pieces)
<1>1. m.pieces \in Nat /\ m.level \in Int /\ n.pieces \in Nat
  BY DEF LogMessage
<1> DEFINE a == [k \in 1..m.pieces |-> k]
           b == [k \in 1..n.pieces |-> k]
<1>2. a \in Seq(Int) /\ Len(a) = m.pieces /\ \A k \in 1..m.pieces : a[k] = k
  BY <1>1
<1>3. b \in Seq(Int) /\ Len(b) = n.pieces /\ \A k \in 1..n.pieces : b[k] = k
  BY <1>1
<1> HIDE DEF a, b
<1>4. b = Append(a, n.pieces)
  BY <1>1, <1>2, <1>3
<1>5. <<m.level>> \o Append(a, n.pieces) = Append(<<m.level>> \o a, n.pieces)
  BY <1>1, <1>2
<1>6. QED BY <1>4, <1>5 DEF Entire, a, b

LEMMA LogInitially == ASSUME Log!Init PROVE LogInv
<1>1. /\ level = 1 /\ temps = << >> /\ line = << >> /\ printed = << >> /\ due = << >>
      /\ message = [level |-> 1, limit |-> 1, pieces |-> 0]
  BY DEF Log!Init, Log!INFO
<1>2. message \in LogMessage
  BY <1>1 DEF LogMessage
<1>3. QED BY <1>1, <1>2 DEF LogInv

LEMMA LogBegins ==
  ASSUME LogInv, NEW l \in Log!Levels, Log!Begin(l)
  PROVE  LogInv'
<1>1. /\ temps = << >> /\ line = << >> /\ l \in Int /\ level \in Int
      /\ UNCHANGED <<level, due, printed>>
      /\ message' = [level |-> l, limit |-> level, pieces |-> 1]
  BY DEF LogInv, Log!Begin, Log!Idle, Log!Levels, Log!DBUG, Log!CRIT
<1>2. message' \in LogMessage /\ (Passes(message') <=> l >= level)
  BY <1>1 DEF LogMessage, Passes
<1>3. CASE l >= level
  <2>1. temps' = Log!Copy(Log!Copy(<<TRUE>>)) /\ line' = << >> \o <<l, 1>>
    BY <1>1, <1>3 DEF Log!Begin, Log!Enabled
  <2>2. OnlyLast(<<TRUE>>, TRUE)
    BY DEF OnlyLast
  <2>3. OnlyLast(temps', TRUE)
    BY <2>1, <2>2, CopyKeepsLast
  <2>4. Entire(message') = <<l, 1>>
    <3>1. Entire(message') = <<l>> \o [k \in 1..1 |-> k]
      BY <1>1 DEF Entire
    <3>2. [k \in 1..1 |-> k] = <<1>>
      OBVIOUS
    <3>3. <<l>> \o <<1>> = <<l, 1>>
      <4>1. l \in Int
        BY <1>1
      <4> DEFINE x == <<l>> \o <<1>>
      <4>2. x \in Seq(Int) /\ Len(x) = 2 /\ x[1] = l /\ x[2] = 1
        BY <4>1
      <4> HIDE DEF x
      <4>3. x = <<l, 1>>
        BY <4>1, <4>2
      <4>4. QED BY <4>3 DEF x
    <3>4. QED BY <3>1, <3>2, <3>3, Zenon
  <2>5. line' = <<l, 1>>
    BY <2>1
  <2>6. temps' # << >>
    BY <2>3 DEF OnlyLast
  <2>7. Passes(message') = TRUE
    BY <1>2, <1>3 DEF Passes
  <2>8. QED BY <1>1, <1>2, <2>3, <2>4, <2>5, <2>6, <2>7 DEF LogInv
<1>4. CASE ~(l >= level)
  <2>1. temps' = <<FALSE>> /\ line' = << >>
    BY <1>1, <1>4 DEF Log!Begin, Log!Enabled
  <2>2. OnlyLast(temps', FALSE) /\ temps' # << >>
    BY <2>1 DEF OnlyLast
  <2>3. Passes(message') = FALSE
    BY <1>2, <1>4 DEF Passes
  <2>4. QED BY <1>1, <1>2, <2>1, <2>2, <2>3 DEF LogInv
<1>5. QED BY <1>3, <1>4

LEMMA LogInserts ==
  ASSUME LogInv, NEW piece, Log!Insert(piece)
  PROVE  LogInv'
<1>1. /\ temps # << >> /\ message \in LogMessage /\ piece = message.pieces + 1
      /\ message' = [message EXCEPT !.pieces = piece]
      /\ UNCHANGED <<level, due, printed>>
      /\ temps' = Log!Copy(temps)
      /\ line' = IF Log!Last(temps) THEN Append(line, piece) ELSE line
  BY DEF LogInv, Log!Insert, Log!Idle
<1>2. /\ message' \in LogMessage /\ message'.pieces = piece
      /\ message'.level = message.level /\ message'.limit = message.limit
  BY <1>1 DEF LogMessage
<1>3. Passes(message') = Passes(message) /\ Passes(message) \in BOOLEAN
  BY <1>2 DEF Passes
<1>4. /\ OnlyLast(temps, Passes(message))
      /\ line = IF Passes(message) THEN Entire(message) ELSE << >>
  BY <1>1 DEF LogInv
<1>5. OnlyLast(temps', Passes(message)) /\ Log!Last(temps) = Passes(message)
  BY <1>1, <1>3, <1>4, CopyKeepsLast
<1>6. Entire(message') = Append(Entire(message), piece)
  BY <1>1, <1>2, PieceJoins
<1>7. temps' # << >>
  BY <1>5 DEF OnlyLast
<1>8. line' = IF Passes(message') THEN Entire(message') ELSE << >>
  BY <1>1, <1>3, <1>4, <1>5, <1>6
<1>9. level' \in Int /\ due' \in Seq(LogMessage) /\ printed' = [j \in 1..Len(due') |-> Entire(due'[j])]
  BY <1>1 DEF LogInv
<1>10. QED BY <1>2, <1>3, <1>5, <1>7, <1>8, <1>9 DEF LogInv

LEMMA LogEnds ==
  ASSUME LogInv, Log!End
  PROVE  LogInv'
<1> DEFINE n == Log!LineEnds(temps)
<1>1. /\ temps # << >> /\ temps' = << >>
      /\ printed' = printed \o [j \in 1..n |-> IF j = 1 THEN line ELSE << >>]
      /\ line' = IF n = 0 THEN line ELSE << >>
      /\ due' = IF Passes(message) THEN Append(due, message) ELSE due
      /\ UNCHANGED <<level, message>>
  BY DEF Log!End, Log!Idle, Passes
<1>2. /\ OnlyLast(temps, Passes(message)) /\ Passes(message) \in BOOLEAN
      /\ line = IF Passes(message) THEN Entire(message) ELSE << >>
      /\ level \in Int /\ message \in LogMessage /\ due \in Seq(LogMessage)
      /\ printed = [j \in 1..Len(due) |-> Entire(due[j])]
  BY <1>1 DEF LogInv, Passes
<1>3. n = IF Passes(message) THEN 1 ELSE 0
  BY <1>2, EndsOnce
<1> HIDE DEF n
<1>4. line' = << >>
  BY <1>1, <1>2, <1>3
<1>5. CASE Passes(message)
  <2>1. printed' = Append(printed, Entire(message))
    <3>1. [j \in 1..1 |-> IF j = 1 THEN line ELSE << >>] = <<Entire(message)>>
      BY <1>2, <1>5
    <3>2. printed' = printed \o <<Entire(message)>>
      BY <1>1, <1>3, <1>5, <3>1
    <3>3. QED BY <1>2, <3>2
  <2>2. due' = Append(due, message)
    BY <1>1, <1>5
  <2>3. due' \in Seq(LogMessage) /\ Len(due') = Len(due) + 1 /\ Len(due) \in Nat
    BY <1>2, <2>2
  <2>4. printed' = [j \in 1..Len(due') |-> Entire(due'[j])]
    <3>1. due'[Len(due) + 1] = message /\ \A j \in 1..Len(due) : due'[j] = due[j]
      BY <1>2, <2>2
    <3>2. QED BY <1>2, <2>1, <2>3, <3>1
  <2>5. QED BY <1>1, <1>2, <1>4, <2>3, <2>4 DEF LogInv
<1>6. CASE ~Passes(message)
  <2>1. [j \in 1..0 |-> IF j = 1 THEN line ELSE << >>] = << >>
    OBVIOUS
  <2>2. printed' = printed
    BY <1>1, <1>2, <1>3, <1>6, <2>1
  <2>3. QED BY <1>1, <1>2, <1>4, <1>6, <2>2 DEF LogInv
<1>7. QED BY <1>5, <1>6

(* For any number of messages and pieces, whatever level is configured and *)
(* when: each message that is due is one line of the log, whole and in the *)
(* order of the messages, and the others leave nothing (mlog.h:33-55,      *)
(* 84-99).                                                                 *)
THEOREM OneLinePerMessage == PartsSpec => []OneLineEach
<1>1. PartsInit => LogInv
  BY LogInitially DEF PartsInit
<1>2. LogInv /\ [PartsNext]_AllVars => LogInv'
  <2> SUFFICES ASSUME LogInv, [PartsNext]_AllVars PROVE LogInv'
    OBVIOUS
  <2>1. CASE \E w \in Words : Log!Configure(w)
    <3>1. level' \in Int /\ UNCHANGED <<temps, line, printed, message, due>>
      BY <2>1 DEF Log!Configure, Log!LevelOf, Log!CRIT, Log!WARN, Log!DBUG, Log!INFO
    <3>2. QED BY <3>1 DEF LogInv
  <2>2. CASE \E l \in Log!Levels : Log!Begin(l)
    BY <2>2, LogBegins
  <2>3. CASE \E piece \in 1..MaxPieces : Log!Insert(piece)
    BY <2>3, LogInserts
  <2>4. CASE Log!End
    BY <2>4, LogEnds
  <2>5. CASE UNCHANGED logVars
    BY <2>5 DEF LogInv, logVars
  <2>6. Log!Next \/ UNCHANGED logVars
    BY DEF PartsNext, AllVars
  <2>7. QED BY <2>1, <2>2, <2>3, <2>4, <2>5, <2>6 DEF Log!Next
<1>3. LogInv => OneLineEach
  BY DEF LogInv, OneLineEach, Log!OneLineEach, Log!Idle, Entire
<1>4. QED BY <1>1, <1>2, <1>3, PTL DEF PartsSpec

--------------------------------------------------------------------------------
(* SOCKS5 requests.                                                        *)

LEMMA SocksNumbers ==
  /\ Ports \subseteq Nat /\ Commands \subseteq Nat /\ DOMAIN Addrs \subseteq Nat
  /\ Hellos \subseteq Seq(Nat)
  /\ \A atyp \in DOMAIN Addrs : Addrs[atyp] \subseteq Seq(Nat)
  /\ 3 \in DOMAIN Addrs => Addrs[3] \subseteq Seq(Nat \ {0})
<1>1. Socks!ByteAssumption
  BY PartAssumptions
<1>2. Socks!Octet \subseteq Nat /\ Socks!PortNumber \subseteq Nat
  BY SMT DEF Socks!Octet, Socks!PortNumber
<1>3. Socks!Octet \ {0} \subseteq Nat \ {0}
  BY <1>2
<1>4. \A S, T : S \subseteq T => Seq(S) \subseteq Seq(T)
  OBVIOUS
<1>5. Seq(Socks!Octet) \subseteq Seq(Nat) /\ Seq(Socks!Octet \ {0}) \subseteq Seq(Nat \ {0})
  BY <1>2, <1>3, <1>4
<1>6. QED BY <1>1, <1>2, <1>5 DEF Socks!ByteAssumption

\* A C string goes on to the first NUL.
LEMMA CStringEnds ==
  ASSUME NEW b \in Seq(Nat), NEW from \in Nat \ {0}, NEW e \in Nat, from <= e, e <= Len(b),
         b[e] = 0, \A k \in from..e - 1 : b[k] # 0
  PROVE  Socks!CString(b, from) = SubSeq(b, from, e - 1)
<1> DEFINE ends == {j \in from..Len(b) : b[j] = 0}
           end == CHOOSE j \in ends : \A k \in ends : j <= k
<1>1. e \in ends
  OBVIOUS
<1>2. \A k \in ends : k \in Int /\ e <= k
  <2>1. SUFFICES ASSUME NEW k \in ends PROVE k \in Int /\ e <= k
    OBVIOUS
  <2>2. k \in from..Len(b) /\ b[k] = 0
    OBVIOUS
  <2>3. ~(k \in from..e - 1)
    BY <2>2
  <2>4. QED BY <2>2, <2>3
<1>3. end \in ends /\ \A k \in ends : end <= k
  <2>1. \E j \in ends : \A k \in ends : j <= k
    BY <1>1, <1>2
  <2> HIDE DEF ends
  <2>2. QED BY <2>1
<1>4. end = e
  <2> HIDE DEF ends, end
  <2>1. QED BY <1>1, <1>2, <1>3
<1>5. QED BY <1>4 DEF Socks!CString

Requests ==
  {r \in [what : {"request"}, cmd : Nat, atyp : Nat, addr : Seq(Nat), port : Nat] :
     r.atyp = 3 => r.addr \in Seq(Nat \ {0})}

Greetings == [what : {"hello"}, methods : Seq(Nat)]

LEMMA SameSequence ==
  ASSUME NEW a \in Seq(Nat), NEW b \in Seq(Nat), Len(a) = Len(b),
         \A k \in 1..Len(a) : a[k] = b[k]
  PROVE  a = b
  OBVIOUS

LEMMA Concatenated ==
  ASSUME NEW a \in Seq(Nat), NEW b \in Seq(Nat)
  PROVE  /\ a \o b \in Seq(Nat) /\ Len(a \o b) = Len(a) + Len(b)
         /\ Len(a) \in Nat /\ Len(b) \in Nat
         /\ \A k \in 1..Len(a) : (a \o b)[k] = a[k]
         /\ \A k \in 1..Len(b) : (a \o b)[Len(a) + k] = b[k]
  OBVIOUS

\* The port is what the last two bytes say.
LEMMA PortBytes ==
  ASSUME NEW port \in Nat
  PROVE  /\ port \div 256 \in Nat /\ port % 256 \in Nat
         /\ (port \div 256) * 256 + (port % 256) = port
<1>1. /\ port \div 256 \in Int /\ port % 256 \in Int
      /\ port = 256 * (port \div 256) + (port % 256) /\ 0 <= port % 256 /\ port % 256 < 256
  OBVIOUS
<1>2. QED BY <1>1

\* Where the fields of a request are.
LEMMA RequestBytes ==
  ASSUME NEW r \in Requests
  PROVE  /\ Socks!Bytes(r) \in Seq(Nat) /\ Len(Socks!Bytes(r)) >= 6
         /\ Socks!Bytes(r)[2] = r.cmd /\ Socks!Bytes(r)[4] = r.atyp
<1> DEFINE a == <<5, r.cmd, 0, r.atyp>>
           n == IF r.atyp = 3 THEN <<Len(r.addr)>> ELSE << >>
           p == <<r.port \div 256, r.port % 256>>
           b == a \o n
           c == b \o r.addr
<1>1. /\ r.what = "request" /\ r.cmd \in Nat /\ r.atyp \in Nat /\ r.addr \in Seq(Nat)
      /\ r.port \in Nat
  BY DEF Requests
<1>2. a \in Seq(Nat) /\ Len(a) = 4 /\ a[2] = r.cmd /\ a[4] = r.atyp
  BY <1>1
<1>3. n \in Seq(Nat)
  BY <1>1
<1>4. p \in Seq(Nat) /\ Len(p) = 2
  BY <1>1, PortBytes
<1>5. r.addr \in Seq(Nat)
  BY <1>1
<1>6. Socks!Bytes(r) = c \o p
  BY <1>1 DEF Socks!Bytes
<1> HIDE DEF a, n, p
<1>7. b \in Seq(Nat) /\ Len(b) >= 4 /\ b[2] = r.cmd /\ b[4] = r.atyp
  <2>1. 2 \in 1..Len(a) /\ 4 \in 1..Len(a)
    BY <1>2
  <2>2. /\ b \in Seq(Nat) /\ Len(b) = Len(a) + Len(n) /\ Len(n) \in Nat
        /\ \A k \in 1..Len(a) : b[k] = a[k]
    BY <1>2, <1>3, Concatenated, Zenon
  <2>3. b[2] = r.cmd /\ b[4] = r.atyp
    BY <1>2, <2>1, <2>2, Zenon
  <2> HIDE DEF b
  <2>4. QED BY <1>2, <2>2, <2>3
<1> HIDE DEF b
<1>8. c \in Seq(Nat) /\ Len(c) >= 4 /\ c[2] = r.cmd /\ c[4] = r.atyp
  BY <1>5, <1>7
<1> HIDE DEF c
<1>9. c \o p \in Seq(Nat) /\ Len(c \o p) >= 6 /\ (c \o p)[2] = r.cmd /\ (c \o p)[4] = r.atyp
  <2>1. 2 \in 1..Len(c) /\ 4 \in 1..Len(c)
    BY <1>8
  <2> DEFINE d == c \o p
  <2>2. /\ d \in Seq(Nat) /\ Len(d) = Len(c) + Len(p)
        /\ \A k \in 1..Len(c) : d[k] = c[k]
    BY <1>4, <1>8, Concatenated, Zenon
  <2>3. d[2] = r.cmd /\ d[4] = r.atyp
    BY <1>8, <2>1, <2>2, Zenon
  <2> HIDE DEF d
  <2>4. d \in Seq(Nat) /\ Len(d) >= 6
    BY <1>4, <1>8, <2>2
  <2>5. QED BY <2>3, <2>4 DEF d
<1>10. QED BY <1>6, <1>9

\* The name of a request is found whole, and its port behind it.
LEMMA NameFound ==
  ASSUME NEW r \in Requests, r.atyp = 3, NEW behind
  PROVE  /\ Socks!NameOf(Socks!Bytes(r), behind) = r.addr
         /\ Socks!Port(Socks!Bytes(r)) = r.port
<1> DEFINE n == Len(r.addr)
           hi == r.port \div 256
           lo == r.port % 256
           h == <<5, r.cmd, 0, r.atyp>> \o <<n>>
           c == h \o r.addr
           b == c \o <<hi, lo>>
           e == [b EXCEPT ![Len(b) - 1] = 0]
<1>1. /\ r.what = "request" /\ r.cmd \in Nat /\ r.atyp \in Nat /\ r.addr \in Seq(Nat \ {0})
      /\ r.port \in Nat
  BY DEF Requests
<1>2. Socks!Bytes(r) = b
  BY <1>1 DEF Socks!Bytes
<1>3. n \in Nat /\ \A k \in 1..n : r.addr[k] \in Nat /\ r.addr[k] # 0
  BY <1>1
<1>4. hi \in Nat /\ lo \in Nat /\ hi * 256 + lo = r.port
  BY <1>1, PortBytes
<1>5. h \in Seq(Nat) /\ Len(h) = 5
  BY <1>1, <1>3
<1>6. r.addr \in Seq(Nat)
  BY <1>1
<1> HIDE DEF h, hi, lo
<1>7. c \in Seq(Nat) /\ Len(c) = 5 + n /\ \A k \in 1..n : c[5 + k] = r.addr[k]
  <2>1. /\ c \in Seq(Nat) /\ Len(c) = Len(h) + Len(r.addr)
        /\ \A k \in 1..Len(r.addr) : c[Len(h) + k] = r.addr[k]
    BY <1>5, <1>6, Concatenated, Zenon
  <2>2. QED BY <1>5, <2>1, Zenon
<1> HIDE DEF c
<1>8. /\ b \in Seq(Nat) /\ Len(b) = 7 + n /\ b[6 + n] = hi /\ b[7 + n] = lo
      /\ \A k \in 1..5 + n : b[k] = c[k]
  <2> DEFINE d == <<hi, lo>>
  <2>1. d \in Seq(Nat) /\ Len(d) = 2 /\ d[1] = hi /\ d[2] = lo
    BY <1>4
  <2> HIDE DEF d
  <2>2. /\ c \o d \in Seq(Nat) /\ Len(c \o d) = 5 + n + 2
        /\ \A k \in 1..5 + n : (c \o d)[k] = c[k]
        /\ \A k \in 1..2 : (c \o d)[5 + n + k] = d[k]
    <3>1. /\ c \o d \in Seq(Nat) /\ Len(c \o d) = Len(c) + Len(d)
          /\ \A k \in 1..Len(c) : (c \o d)[k] = c[k]
          /\ \A k \in 1..Len(d) : (c \o d)[Len(c) + k] = d[k]
      BY <1>7, <2>1, Concatenated, Zenon
    <3>2. QED BY <1>7, <2>1, <3>1, Zenon
  <2>3. /\ 1 \in 1..2 /\ 2 \in 1..2 /\ 5 + n + 1 = 6 + n /\ 5 + n + 2 = 7 + n
    BY <1>3
  <2>4. (c \o d)[6 + n] = hi /\ (c \o d)[7 + n] = lo
    BY <2>1, <2>2, <2>3
  <2>5. b = c \o d
    BY DEF d
  <2>6. QED BY <2>2, <2>3, <2>4, <2>5
<1> HIDE DEF b, n
<1>9. e \in Seq(Nat) /\ Len(e) = 7 + n /\ e[6 + n] = 0 /\ \A k \in 1..5 + n : e[k] = b[k]
  BY <1>3, <1>8
<1> HIDE DEF e
<1>10. \A k \in 1..n : e[5 + k] = r.addr[k]
  BY <1>3, <1>7, <1>8, <1>9
<1>11. \A k \in 6..5 + n : e[k] # 0
  <2>1. SUFFICES ASSUME NEW k \in 6..5 + n PROVE e[k] # 0
    OBVIOUS
  <2>2. k - 5 \in 1..n /\ 5 + (k - 5) = k
    BY <1>3
  <2>3. QED BY <1>3, <1>10, <2>2
<1>12. Socks!CString(e, 6) = SubSeq(e, 6, 5 + n)
  <2>1. /\ 6 + n \in Nat /\ 6 <= 6 + n /\ 6 + n <= Len(e) /\ (6 + n) - 1 = 5 + n
        /\ 6 \in Nat \ {0}
    BY <1>3, <1>9
  <2>2. \A k \in 6..(6 + n) - 1 : e[k] # 0
    BY <1>11, <2>1
  <2>3. Socks!CString(e, 6) = SubSeq(e, 6, (6 + n) - 1)
    BY <1>9, <2>1, <2>2, CStringEnds
  <2>4. QED BY <2>1, <2>3
<1>13. SubSeq(e, 6, 5 + n) = r.addr
  <2> DEFINE s == SubSeq(e, 6, 5 + n)
  <2>1. s \in Seq(Nat) /\ Len(s) = n /\ \A k \in 1..n : s[k] = e[5 + k]
    BY <1>3, <1>9
  <2> HIDE DEF s
  <2>2. s = r.addr
    <3>1. Len(r.addr) = n
      BY DEF n
    <3>2. \A k \in 1..n : s[k] = r.addr[k]
      BY <1>10, <2>1
    <3>3. QED BY <1>6, <2>1, <3>1, <3>2, SameSequence
  <2>3. QED BY <2>2 DEF s
<1>14. Socks!NameOf(Socks!Bytes(r), behind) = r.addr
  BY <1>2, <1>12, <1>13 DEF Socks!NameOf, e
<1>15. Socks!Port(Socks!Bytes(r)) = r.port
  <2>1. Len(b) - 1 = 6 + n /\ Len(b) = 7 + n
    BY <1>3, <1>8
  <2>2. QED BY <1>2, <1>4, <1>8, <2>1 DEF Socks!Port
<1>16. QED BY <1>14, <1>15

(* What was answered is what the buffer says, and the buffer is what was   *)
(* asked.                                                                  *)
SocksInv ==
  /\ request \in Requests \cup Greetings
  /\ packet = Socks!Bytes(request)
  /\ \/ answer = << >>
     \/ Socks!is_hello(packet) /\ answer = Socks!echo_hello
     \/ /\ ~Socks!is_hello(packet)
        /\ target = Socks!parser_endpoint_from_request(packet, after)
        /\ answer = Socks!prepare_response(target # Socks!Null)

LEMMA SocksInitially == ASSUME Socks!Init PROVE SocksInv
<1>1. packet = Socks!Bytes(request) /\ answer = << >>
  BY DEF Socks!Init
<1>2. ASSUME NEW m \in Hellos, request = Socks!Hello(m)
      PROVE  request \in Greetings
  <2>1. m \in Seq(Nat)
    BY SocksNumbers
  <2>2. QED BY <1>2, <2>1 DEF Socks!Hello, Greetings
<1>3. ASSUME NEW cmd \in Commands, NEW atyp \in DOMAIN Addrs, NEW port \in Ports,
             NEW addr \in Addrs[atyp], request = Socks!Request(cmd, atyp, addr, port)
      PROVE  request \in Requests
  <2>1. /\ cmd \in Nat /\ atyp \in Nat /\ port \in Nat /\ addr \in Seq(Nat)
        /\ atyp = 3 => addr \in Seq(Nat \ {0})
    BY SocksNumbers
  <2>2. QED BY <1>3, <2>1 DEF Socks!Request, Requests
<1>4. request \in Requests \cup Greetings
  BY <1>2, <1>3 DEF Socks!Init
<1>5. QED BY <1>1, <1>4 DEF SocksInv

LEMMA SocksStep ==
  ASSUME SocksInv, Socks!Next \/ UNCHANGED socksVars
  PROVE  SocksInv'
<1>1. CASE Socks!ClientAnswers
  BY <1>1 DEF SocksInv, Socks!ClientAnswers
<1>2. CASE Socks!ServerAnswers
  BY <1>2 DEF SocksInv, Socks!ServerAnswers
<1>3. CASE UNCHANGED socksVars
  BY <1>3 DEF SocksInv, socksVars
<1>4. QED BY <1>1, <1>2, <1>3 DEF Socks!Next

\* No request is taken for a hello.
LEMMA RequestsAreNone ==
  ASSUME NEW r \in Requests
  PROVE  ~Socks!is_hello(Socks!Bytes(r))
  BY RequestBytes DEF Socks!is_hello

(* For every name without a NUL, every port and whatever follows the       *)
(* message in the buffer: a request to connect to a name is answered by the*)
(* endpoint it names or refused if there is none, every other command and  *)
(* type is refused, and only a hello with one method is answered as one    *)
(* (socks5.h:27-64).                                                       *)
THEOREM NamesAreServed == PartsSpec => []NamesServed
<1>1. PartsInit => SocksInv
  BY SocksInitially DEF PartsInit
<1>2. SocksInv /\ [PartsNext]_AllVars => SocksInv'
  <2>1. [PartsNext]_AllVars => Socks!Next \/ UNCHANGED socksVars
    BY DEF PartsNext, AllVars
  <2>2. QED BY <2>1, SocksStep
<1>3. SocksInv => NamesServed
  <2> SUFFICES ASSUME SocksInv, answer # << >>
               PROVE  Socks!NamesServed /\ Socks!OnlyHellosAnswered
    BY DEF NamesServed, Socks!NamesServed, Socks!OnlyHellosAnswered, Socks!Answered
  <2>1. packet = Socks!Bytes(request)
    BY DEF SocksInv
  <2>2. ASSUME Socks!IsRequest PROVE request \in Requests
    BY <2>2 DEF SocksInv, Socks!IsRequest, Greetings
  <2>3. ASSUME Socks!IsRequest
        PROVE  /\ target = Socks!parser_endpoint_from_request(packet, after)
               /\ answer = Socks!prepare_response(target # Socks!Null)
    BY <2>1, <2>2, <2>3, RequestsAreNone DEF SocksInv
  <2>4. Socks!NamesServed
    <3> SUFFICES ASSUME Socks!IsRequest, request.cmd # 1 \/ request.atyp \notin {1, 4}
                 PROVE  IF request.cmd = 1 /\ request.atyp = 3
                        THEN /\ target = Socks!Wanted
                             /\ answer = Socks!prepare_response(Socks!Wanted # Socks!Null)
                        ELSE target = Socks!Null /\ answer = Socks!prepare_response(FALSE)
      BY DEF Socks!NamesServed
    <3>1. packet[2] = request.cmd /\ packet[4] = request.atyp
      BY <2>1, <2>2, RequestBytes
    <3>2. CASE request.cmd = 1 /\ request.atyp = 3
      <4>1. Socks!NameOf(packet, after) = request.addr /\ Socks!Port(packet) = request.port
        BY <2>1, <2>2, <3>2, NameFound
      <4>2. ~Socks!Refused(packet)
        BY <3>1, <3>2 DEF Socks!Refused
      <4>3. target = LET host == Socks!gethostbyname(request.addr)
                     IN IF host = << >> THEN Socks!Null ELSE Socks!Endpoint(host, request.port)
        BY <2>3, <3>1, <3>2, <4>1, <4>2 DEF Socks!parser_endpoint_from_request
      <4>4. <<"host", request.addr>> # << >>
        OBVIOUS
      <4>5. target = Socks!Wanted
        BY <3>2, <4>3, <4>4 DEF Socks!gethostbyname, Socks!Wanted
      <4>6. QED BY <2>3, <3>2, <4>5
    <3>3. CASE ~(request.cmd = 1 /\ request.atyp = 3)
      <4>1. Socks!Refused(packet)
        BY <3>1, <3>3 DEF Socks!Refused
      <4>2. target = Socks!Null
        BY <2>3, <4>1 DEF Socks!parser_endpoint_from_request
      <4>3. QED BY <2>3, <3>3, <4>2
    <3>4. QED BY <3>2, <3>3
  <2>5. Socks!OnlyHellosAnswered
    <3> SUFFICES ASSUME answer = Socks!echo_hello
                 PROVE  request.what = "hello" /\ Len(request.methods) = 1
      BY DEF Socks!OnlyHellosAnswered
    <3>1. Len(answer) = 2
      BY DEF Socks!echo_hello
    <3>2. Len(Socks!prepare_response(target # Socks!Null)) = 10
      <4> DEFINE x == IF target # Socks!Null THEN 0 ELSE 1
      <4>1. Socks!prepare_response(target # Socks!Null) = <<5, x, 0, 1, 0, 0, 0, 0, 0, 0>>
        BY DEF Socks!prepare_response
      <4> HIDE DEF x
      <4>2. QED BY <4>1
    <3>3. Socks!is_hello(packet)
      <4>1. answer # << >> /\ answer # Socks!prepare_response(target # Socks!Null)
        BY <3>1, <3>2
      <4>2. QED BY <4>1 DEF SocksInv
    <3>4. request \in Greetings
      BY <2>1, <3>3, RequestsAreNone DEF SocksInv
    <3>5. request.what = "hello" /\ request.methods \in Seq(Nat)
      BY <3>4 DEF Greetings
    <3>6. packet = <<5, Len(request.methods)>> \o request.methods
      BY <2>1, <3>5 DEF Socks!Bytes
    <3>7. Len(packet) = 2 + Len(request.methods) /\ Len(request.methods) \in Nat
      <4> DEFINE m == request.methods
      <4>1. m \in Seq(Nat) /\ <<5, Len(m)>> \in Seq(Nat)
        BY <3>5
      <4>2. QED BY <3>6, <4>1
    <3>8. Len(packet) = 3
      BY <3>3 DEF Socks!is_hello
    <3>9. Len(request.methods) = 1
      <4> DEFINE k == Len(request.methods)
      <4>1. k \in Nat /\ 2 + k = 3
        BY <3>7, <3>8
      <4> HIDE DEF k
      <4>2. k = 1
        BY <4>1
      <4>3. QED BY <4>2 DEF k
    <3>10. QED BY <3>5, <3>9
  <2>6. QED BY <2>4, <2>5
<1>4. QED BY <1>1, <1>2, <1>3, PTL DEF PartsSpec

--------------------------------------------------------------------------------
(* The configuration file.                                                 *)

\* The definitions of Startup about its lines, of any sequence of lines.
TrimmedIn(ts, k) == Start!rtrim(Start!ltrim(ts[k]))
HeadersIn(ts, k) == {h \in 1..k : Start!IsHeader(TrimmedIn(ts, h))}
UnderIn(ts, k) ==
  IF HeadersIn(ts, k) = {} THEN << >>
  ELSE Start!HeaderName(TrimmedIn(ts, CHOOSE h \in HeadersIn(ts, k) :
                                        \A g \in HeadersIn(ts, k) : g <= h))
GivesIn(ts, k, name, variable) ==
  /\ Start!IsAssignment(TrimmedIn(ts, k)) /\ UnderIn(ts, k) = name
  /\ Start!Variable(TrimmedIn(ts, k)) = variable
GivenIn(ts, name, variable) == {k \in DOMAIN ts : GivesIn(ts, k, name, variable)}
WrittenIn(ts, name, variable) ==
  LET ks == GivenIn(ts, name, variable)
  IN IF ks = {} THEN << >>
     ELSE Start!Value(TrimmedIn(ts, CHOOSE k \in ks : \A l \in ks : k <= l))

LEMMA WrittenIs ==
  ASSUME NEW name, NEW variable
  PROVE  Start!Written(name, variable) = WrittenIn(text, name, variable)
<1>1. \A k : Start!Under(k) = UnderIn(text, k)
  BY Zenon DEF Start!Under, Start!Trimmed, UnderIn, HeadersIn, TrimmedIn
<1>2. \A k : Start!Gives(k, name, variable) <=> GivesIn(text, k, name, variable)
  BY <1>1, Zenon DEF Start!Gives, Start!Trimmed, GivesIn, TrimmedIn
<1> DEFINE ks == {k \in DOMAIN text : Start!Gives(k, name, variable)}
<1>3. ks = GivenIn(text, name, variable)
  BY <1>2 DEF GivenIn
<1>4. Start!Written(name, variable)
        = IF ks = {} THEN << >>
          ELSE Start!Value(Start!Trimmed(CHOOSE k \in ks : \A l \in ks : k <= l))
  BY Zenon DEF Start!Written
<1> HIDE DEF ks
<1>5. QED BY <1>3, <1>4, Zenon DEF WrittenIn, Start!Trimmed, TrimmedIn

LEMMA Least ==
  ASSUME NEW S \in SUBSET Nat, S # {}
  PROVE  \E x \in S : \A y \in S : x <= y
<1>1. PICK x \in S : \A y \in S : ~(<<y, x>> \in OpToRel(<, Nat))
  BY WFMin, NatLessThanWellFounded
<1>2. ASSUME NEW y \in S PROVE x <= y
  <2>1. <<y, x>> \in Nat \X Nat => y >= x
    BY <1>1 DEF OpToRel
  <2>2. QED BY <2>1
<1>3. QED BY <1>2

LEMMA Greatest ==
  ASSUME NEW k \in Nat, NEW S \in SUBSET (1..k), S # {}
  PROVE  \E x \in S : \A y \in S : y <= x
<1> DEFINE T == {k - x : x \in S}
<1>1. T \in SUBSET Nat /\ T # {}
  <2>1. \A x \in S : k - x \in Nat
    OBVIOUS
  <2>2. QED BY <2>1
<1>2. PICK t \in T : \A u \in T : t <= u
  BY <1>1, Least
<1>3. PICK x \in S : t = k - x
  OBVIOUS
<1>4. \A y \in S : k - x <= k - y
  BY <1>2, <1>3
<1>5. QED BY <1>4

\* A line that is added changes nothing above it.
LEMMA LinesAbove ==
  ASSUME NEW ts \in Seq(Lines), NEW added \in Lines, NEW k \in 1..Len(ts),
         NEW us, us = Append(ts, added)
  PROVE  /\ TrimmedIn(us, k) = TrimmedIn(ts, k)
         /\ HeadersIn(us, k) = HeadersIn(ts, k)
         /\ UnderIn(us, k) = UnderIn(ts, k)
         /\ \A name, variable : GivesIn(us, k, name, variable) <=> GivesIn(ts, k, name, variable)
<1>1. \A h \in 1..Len(ts) : us[h] = ts[h]
  OBVIOUS
<1>2. \A h \in 1..Len(ts) : TrimmedIn(us, h) = TrimmedIn(ts, h)
  BY <1>1 DEF TrimmedIn
<1>3. \A h \in 1..k : h \in 1..Len(ts)
  OBVIOUS
<1>4. HeadersIn(us, k) = HeadersIn(ts, k)
  BY <1>2, <1>3 DEF HeadersIn
<1>5. UnderIn(us, k) = UnderIn(ts, k)
  <2> DEFINE top == CHOOSE h \in HeadersIn(ts, k) : \A g \in HeadersIn(ts, k) : g <= h
  <2>1. CASE HeadersIn(ts, k) = {}
    BY <1>4, <2>1 DEF UnderIn
  <2>2. CASE HeadersIn(ts, k) # {}
    <3>1. UnderIn(ts, k) = Start!HeaderName(TrimmedIn(ts, top))
      BY <2>2 DEF UnderIn
    <3>2. UnderIn(us, k) = Start!HeaderName(TrimmedIn(us, top))
      BY <1>4, <2>2 DEF UnderIn
    <3>3. top \in HeadersIn(ts, k)
      <4>1. HeadersIn(ts, k) \subseteq 1..k /\ k \in Nat
        BY DEF HeadersIn
      <4> DEFINE H == HeadersIn(ts, k)
      <4> HIDE DEF H
      <4>2. \E h \in H : \A g \in H : g <= h
        BY <2>2, <4>1, Greatest DEF H
      <4>3. QED BY <4>2 DEF H
    <3>4. TrimmedIn(us, top) = TrimmedIn(ts, top)
      BY <1>2, <1>3, <3>3 DEF HeadersIn
    <3>5. QED BY <3>1, <3>2, <3>4
  <2>3. QED BY <2>1, <2>2
<1>6. QED BY <1>2, <1>4, <1>5 DEF GivesIn

\* The section of the last line: it, if it is a header, or that above it.
LEMMA LastSection ==
  ASSUME NEW ts \in Seq(Lines), NEW added \in Lines, NEW us, us = Append(ts, added)
  PROVE  LET n == Len(ts) + 1
             new == Start!rtrim(Start!ltrim(added))
         IN /\ TrimmedIn(us, n) = new
            /\ UnderIn(us, n) = IF Start!IsHeader(new) THEN Start!HeaderName(new)
                                ELSE UnderIn(ts, Len(ts))
<1> DEFINE m == Len(ts)
           n == m + 1
           new == Start!rtrim(Start!ltrim(added))
           H == HeadersIn(ts, m)
           J == HeadersIn(us, n)
<1>1. m \in Nat /\ us[n] = added
  OBVIOUS
<1>2. TrimmedIn(us, n) = new
  BY <1>1 DEF TrimmedIn
<1>3. \A h \in 1..m : TrimmedIn(us, h) = TrimmedIn(ts, h)
  BY LinesAbove
<1>4. 1..n = 1..m \cup {n} /\ n \notin 1..m /\ \A h \in 1..m : h <= n
  BY <1>1
<1> HIDE DEF n, new, m
<1>5. J = IF Start!IsHeader(new) THEN H \cup {n} ELSE H
  <2>1. J = {h \in 1..n : Start!IsHeader(TrimmedIn(us, h))}
    BY DEF HeadersIn
  <2>2. H = {h \in 1..m : Start!IsHeader(TrimmedIn(ts, h))}
    BY DEF HeadersIn
  <2> HIDE DEF H, J
  <2>3. QED BY <1>2, <1>3, <1>4, <2>1, <2>2
<1>6. CASE Start!IsHeader(new)
  <2> DEFINE top == CHOOSE h \in J : \A g \in J : g <= h
  <2>1. n \in J /\ \A g \in J : g \in Int /\ g <= n
    <3>1. H \subseteq 1..m
      BY DEF HeadersIn
    <3>2. n \in Int /\ n <= n
      BY <1>1 DEF n
    <3> HIDE DEF H, J
    <3>3. \A g \in 1..m : g \in Int /\ g <= n
      BY <1>1 DEF n
    <3>4. QED BY <1>5, <1>6, <3>1, <3>2, <3>3
  <2>2. top = n
    <3> HIDE DEF J
    <3>1. top \in J /\ \A g \in J : g <= top
      BY <2>1
    <3> HIDE DEF top
    <3>2. QED BY <2>1, <3>1
  <2>3. UnderIn(us, n) = Start!HeaderName(TrimmedIn(us, n))
    BY <2>1, <2>2 DEF UnderIn
  <2>4. QED BY <1>2, <1>6, <2>3 DEF n, new, m
<1>7. CASE ~Start!IsHeader(new)
  <2>1. J = H
    BY <1>5, <1>7
  <2> DEFINE top == CHOOSE h \in H : \A g \in H : g <= h
  <2>2. CASE H = {}
    BY <1>2, <1>7, <2>1, <2>2 DEF UnderIn, n, new, m
  <2>3. CASE H # {}
    <3>1. UnderIn(ts, m) = Start!HeaderName(TrimmedIn(ts, top))
      BY <2>3 DEF UnderIn
    <3>2. UnderIn(us, n) = Start!HeaderName(TrimmedIn(us, top))
      BY <2>1, <2>3 DEF UnderIn
    <3>3. H \subseteq 1..m
      BY DEF HeadersIn
    <3>4. top \in H
      <4> HIDE DEF H
      <4>1. \E h \in H : \A g \in H : g <= h
        BY <1>1, <2>3, <3>3, Greatest
      <4>2. QED BY <4>1
    <3>5. TrimmedIn(us, top) = TrimmedIn(ts, top)
      BY <1>3, <3>3, <3>4
    <3>6. UnderIn(us, n) = UnderIn(ts, m)
      BY <3>1, <3>2, <3>5
    <3>7. QED BY <1>2, <1>7, <3>6 DEF n, new, m
  <2>4. QED BY <2>2, <2>3
<1>8. QED BY <1>6, <1>7

\* What one line more gives a variable.
GivenStep(ts, us, n, name, variable) ==
  LET old == GivenIn(ts, name, variable)
      now == GivenIn(us, name, variable)
  IN /\ GivesIn(us, n, name, variable) => now = old \cup {n}
     /\ ~GivesIn(us, n, name, variable) => now = old
     /\ old # {} => WrittenIn(us, name, variable) = WrittenIn(ts, name, variable)
     /\ old = {} /\ GivesIn(us, n, name, variable)
          => WrittenIn(us, name, variable) = Start!Value(TrimmedIn(us, n))

LEMMA GivenNext ==
  ASSUME NEW ts \in Seq(Lines), NEW added \in Lines, NEW us, us = Append(ts, added),
         NEW name, NEW variable
  PROVE  GivenStep(ts, us, Len(ts) + 1, name, variable)
<1> DEFINE m == Len(ts)
           n == m + 1
           old == GivenIn(ts, name, variable)
           now == GivenIn(us, name, variable)
           first(s) == CHOOSE k \in s : \A l \in s : k <= l
<1>1. m \in Nat /\ DOMAIN ts = 1..m /\ DOMAIN us = 1..n /\ 1..n = 1..m \cup {n} /\ n \notin 1..m
  OBVIOUS
<1>2. \A k \in 1..m : GivesIn(us, k, name, variable) <=> GivesIn(ts, k, name, variable)
  BY LinesAbove
<1>3. \A k \in 1..m : TrimmedIn(us, k) = TrimmedIn(ts, k)
  BY LinesAbove
<1>4. \A k \in 1..m : k \in Nat /\ k <= n
  BY <1>1
<1>5. n \in Nat /\ n <= n
  BY <1>1
<1> HIDE DEF n, m
<1>6. old = {k \in 1..m : GivesIn(ts, k, name, variable)}
  BY <1>1 DEF GivenIn
<1>7. now = {k \in 1..n : GivesIn(us, k, name, variable)}
  BY <1>1 DEF GivenIn
<1>8. /\ WrittenIn(ts, name, variable) = IF old = {} THEN << >>
                                         ELSE Start!Value(TrimmedIn(ts, first(old)))
      /\ WrittenIn(us, name, variable) = IF now = {} THEN << >>
                                         ELSE Start!Value(TrimmedIn(us, first(now)))
  BY DEF WrittenIn
<1> HIDE DEF old, now
<1>9. /\ GivesIn(us, n, name, variable) => now = old \cup {n}
      /\ ~GivesIn(us, n, name, variable) => now = old
  BY <1>1, <1>2, <1>6, <1>7
<1>10. old \subseteq 1..m /\ old \in SUBSET Nat
  BY <1>4, <1>6
<1>11. ASSUME old # {}
       PROVE  WrittenIn(us, name, variable) = WrittenIn(ts, name, variable)
  <2>1. PICK x \in old : \A y \in old : x <= y
    BY <1>10, <1>11, Least
  <2>2. x \in Nat /\ x \in 1..m /\ x <= n
    BY <1>4, <1>10
  <2>3. x \in now /\ \A y \in now : x <= y /\ y \in Nat
    BY <1>5, <1>9, <1>10, <2>1, <2>2
  <2>4. first(old) = x
    <3>1. first(old) \in old /\ \A y \in old : first(old) <= y
      BY <2>1
    <3> HIDE DEF first
    <3>2. first(old) <= x /\ x <= first(old) /\ first(old) \in Nat
      BY <1>10, <2>1, <3>1
    <3>3. QED BY <2>2, <3>2
  <2>5. first(now) = x
    <3>1. first(now) \in now /\ \A y \in now : first(now) <= y
      BY <2>3
    <3> HIDE DEF first
    <3>2. first(now) <= x /\ x <= first(now) /\ first(now) \in Nat
      BY <2>3, <3>1
    <3>3. QED BY <2>2, <3>2
  <2> HIDE DEF first
  <2>6. now # {}
    BY <2>3
  <2>7. TrimmedIn(us, x) = TrimmedIn(ts, x)
    BY <1>3, <2>2
  <2>8. QED BY <1>8, <1>11, <2>4, <2>5, <2>6, <2>7
<1>12. ASSUME old = {}, GivesIn(us, n, name, variable)
       PROVE  WrittenIn(us, name, variable) = Start!Value(TrimmedIn(us, n))
  <2>1. now = {n}
    BY <1>9, <1>12
  <2>2. first(now) = n
    BY <1>5, <2>1
  <2> HIDE DEF first
  <2>3. QED BY <1>8, <2>1, <2>2
<1>13. QED BY <1>9, <1>11, <1>12 DEF n, m, old, now, GivenStep

\* What one line does to the sections.
LEMMA ParsedIs ==
  ASSUME NEW sec, NEW secs, NEW errs, NEW added
  PROVE  LET new == Start!rtrim(Start!ltrim(added))
             p == Start!Parsed([section |-> sec, sections |-> secs, errors |-> errs], added)
         IN /\ p.section = IF Start!IsHeader(new) THEN Start!HeaderName(new) ELSE sec
            /\ p.sections =
                 IF Start!IsAssignment(new)
                 THEN Start!With(secs, sec,
                        Start!Insert(Start!In(secs, sec), Start!Variable(new), Start!Value(new)))
                 ELSE secs
<1> DEFINE new == Start!rtrim(Start!ltrim(added))
           q == [section |-> sec, sections |-> secs, errors |-> errs]
           p == Start!Parsed(q, added)
<1>1. q.section = sec /\ q.sections = secs
  OBVIOUS
<1>2. Start!IsHeader(new) => ~Start!IsAssignment(new) /\ ~Start!IsComment(new) /\ new # << >>
  BY DEF Start!IsHeader, Start!IsAssignment, Start!IsComment
<1>3. new = << >> \/ Start!IsComment(new) => ~Start!IsAssignment(new) /\ ~Start!IsHeader(new)
  BY DEF Start!IsHeader, Start!IsAssignment, Start!IsComment
<1>4. p = IF new = << >> \/ Start!IsComment(new) THEN q
          ELSE IF Start!IsHeader(new) THEN [q EXCEPT !.section = Start!HeaderName(new)]
          ELSE IF ~Start!IsAssignment(new) THEN [q EXCEPT !.errors = @ + 1]
          ELSE [q EXCEPT
                  !.errors = @ + (IF Start!Variable(new) \in DOMAIN Start!In(q.sections, q.section)
                                  THEN 1 ELSE 0),
                  !.sections = Start!With(@, q.section,
                     Start!Insert(Start!In(q.sections, q.section), Start!Variable(new),
                                  Start!Value(new)))]
  BY DEF Start!Parsed
<1> HIDE DEF new, p
<1>5. CASE new = << >> \/ Start!IsComment(new)
  BY <1>1, <1>3, <1>4, <1>5 DEF new, p
<1>6. CASE Start!IsHeader(new)
  <2>1. p = [q EXCEPT !.section = Start!HeaderName(new)]
    BY <1>2, <1>4, <1>6
  <2>2. p.section = Start!HeaderName(new) /\ p.sections = secs
    BY <2>1
  <2>3. QED BY <1>2, <1>6, <2>2 DEF new, p
<1>7. CASE /\ ~(new = << >> \/ Start!IsComment(new)) /\ ~Start!IsHeader(new)
           /\ ~Start!IsAssignment(new)
  <2>1. p = [q EXCEPT !.errors = @ + 1]
    BY <1>4, <1>7
  <2>2. p.section = sec /\ p.sections = secs
    BY <2>1
  <2>3. QED BY <1>7, <2>2 DEF new, p
<1>8. CASE /\ ~(new = << >> \/ Start!IsComment(new)) /\ ~Start!IsHeader(new)
           /\ Start!IsAssignment(new)
  <2> DEFINE values == Start!Insert(Start!In(secs, sec), Start!Variable(new), Start!Value(new))
             more == IF Start!Variable(new) \in DOMAIN Start!In(secs, sec) THEN 1 ELSE 0
             now == Start!With(secs, sec, values)
  <2>1. p = [q EXCEPT !.errors = @ + more, !.sections = now]
    BY <1>1, <1>4, <1>8
  <2> HIDE DEF now, more
  <2>2. p.section = sec /\ p.sections = now
    BY <2>1
  <2>3. QED BY <1>8, <2>2 DEF new, p, now
<1>9. QED BY <1>5, <1>6, <1>7, <1>8

(* The map of a section after a line gave one of its variables a value.    *)
LEMMA InsertIs ==
  ASSUME NEW values, NEW name, NEW value, NEW v
  PROVE  LET now == Start!Insert(values, name, value)
         IN /\ v \in DOMAIN now <=> v \in DOMAIN values \/ v = name
            /\ v \in DOMAIN values => now[v] = values[v]
            /\ v = name /\ v \notin DOMAIN values => now[v] = value
<1>1. CASE name \in DOMAIN values
  BY <1>1 DEF Start!Insert
<1>2. CASE name \notin DOMAIN values
  <2>1. Start!Insert(values, name, value) = Start!With(values, name, value)
    BY <1>2 DEF Start!Insert
  <2> DEFINE w == Start!With(values, name, value)
  <2>2. /\ DOMAIN w = DOMAIN values \cup {name} /\ w[name] = value
        /\ \A k \in DOMAIN values : k # name => w[k] = values[k]
    BY DEF Start!With
  <2> HIDE DEF w
  <2>3. QED BY <1>2, <2>1, <2>2 DEF w
<1>3. QED BY <1>1, <1>2

LEMMA InIs ==
  ASSUME NEW ini, NEW sec, NEW values, NEW name
  PROVE  Start!In(Start!With(ini, sec, values), name)
           = IF name = sec THEN values ELSE Start!In(ini, name)
<1> DEFINE w == Start!With(ini, sec, values)
<1>1. /\ DOMAIN w = DOMAIN ini \cup {sec} /\ w[sec] = values
      /\ \A k \in DOMAIN ini : k # sec => w[k] = ini[k]
  BY DEF Start!With
<1> HIDE DEF w
<1>2. Start!In(w, name) = IF name = sec THEN values ELSE Start!In(ini, name)
  BY <1>1 DEF Start!In
<1>3. QED BY <1>2 DEF w

\* Sections that hold what the lines say.
AsWritten(ini, ts) ==
  \A name, variable :
    /\ variable \in DOMAIN Start!In(ini, name) <=> GivenIn(ts, name, variable) # {}
    /\ variable \in DOMAIN Start!In(ini, name)
         => Start!In(ini, name)[variable] = WrittenIn(ts, name, variable)

LEMMA LineParsed ==
  ASSUME NEW ts \in Seq(Lines), NEW added \in Lines, NEW us, us = Append(ts, added),
         NEW ini, AsWritten(ini, ts), NEW errs
  PROVE  LET p == Start!Parsed([section |-> UnderIn(ts, Len(ts)), sections |-> ini,
                                errors |-> errs], added)
         IN p.section = UnderIn(us, Len(us)) /\ AsWritten(p.sections, us)
<1> DEFINE new == Start!rtrim(Start!ltrim(added))
           sec == UnderIn(ts, Len(ts))
           n == Len(ts) + 1
           p == Start!Parsed([section |-> sec, sections |-> ini, errors |-> errs], added)
           old == Start!In(ini, sec)
           values == Start!Insert(old, Start!Variable(new), Start!Value(new))
<1>1. Len(us) = n
  OBVIOUS
<1>2. /\ TrimmedIn(us, n) = new
      /\ UnderIn(us, n) = IF Start!IsHeader(new) THEN Start!HeaderName(new) ELSE sec
  BY LastSection
<1>3. /\ p.section = IF Start!IsHeader(new) THEN Start!HeaderName(new) ELSE sec
      /\ p.sections = IF Start!IsAssignment(new) THEN Start!With(ini, sec, values) ELSE ini
  BY ParsedIs
<1>4. Start!IsHeader(new) => ~Start!IsAssignment(new)
  BY DEF Start!IsHeader, Start!IsAssignment
<1>5. \A name, variable :
        GivesIn(us, n, name, variable) <=>
          Start!IsAssignment(new) /\ name = sec /\ variable = Start!Variable(new)
  BY <1>2, <1>4 DEF GivesIn
<1>6. ASSUME NEW name, NEW variable
      PROVE  /\ GivesIn(us, n, name, variable)
                  => GivenIn(us, name, variable) = GivenIn(ts, name, variable) \cup {n}
             /\ ~GivesIn(us, n, name, variable)
                  => GivenIn(us, name, variable) = GivenIn(ts, name, variable)
             /\ GivenIn(ts, name, variable) # {}
                  => WrittenIn(us, name, variable) = WrittenIn(ts, name, variable)
             /\ GivenIn(ts, name, variable) = {} /\ GivesIn(us, n, name, variable)
                  => WrittenIn(us, name, variable) = Start!Value(new)
  <2>1. GivenStep(ts, us, n, name, variable)
    BY GivenNext
  <2> HIDE DEF n, new
  <2>2. QED BY <1>2, <2>1 DEF GivenStep
<1> HIDE DEF new, sec, n, p, old, values
<1>7. ASSUME NEW name, NEW variable
      PROVE  /\ variable \in DOMAIN Start!In(p.sections, name)
                  <=> GivenIn(us, name, variable) # {}
             /\ variable \in DOMAIN Start!In(p.sections, name)
                  => Start!In(p.sections, name)[variable] = WrittenIn(us, name, variable)
  <2>1. /\ variable \in DOMAIN Start!In(ini, name) <=> GivenIn(ts, name, variable) # {}
        /\ variable \in DOMAIN Start!In(ini, name)
             => Start!In(ini, name)[variable] = WrittenIn(ts, name, variable)
    BY DEF AsWritten
  <2>2. CASE ~(Start!IsAssignment(new) /\ name = sec)
    <3>1. ~GivesIn(us, n, name, variable)
      BY <1>5, <2>2
    <3>2. Start!In(p.sections, name) = Start!In(ini, name)
      BY <1>3, <2>2, InIs
    <3>3. QED BY <1>6, <2>1, <3>1, <3>2
  <2>3. CASE Start!IsAssignment(new) /\ name = sec
    <3>1. Start!In(p.sections, name) = values
      BY <1>3, <2>3, InIs
    <3>2. old = Start!In(ini, name)
      BY <2>3 DEF old
    <3>3. /\ variable \in DOMAIN values
               <=> variable \in DOMAIN old \/ variable = Start!Variable(new)
          /\ variable \in DOMAIN old => values[variable] = old[variable]
          /\ variable = Start!Variable(new) /\ variable \notin DOMAIN old
               => values[variable] = Start!Value(new)
      BY InsertIs DEF values
    <3>4. GivesIn(us, n, name, variable) <=> variable = Start!Variable(new)
      BY <1>5, <2>3
    <3>5. CASE variable = Start!Variable(new)
      <4>1. GivenIn(us, name, variable) # {} /\ variable \in DOMAIN values
        <5>1. GivenIn(us, name, variable) = GivenIn(ts, name, variable) \cup {n}
          BY <1>6, <3>4, <3>5
        <5>2. variable \in DOMAIN values
          BY <3>3, <3>5
        <5>3. QED BY <5>1, <5>2
      <4>2. values[variable] = WrittenIn(us, name, variable)
        BY <1>6, <2>1, <3>2, <3>3, <3>4, <3>5
      <4>3. QED BY <3>1, <4>1, <4>2
    <3>6. CASE variable # Start!Variable(new)
      <4>1. /\ GivenIn(us, name, variable) = GivenIn(ts, name, variable)
            /\ variable \in DOMAIN values <=> variable \in DOMAIN old
        BY <1>6, <3>3, <3>4, <3>6
      <4>2. variable \in DOMAIN values => values[variable] = WrittenIn(us, name, variable)
        BY <1>6, <2>1, <3>2, <3>3, <4>1
      <4>3. QED BY <2>1, <3>1, <3>2, <4>1, <4>2
    <3>7. QED BY <3>5, <3>6
  <2>4. QED BY <2>2, <2>3
<1>8. AsWritten(p.sections, us)
  BY <1>7 DEF AsWritten
<1>9. p.section = UnderIn(us, Len(us))
  BY <1>1, <1>2, <1>3
<1>10. QED BY <1>8, <1>9 DEF p, sec

(* The sections hold what the lines read so far say, and from the end of   *)
(* the file on the configuration is what they all say.                     *)
StartInv ==
  /\ text \in Seq(Lines)
  /\ section = UnderIn(text, Len(text))
  /\ AsWritten(sections, text)
  /\ mode \in {"", "server", "client"}
  /\ phase \in {"start", "running"} /\ mode # "" =>
       /\ config.local = WrittenIn(text, SectionOf[mode], Local)
       /\ mode = "client" => config.remote = WrittenIn(text, SectionOf[mode], Remote)
  /\ phase = "running" => mode # ""

\* What is looked up is what was written.
LEMMA LookedIs ==
  ASSUME NEW ini, NEW ts, AsWritten(ini, ts), NEW name, NEW variable
  PROVE  Start!Looked(ini, name, variable) = WrittenIn(ts, name, variable)
<1>1. /\ variable \in DOMAIN Start!In(ini, name) <=> GivenIn(ts, name, variable) # {}
      /\ variable \in DOMAIN Start!In(ini, name)
           => Start!In(ini, name)[variable] = WrittenIn(ts, name, variable)
  BY DEF AsWritten
<1>2. GivenIn(ts, name, variable) = {} => WrittenIn(ts, name, variable) = << >>
  BY DEF WrittenIn
<1>3. QED BY <1>1, <1>2 DEF Start!Looked

LEMMA StartInitially == ASSUME Start!Init PROVE StartInv
<1>1. /\ text = << >> /\ section = << >> /\ sections = << >> /\ mode = "" /\ phase = "options"
  BY DEF Start!Init, Start!Empty
<1>2. HeadersIn(text, 0) = {}
  BY DEF HeadersIn
<1>3. UnderIn(text, Len(text)) = << >>
  BY <1>1, <1>2 DEF UnderIn
<1>4. AsWritten(sections, text)
  <2>1. DOMAIN << >> = {}
    OBVIOUS
  <2>2. \A name : Start!In(sections, name) = << >>
    BY <1>1, <2>1 DEF Start!In, Start!Empty
  <2>3. \A name, variable : GivenIn(text, name, variable) = {}
    BY <1>1, <2>1 DEF GivenIn
  <2>4. QED BY <2>1, <2>2, <2>3 DEF AsWritten
<1>5. text \in Seq(Lines)
  <2>1. << >> \in Seq(Lines)
    OBVIOUS
  <2>2. QED BY <1>1, <2>1
<1>6. phase # "start" /\ phase # "running" /\ mode \in {"", "server", "client"}
  BY <1>1
<1>7. section = UnderIn(text, Len(text))
  BY <1>1, <1>3
<1>8. QED BY <1>4, <1>5, <1>6, <1>7 DEF StartInv

LEMMA StartStep ==
  ASSUME StartInv, Start!Next \/ UNCHANGED startVars
  PROVE  StartInv'
<1>1. CASE \E added \in Lines : Start!ReadLine(added)
  <2>1. PICK added \in Lines : Start!ReadLine(added)
    BY <1>1
  <2> DEFINE p == Start!Parsed([section |-> section, sections |-> sections, errors |-> errors], added)
  <2>2. /\ section' = p.section /\ sections' = p.sections /\ text' = Append(text, added)
        /\ phase = "parse" /\ phase' = phase /\ mode' = mode
    BY <2>1 DEF Start!ReadLine
  <2>3. text \in Seq(Lines) /\ section = UnderIn(text, Len(text)) /\ AsWritten(sections, text)
    BY DEF StartInv
  <2>4. p.section = UnderIn(text', Len(text')) /\ AsWritten(p.sections, text')
    <3> DEFINE us == Append(text, added)
    <3>1. LET q == Start!Parsed([section |-> UnderIn(text, Len(text)), sections |-> sections,
                                 errors |-> errors], added)
          IN q.section = UnderIn(us, Len(us)) /\ AsWritten(q.sections, us)
      BY <2>3, LineParsed, Zenon
    <3>2. us = text' /\ UnderIn(text, Len(text)) = section
      BY <2>2, <2>3
    <3> HIDE DEF us
    <3>3. QED BY <3>1, <3>2, Zenon
  <2> HIDE DEF p
  <2>5. text' \in Seq(Lines) /\ section' = UnderIn(text', Len(text')) /\ AsWritten(sections', text')
    BY <2>2, <2>3, <2>4
  <2>6. mode' \in {"", "server", "client"} /\ phase' = "parse"
    BY <2>2 DEF StartInv
  <2>7. QED BY <2>5, <2>6 DEF StartInv
<1>2. CASE Start!Option
  <2>1. /\ UNCHANGED <<text, section, sections>> /\ phase = "options"
        /\ mode' \in {mode, "server", "client"} /\ phase' \in {"options", "exit"}
    BY <1>2 DEF Start!Option
  <2>2. QED BY <2>1 DEF StartInv
<1>3. CASE Start!Open
  <2>1. UNCHANGED <<text, section, sections, mode>> /\ phase' \in {"parse", "exit"}
    BY <1>3 DEF Start!Open
  <2>2. QED BY <2>1 DEF StartInv
<1>4. CASE Start!Eof
  <2>1. /\ UNCHANGED <<text, section, sections, mode>> /\ phase' = "start"
        /\ config' = IF mode = "" THEN config
                     ELSE [local |-> Start!Looked(sections, SectionOf[mode], Local),
                           remote |-> IF mode = "server" THEN << >>
                                      ELSE Start!Looked(sections, SectionOf[mode], Remote)]
    BY <1>4 DEF Start!Eof
  <2>2. \A name, variable :
          Start!Looked(sections, name, variable) = WrittenIn(text, name, variable)
    <3>1. AsWritten(sections, text)
      BY DEF StartInv
    <3>2. ASSUME NEW name, NEW variable
          PROVE  Start!Looked(sections, name, variable) = WrittenIn(text, name, variable)
      BY <3>1, LookedIs
    <3>3. QED BY <3>2
  <2>3. mode # "" =>
          /\ config'.local = WrittenIn(text, SectionOf[mode], Local)
          /\ mode = "client" => config'.remote = WrittenIn(text, SectionOf[mode], Remote)
    BY <2>1, <2>2
  <2>4. QED BY <2>1, <2>3 DEF StartInv
<1>5. CASE Start!StartServer \/ Start!StartClient \/ Start!StartNothing
  <2>1. /\ UNCHANGED <<text, section, sections, mode, config>> /\ phase = "start"
        /\ phase' = "exit" \/ (phase' = "running" /\ mode \in {"server", "client"})
    <3>1. CASE Start!StartServer
      <4>1. phase' \in {"exit", "running"} /\ mode = "server" /\ phase = "start"
        BY <3>1 DEF Start!StartServer, Start!CreateUdp
      <4>2. UNCHANGED <<text, section, sections, mode, config>>
        BY <3>1 DEF Start!StartServer
      <4>3. QED BY <4>1, <4>2
    <3>2. CASE Start!StartClient
      <4>1. phase' \in {"exit", "running"} /\ mode = "client" /\ phase = "start"
        BY <3>2 DEF Start!StartClient, Start!CreateUdp
      <4>2. UNCHANGED <<text, section, sections, mode, config>>
        BY <3>2 DEF Start!StartClient
      <4>3. QED BY <4>1, <4>2
    <3>3. CASE Start!StartNothing
      BY <3>3 DEF Start!StartNothing
    <3>4. QED BY <1>5, <3>1, <3>2, <3>3
  <2>2. QED BY <2>1 DEF StartInv
<1>6. CASE UNCHANGED startVars
  BY <1>6 DEF StartInv, startVars
<1>7. QED BY <1>1, <1>2, <1>3, <1>4, <1>5, <1>6 DEF Start!Next

(* For files of every length, with any lines, names and values: a running  *)
(* process uses for each variable what the first assignment to it under a  *)
(* header of its section says, wherever the section is split and whatever  *)
(* is between (ini.h:121-154, kcpss.cpp:186-208).                          *)
THEOREM RunsAsWritten == PartsSpec => []Start!ConfiguredAsWritten
<1>1. PartsInit => StartInv
  BY StartInitially DEF PartsInit
<1>2. StartInv /\ [PartsNext]_AllVars => StartInv'
  <2>1. [PartsNext]_AllVars => Start!Next \/ UNCHANGED startVars
    BY DEF PartsNext, AllVars
  <2>2. QED BY <2>1, StartStep
<1>3. StartInv => Start!ConfiguredAsWritten
  <2>1. StartInv /\ phase = "running" =>
          /\ config.local = WrittenIn(text, SectionOf[mode], Local)
          /\ mode = "client" => config.remote = WrittenIn(text, SectionOf[mode], Remote)
    BY DEF StartInv
  <2>2. QED BY <2>1, WrittenIs DEF Start!ConfiguredAsWritten
<1>4. QED BY <1>1, <1>2, <1>3, PTL DEF PartsSpec

================================================================================
