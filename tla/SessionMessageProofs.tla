-------------------------- MODULE SessionMessageProofs --------------------------
(***************************************************************************)
(* Proofs about SessionMessage, for reads of every size and every size of  *)
(* payload: the sweep treats each byte once, no message is fragmented, and *)
(* what arrives is what was read.                                          *)
(***************************************************************************)
EXTENDS SessionMessage, TLAPS

\* While encoding, nothing has been sent; the read is what is being swept.
Encoding ==
  stage = "encode" => before = read /\ messages = << >> /\ written = << >>

\* While cutting, the buffer is the swapped end of the read.
Cutting ==
  stage = "cut" =>
    /\ buffer # << >> /\ written = << >> /\ Len(buffer) <= Len(read)
    /\ \A j \in 1..Len(buffer) : buffer[j] = Swap(read[Offset + j])

\* A message holds the swapped bytes from its place in the read on.
Placed(m) ==
  /\ m.at + Len(m.data) <= Len(read)
  /\ \A j \in 1..Len(m.data) : m.data[j] = Swap(read[m.at + j])

AllPlaced == \A k \in 1..Len(messages) : Placed(messages[k])

\* Where the next message to arrive begins, and where the last one ends.
First == Len(written) + (IF stage = "decode" THEN Len(buffer) ELSE 0)
Last == IF stage = "cut" THEN Offset ELSE Len(read)

\* Each message begins where the one before it ended.
Links(s) == \A k \in 1..Len(s) - 1 : s[k + 1].at = s[k].at + Len(s[k].data)

Chained ==
  stage # "encode" =>
    IF messages = << >> THEN First = Last
    ELSE /\ messages[1].at = First
         /\ messages[Len(messages)].at + Len(messages[Len(messages)].data) = Last
         /\ Links(messages)

\* While decoding, what was received is the swapped bytes after those written.
Decoding ==
  stage = "decode" =>
    /\ First <= Len(read)
    /\ \A j \in 1..Len(before) : before[j] = Swap(read[Len(written) + j])

Prefix ==
  /\ Len(written) <= Len(read)
  /\ \A k \in 1..Len(written) : written[k] = read[k]

NonEmpty == read # << >>

ArrivalInv == NonEmpty /\ Encoding /\ Cutting /\ AllPlaced /\ Chained /\ Decoding /\ Prefix

--------------------------------------------------------------------------------
MessageSet == [at : Int, data : Seq(Byte)]

\* Swapping a byte twice gives it back.
LEMMA SwapType == ASSUME NEW b \in Byte PROVE Swap(b) \in Byte /\ Swap(Swap(b)) = b
  BY DEF Swap, Byte

\* The first message and the others.
LEMMA HeadAndTail ==
  ASSUME NEW S, NEW s \in Seq(S), s # << >>
  PROVE  /\ Len(s) >= 1 /\ Head(s) = s[1] /\ Head(s) \in S
         /\ Tail(s) \in Seq(S) /\ Len(Tail(s)) = Len(s) - 1
         /\ \A k \in 1..Len(s) - 1 : Tail(s)[k] = s[k + 1]
  OBVIOUS

\* Sequences of the same length and elements are the same.
LEMMA SameSequence ==
  ASSUME NEW S, NEW s \in Seq(S), NEW t \in Seq(S), Len(s) = Len(t),
         \A k \in 1..Len(s) : s[k] = t[k]
  PROVE  s = t
  OBVIOUS

(* TypeOK: bytes stay bytes through every sweep and every cut.             *)
THEOREM TypeCorrect == Spec => []TypeOK
<1>1. Init => TypeOK
  <2> SUFFICES ASSUME Init PROVE TypeOK
    OBVIOUS
  <2>1. read \in Seq(Byte)
    BY MessageAssumption DEF Init
  <2>2. messages \in Seq([at : Int, data : Seq(Byte)]) /\ written \in Seq(Byte)
    BY DEF Init
  <2> QED
    BY <2>1, <2>2 DEF Init, TypeOK
<1>2. TypeOK /\ [Next]_vars => TypeOK'
  <2> SUFFICES ASSUME TypeOK, [Next]_vars PROVE TypeOK'
    OBVIOUS
  <2> USE DEF TypeOK
  <2>1. ASSUME NEW width \in {1, 4, 8}, SwapWord(width) PROVE TypeOK'
    <3>1. \A j \in 1..Len(buffer) :
            (IF j \in i + 1..i + width THEN Swap(buffer[j]) ELSE buffer[j]) \in Byte
      BY SwapType
    <3>2. buffer' \in Seq(Byte)
      BY <3>1, <2>1 DEF SwapWord
    <3> QED
      BY <2>1, <3>2 DEF SwapWord
  <2>2. CASE Eight
    BY <2>1, <2>2 DEF Eight
  <2>3. CASE Four
    BY <2>1, <2>3 DEF Four
  <2>4. CASE One
    BY <2>1, <2>4 DEF One
  <2>5. CASE Encoded
    BY <2>5 DEF Encoded
  <2>6. ASSUME NEW data \in Seq(Byte)
        PROVE  Append(messages, Message(data)) \in Seq([at : Int, data : Seq(Byte)])
    <3>1. Message(data) \in [at : Int, data : Seq(Byte)]
      BY <2>6 DEF Message, Offset
    <3> QED
      BY <3>1
  <2>7. CASE CutFull
    <3>1. SubSeq(buffer, 1, MAX_PAYLOAD) \in Seq(Byte)
      BY <2>7, MessageAssumption DEF CutFull, More
    <3>2. SubSeq(buffer, MAX_PAYLOAD + 1, Len(buffer)) \in Seq(Byte)
      BY <2>7, MessageAssumption DEF CutFull, More
    <3> QED
      BY <2>6, <2>7, <3>1, <3>2 DEF CutFull
  <2>9. CASE CutLast
    BY <2>6, <2>9 DEF CutLast
  <2>10. CASE Receive
    <3>1. messages \in Seq(MessageSet) /\ messages # << >>
      BY <2>10 DEF Receive, MessageSet
    <3>2. Head(messages) \in MessageSet /\ Tail(messages) \in Seq(MessageSet)
      BY <3>1, HeadAndTail
    <3> QED
      BY <2>10, <3>2 DEF Receive, MessageSet
  <2>11. CASE Deliver
    BY <2>11 DEF Deliver
  <2>12. CASE UNCHANGED vars
    BY <2>12 DEF vars
  <2> QED
    BY <2>2, <2>3, <2>4, <2>5, <2>7, <2>9, <2>10, <2>11, <2>12 DEF Next
<1> QED
  BY <1>1, <1>2, PTL DEF Spec

--------------------------------------------------------------------------------
\* A word that ends no later than the buffer keeps the sweep's record straight.
LEMMA WordSwept ==
  ASSUME TypeOK, SweptOnce, NEW width \in Nat, SwapWord(width),
         i + width <= Len(buffer)
  PROVE  SweptOnce' /\ Len(buffer') = Len(buffer)
<1>1. /\ Len(buffer) = Len(before) /\ i <= Len(buffer)
      /\ \A j \in 1..Len(buffer) :
           buffer[j] = IF j <= i THEN Swap(before[j]) ELSE before[j]
  BY DEF SwapWord, SweptOnce
<1>2. Len(buffer') = Len(buffer)
  BY DEF SwapWord, TypeOK
<1>3. ASSUME NEW j \in 1..Len(buffer)
      PROVE  buffer'[j] = IF j <= i + width THEN Swap(before[j]) ELSE before[j]
  <2>1. buffer'[j] = IF j \in i + 1..i + width THEN Swap(buffer[j]) ELSE buffer[j]
    BY DEF SwapWord
  <2> QED
    BY <1>1, <2>1 DEF TypeOK
<1> QED
  BY <1>1, <1>2, <1>3 DEF SwapWord, SweptOnce, TypeOK

\* The three loops never pass the end of the buffer.
LEMMA StepSwept ==
  ASSUME TypeOK, SweptOnce, Eight \/ Four \/ One
  PROVE  SweptOnce' /\ Len(buffer') = Len(buffer)
<1>1. CASE Eight
  <2>1. i + 8 <= Len(buffer)
    BY <1>1 DEF Eight, Fits, TypeOK
  <2> QED
    BY <1>1, <2>1, WordSwept DEF Eight
<1>2. CASE Four
  <2>1. i + 4 <= Len(buffer)
    BY <1>2 DEF Four, Fits, TypeOK
  <2> QED
    BY <1>2, <2>1, WordSwept DEF Four
<1>3. CASE One
  <2>1. i + 1 <= Len(buffer)
    BY <1>3 DEF One, TypeOK
  <2> QED
    BY <1>3, <2>1, WordSwept DEF One
<1> QED
  BY <1>1, <1>2, <1>3

(* SweptOnce: encode and decode swap every byte exactly once, for buffers  *)
(* of every size (codec.h:42-61).                                          *)
THEOREM EachByteOnce == Spec => []SweptOnce
<1>1. Init => SweptOnce
  BY DEF Init, SweptOnce
<1>2. TypeOK /\ SweptOnce /\ [Next]_vars => SweptOnce'
  <2> SUFFICES ASSUME TypeOK, SweptOnce, [Next]_vars PROVE SweptOnce'
    OBVIOUS
  <2>1. CASE Eight \/ Four \/ One
    BY <2>1, StepSwept
  <2>2. CASE Encoded \/ CutFull \/ CutLast \/ Deliver
    BY <2>2 DEF Encoded, CutFull, CutLast, Deliver, SweptOnce
  <2>3. CASE Receive
    <3>1. messages \in Seq(MessageSet) /\ messages # << >>
      BY <2>3 DEF Receive, MessageSet, TypeOK
    <3>2. Head(messages) \in MessageSet
      BY <3>1, HeadAndTail
    <3>3. Len(Head(messages).data) \in Nat
      BY <3>2 DEF MessageSet
    <3> QED
      BY <2>3, <3>3 DEF Receive, SweptOnce
  <2>4. CASE UNCHANGED vars
    BY <2>4 DEF vars, SweptOnce
  <2> QED
    BY <2>1, <2>2, <2>3, <2>4 DEF Next
<1> QED
  BY <1>1, <1>2, TypeCorrect, PTL DEF Spec

--------------------------------------------------------------------------------
\* What a message put at the end does to a chain of messages.
LEMMA ChainAppend ==
  ASSUME NEW s \in Seq(MessageSet), NEW m \in MessageSet,
         s = << >> \/ (Links(s) /\ m.at = s[Len(s)].at + Len(s[Len(s)].data))
  PROVE  /\ Append(s, m) \in Seq(MessageSet) /\ Append(s, m) # << >>
         /\ Append(s, m)[Len(Append(s, m))] = m
         /\ Append(s, m)[1] = IF s = << >> THEN m ELSE s[1]
         /\ Links(Append(s, m))
<1> DEFINE t == Append(s, m)
<1>1. /\ t \in Seq(MessageSet) /\ Len(t) = Len(s) + 1 /\ t[Len(s) + 1] = m
      /\ \A k \in 1..Len(s) : t[k] = s[k]
  OBVIOUS
<1>2. Len(s) \in Nat /\ (s # << >> => Len(s) >= 1)
  OBVIOUS
<1>3. Links(t)
  <2> SUFFICES ASSUME NEW k \in 1..Len(s) PROVE t[k + 1].at = t[k].at + Len(t[k].data)
    BY <1>1, <1>2 DEF Links
  <2>1. s # << >>
    BY <1>2
  <2>2. CASE k = Len(s)
    BY <1>1, <1>2, <2>1, <2>2
  <2>3. CASE k # Len(s)
    <3>1. k \in 1..Len(s) - 1 /\ k + 1 \in 1..Len(s)
      BY <1>2, <2>3
    <3>2. s[k + 1].at = s[k].at + Len(s[k].data)
      BY <2>1, <3>1 DEF Links
    <3> QED
      BY <1>1, <3>1, <3>2
  <2> QED
    BY <2>2, <2>3
<1>4. t[1] = IF s = << >> THEN m ELSE s[1]
  BY <1>1, <1>2
<1> QED
  BY <1>1, <1>2, <1>3, <1>4

\* What taking the first message off a chain leaves.
LEMMA ChainTail ==
  ASSUME NEW s \in Seq(MessageSet), s # << >>, Links(s)
  PROVE  /\ Links(Tail(s))
         /\ Tail(s) # << >> =>
              /\ Tail(s)[1].at = s[1].at + Len(s[1].data)
              /\ Tail(s)[Len(Tail(s))] = s[Len(s)]
         /\ Tail(s) = << >> => Len(s) = 1
<1> DEFINE t == Tail(s)
<1>1. /\ Len(s) >= 1 /\ Len(s) \in Nat /\ t \in Seq(MessageSet) /\ Len(t) = Len(s) - 1
      /\ \A k \in 1..Len(s) - 1 : t[k] = s[k + 1]
  BY HeadAndTail
<1> HIDE DEF t
<1>2. t = << >> <=> Len(t) = 0
  BY <1>1
<1>3. Links(t)
  <2> SUFFICES ASSUME NEW k \in 1..Len(t) - 1 PROVE t[k + 1].at = t[k].at + Len(t[k].data)
    BY DEF Links
  <2>1. k \in 1..Len(s) - 1 /\ k + 1 \in 1..Len(s) - 1 
    BY <1>1
  <2>2. t[k] = s[k + 1] /\ t[k + 1] = s[k + 1 + 1]
    BY <1>1, <2>1
  <2>3. s[k + 1 + 1].at = s[k + 1].at + Len(s[k + 1].data)
    BY <2>1 DEF Links
  <2> QED
    BY <2>2, <2>3
<1>4. ASSUME t # << >> PROVE t[1].at = s[1].at + Len(s[1].data) /\ t[Len(t)] = s[Len(s)]
  <2>1. 1 \in 1..Len(s) - 1 /\ Len(t) \in 1..Len(s) - 1 /\ Len(t) + 1 = Len(s)
    BY <1>1, <1>2, <1>4
  <2>2. t[1] = s[1 + 1] /\ t[Len(t)] = s[Len(t) + 1]
    BY <1>1, <2>1
  <2>3. s[1 + 1].at = s[1].at + Len(s[1].data)
    BY <2>1 DEF Links
  <2> QED
    BY <2>1, <2>2, <2>3
<1>5. t = << >> => Len(s) = 1
  BY <1>1, <1>2
<1> QED
  BY <1>3, <1>4, <1>5 DEF t

\* A message placed in the read, put after others that are.
LEMMA PlacedAppend ==
  ASSUME TypeOK, AllPlaced, NEW m \in MessageSet, Placed(m),
         messages' = Append(messages, m), UNCHANGED read
  PROVE  AllPlaced'
<1>1. messages \in Seq(MessageSet)
  BY DEF TypeOK, MessageSet
<1>2. /\ Len(messages') = Len(messages) + 1 /\ messages'[Len(messages) + 1] = m
      /\ \A k \in 1..Len(messages) : messages'[k] = messages[k]
      /\ Len(messages) \in Nat
  BY <1>1
<1>3. ASSUME NEW k \in 1..Len(messages') PROVE Placed(messages'[k])
  <2>1. CASE k = Len(messages) + 1
    BY <1>2, <2>1
  <2>2. CASE k # Len(messages) + 1
    BY <1>2, <2>2 DEF AllPlaced
  <2> QED
    BY <2>1, <2>2
<1> QED
  BY <1>3 DEF AllPlaced, Placed

--------------------------------------------------------------------------------
\* A sweep changes nothing else that was sent or written.
LEMMA SweepArrival ==
  ASSUME TypeOK, SweptOnce, ArrivalInv, Eight \/ Four \/ One
  PROVE  ArrivalInv'
<1>1. Len(buffer') = Len(buffer)
  BY StepSwept
<1>2. stage \in {"encode", "decode"} /\ UNCHANGED <<stage, before, read, messages, written>>
  BY DEF Eight, Four, One, SwapWord
<1>3. Chained' /\ Decoding'
  BY <1>1, <1>2 DEF ArrivalInv, Chained, Decoding, First, Last, Offset, Links
<1>4. NonEmpty' /\ Encoding' /\ Cutting' /\ AllPlaced' /\ Prefix'
  BY <1>2 DEF ArrivalInv, NonEmpty, Encoding, Cutting, AllPlaced, Placed, Prefix
<1> QED
  BY <1>3, <1>4 DEF ArrivalInv

\* The whole read was swapped when the cutting begins.
LEMMA EncodedArrival ==
  ASSUME TypeOK, SweptOnce, ArrivalInv, Encoded
  PROVE  ArrivalInv'
<1>1. /\ stage = "encode" /\ stage' = "cut" /\ i = Len(buffer)
      /\ UNCHANGED <<buffer, i, before, read, messages, written>>
  BY DEF Encoded, SweptOnce, TypeOK
<1>2. before = read /\ messages = << >> /\ written = << >>
  BY <1>1 DEF ArrivalInv, Encoding
<1>3. Len(buffer) = Len(read) /\ \A j \in 1..Len(buffer) : buffer[j] = Swap(read[j])
  BY <1>1, <1>2 DEF SweptOnce, TypeOK
<1>4. Len(read) \in Nat /\ buffer # << >>
  BY <1>3 DEF ArrivalInv, NonEmpty, TypeOK
<1>5. Offset' = 0
  BY <1>1, <1>3, <1>4 DEF Offset
<1>6. Cutting'
  <2>1. \A j \in 1..Len(buffer) : 0 + j = j
    BY <1>4
  <2> QED
    BY <1>1, <1>2, <1>3, <1>4, <1>5, <2>1 DEF Cutting
<1>7. Chained'
  BY <1>1, <1>2, <1>5 DEF Chained, First, Last
<1>8. NonEmpty' /\ Encoding' /\ AllPlaced' /\ Decoding' /\ Prefix'
  BY <1>1 DEF ArrivalInv, NonEmpty, Encoding, AllPlaced, Placed, Decoding, Prefix
<1> QED
  BY <1>6, <1>7, <1>8 DEF ArrivalInv

\* The message made of the first n bytes of the buffer, put after the others.
LEMMA CutMessage ==
  ASSUME TypeOK, ArrivalInv, stage = "cut",
         NEW n \in 1..Len(buffer), NEW data \in Seq(Byte), Len(data) = n,
         \A j \in 1..n : data[j] = buffer[j],
         messages' = Append(messages, Message(data)),
         UNCHANGED <<read, written>>, stage' \in {"cut", "wait"},
         Last' = Offset + n
  PROVE  AllPlaced' /\ Chained'
<1> DEFINE m == Message(data)
<1>1. /\ written = << >> /\ Len(buffer) <= Len(read)
      /\ \A j \in 1..Len(buffer) : buffer[j] = Swap(read[Offset + j])
  BY DEF ArrivalInv, Cutting
<1>2. Len(buffer) \in Nat /\ Len(read) \in Nat /\ Offset \in Nat /\ Offset + Len(buffer) = Len(read)
  BY <1>1 DEF Offset, TypeOK
<1>3. m.at = Offset /\ m.data = data /\ m \in MessageSet
  BY <1>2 DEF Message, MessageSet
<1>4. Placed(m)
  <2>1. m.at + Len(m.data) <= Len(read)
    BY <1>2, <1>3
  <2>2. \A j \in 1..n : data[j] = Swap(read[Offset + j])
    BY <1>1, <1>2
  <2> QED
    BY <1>3, <2>1, <2>2 DEF Placed
<1> HIDE DEF m
<1>5. AllPlaced'
  BY <1>3, <1>4, PlacedAppend DEF ArrivalInv, m
<1>6. messages \in Seq(MessageSet)
  BY DEF TypeOK, MessageSet
<1>7. messages = << >> \/ (/\ Links(messages)
                          /\ m.at = messages[Len(messages)].at + Len(messages[Len(messages)].data))
  BY <1>3 DEF ArrivalInv, Chained, Last
<1>8. /\ messages' # << >> /\ messages'[Len(messages')] = m /\ Links(messages')
      /\ messages'[1] = IF messages = << >> THEN m ELSE messages[1]
  BY <1>3, <1>6, <1>7, ChainAppend DEF m
<1>9. messages'[1].at = First'
  <2>1. First = 0 /\ First' = 0
    BY <1>1 DEF First
  <2>2. CASE messages = << >>
    BY <1>3, <1>8, <2>1, <2>2 DEF ArrivalInv, Chained, Last
  <2>3. CASE messages # << >>
    BY <1>8, <2>1, <2>3 DEF ArrivalInv, Chained
  <2> QED
    BY <2>2, <2>3
<1>10. m.at + Len(m.data) = Last'
  BY <1>3
<1>11. Links(messages)' = Links(messages')
  BY DEF Links
<1>12. Chained'
  BY <1>8, <1>9, <1>10, <1>11 DEF Chained
<1> QED
  BY <1>5, <1>12

LEMMA CutFullArrival ==
  ASSUME TypeOK, ArrivalInv, CutFull
  PROVE  ArrivalInv'
<1> DEFINE n == MAX_PAYLOAD
           data == SubSeq(buffer, 1, n)
<1>1. /\ stage = "cut" /\ stage' = "cut" /\ UNCHANGED <<i, before, read, written>>
      /\ messages' = Append(messages, Message(data))
      /\ buffer' = SubSeq(buffer, n + 1, Len(buffer))
  BY DEF CutFull
<1>2. n \in Nat /\ n >= 1 /\ n < Len(buffer) /\ Len(buffer) \in Nat
  BY MessageAssumption DEF CutFull, More, TypeOK
<1>3. data \in Seq(Byte) /\ Len(data) = n /\ \A j \in 1..n : data[j] = buffer[j]
  BY <1>2 DEF TypeOK
<1>4. /\ Len(buffer') = Len(buffer) - n
      /\ \A j \in 1..Len(buffer) - n : buffer'[j] = buffer[n + j]
  BY <1>1, <1>2 DEF TypeOK
<1> HIDE DEF n, data
<1>5. Len(read) \in Nat /\ Offset \in Int /\ Offset = Len(read) - Len(buffer)
  BY <1>2 DEF Offset, TypeOK
<1>6. Offset' = Offset + n
  <2>1. Offset' = Len(read) - Len(buffer')
    BY <1>1 DEF Offset
  <2> QED
    BY <1>2, <1>4, <1>5, <2>1
<1>7. AllPlaced' /\ Chained'
  <2>1. Last' = Offset + n
    BY <1>1, <1>6 DEF Last
  <2>2. n \in 1..Len(buffer) /\ stage' \in {"cut", "wait"}
    BY <1>1, <1>2
  <2>3. messages' = Append(messages, Message(data)) /\ UNCHANGED <<read, written>>
    BY <1>1
  <2> QED
    BY <1>1, <1>3, <2>1, <2>2, <2>3, CutMessage
<1>8. Cutting'
  <2>1. /\ written = << >> /\ Len(buffer) <= Len(read)
        /\ \A j \in 1..Len(buffer) : buffer[j] = Swap(read[Offset + j])
    BY <1>1 DEF ArrivalInv, Cutting
  <2>2. ASSUME NEW j \in 1..Len(buffer')
        PROVE  buffer'[j] = Swap(read[Offset' + j])
    <3>1. j \in 1..Len(buffer) - n /\ n + j \in 1..Len(buffer)
      BY <1>2, <1>4
    <3>2. Offset + (n + j) = Offset' + j
      BY <1>2, <1>5, <1>6
    <3> QED
      BY <1>4, <2>1, <3>1, <3>2
  <2>3. buffer' # << >>
    BY <1>2, <1>4
  <2>4. Len(buffer') <= Len(read)
    BY <1>2, <1>4, <1>5, <2>1
  <2> QED
    BY <1>1, <2>1, <2>2, <2>3, <2>4 DEF Cutting
<1>9. NonEmpty' /\ Encoding' /\ Decoding' /\ Prefix'
  BY <1>1 DEF ArrivalInv, NonEmpty, Encoding, Decoding, Prefix
<1> QED
  BY <1>7, <1>8, <1>9 DEF ArrivalInv

LEMMA CutLastArrival ==
  ASSUME TypeOK, ArrivalInv, CutLast
  PROVE  ArrivalInv'
<1>1. /\ stage = "cut" /\ stage' = "wait" /\ UNCHANGED <<i, before, read, written>>
      /\ messages' = Append(messages, Message(buffer))
  BY DEF CutLast
<1>2. Len(buffer) \in 1..Len(buffer) /\ buffer \in Seq(Byte)
  BY <1>1 DEF TypeOK, ArrivalInv, Cutting
<1>3. Last' = Offset + Len(buffer)
  BY <1>1, <1>2 DEF Last, Offset, TypeOK
<1>4. AllPlaced' /\ Chained'
  BY <1>1, <1>2, <1>3, CutMessage
<1>5. NonEmpty' /\ Encoding' /\ Cutting' /\ Decoding' /\ Prefix'
  BY <1>1 DEF ArrivalInv, NonEmpty, Encoding, Cutting, Decoding, Prefix
<1> QED
  BY <1>4, <1>5 DEF ArrivalInv

LEMMA ReceiveArrival ==
  ASSUME TypeOK, ArrivalInv, Receive
  PROVE  ArrivalInv'
<1>1. /\ stage = "wait" /\ stage' = "decode" /\ messages # << >>
      /\ buffer' = Head(messages).data /\ before' = buffer'
      /\ messages' = Tail(messages) /\ UNCHANGED <<read, written>>
  BY DEF Receive
<1>2. messages \in Seq(MessageSet)
  BY DEF TypeOK, MessageSet
<1>3. /\ Len(messages) >= 1 /\ Len(messages) \in Nat
      /\ Head(messages) = messages[1] /\ messages[1] \in MessageSet
      /\ Len(messages') = Len(messages) - 1
      /\ \A k \in 1..Len(messages) - 1 : messages'[k] = messages[k + 1]
  BY <1>1, <1>2, HeadAndTail
<1>4. /\ messages[1].at = Len(written) /\ Links(messages)
      /\ messages[Len(messages)].at + Len(messages[Len(messages)].data) = Len(read)
  BY <1>1 DEF ArrivalInv, Chained, First, Last, TypeOK
<1>5. /\ messages[1].at + Len(messages[1].data) <= Len(read)
      /\ \A j \in 1..Len(messages[1].data) :
           messages[1].data[j] = Swap(read[messages[1].at + j])
  BY <1>3 DEF ArrivalInv, AllPlaced, Placed
<1>6. First' = messages[1].at + Len(messages[1].data) /\ Last' = Len(read)
  BY <1>1, <1>3, <1>4 DEF First, Last
<1>7. Chained'
  <2>1. /\ Links(messages')
        /\ messages' # << >> =>
             /\ messages'[1].at = messages[1].at + Len(messages[1].data)
             /\ messages'[Len(messages')] = messages[Len(messages)]
        /\ messages' = << >> => Len(messages) = 1
    BY <1>1, <1>2, <1>4, ChainTail
  <2>2. CASE messages' = << >>
    BY <1>1, <1>4, <1>6, <2>1, <2>2 DEF Chained
  <2>3. CASE messages' # << >>
    <3>1. Links(messages)' = Links(messages')
      BY DEF Links
    <3> QED
      BY <1>1, <1>4, <1>6, <2>1, <2>3, <3>1 DEF Chained
  <2> QED
    BY <2>2, <2>3
<1>8. AllPlaced'
  <2>1. ASSUME NEW k \in 1..Len(messages') PROVE Placed(messages'[k])
    <3>1. k \in 1..Len(messages) - 1 /\ k + 1 \in 1..Len(messages)
      BY <1>3
    <3> QED
      BY <1>3, <3>1 DEF ArrivalInv, AllPlaced
  <2> QED
    BY <1>1, <2>1 DEF AllPlaced, Placed
<1>9. Decoding'
  BY <1>1, <1>3, <1>4, <1>5, <1>6 DEF Decoding
<1>10. NonEmpty' /\ Encoding' /\ Cutting' /\ Prefix'
  BY <1>1 DEF ArrivalInv, NonEmpty, Encoding, Cutting, Prefix
<1> QED
  BY <1>7, <1>8, <1>9, <1>10 DEF ArrivalInv

LEMMA DeliverArrival ==
  ASSUME TypeOK, SweptOnce, ArrivalInv, Deliver
  PROVE  ArrivalInv'
<1>1. /\ stage = "decode" /\ stage' = "wait" /\ written' = written \o buffer
      /\ i >= Len(buffer) /\ UNCHANGED <<buffer, i, before, read, messages>>
  BY DEF Deliver
<1>2. /\ Len(buffer) = Len(before) /\ i = Len(buffer)
      /\ \A j \in 1..Len(buffer) : buffer[j] = Swap(before[j])
  BY <1>1 DEF SweptOnce, TypeOK
<1>3. /\ Len(written) \in Nat /\ Len(buffer) \in Nat /\ Len(read) \in Nat
      /\ Len(written) + Len(buffer) <= Len(read)
      /\ \A j \in 1..Len(buffer) : before[j] = Swap(read[Len(written) + j])
  BY <1>1, <1>2 DEF ArrivalInv, Decoding, First, TypeOK
<1>4. ASSUME NEW j \in 1..Len(buffer) PROVE buffer[j] = read[Len(written) + j]
  <2>1. read[Len(written) + j] \in Byte
    BY <1>3 DEF TypeOK
  <2> QED
    BY <1>2, <1>3, <2>1, SwapType
<1>5. /\ Len(written') = Len(written) + Len(buffer)
      /\ \A k \in 1..Len(written) : written'[k] = written[k]
      /\ \A k \in Len(written) + 1..Len(written) + Len(buffer) :
           written'[k] = buffer[k - Len(written)]
  BY <1>1 DEF TypeOK
<1>6. Prefix'
  <2>1. ASSUME NEW k \in 1..Len(written') PROVE written'[k] = read[k]
    <3>1. CASE k <= Len(written)
      BY <1>3, <1>5, <3>1 DEF ArrivalInv, Prefix
    <3>2. CASE k > Len(written)
      <4>1. k - Len(written) \in 1..Len(buffer) /\ Len(written) + (k - Len(written)) = k
        BY <1>3, <1>5, <3>2
      <4>2. written'[k] = buffer[k - Len(written)]
        BY <1>3, <1>5, <3>2
      <4> QED
        BY <1>4, <4>1, <4>2
    <3> QED
      BY <1>3, <1>5, <3>1, <3>2
  <2> QED
    BY <1>1, <1>3, <1>5, <2>1 DEF Prefix
<1>7. First' = First /\ Last' = Last
  BY <1>1, <1>3, <1>5 DEF First, Last
<1>8. Chained'
  BY <1>1, <1>7 DEF ArrivalInv, Chained, Links
<1>9. NonEmpty' /\ Encoding' /\ Cutting' /\ AllPlaced' /\ Decoding'
  BY <1>1 DEF ArrivalInv, NonEmpty, Encoding, Cutting, AllPlaced, Placed, Decoding
<1> QED
  BY <1>6, <1>8, <1>9 DEF ArrivalInv

\* The inductive invariant, and what it says of the bytes written.
LEMMA ArrivalInvariant == Spec => []ArrivalInv
<1>1. Init => ArrivalInv
  <2> SUFFICES ASSUME Init PROVE ArrivalInv
    OBVIOUS
  <2>1. read # << >> /\ Len(read) \in Nat
    BY MessageAssumption DEF Init
  <2> QED
    BY <2>1 DEF Init, ArrivalInv, NonEmpty, Encoding, Cutting, AllPlaced, Chained,
                Decoding, Prefix
<1>2. TypeOK /\ SweptOnce /\ ArrivalInv /\ [Next]_vars => ArrivalInv'
  <2> SUFFICES ASSUME TypeOK, SweptOnce, ArrivalInv, [Next]_vars PROVE ArrivalInv'
    OBVIOUS
  <2>1. CASE Eight \/ Four \/ One
    BY <2>1, SweepArrival
  <2>2. CASE Encoded
    BY <2>2, EncodedArrival
  <2>3. CASE CutFull
    BY <2>3, CutFullArrival
  <2>4. CASE CutLast
    BY <2>4, CutLastArrival
  <2>5. CASE Receive
    BY <2>5, ReceiveArrival
  <2>6. CASE Deliver
    BY <2>6, DeliverArrival
  <2>7. CASE UNCHANGED vars
    BY <2>7 DEF vars, ArrivalInv, NonEmpty, Encoding, Cutting, AllPlaced, Placed,
                Chained, Links, First, Last, Offset, Decoding, Prefix
  <2> QED
    BY <2>1, <2>2, <2>3, <2>4, <2>5, <2>6, <2>7 DEF Next
<1> QED
  BY <1>1, <1>2, TypeCorrect, EachByteOnce, PTL DEF Spec

(* ArrivesWhole: for reads and payloads of every size, the receiver writes *)
(* a prefix of what was read, and all of it once no message is left.       *)
THEOREM ReadArrives == Spec => []ArrivesWhole
<1>1. TypeOK /\ ArrivalInv => ArrivesWhole
  <2> SUFFICES ASSUME TypeOK, ArrivalInv PROVE ArrivesWhole
    OBVIOUS
  <2>1. Prefix
    BY DEF ArrivalInv
  <2>2. ASSUME stage = "wait", messages = << >> PROVE written = read
    <3>1. Len(written) = Len(read)
      BY <2>2 DEF ArrivalInv, Chained, First, Last, TypeOK
    <3>2. written \in Seq(Byte) /\ read \in Seq(Byte)
      BY DEF TypeOK
    <3> QED
      BY <2>1, <3>1, <3>2, SameSequence DEF Prefix
  <2> QED
    BY <2>1, <2>2 DEF Prefix, ArrivesWhole
<1> QED
  BY <1>1, TypeCorrect, ArrivalInvariant, PTL

(* MessagesFit: no message is empty or needs a second KCP segment.         *)
THEOREM OneSegmentEach == Spec => []MessagesFit
<1>1. Init => MessagesFit
  BY DEF Init, MessagesFit
<1>2. TypeOK /\ ArrivalInv /\ MessagesFit /\ [Next]_vars => MessagesFit'
  <2> SUFFICES ASSUME TypeOK, ArrivalInv, MessagesFit, [Next]_vars PROVE MessagesFit'
    OBVIOUS
  <2>1. messages \in Seq(MessageSet)
    BY DEF TypeOK, MessageSet
  <2>2. ASSUME NEW data \in Seq(Byte), Len(data) \in 1..MAX_PAYLOAD,
               messages' = Append(messages, Message(data))
        PROVE  MessagesFit'
    <3>1. Message(data).data = data
      BY DEF Message
    <3>2. /\ Len(messages') = Len(messages) + 1
          /\ messages'[Len(messages) + 1] = Message(data)
          /\ \A k \in 1..Len(messages) : messages'[k] = messages[k]
          /\ DOMAIN messages' = 1..Len(messages) + 1 /\ DOMAIN messages = 1..Len(messages)
          /\ Len(messages) \in Nat
      BY <2>1, <2>2
    <3>3. ASSUME NEW k \in DOMAIN messages' PROVE Len(messages'[k].data) \in 1..MAX_PAYLOAD
      <4>1. CASE k = Len(messages) + 1
        BY <2>2, <3>1, <3>2, <4>1
      <4>2. CASE k # Len(messages) + 1
        BY <3>2, <4>2 DEF MessagesFit
      <4> QED
        BY <4>1, <4>2
    <3> QED
      BY <3>3 DEF MessagesFit
  <2>3. CASE CutFull
    <3>1. /\ SubSeq(buffer, 1, MAX_PAYLOAD) \in Seq(Byte)
          /\ Len(SubSeq(buffer, 1, MAX_PAYLOAD)) = MAX_PAYLOAD
          /\ MAX_PAYLOAD \in 1..MAX_PAYLOAD
      BY <2>3, MessageAssumption DEF CutFull, More, TypeOK
    <3> QED
      BY <2>2, <2>3, <3>1 DEF CutFull
  <2>4. CASE CutLast
    <3>1. Len(buffer) \in 1..MAX_PAYLOAD /\ buffer \in Seq(Byte)
      BY <2>4, MessageAssumption DEF CutLast, More, TypeOK, ArrivalInv, Cutting
    <3> QED
      BY <2>2, <2>4, <3>1 DEF CutLast
  <2>5. CASE Receive
    <3>1. /\ messages' = Tail(messages) /\ messages # << >>
      BY <2>5 DEF Receive
    <3>2. /\ Len(messages) \in Nat /\ messages' \in Seq(MessageSet)
          /\ Len(messages') = Len(messages) - 1
          /\ \A k \in 1..Len(messages) - 1 : messages'[k] = messages[k + 1]
      BY <2>1, <3>1, HeadAndTail
    <3>3. DOMAIN messages' = 1..Len(messages) - 1 /\ DOMAIN messages = 1..Len(messages)
      BY <2>1, <3>2
    <3>4. ASSUME NEW k \in DOMAIN messages' PROVE Len(messages'[k].data) \in 1..MAX_PAYLOAD
      <4>1. k \in 1..Len(messages) - 1 /\ k + 1 \in DOMAIN messages
        BY <3>2, <3>3
      <4> QED
        BY <3>2, <4>1 DEF MessagesFit
    <3> QED
      BY <3>4 DEF MessagesFit
  <2>6. CASE UNCHANGED messages
    BY <2>6 DEF MessagesFit
  <2>7. Next => CutFull \/ CutLast \/ Receive \/ UNCHANGED messages
    BY DEF Next, Eight, Four, One, SwapWord, Encoded, Deliver
  <2> QED
    BY <2>3, <2>4, <2>5, <2>6, <2>7 DEF vars
<1> QED
  BY <1>1, <1>2, TypeCorrect, ArrivalInvariant, PTL DEF Spec

===============================================================================
