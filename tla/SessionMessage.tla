----------------------------- MODULE SessionMessage -----------------------------
(***************************************************************************)
(* What becomes of the bytes of one read on their way to the other         *)
(* process: fast_codec::encode sweeps over them in place (source/codec.h), *)
(* udp::send cuts them into messages that fill one KCP segment at most     *)
(* (source/udp.cpp), the connection delivers the messages in order, and    *)
(* fast_codec::decode sweeps over each of them before it is written.  The  *)
(* read was encoded as a whole and is decoded in pieces cut elsewhere.     *)
(*                                                                         *)
(* A byte is the pair of its halves <<high, low>>.                         *)
(***************************************************************************)
EXTENDS Integers, Sequences

CONSTANTS
  Half,         \* values of four bits: 0..15
  Reads,        \* what a read may return: nonempty sequences of bytes
  MAX_PAYLOAD   \* udp.h: MTU - sizeof(SessionHeader)

Byte == Half \X Half

ASSUME MessageAssumption ==
  /\ Reads \subseteq Seq(Byte)
  /\ \A data \in Reads : data # << >>
  /\ MAX_PAYLOAD \in Nat \ {0}

VARIABLES
  stage,        \* "encode", "cut", "wait" for a message, "decode"
  buffer,       \* the bytes being swept over, or still to be cut
  i,            \* where the sweep is
  before,       \* history: buffer when the sweep began
  read,         \* history: what was read
  messages,     \* sent and not yet received; at: where in the read it began
  written       \* what the receiver has written to its channel

vars == <<stage, buffer, i, before, read, messages, written>>

TypeOK ==
  /\ stage \in {"encode", "cut", "wait", "decode"}
  /\ buffer \in Seq(Byte) /\ before \in Seq(Byte) /\ read \in Seq(Byte)
  /\ i \in Nat
  /\ messages \in Seq([at : Int, data : Seq(Byte)])
  /\ written \in Seq(Byte)

Init ==
  /\ read \in Reads /\ buffer = read /\ before = read
  /\ stage = "encode" /\ i = 0
  /\ messages = << >> /\ written = << >>

--------------------------------------------------------------------------------
(* fast_codec::encode, which decode calls.                                 *)

Swap(byte) == <<byte[2], byte[1]>>

\* One word of the given width, its halves masked and shifted past each other.
SwapWord(width) ==
  /\ stage \in {"encode", "decode"}
  /\ buffer' = [j \in 1..Len(buffer) |->
                  IF j \in i + 1..i + width THEN Swap(buffer[j]) ELSE buffer[j]]
  /\ i' = i + width
  /\ UNCHANGED <<stage, before, read, messages, written>>

\* The condition of a loop: a word that ends with the buffer is left to the
\* narrower loops.
Fits(width) == i + width < Len(buffer)

Eight == Fits(8) /\ SwapWord(8)

Four == ~Fits(8) /\ Fits(4) /\ SwapWord(4)

One == ~Fits(4) /\ i < Len(buffer) /\ SwapWord(1)

--------------------------------------------------------------------------------
(* udp::send and udp_server::send.                                         *)
Encoded ==
  /\ stage = "encode" /\ i >= Len(buffer)
  /\ stage' = "cut"
  /\ UNCHANGED <<buffer, i, before, read, messages, written>>

\* Where in the read the buffer begins.
Offset == Len(read) - Len(buffer)

More == Len(buffer) > MAX_PAYLOAD

Message(data) == [at |-> Offset, data |-> data]

\* Mutant of CutFull: the last byte of the payload is sent again.
CutFullAgain ==
  /\ stage = "cut" /\ More
  /\ messages' = Append(messages, Message(SubSeq(buffer, 1, MAX_PAYLOAD)))
  /\ buffer' = SubSeq(buffer, MAX_PAYLOAD, Len(buffer))
  /\ UNCHANGED <<stage, i, before, read, written>>

CutFull ==
  /\ stage = "cut" /\ More
  /\ messages' = Append(messages, Message(SubSeq(buffer, 1, MAX_PAYLOAD)))
  /\ buffer' = SubSeq(buffer, MAX_PAYLOAD + 1, Len(buffer))
  /\ UNCHANGED <<stage, i, before, read, written>>

CutLast ==
  /\ stage = "cut" /\ ~More
  /\ messages' = Append(messages, Message(buffer))
  /\ buffer' = << >> /\ stage' = "wait"
  /\ UNCHANGED <<i, before, read, written>>

--------------------------------------------------------------------------------
(* remote_in and local_in: the next message is decoded and written.        *)
Receive ==
  /\ stage = "wait" /\ messages # << >>
  /\ buffer' = Head(messages).data /\ before' = buffer'
  /\ messages' = Tail(messages)
  /\ stage' = "decode" /\ i' = 0
  /\ UNCHANGED <<read, written>>

Deliver ==
  /\ stage = "decode" /\ i >= Len(buffer)
  /\ written' = written \o buffer
  /\ stage' = "wait"
  /\ UNCHANGED <<buffer, i, before, read, messages>>

Next ==
  \/ Eight \/ Four \/ One \/ Encoded
  \/ CutFull \/ CutLast \/ Receive \/ Deliver

Spec == Init /\ [][Next]_vars

--------------------------------------------------------------------------------
(* A sweep swaps every byte before its position, touches none after it and *)
(* never passes the end: whatever the size, the three loops together treat *)
(* each byte once (codec.h:42-61).                                         *)
SweptOnce ==
  stage \in {"encode", "decode"} =>
    /\ Len(buffer) = Len(before) /\ i <= Len(buffer)
    /\ \A j \in 1..Len(buffer) :
         buffer[j] = IF j <= i THEN Swap(before[j]) ELSE before[j]

(* Messages are neither empty nor longer than a segment holds, so that KCP *)
(* never cuts one (udp.h:41, "The mss of default kcp").                    *)
MessagesFit == \A k \in DOMAIN messages : Len(messages[k].data) \in 1..MAX_PAYLOAD

(* The receiver writes the bytes that were read, in order, none twice, and *)
(* in the end all of them, wherever the cuts fell (udp.cpp:84-96, 210-227, *)
(* kcpss.cpp:57-78, 108-118, 151-155).                                     *)
ArrivesWhole ==
  /\ Len(written) <= Len(read)
  /\ \A k \in 1..Len(written) : written[k] = read[k]
  /\ stage = "wait" /\ messages = << >> => written = read

================================================================================
