-------------------------------- MODULE KcpWire --------------------------------
(***************************************************************************)
(* Segments on the wire (depends/kcp/ikcp.c): how ikcp_flush writes        *)
(* acknowledgements, window probes and data into one buffer and hands it   *)
(* out in datagrams of at most an MTU, and how ikcp_input takes a datagram *)
(* apart again, and what it does with one that is not a sequence of        *)
(* segments of its conversation.                                           *)
(*                                                                         *)
(* Numbers are written byte by byte, least significant first, in 1, 2 or 4 *)
(* bytes; a byte has Base values, 256 in the code.  The address of a       *)
(* segment's payload is what matters of it: byte i of segment sn.          *)
(***************************************************************************)
EXTENDS Integers, Sequences, SequencesExt

CONSTANTS
  Base,         \* values of a byte: 256
  Mtu,          \* kcp->mtu
  Conv,         \* kcp->conv
  Cmds,         \* IKCP_CMD_PUSH, ACK, WASK, WINS
  Flushes,      \* sequences of segments a flush may have to write
  Strays        \* other datagrams that may reach the socket

IKCP_OVERHEAD == 24

\* What one, two and four bytes hold: unsigned char, IUINT16 and IUINT32.
Byte == 0..Base - 1
Word == 0..Base * Base - 1
Long == 0..Base * (Base * (Base * Base)) - 1

(* What ikcp_flush writes: a control segment has no payload, and ikcp_send *)
(* cuts a message into payloads of at most kcp->mss (ikcp.c:486-500).      *)
Segment ==
  {seg \in [cmd : Cmds, frg : Byte, wnd : Word, ts : Long, sn : Long, una : Long, len : Long] :
     seg.len <= Mtu - IKCP_OVERHEAD}

VARIABLES
  todo,         \* segments the flush has still to write
  done,         \* history: segments written
  buffer,       \* kcp->buffer, up to ptr
  wire,         \* datagrams, in the order sent
  stray,        \* a stray datagram was received
  rest,         \* what ikcp_input has not read of its datagram
  got           \* history: segments ikcp_input acted upon

vars == <<todo, done, buffer, wire, stray, rest, got>>

(* ikcp_encode8u, ikcp_encode16u and ikcp_encode32u.                       *)
encode8u(c) == <<c % Base>>
encode16u(w) == encode8u(w) \o encode8u(w \div Base)
encode32u(l) == encode16u(l) \o encode16u((l \div Base) \div Base)

(* ikcp_decode8u, ikcp_decode16u and ikcp_decode32u of the bytes after at. *)
decode8u(data, at) == data[at + 1]
decode16u(data, at) == decode8u(data, at) + Base * decode8u(data, at + 1)
decode32u(data, at) ==
  decode8u(data, at)
    + Base * (decode8u(data, at + 1) + Base * decode16u(data, at + 2))

Payload(sn, len) == [i \in 1..len |-> (sn + i) % Base]

(* Mutant of encode_seg: the window in one byte, padded.                   *)
encode_seg_narrow(seg) ==
  encode32u(Conv) \o encode8u(seg.cmd) \o encode8u(seg.frg)
    \o encode8u(seg.wnd) \o <<0>> \o encode32u(seg.ts) \o encode32u(seg.sn)
    \o encode32u(seg.una) \o encode32u(seg.len)

(* ikcp_encode_seg                                                         *)
encode_seg(seg) ==
  encode32u(Conv) \o encode8u(seg.cmd) \o encode8u(seg.frg)
    \o encode16u(seg.wnd) \o encode32u(seg.ts) \o encode32u(seg.sn)
    \o encode32u(seg.una) \o encode32u(seg.len)

(* What is in the buffer of a segment.                                     *)
Bytes(seg) == encode_seg(seg) \o Payload(seg.sn, seg.len)

(* What ikcp_input reads of a header.                                      *)
Header(data) ==
  [conv |-> decode32u(data, 0), cmd |-> decode8u(data, 4), frg |-> decode8u(data, 5),
   wnd |-> decode16u(data, 6), ts |-> decode32u(data, 8), sn |-> decode32u(data, 12),
   una |-> decode32u(data, 16), len |-> decode32u(data, 20)]

(* The tests that end ikcp_input with -1, -2 and -3.                       *)
Refused(h, left) == h.conv # Conv \/ left < h.len \/ h.cmd \notin Cmds

(* The bounds of the fields, and strays that are none of the peer's: the   *)
(* header does not say who wrote it.                                       *)
WireAssumption ==
  /\ Base \in Nat /\ Base > 1 /\ Cmds \subseteq Byte
  /\ Conv \in Long /\ Mtu \in Nat /\ Mtu >= IKCP_OVERHEAD
  /\ Flushes \subseteq Seq(Segment)
  /\ Strays \subseteq Seq(Byte)
  /\ \A data \in Strays :
       Len(data) < IKCP_OVERHEAD \/ Refused(Header(data), Len(data) - IKCP_OVERHEAD)

Init ==
  /\ todo \in Flushes
  /\ done = << >> /\ buffer = << >> /\ wire = << >>
  /\ stray = FALSE /\ rest = << >> /\ got = << >>

--------------------------------------------------------------------------------
(* ikcp_output: nothing is sent of an empty buffer.                        *)
Output(data) == IF data = << >> THEN wire ELSE Append(wire, data)

(* Mutant of Full: the header of the next segment is forgotten.            *)
FullPayload(need) == Len(buffer) + need - IKCP_OVERHEAD > Mtu

Full(need) == Len(buffer) + need > Mtu

(* ikcp_flush writes the next acknowledgement, probe or data segment.      *)
Write ==
  /\ todo # << >>
  /\ LET seg == Head(todo)
         bytes == Bytes(seg)
     IN IF Full(IKCP_OVERHEAD + seg.len)
        THEN wire' = Output(buffer) /\ buffer' = bytes
        ELSE buffer' = buffer \o bytes /\ UNCHANGED wire
  /\ todo' = Tail(todo) /\ done' = Append(done, Head(todo))
  /\ UNCHANGED <<stray, rest, got>>

(* The last lines of ikcp_flush.                                           *)
FlushRemain ==
  /\ todo = << >> /\ buffer # << >>
  /\ wire' = Output(buffer) /\ buffer' = << >>
  /\ UNCHANGED <<todo, done, stray, rest, got>>

(* ikcp_input reads a datagram for as long as there is a header in it.     *)
Read(data) == rest' = IF Len(data) < IKCP_OVERHEAD THEN << >> ELSE data

(* The next datagram reaches ikcp_input.                                   *)
Receive ==
  /\ rest = << >> /\ wire # << >>
  /\ Read(Head(wire)) /\ wire' = Tail(wire)
  /\ UNCHANGED <<todo, done, buffer, stray, got>>

(* Another one does.                                                       *)
ReceiveStray(data) ==
  /\ rest = << >> /\ ~stray
  /\ Read(data) /\ stray' = TRUE
  /\ UNCHANGED <<todo, done, buffer, wire, got>>

(* What a segment that is not refused is handed on with.                   *)
Acted(h, data) ==
  [conv |-> h.conv, cmd |-> h.cmd, frg |-> h.frg, wnd |-> h.wnd, ts |-> h.ts, sn |-> h.sn,
   una |-> h.una, len |-> h.len, data |-> data]

(* One round of the loop of ikcp_input: what is left after an error is     *)
(* dropped, and what was acted upon before it stays.                       *)
ParseSeg ==
  /\ rest # << >>
  /\ LET h == Header(rest)
         left == Len(rest) - IKCP_OVERHEAD
     IN IF Refused(h, left)
        THEN rest' = << >> /\ UNCHANGED got
        ELSE /\ got' = Append(got, Acted(h, SubSeq(rest, IKCP_OVERHEAD + 1, IKCP_OVERHEAD + h.len)))
             /\ Read(SubSeq(rest, IKCP_OVERHEAD + h.len + 1, Len(rest)))
  /\ UNCHANGED <<todo, done, buffer, wire, stray>>

Next ==
  \/ Write \/ FlushRemain \/ Receive \/ ParseSeg
  \/ \E data \in Strays : ReceiveStray(data)

Spec == Init /\ [][Next]_vars

--------------------------------------------------------------------------------
(* What the peer should make of a segment.                                 *)
Seen(seg) ==
  [conv |-> Conv, cmd |-> seg.cmd, frg |-> seg.frg, wnd |-> seg.wnd, ts |-> seg.ts,
   sn |-> seg.sn, una |-> seg.una, len |-> seg.len, data |-> Payload(seg.sn, seg.len)]

(* The segments the peer acts upon are those the flush wrote, all of them, *)
(* in order and with every field, however they were packed into datagrams, *)
(* and a datagram that is not of this conversation, is cut short or names  *)
(* no command adds none (ikcp.c:735-842, 926-981, 1049-1080).              *)
SegmentsSurvive ==
  LET sent == [i \in 1..Len(done) |-> Seen(done[i])]
  IN /\ IsPrefix(got, sent)
     /\ todo = << >> /\ buffer = << >> /\ wire = << >> /\ rest = << >> => got = sent

(* No datagram is empty or longer than the MTU, and it starts with a       *)
(* header: no segment is split (ikcp.c:930-933, 1058-1061).                *)
DatagramsFit ==
  /\ Len(buffer) <= Mtu
  /\ \A i \in DOMAIN wire : Len(wire[i]) \in IKCP_OVERHEAD..Mtu

================================================================================
