------------------------------- MODULE EdgeParts -------------------------------
(***************************************************************************)
(* The sequential parts around the connections, side by side: the bytes of *)
(* a read on their way through udp::send and the codec, SOCKS5 requests,   *)
(* endpoints as keys, the start of the process and the log.  They share no *)
(* state, so that in each behaviour one of them, part, runs and the others *)
(* stay in one of their initial states; every property speaks of one of    *)
(* them.                                                                   *)
(***************************************************************************)
EXTENDS SessionMessage

CONSTANTS
  Hellos, Addrs, Commands, Ports, Names, Behind,          \* of Socks5
  Addresses, Convs, NoConv, ByteValues, SourcePorts,      \* of Endpoint
  Lines, MaxLines, CommandLines, SectionOf, Local, Remote, AddressOf,
  Everywhere,                                             \* of Startup
  Words, MaxMessages, MaxPieces                           \* of Logging

VARIABLES
  part,                                                   \* the one that runs
  request, packet, after, target, answer,                 \* of Socks5
  client_conv_, conv_ep_, latest, source, logged,         \* of Endpoint
  options, mode, files, text, section, sections, errors, config, phase, tcp, udp,
                                                          \* of Startup
  level, configured, temps, line, printed, message, due      \* of Logging

Socks == INSTANCE Socks5 WITH buffer <- packet
Table == INSTANCE Endpoint WITH Byte <- ByteValues, Ports <- SourcePorts
Start == INSTANCE Startup WITH Commands <- CommandLines, lines <- text, stage <- phase
Log == INSTANCE Logging WITH lines <- printed

ASSUME PartAssumptions ==
  /\ Socks!ByteAssumption /\ Table!EndpointAssumption
  /\ Start!StartupAssumption /\ Log!LoggingAssumption

socksVars == <<request, packet, after, target, answer>>
tableVars == <<client_conv_, conv_ep_, latest, source, logged>>
startVars ==
  <<options, mode, files, text, section, sections, errors, config, phase, tcp, udp>>
logVars == <<level, configured, temps, line, printed, message, due>>

AllVars == <<part, vars, socksVars, tableVars, startVars, logVars>>

PartsInit ==
  /\ part \in {"message", "socks", "table", "start", "log"}
  /\ Init /\ Socks!Init /\ Table!Init /\ Start!Init /\ Log!Init

PartsNext ==
  \/ part = "message" /\ Next /\ UNCHANGED <<part, socksVars, tableVars, startVars, logVars>>
  \/ part = "socks" /\ Socks!Next /\ UNCHANGED <<part, vars, tableVars, startVars, logVars>>
  \/ part = "table" /\ Table!Next /\ UNCHANGED <<part, vars, socksVars, startVars, logVars>>
  \/ part = "start" /\ Start!Next /\ UNCHANGED <<part, vars, socksVars, tableVars, logVars>>
  \/ part = "log" /\ Log!Next /\ UNCHANGED <<part, vars, socksVars, tableVars, startVars>>

PartsSpec == PartsInit /\ [][PartsNext]_AllVars

--------------------------------------------------------------------------------
(* A request to connect to a name leads exactly to the endpoint it names,  *)
(* whatever bytes its port has and whatever is behind the message, and no  *)
(* request is taken for a hello (socks5.h:27-64).                          *)
NamesServed == Socks!NamesServed /\ Socks!OnlyHellosAnswered

(* The server finds the client of a place and answers to where the last    *)
(* datagram of a conversation came from, also when only the port changed   *)
(* (socket.h:46-48, 70-72, 166-173, udp.cpp:172-179, 206-211).             *)
AnswersReturn == Table!KeyedByPlace /\ Table!AnswersReturn

(* A running process uses what its file says, wherever a section is split  *)
(* and interrupted, and what was parsed can be written and parsed again    *)
(* (ini.h:112-154, kcpss.cpp:186-208).                                     *)
ConfiguredAsWritten == Start!ConfiguredAsWritten /\ Start!ParsesBack

(* Every message due is printed as one line that holds all its pieces, in  *)
(* order and once, however many copies of the temporaries there were       *)
(* (mlog.h:33-55, 84-99).                                                  *)
OneLineEach == Log!OneLineEach

================================================================================
