-------------------------------- MODULE Socks5 --------------------------------
(***************************************************************************)
(* What the two processes make of the first messages of a session: the     *)
(* hello, answered by the client (socks5::is_hello, echo_hello), and the   *)
(* request, which names the target the server connects to                  *)
(* (parser_endpoint_from_request, prepare_response in source/socks5.h).    *)
(*                                                                         *)
(* A message is the sequence of its bytes, from 1 on: byte buffer[i] of    *)
(* the code is buffer[i + 1] here.  What lies behind its end in the        *)
(* receive buffer is unknown: any byte of Behind, then a NUL.              *)
(***************************************************************************)
EXTENDS Integers, Sequences

CONSTANTS
  Hellos,       \* sets of methods a program may offer, as sequences
  Addrs,        \* address type -> addresses in requests, as sequences
  Commands,     \* commands of requests; 1 is CONNECT
  Ports,        \* ports of requests
  Names,        \* the names the resolver knows, as sequences of bytes
  Behind        \* bytes that may follow a message in the receive buffer

Octet == 0..255
PortNumber == 0..65535

ByteAssumption ==
  /\ Commands \subseteq Octet /\ Ports \subseteq PortNumber /\ Behind \subseteq Octet
  /\ Hellos \subseteq Seq(Octet)
  /\ DOMAIN Addrs \subseteq Octet
  /\ \A atyp \in DOMAIN Addrs : Addrs[atyp] \subseteq Seq(Octet)
  \* A name has no NUL: the resolver is given a C string.
  /\ 3 \in DOMAIN Addrs => Addrs[3] \subseteq Seq(Octet \ {0})

VARIABLES
  request,      \* what the program asks for
  buffer,       \* the message that carries it
  after,        \* the byte behind it
  target,       \* the endpoint connected to, or what came of it
  answer        \* the bytes answered

vars == <<request, buffer, after, target, answer>>

(* What a program means: a hello with its methods, or a request.           *)
Hello(methods) == [what |-> "hello", methods |-> methods]

Request(cmd, atyp, addr, port) ==
  [what |-> "request", cmd |-> cmd, atyp |-> atyp, addr |-> addr, port |-> port]

(* How SOCKS5 writes it: a name is preceded by its length.                 *)
Bytes(r) ==
  IF r.what = "hello"
  THEN <<5, Len(r.methods)>> \o r.methods
  ELSE <<5, r.cmd, 0, r.atyp>>
         \o (IF r.atyp = 3 THEN <<Len(r.addr)>> ELSE << >>)
         \o r.addr \o <<r.port \div 256, r.port % 256>>

(* An endpoint; null() has port -1 and no host.                            *)
Endpoint(address, port) == [addr |-> address, port |-> port]

Null == Endpoint(<< >>, -1)

Unasked == Endpoint(<< >>, 0)

Init ==
  /\ \/ \E m \in Hellos : request = Hello(m)
     \/ \E cmd \in Commands, atyp \in DOMAIN Addrs, port \in Ports :
          \E addr \in Addrs[atyp] : request = Request(cmd, atyp, addr, port)
  /\ buffer = Bytes(request)
  /\ after \in Behind
  /\ target = Unasked
  /\ answer = << >>

--------------------------------------------------------------------------------
is_hello(b) == Len(b) = 3 /\ b[1] = 5 /\ b[2] = 1

echo_hello == <<5, 0>>

(* The C string that starts at position i of b.                            *)
CString(b, i) ==
  LET ends == {j \in i..Len(b) : b[j] = 0}
      end == CHOOSE j \in ends : \A k \in ends : j <= k
  IN SubSeq(b, i, end - 1)

(* inet_addr of a text: of the numbers-and-dots notations, one number is   *)
(* enough to tell apart an address from none (INADDR_NONE).                *)
IsDigits(text) == text # << >> /\ \A i \in DOMAIN text : text[i] \in 48..57

inet_addr(text) == IF IsDigits(text) THEN <<"number", text>> ELSE <<"broadcast">>

(* gethostbyname and inet_ntoa: the resolver's address of a name.          *)
gethostbyname(name) == IF name \in Names THEN <<"host", name>> ELSE << >>

(* The port: the last two bytes of what was read.                          *)
Port(b) == b[Len(b) - 1] * 256 + b[Len(b)]

(* Mutant of NameOf: the name is not ended before the port.                *)
NameUnended(b, behind) == CString(b \o <<behind, 0>>, 6)

(* The name of a domain request, ended by a NUL over the port.             *)
NameOf(b, behind) == CString([b EXCEPT ![Len(b) - 1] = 0], 6)

(* For addresses the text starts at the second byte; that of an IPv6       *)
(* address is ended after 16 more.                                         *)
TextOf(b, behind) ==
  LET all == b \o <<behind, 0>>
  IN IF b[4] = 4 THEN CString([all EXCEPT ![22] = 0], 6) ELSE CString(all, 6)

Refused(b) == b[2] # 1 \/ b[4] \notin {1, 3, 4}

parser_endpoint_from_request(b, behind) ==
  IF Refused(b) THEN Null
  ELSE IF b[4] = 3
  THEN LET host == gethostbyname(NameOf(b, behind))
       IN IF host = << >> THEN Null ELSE Endpoint(host, Port(b))
  ELSE Endpoint(inet_addr(TextOf(b, behind)), Port(b))

prepare_response(success) == <<5, IF success THEN 0 ELSE 1, 0, 1, 0, 0, 0, 0, 0, 0>>

(* The client answers what it takes for a hello.                           *)
ClientAnswers ==
  /\ answer = << >> /\ is_hello(buffer)
  /\ answer' = echo_hello
  /\ UNCHANGED <<request, buffer, after, target>>

(* Anything else that starts a session is a request for the server.        *)
ServerAnswers ==
  /\ answer = << >> /\ ~is_hello(buffer)
  /\ Len(buffer) >= 4
  /\ target' = parser_endpoint_from_request(buffer, after)
  /\ answer' = prepare_response(target' # Null)
  /\ UNCHANGED <<request, buffer, after>>

Next == ClientAnswers \/ ServerAnswers

Spec == Init /\ [][Next]_vars

--------------------------------------------------------------------------------
IsRequest == request.what = "request"
Answered == answer # << >>

(* What the program asked for: the endpoint, or nothing if there is none   *)
(* or the command is another.                                              *)
Wanted ==
  IF request.cmd # 1 THEN Null
  ELSE IF request.atyp = 3
  THEN IF request.addr \in Names THEN Endpoint(<<"host", request.addr>>, request.port)
                                 ELSE Null
  ELSE Endpoint(<<"address", request.addr>>, request.port)

(* A request to connect to a name gets exactly the endpoint it names,      *)
(* whatever bytes its port has and whatever is behind the message; one     *)
(* for an unknown name, a type that does not exist or another command is   *)
(* refused (socks5.h:36-64).                                               *)
NamesServed ==
  Answered /\ IsRequest /\ (request.cmd # 1 \/ request.atyp \notin {1, 4}) =>
    IF request.cmd = 1 /\ request.atyp = 3
    THEN target = Wanted /\ answer = prepare_response(Wanted # Null)
    ELSE target = Null /\ answer = prepare_response(FALSE)

(* The client answers in the server's place only what is a hello with one  *)
(* method, and no request is ever taken for one (socks5.h:27-34).          *)
OnlyHellosAnswered ==
  Answered /\ answer = echo_hello => request.what = "hello" /\ Len(request.methods) = 1

(* A request for an IPv4 address leads to that address (the comment        *)
(* "ipv4", socks5.h:47).                                                   *)
AddressesServed ==
  Answered /\ IsRequest /\ request.cmd = 1 /\ request.atyp = 1 => target = Wanted

(* A hello that offers to go on without authentication, method 0, is       *)
(* answered with that method (the comment on the negotiation,              *)
(* kcpss.cpp:72).                                                          *)
HellosAnswered ==
  Answered /\ request.what = "hello" /\ (\E i \in DOMAIN request.methods : request.methods[i] = 0)
    => answer = echo_hello

================================================================================
