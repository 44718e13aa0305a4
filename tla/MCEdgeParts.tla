------------------------------ MODULE MCEdgeParts ------------------------------
(* Values of the constants of EdgeParts that a .cfg cannot write down.      *)
EXTENDS EdgeParts, TLC

CONSTANT MaxSize    \* of a read

(* Reads of every size up to MaxSize, whose bytes tell each other apart.   *)
SomeReads == {[j \in 1..n |-> <<j \div 16, j % 16>>] : n \in 1..MaxSize}

(* Requests whose bytes can be taken for something else: names that are    *)
(* the beginning of each other, ports whose bytes are letters, digits or   *)
(* zero, addresses that read as text.                                      *)
SomeHellos == {<<0>>, <<2>>, <<0, 2>>, <<2, 0>>}

SomeNames == {<<97>>, <<97, 98>>}

SomeAddrs ==
  [atyp \in {1, 3, 4, 7} |->
     CASE atyp = 1 -> {<<10, 0, 0, 1>>, <<49, 50, 0, 9>>, <<9, 53, 54, 55>>}
       [] atyp = 3 -> {<<97>>, <<97, 98>>, <<97, 99>>, <<98>>}
       [] atyp = 4 -> {[k \in 1..16 |-> 32 + k]}
       [] OTHER -> {<<1, 2>>}]

SomePorts == {0, 80, 98 * 256, 49 * 256 + 50, 256 + 187, 65535}

(* Command lines, and lines as people write them, with a few they should   *)
(* not.                                                                    *)
SomeCommands == {<<"s">>, <<"c">>, <<"s", "c">>, <<"v">>, <<"c", "h">>, << >>}

SomeSections == [m \in {"server", "client"} |-> IF m = "server" THEN <<"a">> ELSE <<"b">>]

SomeLines ==
  {<<"[", "a", "]">>, <<" ", "[", "b", "]">>, <<"a", "=", "a">>, <<"a", " ", "=", " ", "b">>,
   <<"b", "=", "b", " ">>, <<"b", "=">>, <<"=", "b">>, <<";", "a", "=", "b">>, <<"[", "a">>,
   <<"a">>, << >>, <<" ", " ">>, <<"a", "=", "b", "=", "a">>}

(* Of these the longer files are made, where a section is left, another    *)
(* follows and the first goes on.                                          *)
FewLines ==
  {<<"[", "a", "]">>, <<" ", "[", "b", "]">>, <<"a", "=", "a">>, <<"a", " ", "=", " ", "b">>,
   <<"b", "=", "b", " ">>}

SomeLocal == <<"a">>
SomeRemote == <<"b">>

SomeAddress ==
  <<"a">> :> [host |-> <<"a">>, port |-> 1] @@ <<"b">> :> [host |-> <<"b">>, port |-> 2]

SomeWords == {"critical", "warning", "info", "debug", "verbose", "crit", "warn", "dbug"}

(* A part that does not run has one initial state.                         *)
MCInit ==
  /\ PartsInit
  /\ part # "message" => Len(read) = 1
  /\ part # "socks" => request = Socks!Hello(<<0>>) /\ after = 0
  /\ part # "start" => options = << >> /\ files = {}

LongFilesOfFew == Len(text) > 3 => \A k \in DOMAIN text : text[k] \in FewLines

MCSpec == MCInit /\ [][PartsNext /\ LongFilesOfFew']_AllVars

================================================================================
