-------------------------------- MODULE Startup --------------------------------
(***************************************************************************)
(* From the command line to the listening sockets: main, parse_config,     *)
(* start_client and start_server of source/kcpss.cpp, with the parser of   *)
(* depends/ini/ini.h that reads the configuration file.                    *)
(*                                                                         *)
(* A line is the sequence of its characters; only the four with a meaning  *)
(* and white space are told apart from the others.                         *)
(***************************************************************************)
EXTENDS Integers, Sequences, FiniteSets, SequencesExt

CONSTANTS
  Lines,        \* lines a file may have
  MaxLines,     \* bound of the model: lines per file
  Commands,     \* sequences of options: "s", "c", "v", or another character
  SectionOf,    \* mode -> name of its section
  Local, Remote, \* the names of the variables read
  AddressOf,    \* texts of the form protocol://host:port -> endpoint
  Everywhere           \* the host of a socket bound to every address

StartupAssumption ==
  /\ MaxLines \in Nat
  /\ DOMAIN SectionOf = {"server", "client"}
  /\ Local # Remote

VARIABLES
  options,      \* options getopt has still to see
  mode,         \* modeString
  files,        \* which configuration files exist
  lines,        \* history: the lines read
  section,      \* the section the next assignment belongs to
  sections,     \* Ini::sections
  errors,       \* how many lines Ini::errors has
  config,       \* proxy_config
  stage,        \* "options", "parse", "start", "running" or "exit"
  tcp, udp      \* what the two sockets are bound to

vars == <<options, mode, files, lines, section, sections, errors, config, stage, tcp, udp>>

None == [host |-> << >>, port |-> 0]
Empty == << >>

Init ==
  /\ options \in Commands /\ mode = ""
  /\ files \in SUBSET {"./kcpss.ini", "/etc/kcpss.ini"}
  /\ lines = << >> /\ section = << >> /\ sections = Empty /\ errors = 0
  /\ config = [local |-> << >>, remote |-> << >>]
  /\ stage = "options" /\ tcp = None /\ udp = None

--------------------------------------------------------------------------------
(* main: the options.                                                      *)
Option ==
  /\ stage = "options" /\ options # << >>
  /\ options' = Tail(options)
  /\ CASE Head(options) = "s" -> mode' = "server" /\ UNCHANGED stage
       [] Head(options) = "c" -> mode' = "client" /\ UNCHANGED stage
       [] OTHER -> stage' = "exit" /\ UNCHANGED mode
  /\ UNCHANGED <<files, lines, section, sections, errors, config, tcp, udp>>

ConfigFile == IF "./kcpss.ini" \in files THEN "./kcpss.ini" ELSE "/etc/kcpss.ini"

Open ==
  /\ stage = "options" /\ options = << >>
  /\ stage' = IF ConfigFile \in files THEN "parse" ELSE "exit"
  /\ UNCHANGED <<options, mode, files, lines, section, sections, errors, config, tcp, udp>>

--------------------------------------------------------------------------------
(* Ini::parse                                                              *)
Blank == " "

ltrim(s) ==
  LET marks == {k \in DOMAIN s : s[k] # Blank}
  IN  IF marks = {} THEN << >>
      ELSE SubSeq(s, CHOOSE k \in marks : \A l \in marks : k <= l, Len(s))

rtrim(s) == Reverse(ltrim(Reverse(s)))

\* Where the first "=" is; 0 is npos.
Assign(line) ==
  LET marks == {k \in DOMAIN line : line[k] = "="}
  IN  IF marks = {} THEN 0 ELSE CHOOSE k \in marks : \A l \in marks : k <= l

HeaderName(line) == SubSeq(line, 2, Len(line) - 1)

Variable(line) == rtrim(SubSeq(line, 1, Assign(line) - 1))
Value(line) == ltrim(SubSeq(line, Assign(line) + 1, Len(line)))

\* What a trimmed line is.
IsComment(line) == line # << >> /\ line[1] = ";"
IsHeader(line) == line # << >> /\ line[1] = "[" /\ line[Len(line)] = "]"
IsAssignment(line) == line # << >> /\ line[1] \notin {";", "["} /\ Assign(line) > 1

In(ini, name) == IF name \in DOMAIN ini THEN ini[name] ELSE Empty

\* A map with one more entry, or another value in one.
With(map, key, value) ==
  [k \in DOMAIN map \cup {key} |-> IF k = key THEN value ELSE map[k]]

\* Mutant of Insert: the last assignment wins.
InsertLast(values, name, value) == With(values, name, value)

\* std::map::insert, after a find: the first assignment stays.
Insert(values, name, value) ==
  IF name \in DOMAIN values THEN values ELSE With(values, name, value)

\* One round of the loop of Ini::parse.
Parsed(p, text) ==
  LET line == rtrim(ltrim(text))
      values == In(p.sections, p.section)
  IN  IF line = << >> \/ IsComment(line) THEN p
      ELSE IF IsHeader(line) THEN [p EXCEPT !.section = HeaderName(line)]
      ELSE IF ~IsAssignment(line) THEN [p EXCEPT !.errors = @ + 1]
      ELSE [p EXCEPT
              !.errors = @ + (IF Variable(line) \in DOMAIN values THEN 1 ELSE 0),
              !.sections = With(@, p.section, Insert(values, Variable(line), Value(line)))]

ReadLine(text) ==
  /\ stage = "parse" /\ Len(lines) < MaxLines
  /\ LET p == Parsed([section |-> section, sections |-> sections, errors |-> errors], text)
     IN  section' = p.section /\ sections' = p.sections /\ errors' = p.errors
  /\ lines' = Append(lines, text)
  /\ UNCHANGED <<options, mode, files, config, stage, tcp, udp>>

\* sections[name][variable]: both are made if they are missing.
Looked(ini, name, variable) ==
  LET values == In(ini, name)
  IN  IF variable \in DOMAIN values THEN values[variable] ELSE << >>

(* The end of the file, and the rest of parse_config.                      *)
Eof ==
  /\ stage = "parse"
  /\ stage' = "start"
  /\ config' =
       IF mode = "" THEN config
       ELSE [local |-> Looked(sections, SectionOf[mode], Local),
             remote |-> IF mode = "server" THEN << >>
                        ELSE Looked(sections, SectionOf[mode], Remote)]
  /\ UNCHANGED <<options, mode, files, lines, section, sections, errors, tcp, udp>>

--------------------------------------------------------------------------------
(* endpoint(text): what the pattern does not match stays empty.            *)
endpoint(text) == IF text \in DOMAIN AddressOf THEN AddressOf[text] ELSE None

(* socket::create_udp: port 0 is not bound; a bind that fails ends the     *)
(* process.                                                                *)
CreateUdp(ep, free) ==
  IF ep.port = 0 \/ free
  THEN udp' = ep /\ stage' = "running"
  ELSE UNCHANGED udp /\ stage' = "exit"

StartServer ==
  /\ stage = "start" /\ mode = "server"
  /\ \E free \in BOOLEAN : CreateUdp(endpoint(config.local), free)
  /\ UNCHANGED <<options, mode, files, lines, section, sections, errors, config, tcp>>

(* Acceptor::listen binds to every address; if that fails, or the port is  *)
(* 0, the system chooses a port, which is written -1.                      *)
StartClient ==
  /\ stage = "start" /\ mode = "client"
  /\ \E free, udpFree \in BOOLEAN :
       /\ tcp' = [host |-> Everywhere,
                  port |-> IF free /\ endpoint(config.local).port # 0
                           THEN endpoint(config.local).port ELSE -1]
       /\ CreateUdp(endpoint(config.local), udpFree)
  /\ UNCHANGED <<options, mode, files, lines, section, sections, errors, config>>

\* Without -s or -c there is nothing to start.
StartNothing ==
  /\ stage = "start" /\ mode = ""
  /\ stage' = "exit"
  /\ UNCHANGED <<options, mode, files, lines, section, sections, errors, config, tcp, udp>>

Next ==
  \/ Option \/ Open
  \/ \E text \in Lines : ReadLine(text)
  \/ Eof \/ StartServer \/ StartClient \/ StartNothing

Spec == Init /\ [][Next]_vars

--------------------------------------------------------------------------------
(* Ini::generate, and parsing what it writes.                              *)
Generate(ini) ==
  FlattenSeq([k \in 1..Cardinality(DOMAIN ini) |->
    LET name == SetToSeq(DOMAIN ini)[k]
    IN  <<<<"[">> \o name \o <<"]">>>>
          \o [l \in 1..Cardinality(DOMAIN ini[name]) |->
                LET variable == SetToSeq(DOMAIN ini[name])[l]
                IN  variable \o <<"=">> \o ini[name][variable]]])

Reparsed(ini) ==
  FoldLeft(Parsed, [section |-> << >>, sections |-> Empty, errors |-> 0], Generate(ini))

(* Whatever was parsed is written by generate so that parsing it again     *)
(* gives the same sections and variables, and no error: no name or value   *)
(* the parser lets in can be taken for something else (ini.h:112-154).     *)
ParsesBack ==
  LET again == Reparsed(sections)
  IN  again.sections = sections /\ again.errors = 0

\* The line that gives a variable of a section its value: the first whose
\* nearest header above names the section.
Trimmed(k) == rtrim(ltrim(lines[k]))
Under(k) ==
  LET headers == {h \in 1..k : IsHeader(Trimmed(h))}
  IN  IF headers = {} THEN << >> ELSE HeaderName(Trimmed(CHOOSE h \in headers : \A g \in headers : g <= h))
Gives(k, name, variable) ==
  IsAssignment(Trimmed(k)) /\ Under(k) = name /\ Variable(Trimmed(k)) = variable
Written(name, variable) ==
  LET ks == {k \in DOMAIN lines : Gives(k, name, variable)}
  IN  IF ks = {} THEN << >> ELSE Value(Trimmed(CHOOSE k \in ks : \A l \in ks : k <= l))

(* A running process uses what its file says: of several assignments to a  *)
(* variable of its section, wherever the section is split and interrupted, *)
(* the first (ini.h:121-154, kcpss.cpp:186-208).                           *)
ConfiguredAsWritten ==
  stage = "running" =>
    /\ config.local = Written(SectionOf[mode], Local)
    /\ mode = "client" => config.remote = Written(SectionOf[mode], Remote)

(* A running process listens on the address it logs, if that is one:       *)
(* "Running as server listen on", "Running as client listen on"            *)
(* (kcpss.cpp:202, 206).                                                   *)
ListensWhereTold ==
  stage = "running" =>
    LET told == endpoint(config.local)
    IN  told.port # 0 => (IF mode = "server" THEN udp ELSE tcp) = told

================================================================================
