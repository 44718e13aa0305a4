-------------------------------- MODULE Logging --------------------------------
(***************************************************************************)
(* The log (source/mlog.h) and its level (source/kcpss.cpp).               *)
(*                                                                         *)
(* LOG_WARN << a << b is an expression of temporaries: every << returns a  *)
(* copy of its left operand, a live copy takes over from the one it was    *)
(* made of, and at the end of the expression the temporaries are destroyed,*)
(* the last one first; one that is live ends the line.                     *)
(*                                                                         *)
(* Abstracted: pieces are numbered, the tag of a level is its number, and  *)
(* std::clog and std::cerr, both unbuffered on one file, are one output.   *)
(***************************************************************************)
EXTENDS Naturals, Sequences, FiniteSets, SequencesExt

CONSTANTS
  Words,        \* what the key "level" may hold, in lower case
  MaxMessages,  \* bound of the model: messages that are due
  MaxPieces     \* bound of the model: pieces of one

LoggingAssumption == MaxMessages \in Nat /\ MaxPieces \in Nat \ {0}

VARIABLES
  level,        \* mlog::level()
  configured,   \* parse_config set it
  temps,        \* the temporaries of the expression, by their field live
  line,         \* what was printed since the last end of line
  lines,        \* the lines printed
  message,      \* the expression: its level, the level in force, its pieces
  due           \* history: the expressions evaluated that the level in force lets pass

vars == <<level, configured, temps, line, lines, message, due>>

DBUG == 0
INFO == 1
WARN == 2
CRIT == 3

Levels == DBUG..CRIT

(* The names of the levels in parse_config, which takes them in lower and  *)
(* upper case; INFO for any other word.                                    *)
LevelOf(w) ==
  CASE w \in {"critical", "crit"} -> CRIT
    [] w \in {"warn", "warning"} -> WARN
    [] w \in {"debug", "dbug"} -> DBUG
    [] OTHER -> INFO

Idle == temps = << >>

Init ==
  /\ level = INFO /\ configured = FALSE
  /\ temps = << >> /\ line = << >> /\ lines = << >>
  /\ message = [level |-> INFO, limit |-> INFO, pieces |-> 0]
  /\ due = << >>

--------------------------------------------------------------------------------
(* The end of parse_config: set_level.                                     *)
Configure(w) ==
  /\ Idle /\ ~configured
  /\ configured' = TRUE
  /\ level' = LevelOf(w)
  /\ UNCHANGED <<temps, line, lines, message, due>>

(* Mutant of Copy: the object copied stays live.                           *)
CopyBothLive(ts) == Append(ts, Last(ts))

(* A(A &) and A(A &&): the copy is live if the object copied was, which is *)
(* not live any more.                                                      *)
Copy(ts) == Front(ts) \o <<FALSE, Last(ts)>>

(* operator<< on an A: prints if it is live, returns a copy.               *)
Insert(piece) ==
  /\ ~Idle /\ message.pieces < MaxPieces
  /\ piece = message.pieces + 1
  /\ line' = IF Last(temps) THEN Append(line, piece) ELSE line
  /\ temps' = Copy(temps)
  /\ message' = [message EXCEPT !.pieces = piece]
  /\ UNCHANGED <<level, configured, lines, due>>

(* The test of operator<< on an mlog.                                      *)
Enabled(l) == l >= level

(* operator<< on an mlog, for the first piece: the temporaries A(os), its  *)
(* copy after the tag and its copy after the piece, the first two of which *)
(* end with the return statement; or A(), which is not live.               *)
Begin(l) ==
  /\ Idle /\ Len(due) < MaxMessages
  /\ message' = [level |-> l, limit |-> level, pieces |-> 1]
  /\ \/ /\ Enabled(l)
        /\ temps' = Copy(Copy(<<TRUE>>))
        /\ line' = line \o <<l, 1>>
     \/ /\ ~Enabled(l)
        /\ temps' = <<FALSE>>
        /\ UNCHANGED line
  /\ UNCHANGED <<level, configured, lines, due>>

(* ~A: how many of the temporaries end the line.                           *)
LineEnds(ts) == Cardinality({i \in DOMAIN ts : ts[i]})

(* The end of the expression, which destroys its temporaries.              *)
End ==
  /\ ~Idle
  /\ temps' = << >>
  /\ LET n == LineEnds(temps)
     IN /\ lines' = lines \o [i \in 1..n |-> IF i = 1 THEN line ELSE << >>]
        /\ line' = IF n = 0 THEN line ELSE << >>
  /\ due' = IF message.level >= message.limit THEN Append(due, message) ELSE due
  /\ UNCHANGED <<level, configured, message>>

Next ==
  \/ \E w \in Words : Configure(w)
  \/ \E l \in Levels : Begin(l)
  \/ \E piece \in 1..MaxPieces : Insert(piece)
  \/ End

Spec == Init /\ [][Next]_vars

--------------------------------------------------------------------------------
(* Every message at or above the level in force is printed as one line that*)
(* holds all its pieces, in order and once, after the tag of its level; the*)
(* others print nothing, however many copies of the temporaries there were *)
(* (mlog.h:33-55, 84-99).                                                  *)
OneLineEach ==
  Idle => /\ line = << >>
          /\ lines = [i \in 1..Len(due) |->
                        <<due[i].level>> \o [k \in 1..due[i].pieces |-> k]]

================================================================================
