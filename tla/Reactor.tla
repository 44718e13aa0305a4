-------------------------------- MODULE Reactor --------------------------------
(***************************************************************************)
(* The event loop's tables (source/Reactor.cpp): watchers by timer id and  *)
(* by file descriptor, as functions from one state of the tables to the    *)
(* next.  A handler calls several of them in a row.  libev itself is       *)
(* external: a watcher that is active may fire at any moment, and one      *)
(* handler runs at a time.                                                 *)
(*                                                                         *)
(* Abstracted: the handlers (a watcher says whose it is) and the delays.   *)
(***************************************************************************)
EXTENDS Integers

(* The tables of a reactor: timers_ and ios_ with the watchers libev runs  *)
(* (active), those deleted (freed), and whether one was stopped and        *)
(* deleted that had been deleted before (misused).                         *)
NewReactor ==
  [timers |-> << >>, ios |-> << >>, active |-> {}, freed |-> {},
   misused |-> FALSE]

(* table[id] = watcher on an unordered_map.                                *)
Put(table, id, watcher) ==
  [i \in DOMAIN table \cup {id} |-> IF i = id THEN watcher ELSE table[i]]

(* ev_..._stop and delete of a watcher; its pointer stays in the table.    *)
Discard(r, watcher) ==
  [r EXCEPT !.active = @ \ {watcher},
            !.freed = @ \cup {watcher},
            !.misused = @ \/ watcher \in r.freed]

(* A former watcher of the same id runs on and is no longer in the table.  *)
RegisterTimer(r, id, watcher) ==
  [r EXCEPT !.timers = Put(r.timers, id, watcher),
            !.active = @ \cup {watcher}]

RemoveTimer(r, id) ==
  IF id \in DOMAIN r.timers THEN Discard(r, r.timers[id]) ELSE r

RegisterIO(r, fd, watcher) ==
  [r EXCEPT !.ios = Put(r.ios, fd, watcher),
            !.active = @ \cup {watcher}]

RemoveIO(r, fd) ==
  IF fd \in DOMAIN r.ios THEN Discard(r, r.ios[fd]) ELSE r

(* timer_callback of a timer without repeat: libev stopped it before the   *)
(* handler runs; it is not deleted.                                        *)
Fired(r, watcher) == [r EXCEPT !.active = @ \ {watcher}]

================================================================================
