-------------------------------- MODULE Channel --------------------------------
(***************************************************************************)
(* The life of the TCP channels of a process (class Channel and the        *)
(* Acceptor in source/Acceptor.cpp) on one reactor: connecting with        *)
(* retries, early writes, the read loop, disconnecting, and the deletion   *)
(* 10 ms later by a timer.  Timers are keyed by file descriptor, and a     *)
(* descriptor is given to the next connection once it is closed.           *)
(*                                                                         *)
(* Abstracted: bytes (a write is one numbered item), the callbacks of the  *)
(* sessions, and time: a timer may fire at any moment after it is set.     *)
(* A blocking ::write holds the process for as long as the model likes; how*)
(* much of it the peer has to read before is left open.                    *)
(* The KCP-over-TCP mode (kcp_, init_kcp) is never switched on.            *)
(***************************************************************************)
EXTENDS Reactor, Sequences

CONSTANTS
  Channels,     \* channel objects, one for every connection of a behaviour
  NoChannel,    \* none of them
  Fds,          \* file descriptors the process may be given
  MaxRetries,   \* tries after the first before giving up: 10 in the code
  MaxWrites     \* bound of the model: writes to one channel

ASSUME ChannelAssumption == NoChannel \notin Channels
ASSUME FdAssumption == Fds \subseteq Nat /\ -1 \notin Fds
ASSUME RetryAssumption == MaxRetries \in Nat \ {0}
ASSUME WriteAssumption == MaxWrites \in Nat

VARIABLES
  channels_,        \* the static registry: objects created and not deleted
  fd_,              \* fd_[c], -1 before c exists
  connected_,
  reconnect_count_,
  send_buffer_,     \* items written before the connection was up
  reactor,          \* the tables of the reactor
  reading,          \* the channel whose blocking ::read holds the process
  writing,          \* the channel whose blocking ::write holds the process
  given,            \* history: how many items were written to c
  sent,             \* history: the items handed to ::write(fd_)
  closes            \* history: calls of on_disconnect for c

object == <<channels_, fd_, connected_, reconnect_count_, send_buffer_>>
vars == <<object, reactor, reading, writing, given, sent, closes>>

Watcher == [kind : {"retry", "check", "io"}, owner : Channels, n : 0..MaxRetries]

Retry(c, n) == [kind |-> "retry", owner |-> c, n |-> n]
Check(c) == [kind |-> "check", owner |-> c, n |-> 0]
Io(c) == [kind |-> "io", owner |-> c, n |-> 0]

(* The timer ids of a descriptor.                                          *)
RetryId(fd) == 1000 + fd

(* Mutant of CheckId: the bases of the two timers are one apart.           *)
CheckIdNear(fd) == 1001 + fd

CheckId(fd) == 2000 + fd

TypeOK ==
  /\ channels_ \subseteq Channels
  /\ fd_ \in [Channels -> Fds \cup {-1}]
  /\ connected_ \in [Channels -> BOOLEAN]
  /\ reconnect_count_ \in [Channels -> 0..MaxRetries + 1]
  /\ given \in [Channels -> 0..MaxWrites]
  /\ send_buffer_ \in [Channels -> Seq(1..MaxWrites)]
  /\ sent \in [Channels -> Seq(1..MaxWrites)]
  /\ closes \in [Channels -> Nat]
  /\ reading \in Channels \cup {NoChannel}
  /\ writing \in Channels \cup {NoChannel}
  /\ reactor.active \subseteq Watcher /\ reactor.freed \subseteq Watcher
  /\ \A id \in DOMAIN reactor.timers : reactor.timers[id] \in Watcher
  /\ \A f \in DOMAIN reactor.ios : reactor.ios[f] \in Watcher

Init ==
  /\ channels_ = {}
  /\ fd_ = [c \in Channels |-> -1]
  /\ connected_ = [c \in Channels |-> FALSE]
  /\ reconnect_count_ = [c \in Channels |-> 0]
  /\ send_buffer_ = [c \in Channels |-> << >>]
  /\ reactor = NewReactor
  /\ reading = NoChannel /\ writing = NoChannel
  /\ given = [c \in Channels |-> 0]
  /\ sent = [c \in Channels |-> << >>]
  /\ closes = [c \in Channels |-> 0]

(* The process is in its loop: no blocking call of a handler holds it.     *)
Idle == reading = NoChannel /\ writing = NoChannel

--------------------------------------------------------------------------------
(* Mutant of OnDisconnect: the timer that deletes the channel is not set.  *)
OnDisconnectOnly(c, r) ==
  /\ closes' = [closes EXCEPT ![c] = @ + 1]
  /\ connected_' = [connected_ EXCEPT ![c] = FALSE]
  /\ reactor' = r

(* Mutant of OnDisconnect: connected_ is left as it is.                    *)
OnDisconnectOpen(c, r) ==
  /\ closes' = [closes EXCEPT ![c] = @ + 1]
  /\ reactor' = RegisterTimer(r, CheckId(fd_'[c]), Check(c))
  /\ UNCHANGED connected_

(* on_disconnect: the callback, connected_ and the timer that deletes the  *)
(* channel; r is the reactor so far.                                       *)
OnDisconnect(c, r) ==
  /\ closes' = [closes EXCEPT ![c] = @ + 1]
  /\ connected_' = [connected_ EXCEPT ![c] = FALSE]
  /\ reactor' = RegisterTimer(r, CheckId(fd_'[c]), Check(c))

(* Mutant of FlushBuffer: the items are written before connected_ is set,  *)
(* so that write() appends them to the buffer, which is then cleared.      *)
FlushBufferFirst(c) ==
  /\ send_buffer_' = [send_buffer_ EXCEPT ![c] = << >>]
  /\ connected_' = [connected_ EXCEPT ![c] = TRUE]
  /\ UNCHANGED <<sent, writing>>

(* The end of on_connect: connected_ is set before the buffered items are  *)
(* written, so that write() sends them, on a socket that blocks from here  *)
(* on.  The buffer is cleared when ::write returns, which may be later.    *)
FlushBuffer(c) ==
  /\ connected_' = [connected_ EXCEPT ![c] = TRUE]
  /\ sent' = [sent EXCEPT ![c] = @ \o send_buffer_[c]]
  /\ \/ /\ send_buffer_' = [send_buffer_ EXCEPT ![c] = << >>]
        /\ UNCHANGED writing
     \/ /\ send_buffer_[c] # << >>
        /\ writing' = c
        /\ UNCHANGED send_buffer_

(* The test of the count after a failing try.                              *)
GivesUp(n) == n > MaxRetries

(* on_connect, called by the constructor and by the retry timer.  writable *)
(* is what select says of the socket within 100 us.                        *)
OnConnect(c, r, writable) ==
  LET n == reconnect_count_[c]
  IN \/ /\ writable
        /\ reactor' = IF n > 0 THEN RemoveTimer(r, RetryId(fd_'[c])) ELSE r
        /\ FlushBuffer(c)
        /\ UNCHANGED <<reconnect_count_, closes>>
     \/ /\ ~writable
        /\ reconnect_count_' = [reconnect_count_ EXCEPT ![c] = n + 1]
        /\ UNCHANGED <<send_buffer_, sent, writing>>
        /\ \/ /\ GivesUp(n + 1)
              /\ OnDisconnect(c, RemoveTimer(r, RetryId(fd_'[c])))
           \/ /\ ~GivesUp(n + 1)
              /\ reactor' = RegisterTimer(r, RetryId(fd_'[c]), Retry(c, n))
              /\ UNCHANGED <<connected_, closes>>

(* Descriptors are closed by the destructor only.                          *)
OpenFds == {fd_[c] : c \in channels_}

(* The constructor, on any descriptor that is free.                        *)
Create(c, fd, writable) ==
  /\ Idle
  /\ fd_[c] = -1 /\ fd \notin OpenFds
  /\ channels_' = channels_ \cup {c}
  /\ fd_' = [fd_ EXCEPT ![c] = fd]
  /\ OnConnect(c, RegisterIO(reactor, fd, Io(c)), writable)
  /\ UNCHANGED <<reading, given>>

(* A connection is accepted: its socket is connected, hence writable.      *)
Accept(c, fd) == Create(c, fd, TRUE)

(* What becomes of a connect on a socket that does not block.              *)
Outcomes == {"connected", "in progress", "failed"}

(* create_tcp and the channel proxy_server makes of its descriptor, which  *)
(* is returned whatever becomes of the connect.  select finds a socket that*)
(* is connected, and one whose connect failed, writable.                   *)
Connect(c, fd, res, writable) ==
  /\ res # "in progress" => writable
  /\ Create(c, fd, writable)

(* The retry timer: one-shot, registered anew by every failing attempt.    *)
RetryConnect(c, writable) ==
  /\ Idle
  /\ \E n \in 0..MaxRetries :
       /\ Retry(c, n) \in reactor.active
       /\ UNCHANGED <<channels_, fd_, reading, given>>
       /\ OnConnect(c, Fired(reactor, Retry(c, n)), writable)

(* Channel::write, both overloads.  On a connected channel ::write returns *)
(* at once, or holds the process: on_connect cleared O_NONBLOCK, and the   *)
(* peer may not be reading.                                                *)
Write(c) ==
  /\ Idle
  /\ c \in channels_ /\ given[c] < MaxWrites
  /\ given' = [given EXCEPT ![c] = @ + 1]
  /\ \/ /\ connected_[c]
        /\ sent' = [sent EXCEPT ![c] = Append(@, given'[c])]
        /\ writing' \in {NoChannel, c}
        /\ UNCHANGED send_buffer_
     \/ /\ ~connected_[c]
        /\ send_buffer_' = [send_buffer_ EXCEPT ![c] = Append(@, given'[c])]
        /\ UNCHANGED <<sent, writing>>
  /\ UNCHANGED <<channels_, fd_, connected_, reconnect_count_, reactor, reading,
                 closes>>

(* The ::write that held the process returns: the peer has read enough, or *)
(* is gone.  on_connect then clears its buffer, which is empty at any other*)
(* ::write.                                                                *)
WriteReturns(c) ==
  /\ writing = c
  /\ writing' = NoChannel
  /\ send_buffer_' = [send_buffer_ EXCEPT ![c] = << >>]
  /\ UNCHANGED <<channels_, fd_, connected_, reconnect_count_, reactor, reading,
                 given, sent, closes>>

--------------------------------------------------------------------------------
(* read, whose ::read blocks because on_connect cleared O_NONBLOCK.  A     *)
(* buffer filled to the last byte makes it read again: the process waits   *)
(* in that read until the peer of c sends more or closes.  A shorter read  *)
(* ends the loop and leaves the channel as it was.                         *)
Readable(c) ==
  /\ connected_[c] /\ Io(c) \in reactor.active
  /\ reading \in {NoChannel, c} /\ writing = NoChannel

ReadFull(c) ==
  /\ Readable(c) /\ reading = NoChannel
  /\ reading' = c
  /\ UNCHANGED <<object, reactor, writing, given, sent, closes>>

ReadShort(c) ==
  /\ Readable(c) /\ reading = c
  /\ reading' = NoChannel
  /\ UNCHANGED <<object, reactor, writing, given, sent, closes>>

ReadEnd(c) ==
  /\ Readable(c)
  /\ reading' = NoChannel
  /\ UNCHANGED <<channels_, fd_, reconnect_count_, send_buffer_, writing, given, sent>>
  /\ OnDisconnect(c, reactor)

(* Mutant of Delete: the destructor leaves its watcher to the loop.        *)
DeleteKeepsIo(c, r) ==
  /\ reactor' = r
  /\ channels_' = channels_ \ {c}

(* ~Channel closes the descriptor, which is free from then on.             *)
Delete(c, r) ==
  /\ reactor' = RemoveIO(r, fd_[c])
  /\ channels_' = channels_ \ {c}

(* check_connections, the timer of on_disconnect.                          *)
CheckConnections(c) ==
  /\ Idle
  /\ Check(c) \in reactor.active
  /\ IF connected_[c]
       THEN reactor' = Fired(reactor, Check(c)) /\ UNCHANGED channels_
       ELSE Delete(c, Fired(reactor, Check(c)))
  /\ UNCHANGED <<fd_, connected_, reconnect_count_, send_buffer_, reading,
                 writing, given, sent, closes>>

Next ==
  \E c \in Channels :
    \/ \E fd \in Fds :
         \/ Accept(c, fd)
         \/ \E res \in Outcomes, w \in BOOLEAN : Connect(c, fd, res, w)
    \/ \E w \in BOOLEAN : RetryConnect(c, w)
    \/ Write(c) \/ WriteReturns(c)
    \/ ReadFull(c) \/ ReadShort(c) \/ ReadEnd(c)
    \/ CheckConnections(c)

(* libev fires every timer that is due in each round of its loop, so also  *)
(* one that blocking calls held up again and again.  Nothing makes a peer  *)
(* send or read, or a connection succeed.                                  *)
Fairness ==
  \A c \in Channels :
    /\ SF_vars(\E w \in BOOLEAN : RetryConnect(c, w))
    /\ SF_vars(CheckConnections(c))

Spec == Init /\ [][Next]_vars

FairSpec == Spec /\ Fairness

--------------------------------------------------------------------------------
(* The watchers libev runs belong to channels that exist, none of them was *)
(* deleted, and none was ever deleted twice: no handler runs on a deleted  *)
(* channel, though RemoveTimer and RemoveIO leave their pointers in the    *)
(* tables and ids are shared (Reactor.cpp:65-90, Acceptor.cpp:304-322).    *)
(* And a channel is listened to as long as it exists: the descriptor's     *)
(* entry in ios_ is its own active watcher, although descriptors are given *)
(* out again and a disconnected channel keeps its own for 10 ms            *)
(* (Acceptor.cpp:241-250).                                                 *)
WatchersAlive ==
  /\ ~reactor.misused
  /\ reactor.active \cap reactor.freed = {}
  /\ \A w \in reactor.active : w.owner \in channels_
  /\ \A c \in channels_ :
       /\ Io(c) \in reactor.active
       /\ fd_[c] \in DOMAIN reactor.ios /\ reactor.ios[fd_[c]] = Io(c)

(* What is handed to ::write is what was written, in order and once, with  *)
(* what was written before the connection was up first; the rest is still  *)
(* buffered, and a connected channel buffers nothing, but for what the     *)
(* ::write of on_connect is at (Acceptor.cpp:193-198, 288-302).            *)
WritesInOrder ==
  \A c \in Channels :
    LET waiting == IF writing = c THEN << >> ELSE send_buffer_[c]
    IN  /\ sent[c] \o waiting = [i \in 1..given[c] |-> i]
        /\ connected_[c] => waiting = << >>

(* A channel is disconnected, and its callback called, exactly once before *)
(* it is deleted, whether its retries ran out or its peer closed.          *)
DisconnectedOnce ==
  \A c \in Channels :
    /\ closes[c] <= 1
    /\ (fd_[c] # -1 /\ c \notin channels_) => closes[c] = 1
    /\ connected_[c] => closes[c] = 0

(* A channel whose disconnection was logged has its deletion ahead: the    *)
(* timer of on_disconnect is pending (Acceptor.cpp:242, 247-248).          *)
DeletionPending ==
  \A c \in channels_ : closes[c] > 0 => Check(c) \in reactor.active

(* Every channel comes to be connected or is deleted, and a disconnected   *)
(* one is deleted, unless the process ends up waiting for ever: in the read*)
(* that follows a full buffer, for a peer that sends no more, or in a      *)
(* write, for a peer that reads no more (Acceptor.cpp:188-198, 218-229,    *)
(* 300).                                                                   *)
Settles ==
  \/ <>[]~Idle
  \/ \A c \in Channels :
       [](c \in channels_ /\ ~connected_[c] => <>(connected_[c] \/ c \notin channels_))
         /\ [](closes[c] > 0 => <>(c \notin channels_))

(* The process comes back to its loop, whatever one peer does or fails to  *)
(* do.                                                                     *)
LoopGoesOn == []<>Idle

===============================================================================
