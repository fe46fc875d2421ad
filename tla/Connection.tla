------------------------------ MODULE Connection ------------------------------
(***************************************************************************)
(* The connections of a TCPServer (Server.hpp): Acceptor, Connection, the  *)
(* Channel of each connection, the Poller and the connection table, on the *)
(* base loop of the server, where NewConnection puts every connection.     *)
(*                                                                         *)
(* The loop is a FIFO executor here (module TaskQueue, which EventLoop     *)
(* implements): its thread polls, dispatches the ready channels, then runs *)
(* the functors it took from the pool.  Connections are named by their id. *)
(*                                                                         *)
(* Timers do not occur: TimerAdd arms none (module RunAfter), so HasTimer  *)
(* is false and TimerRefresh and TimerCancel return.  Input buffers do not *)
(* occur either: nothing enables reading on a connection, which is the     *)
(* subject of module Requests.                                             *)
(***************************************************************************)
EXTENDS Naturals, SequencesExt, FiniteSetsExt

CONSTANTS
  MaxConn,       \* bound: the number of connections accepted
  MaxCalls,      \* bound: the number of calls of Send and RunAfter
  MaxClosings,   \* bound: the number of calls of Shutdown and Release by the user
  MaxTimers,     \* bound: how many of them are calls of RunAfter
  Fd,            \* descriptors that accept may return
  None           \* the descriptor -1

ASSUME BoundAssumption == {MaxConn, MaxCalls, MaxClosings, MaxTimers} \subseteq Nat
ASSUME FdAssumption == Fd \subseteq Nat /\ None \notin Fd

Conn == 1 .. MaxConn + MaxTimers             \* RunAfter draws ids as well
Acceptor == 0                                \* the channel of the acceptor
Caller == {"loop", "other"}                  \* the loop's thread, another one
Data == Caller \X (1 .. MaxCalls)            \* who sent it, and the how-manieth
Functor == ({"Send"} \X Conn \X Data) \cup ({"Shutdown", "Release", "Remove"} \X Conn)

VARIABLES
  process,    \* up, exited by exit(1), or aborted by what is undefined
  phase,      \* what the loop's thread is doing
  cur,        \* the connection whose user code runs
  tasks,      \* _Tasks
  batch,      \* the functors taken from the pool, destroyed at the end
  ran,        \* how many of them have run
  active,     \* Activities, as far as they are not dispatched yet
  nextID,     \* _NextID
  table,      \* _Connections
  deletions,  \* how often the object of a connection was deleted
  kept,       \* connections of which the user holds a PtrConnection
  status,     \* _Status
  fdOf,       \* _Sockfd, and the descriptor of the channel
  sock,       \* the descriptor in _Socket
  out,        \* _OutputBuffer
  sent,       \* what went to the kernel
  events,     \* the channel's _events
  revents,    \* the channel's _revents
  channels,   \* the Poller's _channels
  interest,   \* the interest list of the epoll instance
  timers,     \* number of calls of RunAfter
  sends,      \* number of calls of Send
  closings,   \* number of calls of Shutdown and Release, by connection
  lastSend    \* the value of sends when the connection's socket was closed

loopVars == <<phase, cur, batch, ran, active>>
pollerVars == <<process, events, channels, interest>>
objectVars == <<nextID, table, deletions, kept, fdOf>>
callVars == <<timers, sends, closings, lastSend>>
vars == <<loopVars, pollerVars, objectVars, callVars, tasks, status, sock, out, sent, revents>>

(* EPOLLIN, EPOLLOUT, and EPOLLERR or EPOLLHUP, which are handled alike     *)
Events == {"IN", "OUT", "HUP"}
Without(f, x) == Restrict(f, DOMAIN f \ {x})
With(f, x, y) == [z \in DOMAIN f \cup {x} |-> IF z = x THEN y ELSE f[z]]

TypeOK ==
  /\ process \in {"up", "exited", "aborted"}
  /\ phase \in {"poll", "handle", "established", "event", "run"}
  /\ cur \in Conn \cup {Acceptor}
  /\ tasks \in Seq(Functor) /\ batch \in Seq(Functor) /\ ran \in 0 .. Len(batch)
  /\ active \subseteq Conn \cup {Acceptor}
  /\ nextID \in Nat
  /\ table \in [DOMAIN table -> Conn] /\ DOMAIN table \cup kept \subseteq 1 .. nextID
  /\ deletions \in [Conn -> 0 .. 2]
  /\ status \in [Conn -> {"DISCONNECTED", "DISCONNECTING"}]
  /\ fdOf \in [Conn -> Fd \cup {None}]
  /\ sock \in [Conn -> Fd \cup {None}] /\ \A c \in Conn : sock[c] \in {None, fdOf[c]}
  /\ out \in [Conn -> Seq(Data)] /\ sent \in [Conn -> Seq(Data)]
  /\ events \in [Conn -> SUBSET {"OUT"}] /\ revents \in [Conn -> SUBSET Events]
  /\ channels \in [DOMAIN channels -> Conn] /\ DOMAIN channels \subseteq Fd
  /\ interest \in [DOMAIN interest -> SUBSET {"OUT"}] /\ DOMAIN interest \subseteq Fd
  /\ timers \in 0 .. MaxTimers /\ sends \in 0 .. MaxCalls
  /\ closings \in [Conn -> Nat] /\ lastSend \in [Conn -> 0 .. MaxCalls]

Init ==
  /\ process = "up" /\ phase = "poll" /\ cur = Acceptor
  /\ tasks = <<>> /\ batch = <<>> /\ ran = 0 /\ active = {}
  /\ nextID = 0 /\ table = <<>> /\ kept = {} /\ deletions = [c \in Conn |-> 0]
  /\ status = [c \in Conn |-> "DISCONNECTED"]
  /\ fdOf = [c \in Conn |-> None] /\ sock = fdOf
  /\ out = [c \in Conn |-> <<>>] /\ sent = out
  /\ events = [c \in Conn |-> {}] /\ revents = events
  /\ channels = <<>> /\ interest = <<>>
  /\ timers = 0 /\ sends = 0 /\ closings = [c \in Conn |-> 0] /\ lastSend = closings

-----------------------------------------------------------------------------
(* Channel and Poller *)

Open == {sock[c] : c \in Conn} \ {None}
HasChannel(c) == fdOf[c] \in DOMAIN channels
WriteAble(c) == "OUT" \in revents[c]

(* epoll_ctl accepts open descriptors, and those already in the list for   *)
(* MOD and DEL only.                                                       *)
CtlFails(op, fd) == fd \notin Open \/ (op = "ADD" <=> fd \in DOMAIN interest)

UpdateChannel(c) ==
  LET fd == fdOf[c]
      op == IF HasChannel(c) THEN "MOD" ELSE "ADD"
  IN  /\ channels' = IF HasChannel(c) THEN channels ELSE With(channels, fd, c)
      /\ process' = IF CtlFails(op, fd) THEN "exited" ELSE process
      /\ interest' = IF CtlFails(op, fd) THEN interest ELSE With(interest, fd, events'[c])

EnableWrite(c) ==
  /\ events' = [events EXCEPT ![c] = @ \cup {"OUT"}]
  /\ UpdateChannel(c)

DisableWrite(c) ==
  /\ events' = [events EXCEPT ![c] = @ \ {"OUT"}]
  /\ UpdateChannel(c)

(* Channel::Remove, then Socket::Close, which takes the descriptor out of  *)
(* the epoll instance as well.                                             *)
RemoveAndClose(c) ==
  /\ channels' = Without(channels, fdOf[c])
  /\ process' = IF HasChannel(c) /\ CtlFails("DEL", fdOf[c]) THEN "exited" ELSE process
  /\ interest' = IF HasChannel(c) \/ sock[c] # None
                 THEN Without(interest, fdOf[c]) ELSE interest
  /\ sock' = [sock EXCEPT ![c] = None]
  /\ UNCHANGED events

-----------------------------------------------------------------------------
(* Connection *)

(* Mutant: the newest functor runs first. *)
QueueInFront(f) == tasks' = <<f>> \o tasks

QueueInLoop(f) == tasks' = Append(tasks, f)

Release(c) == QueueInLoop(<<"Release", c>>)

(* Output that is waiting gets monitored, unless the last events of the    *)
(* channel said it could be written.                                       *)
WatchOutput(c) == IF WriteAble(c) THEN UNCHANGED pollerVars ELSE EnableWrite(c)

(* Mutant: no test of the status *)
SendAlways(c, x) ==
  /\ out' = [out EXCEPT ![c] = Append(@, x)] /\ WatchOutput(c)
  /\ UNCHANGED <<tasks, status, sock>>

SendInLoop(c, x) ==
  /\ IF status[c] = "DISCONNECTED"
     THEN UNCHANGED <<out, pollerVars>>
     ELSE out' = [out EXCEPT ![c] = Append(@, x)] /\ WatchOutput(c)
  /\ UNCHANGED <<tasks, status, sock>>

(* Mutant: waits for HandleWrite to release the connection, always. *)
ShutdownWithoutRelease(c) ==
  /\ status' = [status EXCEPT ![c] = "DISCONNECTING"]
  /\ IF out[c] = <<>> THEN UNCHANGED pollerVars ELSE WatchOutput(c)
  /\ UNCHANGED <<tasks, out, sock>>

ShutdownInloop(c) ==
  /\ status' = [status EXCEPT ![c] = "DISCONNECTING"]
  /\ IF out[c] = <<>>
     THEN Release(c) /\ UNCHANGED pollerVars
     ELSE WatchOutput(c) /\ UNCHANGED tasks
  /\ UNCHANGED <<out, sock>>

(* Mutant: the socket stays open until the connection is deleted. *)
ReleaseWithoutClose(c) ==
  /\ status' = [status EXCEPT ![c] = "DISCONNECTED"]
  /\ channels' = Without(channels, fdOf[c]) /\ interest' = Without(interest, fdOf[c])
  /\ QueueInLoop(<<"Remove", c>>)
  /\ UNCHANGED <<out, process, events, sock>>

(* The close callback of the user is called here; then the server queues   *)
(* RemoveConnectionInLoop.                                                 *)
ReleaseInLoop(c) ==
  /\ status' = [status EXCEPT ![c] = "DISCONNECTED"]
  /\ RemoveAndClose(c)
  /\ QueueInLoop(<<"Remove", c>>)
  /\ UNCHANGED out

SendFails(c) ==
  /\ out[c] # <<>>
  /\ Release(c)
  /\ UNCHANGED <<out, sent, pollerVars>>

(* Mutant: the read index of the buffer does not advance. *)
SendTakesKeeping(c, n) ==
  /\ sent' = [sent EXCEPT ![c] = @ \o SubSeq(out[c], 1, n)]
  /\ UNCHANGED <<out, pollerVars, tasks>>

(* The socket takes the first n of what waits in the output buffer.  There *)
(* is nothing to be had from descriptor -1.                                *)
SendTakes(c, n) ==
  /\ n > 0 => sock[c] # None
  /\ sent' = [sent EXCEPT ![c] = @ \o SubSeq(out[c], 1, n)]
  /\ out' = [out EXCEPT ![c] = SubSeq(@, n + 1, Len(@))]
  /\ IF out'[c] = <<>> THEN DisableWrite(c) ELSE UNCHANGED pollerVars
  /\ IF out'[c] = <<>> /\ status[c] = "DISCONNECTING"
     THEN Release(c) ELSE UNCHANGED tasks

HandleWrite(c) ==
  \/ SendFails(c)
  \/ \E n \in 0 .. Len(out[c]) : (n = 0 <=> out[c] = <<>>) /\ SendTakes(c, n)

(* HandleClose, and HandleError, which calls it *)
HandleClose(c) ==
  /\ Release(c)
  /\ UNCHANGED <<out, sent, pollerVars>>

(* Channel::HandleEvent after the read callback (module Requests).  The    *)
(* event callback, which comes last, is user code and runs in phase event. *)
HandleEvent(c) ==
  \/ /\ "OUT" \in revents[c]
     /\ HandleWrite(c)
  \/ /\ "OUT" \notin revents[c] /\ "HUP" \in revents[c]
     /\ HandleClose(c)

-----------------------------------------------------------------------------
(* The base loop *)

(* Level-triggered: errors and hang-ups are reported for every descriptor  *)
(* in the list, and the timerfd makes epoll_wait return with none of them. *)
Poll ==
  /\ process = "up" /\ phase = "poll"
  /\ phase' = "handle"
  /\ \E S \in SUBSET DOMAIN interest, A \in SUBSET {Acceptor} :
       LET ready == {channels[fd] : fd \in S}
       IN  /\ active' = ready \cup A
           /\ \E got \in [ready -> (SUBSET Events) \ {{}}] :
                /\ \A c \in ready : got[c] \subseteq interest[fdOf[c]] \cup {"HUP"}
                /\ revents' = [c \in Conn |-> IF c \in ready THEN got[c] ELSE revents[c]]
  /\ UNCHANGED <<cur, batch, ran, pollerVars, objectVars, callVars, tasks, status, sock, out, sent>>

Dispatch(c) ==
  /\ process = "up" /\ phase = "handle" /\ c \in active
  /\ active' = active \ {c}
  /\ HandleEvent(c)
  /\ phase' = "event" /\ cur' = c
  /\ UNCHANGED <<batch, ran, objectVars, callVars, status, sock, revents>>

EventReturns ==
  /\ process = "up" /\ phase = "event"
  /\ phase' = "handle" /\ cur' = Acceptor
  /\ UNCHANGED <<batch, ran, active, pollerVars, objectVars, callVars, tasks, status, sock, out, sent, revents>>

(* accept returns the lowest descriptor that is not open. *)
LowestFree == {fd \in Fd \ Open : \A g \in Fd \ Open : fd <= g}

(* Acceptor::HandleRead and NewConnection up to the callback that          *)
(* EstablishedInLoop calls                                                 *)
NewConnection(fd) ==
  /\ process = "up" /\ phase = "handle" /\ Acceptor \in active
  /\ fd \in LowestFree /\ nextID - timers < MaxConn
  /\ active' = active \ {Acceptor}
  /\ nextID' = nextID + 1
  /\ cur' = nextID' /\ phase' = "established"
  /\ fdOf' = [fdOf EXCEPT ![nextID'] = fd]
  /\ sock' = [sock EXCEPT ![nextID'] = fd]
  /\ UNCHANGED <<batch, ran, table, deletions, kept, pollerVars, callVars, tasks, status, out, sent, revents>>

(* Mutant: the id of the entry is advanced before it is used. *)
InsertUnderNextID ==
  /\ process = "up" /\ phase = "established"
  /\ table' = With(table, nextID + 1, cur)
  /\ phase' = "handle" /\ cur' = Acceptor
  /\ UNCHANGED <<batch, ran, active, nextID, deletions, kept, fdOf, pollerVars, callVars, tasks, status, sock, out, sent, revents>>

(* ... and from there: the entry's key is the last id drawn by now. *)
EstablishedReturns ==
  /\ process = "up" /\ phase = "established"
  /\ table' = With(table, nextID, cur)
  /\ phase' = "handle" /\ cur' = Acceptor
  /\ UNCHANGED <<batch, ran, active, nextID, deletions, kept, fdOf, pollerVars, callVars, tasks, status, sock, out, sent, revents>>

AcceptFails ==
  /\ process = "up" /\ phase = "handle" /\ Acceptor \in active
  /\ active' = active \ {Acceptor}
  /\ UNCHANGED <<phase, cur, batch, ran, pollerVars, objectVars, callVars, tasks, status, sock, out, sent, revents>>

(* Mutant: the pool is run before the ready channels are dispatched. *)
TakeTasksEarly ==
  /\ process = "up" /\ phase = "handle"
  /\ phase' = "run"
  /\ batch' = tasks /\ tasks' = <<>>
  /\ UNCHANGED <<cur, ran, active, pollerVars, objectVars, callVars, status, sock, out, sent, revents>>

TakeTasks ==
  /\ process = "up" /\ phase = "handle" /\ active = {}
  /\ phase' = "run"
  /\ batch' = tasks /\ tasks' = <<>>
  /\ UNCHANGED <<cur, ran, active, pollerVars, objectVars, callVars, status, sock, out, sent, revents>>

(* RemoveConnectionInLoop: the table held the last pointer of its kind, so *)
(* the object is deleted, its socket included; if it is found.             *)
RemoveConnectionInLoop(c) ==
  /\ c \in DOMAIN table
  /\ table' = Without(table, c)
  /\ deletions' = [deletions EXCEPT ![c] = 1]
  /\ sock' = [sock EXCEPT ![c] = None]
  /\ interest' = IF sock[c] = None THEN interest ELSE Without(interest, sock[c])
  /\ UNCHANGED <<process, events, channels, tasks, status, out>>

(* How many Sends were called by the time the socket is closed *)
NoteSends(c) ==
  lastSend' = IF sock[c] = None THEN lastSend ELSE [lastSend EXCEPT ![c] = sends]

(* A functor binds the bare address of its connection: nothing tells it    *)
(* that the object was deleted, and it acts on what the memory holds.      *)
RunTask ==
  /\ process = "up" /\ phase = "run" /\ ran < Len(batch)
  /\ ran' = ran + 1
  /\ LET f == batch[ran + 1]
         c == f[2]
     IN  \/ f[1] = "Send" /\ SendInLoop(c, f[3]) /\ UNCHANGED <<table, deletions, lastSend>>
         \/ f[1] = "Shutdown" /\ ShutdownInloop(c) /\ UNCHANGED <<table, deletions, lastSend>>
         \/ f[1] = "Release" /\ ReleaseInLoop(c) /\ NoteSends(c) /\ UNCHANGED <<table, deletions>>
         \/ f[1] = "Remove" /\ RemoveConnectionInLoop(c) /\ UNCHANGED lastSend
         \/ /\ f[1] = "Remove" /\ c \notin DOMAIN table
            /\ UNCHANGED <<table, deletions, lastSend, pollerVars, tasks, status, sock, out>>
  /\ UNCHANGED <<phase, cur, batch, active, nextID, kept, fdOf, timers, sends, closings, sent, revents>>

(* A PtrConnection comes from shared_from_this, which counts apart from    *)
(* the table's pointer because of _Ptr: when the last one of them goes,    *)
(* the object is deleted again.  The allocator notices, or not.            *)
Orphans(holders, functors) ==
  {c \in Conn : deletions[c] = 1 /\ c \notin holders /\ <<"Remove", c>> \notin functors}

DeleteAgain(S) ==
  /\ deletions' = [c \in Conn |-> IF c \in S THEN 2 ELSE deletions[c]]
  /\ process' \in IF S = {} THEN {process} ELSE {"up", "aborted"}

EndIteration ==
  /\ process = "up" /\ phase = "run" /\ ran = Len(batch)
  /\ phase' = "poll"
  /\ batch' = <<>> /\ ran' = 0
  /\ DeleteAgain(Orphans(kept, Range(tasks)))
  /\ UNCHANGED <<cur, active, nextID, table, kept, fdOf, events, channels, interest, callVars, tasks, status, sock, out, sent, revents>>

-----------------------------------------------------------------------------
(* User code: in the event callback of cur on the loop's thread, or on     *)
(* another thread with a pointer it kept.  Nothing tells a caller whether  *)
(* the connection has been closed, or deleted, in the meantime.            *)

InUserCode == phase \in {"established", "event"}

MayCall(who, c) ==
  /\ process = "up"
  /\ \/ who = "other" /\ c \in kept
     \/ who = "loop" /\ InUserCode /\ (c = cur \/ c \in kept)

Keep ==
  /\ process = "up" /\ InUserCode /\ cur \notin kept
  /\ kept' = kept \cup {cur}
  /\ UNCHANGED <<loopVars, pollerVars, nextID, table, deletions, fdOf, callVars, tasks, status, sock, out, sent, revents>>

Drop(c) ==
  /\ process = "up" /\ c \in kept
  /\ kept' = kept \ {c}
  /\ DeleteAgain(Orphans(kept \ {c}, Range(tasks) \cup Range(batch)) \cap {c})
  /\ UNCHANGED <<loopVars, nextID, table, fdOf, events, channels, interest, callVars, tasks, status, sock, out, sent, revents>>

(* RunAfter of the server, called while a connection is established: it    *)
(* draws an id, and no timer comes of it.                                  *)
RunAfter ==
  /\ process = "up" /\ phase = "established" /\ timers < MaxTimers /\ sends + timers < MaxCalls
  /\ timers' = timers + 1 /\ nextID' = nextID + 1
  /\ UNCHANGED <<loopVars, pollerVars, table, deletions, kept, fdOf, sends, closings, lastSend, tasks, status, sock, out, sent, revents>>

(* RunInLoop: at once on the loop's thread, else through the pool *)
Send(who, c) ==
  LET x == <<who, sends + 1>>
  IN  /\ MayCall(who, c) /\ sends + timers < MaxCalls
      /\ sends' = sends + 1
      /\ IF who = "loop"
         THEN SendInLoop(c, x)
         ELSE QueueInLoop(<<"Send", c, x>>) /\ UNCHANGED <<pollerVars, status, sock, out>>
      /\ UNCHANGED <<loopVars, objectVars, timers, closings, lastSend, sent, revents>>

CountClosing(who, c) ==
  /\ MayCall(who, c) /\ MapThenSumSet(LAMBDA k : closings[k], Conn) < MaxClosings
  /\ closings' = [closings EXCEPT ![c] = @ + 1]
  /\ UNCHANGED <<loopVars, objectVars, timers, sends, lastSend, sent, revents>>

Shutdown(who, c) ==
  /\ CountClosing(who, c)
  /\ IF who = "loop"
     THEN ShutdownInloop(c)
     ELSE QueueInLoop(<<"Shutdown", c>>) /\ UNCHANGED <<pollerVars, status, sock, out>>

(* Release, which queues on any thread *)
UserRelease(who, c) ==
  /\ CountClosing(who, c)
  /\ Release(c)
  /\ UNCHANGED <<pollerVars, status, sock, out>>

-----------------------------------------------------------------------------
(* Whoever steps on a deleted object finds its old contents, as every      *)
(* other action says, or ends the process.                                 *)

SteppedOn ==
  kept \cup (active \ {Acceptor})
    \cup (IF phase = "poll" THEN Range(channels) ELSE {})
    \cup (IF ran < Len(batch) THEN {batch[ran + 1][2]} ELSE {})

TouchFreed ==
  /\ process = "up" /\ \E c \in SteppedOn : deletions[c] > 0
  /\ process' = "aborted"
  /\ UNCHANGED <<loopVars, events, channels, interest, objectVars, callVars, tasks, status, sock, out, sent, revents>>

(* What the loop's thread does outside of user code, and the return from it *)
LoopStep ==
  \/ Poll
  \/ \E c \in Conn : Dispatch(c)
  \/ EventReturns
  \/ \E fd \in Fd : NewConnection(fd)
  \/ EstablishedReturns
  \/ AcceptFails
  \/ TakeTasks
  \/ RunTask
  \/ EndIteration

UserStep ==
  \/ Keep
  \/ RunAfter
  \/ \E c \in Conn : Drop(c)
  \/ \E who \in Caller, c \in Conn : Send(who, c) \/ Shutdown(who, c) \/ UserRelease(who, c)

Next == LoopStep \/ UserStep \/ TouchFreed

Spec == Init /\ [][Next]_vars

FairSpec == Spec /\ WF_vars(LoopStep)

-----------------------------------------------------------------------------
(* A second Shutdown or Release of the same connection, by threads that do *)
(* not know of each other                                                  *)
ClosedOnce == \A c \in Conn : closings[c] <= 1

(* The Poller's map and the epoll instance agree, every registered channel *)
(* is the one of an open connection, and epoll_ctl, whose failure ends the *)
(* process (Poller::UpdateChannel), never fails, also when a released      *)
(* connection's descriptor is accepted again before the connection leaves  *)
(* the table; as long as nobody closes a connection twice.                 *)
PollerMatchesKernel ==
  ClosedOnce =>
    /\ process # "exited"
    /\ DOMAIN channels = DOMAIN interest
    /\ \A fd \in DOMAIN channels :
         sock[channels[fd]] = fd /\ interest[fd] = events[channels[fd]]

(* Start goes through Activities after the first handlers of the round     *)
(* have run user code: what is still to be dispatched has not been removed *)
(* or closed in the meantime.                                              *)
DispatchedIsRegistered == active \ {Acceptor} \subseteq Range(channels)

(* The functors that have not been run yet *)
Waiting == Range(tasks) \cup {batch[i] : i \in ran + 1 .. Len(batch)}

(* Functors bind the bare address of a connection (Send, Shutdown,         *)
(* Release).  When the connection is deleted, none of them is left, and no *)
(* channel is, as long as nobody closes it twice; but the functor of a     *)
(* Send that another thread calls after the socket was closed may be, and  *)
(* it will run on what was deleted.                                        *)
DeletedIsForgotten ==
  \A c \in Conn : deletions[c] > 0 /\ closings[c] <= 1 =>
    /\ c \notin Range(channels) \cup active
    /\ \A f \in Waiting : f[2] = c =>
         f[1] = "Remove" \/ (f[1] = "Send" /\ f[3][2] > lastSend[c])

(* What one thread sends on a connection leaves in the order of its calls, *)
(* each at most once, through pool, output buffer and partial writes.      *)
SentInOrder ==
  \A c \in Conn, who \in Caller :
    LET line == sent[c] \o out[c]
    IN  \A i, j \in DOMAIN line :
          i < j /\ line[i][1] = who /\ line[j][1] = who => line[i][2] < line[j][2]

(* The life of a connection as its user sees it *)
Life == [c \in Conn |->
  IF fdOf[c] = None THEN "none"
  ELSE IF deletions[c] > 0 THEN "forgotten"
  ELSE IF sock[c] = None THEN "closed"
  ELSE IF status[c] = "DISCONNECTING" THEN "closing" ELSE "open"]

CL == INSTANCE ConnectionLife WITH
        life <- Life,
        asked <- {c \in Conn : closings[c] > 0},
        pending <- [c \in Conn |-> IF sock[c] = None THEN <<>> ELSE out[c]],
        delivered <- sent

(* Whatever the order of Send, Shutdown, Release, hang-ups, partial writes *)
(* and failing sends, a connection goes through its life once: it is shut  *)
(* down and closed only if its user called Shutdown or Release, takes      *)
(* nothing new once it is closed, and is forgotten only when it is closed. *)
ImplementsConnectionLife == CL!Spec

(* Connections that their user has shut down or released and that still    *)
(* have their descriptor or their entry in the table.  One that is in the  *)
(* table under an id that RunAfter drew meanwhile keeps its entry.         *)
Unclosed ==
  {c \in Conn : closings[c] > 0 /\ (sock[c] # None \/ (c \in DOMAIN table /\ table[c] = c))}

(* They are closed and leave the table, unless the process ends: with      *)
(* finitely many calls, there is a time when none of them is left.         *)
ShutdownCloses == Unclosed # {} ~> Unclosed = {} \/ process # "up"

=============================================================================
