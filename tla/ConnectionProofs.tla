---------------------------- MODULE ConnectionProofs ----------------------------
(***************************************************************************)
(* Proofs about Connection, for any number of connections, calls and       *)
(* descriptors: what is dispatched is registered, data leaves in order,    *)
(* the Poller agrees with the kernel, a deleted connection is forgotten,   *)
(* and the server implements the life of a connection.                     *)
(***************************************************************************)
EXTENDS Connection, Integers, SequenceTheorems, TLAPS

(* The functors that have not been run yet, in their order *)
Queue == SubSeq(batch, ran + 1, Len(batch)) \o tasks
Waits(f) == f \in Range(Queue)

-----------------------------------------------------------------------------
(* What the objects are *)

(* Ids are drawn in turn, and only those that accept got a descriptor for  *)
(* are connections.                                                        *)
IdsInTurn ==
  /\ nextID <= MaxConn + timers
  /\ \A c \in Conn : fdOf[c] # None => c <= nextID
  /\ InUserCode => cur \in Conn /\ fdOf[cur] # None

KnownOnly ==
  /\ \A c \in kept : fdOf[c] # None
  /\ \A f \in Range(Queue) : fdOf[f[2]] # None

(* The Poller's entry of a descriptor is the channel that has it, and what *)
(* the kernel watches is in the Poller's map.                              *)
OwnChannels ==
  /\ \A fd \in DOMAIN channels : fdOf[channels[fd]] = fd
  /\ DOMAIN interest \subseteq DOMAIN channels

(* The loop has gone through Activities when it runs the pool, and has no  *)
(* batch when it does not.                                                 *)
OneThingAtATime ==
  /\ phase \in {"poll", "run"} => active = {}
  /\ phase # "run" => batch = <<>> /\ ran = 0

Objects ==
  /\ TypeOK /\ IdsInTurn /\ KnownOnly /\ OwnChannels
  /\ OneThingAtATime /\ DispatchedIsRegistered

-----------------------------------------------------------------------------
(* The order of what is sent *)

Line(c) == sent[c] \o out[c]

LineInOrder(s) ==
  \A i, j \in DOMAIN s : i < j /\ s[i][1] = s[j][1] => s[i][2] < s[j][2]

(* Functors of Send wait in the order of the calls, of which there were n. *)
SendsInOrder(q, n) ==
  /\ \A f \in Range(q) : f[1] = "Send" => f[3][1] = "other" /\ f[3][2] <= n
  /\ \A i, j \in DOMAIN q :
       i < j /\ q[i][1] = "Send" /\ q[j][1] = "Send" => q[i][3][2] < q[j][3][2]

(* What is in the output buffer or beyond was sent before what waits. *)
IsBefore(s, q, c, n) ==
  \A i \in DOMAIN s :
    /\ s[i][2] <= n
    /\ \A f \in Range(q) :
         s[i][1] = "other" /\ f[1] = "Send" /\ f[2] = c => s[i][2] < f[3][2]

Order ==
  /\ \A c \in Conn : LineInOrder(Line(c)) /\ IsBefore(Line(c), Queue, c, sends)
  /\ SendsInOrder(Queue, sends)

-----------------------------------------------------------------------------
(* The life of a connection *)

(* An id without a connection is as Init left it. *)
UnusedIsUntouched ==
  \A c \in Conn : fdOf[c] = None =>
    status[c] = "DISCONNECTED" /\ deletions[c] = 0 /\ out[c] = <<>>

(* Output waits in an open connection only while it is being closed. *)
OutputMeansClosing ==
  \A c \in Conn : sock[c] # None /\ out[c] # <<>> => status[c] = "DISCONNECTING"

(* RemoveConnectionInLoop waits for closed connections only. *)
RemovedAreClosed ==
  \A c \in Conn : deletions[c] > 0 \/ Waits(<<"Remove", c>>) => sock[c] = None

Lives == UnusedIsUntouched /\ OutputMeansClosing /\ RemovedAreClosed

-----------------------------------------------------------------------------
(* Closing once *)

CalledOnce(c) == closings[c] <= 1
NotRegistered(c) == c \notin Range(channels)

(* Nothing closes a connection before its user does: errors and hang-ups   *)
(* are reported for registered channels, and output registers them.        *)
OpenUntilCalled(c) ==
  closings[c] = 0 =>
    /\ status[c] = "DISCONNECTED" /\ deletions[c] = 0 /\ NotRegistered(c)
    /\ sock[c] = fdOf[c]
    /\ ~Waits(<<"Shutdown", c>>) /\ ~Waits(<<"Release", c>>) /\ ~Waits(<<"Remove", c>>)

AtMostOnce(q, f) == \A i, j \in DOMAIN q : q[i] = f /\ q[j] = f => i = j

(* The one Shutdown finds the connection as Established left it. *)
ShutdownFindsItOpen(c) ==
  Waits(<<"Shutdown", c>>) =>
    /\ status[c] = "DISCONNECTED" /\ deletions[c] = 0 /\ NotRegistered(c)
    /\ sock[c] # None
    /\ ~Waits(<<"Release", c>>)
    /\ AtMostOnce(Queue, <<"Shutdown", c>>)

RegisteredIsClosing(c) ==
  /\ ~NotRegistered(c) => status[c] = "DISCONNECTING"
  /\ status[c] = "DISCONNECTING" => sock[c] # None

(* A functor that may run on a deleted object when the socket was closed   *)
(* after n Sends: a removal, or a Send called since then                   *)
IsLate(f, n) == f[1] = "Remove" \/ (f[1] = "Send" /\ f[3][2] > n)

OnlyLate(q, c, n) == \A f \in Range(q) : f[2] = c => IsLate(f, n)

RemovesLast(q, c, n) ==
  \A i, j \in DOMAIN q : i < j /\ q[i] = <<"Remove", c>> /\ q[j][2] = c => IsLate(q[j], n)

(* Behind the first RemoveConnectionInLoop there is nothing else. *)
RemoveComesLast(c) ==
  /\ deletions[c] > 0 => OnlyLate(Queue, c, lastSend[c])
  /\ RemovesLast(Queue, c, lastSend[c])

ClosingOf(c) ==
  CalledOnce(c) =>
    /\ OpenUntilCalled(c) /\ ShutdownFindsItOpen(c)
    /\ RegisteredIsClosing(c) /\ RemoveComesLast(c)

Closing == \A c \in Conn : ClosingOf(c)

(* Sends are numbered in turn. *)
NotedInTurn == \A c \in Conn : lastSend[c] <= sends

-----------------------------------------------------------------------------
(* Descriptors *)

InBatch(f) == \E i \in ran + 1 .. Len(batch) : batch[i] = f

SocketsDiffer ==
  \A c, d \in Conn : sock[c] = sock[d] /\ sock[c] # None => c = d

(* A second ReleaseInLoop comes before the descriptor of the first one is  *)
(* accepted again.                                                         *)
ReleasedInOneBatch(c) ==
  CalledOnce(c) =>
    /\ InBatch(<<"Release", c>>) \/ sock[c] = None => <<"Release", c>> \notin Range(tasks)
    /\ InBatch(<<"Release", c>>) /\ sock[c] = None => fdOf[c] \notin Open

(* What PollerMatchesKernel says *)
Matches ==
  /\ process # "exited"
  /\ DOMAIN channels = DOMAIN interest
  /\ \A fd \in DOMAIN channels :
       sock[channels[fd]] = fd /\ interest[fd] = events[channels[fd]]

Descriptors ==
  /\ SocketsDiffer
  /\ \A c \in Conn : ReleasedInOneBatch(c)
  /\ ClosedOnce => Matches

IInv == Objects /\ Order /\ NotedInTurn /\ Lives /\ Closing /\ Descriptors

-----------------------------------------------------------------------------
(* Sequences *)

LEMMA Appended ==
  ASSUME NEW S, NEW q \in Seq(S), NEW e \in S
  PROVE  /\ Append(q, e) \in Seq(S) /\ Len(q) \in Nat
         /\ DOMAIN q = 1 .. Len(q) /\ DOMAIN Append(q, e) = 1 .. Len(q) + 1
         /\ \A i \in 1 .. Len(q) : Append(q, e)[i] = q[i]
         /\ Append(q, e)[Len(q) + 1] = e
         /\ \A x : x \in Range(Append(q, e)) <=> x \in Range(q) \/ x = e
<1>1. /\ Append(q, e) \in Seq(S) /\ Len(Append(q, e)) = Len(q) + 1 /\ Len(q) \in Nat
      /\ \A i \in 1 .. Len(q) : Append(q, e)[i] = q[i]
      /\ Append(q, e)[Len(q) + 1] = e
  BY AppendProperties, LenProperties
<1>2. DOMAIN q = 1 .. Len(q) /\ DOMAIN Append(q, e) = 1 .. Len(q) + 1
  BY <1>1, LenProperties
<1>3. /\ Len(q) + 1 \in 1 .. Len(q) + 1
      /\ \A i \in 1 .. Len(q) + 1 : i \in 1 .. Len(q) \/ i = Len(q) + 1
      /\ \A i \in 1 .. Len(q) : i \in 1 .. Len(q) + 1
  BY <1>1
<1>4. \A x : x \in Range(Append(q, e)) <=> x \in Range(q) \/ x = e
  BY <1>1, <1>2, <1>3 DEF Range
<1> QED
  BY <1>1, <1>2, <1>4

LEMMA TailOf ==
  ASSUME NEW S, NEW q \in Seq(S), q # <<>>
  PROVE  /\ Tail(q) \in Seq(S) /\ Len(q) \in Nat \ {0} /\ q[1] \in S
         /\ DOMAIN q = 1 .. Len(q) /\ DOMAIN Tail(q) = 1 .. Len(q) - 1
         /\ \A i \in 1 .. Len(q) - 1 : Tail(q)[i] = q[i + 1]
         /\ \A x : x \in Range(q) <=> x \in Range(Tail(q)) \/ x = q[1]
<1>1. /\ Tail(q) \in Seq(S) /\ Len(Tail(q)) = Len(q) - 1
      /\ \A i \in 1 .. Len(Tail(q)) : Tail(q)[i] = q[i + 1]
  BY HeadTailProperties
<1>2. Len(q) \in Nat \ {0} /\ DOMAIN q = 1 .. Len(q) /\ DOMAIN Tail(q) = 1 .. Len(q) - 1
  BY <1>1, LenProperties, EmptySeq
<1>3. q[1] \in S
  BY <1>2, ElementOfSeq
<1>4. /\ 1 \in 1 .. Len(q)
      /\ \A i \in 1 .. Len(q) : i = 1 \/ (i - 1 \in 1 .. Len(q) - 1 /\ (i - 1) + 1 = i)
      /\ \A i \in 1 .. Len(q) - 1 : i + 1 \in 1 .. Len(q)
  BY <1>2
<1>5. \A i \in 1 .. Len(q) : i = 1 \/ (i - 1 \in 1 .. Len(q) - 1 /\ Tail(q)[i - 1] = q[i])
  BY <1>1, <1>4
<1>6. ASSUME NEW x
      PROVE  x \in Range(q) <=> x \in Range(Tail(q)) \/ x = q[1]
  <2>1. x \in Range(q) <=> \E i \in 1 .. Len(q) : x = q[i]
    BY <1>2 DEF Range
  <2>2. x \in Range(Tail(q)) <=> \E i \in 1 .. Len(q) - 1 : x = Tail(q)[i]
    BY <1>2 DEF Range
  <2>3. \A i \in 1 .. Len(q) - 1 : Tail(q)[i] = q[i + 1]
    BY <1>1
  <2> QED
    BY <1>4, <1>5, <2>1, <2>2, <2>3
<1> QED
  BY <1>1, <1>2, <1>3, <1>6

-----------------------------------------------------------------------------
(* The queue, over pool and batch *)

LEMMA QueueIsTyped ==
  ASSUME TypeOK
  PROVE  /\ Queue \in Seq(Functor) /\ SubSeq(batch, ran + 1, Len(batch)) \in Seq(Functor)
         /\ Range(Queue) = Waiting
         /\ \A f : f \in Range(Queue) <=> InBatch(f) \/ f \in Range(tasks)
<1>1. /\ batch \in Seq(Functor) /\ tasks \in Seq(Functor) /\ ran \in 0 .. Len(batch)
      /\ Len(batch) \in Nat
  BY LenProperties DEF TypeOK
<1>2. PICK rest : rest = SubSeq(batch, ran + 1, Len(batch))
  OBVIOUS
<1>3. /\ rest \in Seq(Functor)
      /\ Len(rest) = Len(batch) - ran
      /\ \A i \in 1 .. Len(batch) - ran : rest[i] = batch[ran + i]
  <2>1. \A i \in ran + 1 .. Len(batch) : batch[i] \in Functor
    BY <1>1, ElementOfSeq
  <2>2. ran + 1 \in Int /\ Len(batch) \in Int
    BY <1>1
  <2>3. /\ rest \in Seq(Functor)
        /\ Len(rest) = IF ran + 1 <= Len(batch) THEN Len(batch) - (ran + 1) + 1 ELSE 0
        /\ \A i \in 1 .. Len(batch) - (ran + 1) + 1 : rest[i] = batch[(ran + 1) + i - 1]
    BY <1>2, <2>1, <2>2, SubSeqProperties
  <2> QED
    BY <1>1, <2>3
<1>4. Queue \in Seq(Functor) /\ Range(Queue) = Range(rest) \cup Range(tasks)
  <2>1. Queue = rest \o tasks
    BY <1>2 DEF Queue
  <2>2. rest \in Seq(Functor) /\ tasks \in Seq(Functor)
    BY <1>1, <1>3
  <2>3. rest \o tasks \in Seq(Functor)
    BY <2>2, ConcatProperties
  <2>4. Range(rest \o tasks) = Range(rest) \cup Range(tasks)
    BY <2>2, RangeConcatenation
  <2> QED
    BY <2>1, <2>3, <2>4
<1>5. \A f : f \in Range(rest) <=> InBatch(f)
  <2>1. DOMAIN rest = 1 .. Len(batch) - ran
    BY <1>3, LenProperties
  <2>2. \A i \in 1 .. Len(batch) - ran : ran + i \in ran + 1 .. Len(batch)
    BY <1>1
  <2>3. \A j \in ran + 1 .. Len(batch) : j - ran \in 1 .. Len(batch) - ran /\ ran + (j - ran) = j
    BY <1>1
  <2> QED
    BY <1>3, <2>1, <2>2, <2>3 DEF Range, InBatch
<1>6. \A f : f \in Waiting <=> InBatch(f) \/ f \in Range(tasks)
  BY DEF Waiting, InBatch
<1> QED
  BY <1>2, <1>3, <1>4, <1>5, <1>6

(* QueueInLoop queues behind everything. *)
LEMMA QueueGets ==
  ASSUME TypeOK, NEW f \in Functor, tasks' = Append(tasks, f), UNCHANGED <<batch, ran>>
  PROVE  Queue' = Append(Queue, f) /\ \A g : InBatch(g)' <=> InBatch(g)
<1>1. PICK rest : rest = SubSeq(batch, ran + 1, Len(batch))
  OBVIOUS
<1>2. rest \in Seq(Functor) /\ tasks \in Seq(Functor) /\ <<f>> \in Seq(Functor)
  BY <1>1, QueueIsTyped DEF TypeOK
<1>3. Queue = rest \o tasks /\ Queue' = rest \o Append(tasks, f)
  BY <1>1 DEF Queue
<1>4. Queue' = rest \o (tasks \o <<f>>)
  BY <1>2, <1>3, AppendIsConcat
<1>5. Queue' = (rest \o tasks) \o <<f>>
  BY <1>2, <1>4, ConcatAssociative
<1>6. rest \o tasks \in Seq(Functor)
  BY <1>2, ConcatProperties
<1>7. Append(Queue, f) = Queue \o <<f>>
  BY <1>3, <1>6, AppendIsConcat
<1> QED
  BY <1>3, <1>5, <1>7 DEF InBatch

LEMMA QueueKeeps ==
  ASSUME UNCHANGED <<tasks, batch, ran>>
  PROVE  Queue' = Queue /\ \A g : InBatch(g)' <=> InBatch(g)
  BY DEF Queue, InBatch

(* RunTask takes the first functor. *)
LEMMA QueueRuns ==
  ASSUME TypeOK, ran < Len(batch), ran' = ran + 1, UNCHANGED batch
  PROVE  /\ Queue # <<>> /\ batch[ran + 1] = Queue[1]
         /\ batch[ran + 1] \in Functor /\ InBatch(batch[ran + 1])
         /\ tasks' = tasks => Queue' = Tail(Queue)
         /\ \A f \in Functor : tasks' = Append(tasks, f) => Queue' = Append(Tail(Queue), f)
         /\ \A g : InBatch(g)' => InBatch(g)
<1>1. /\ batch \in Seq(Functor) /\ tasks \in Seq(Functor) /\ ran \in Nat /\ Len(batch) \in Nat
      /\ ran + 1 \in 1 .. Len(batch) /\ Len(batch) \in ran + 1 .. Len(batch)
  BY LenProperties DEF TypeOK
<1>2. PICK rest : rest = SubSeq(batch, (ran + 1) + 1, Len(batch))
  OBVIOUS
<1>3. SubSeq(batch, ran + 1, Len(batch)) = <<batch[ran + 1]>> \o rest
  BY <1>1, <1>2, SubSeqRecursiveFirst
<1>4. batch[ran + 1] \in Functor
  BY <1>1, ElementOfSeq
<1>5. rest \in Seq(Functor)
  <2>1. \A i \in (ran + 1) + 1 .. Len(batch) : batch[i] \in Functor
    BY <1>1, ElementOfSeq
  <2>2. (ran + 1) + 1 \in Int /\ Len(batch) \in Int
    BY <1>1
  <2> QED
    BY <1>2, <2>1, <2>2, SubSeqProperties
<1>6. PICK q : q = rest \o tasks
  OBVIOUS
<1>7. q \in Seq(Functor) /\ Queue = <<batch[ran + 1]>> \o q
  <2>1. <<batch[ran + 1]>> \in Seq(Functor)
    BY <1>4
  <2>2. tasks \in Seq(Functor)
    BY <1>1
  <2>3. (<<batch[ran + 1]>> \o rest) \o tasks = <<batch[ran + 1]>> \o (rest \o tasks)
    BY <1>5, <2>1, <2>2, ConcatAssociative
  <2>4. rest \o tasks \in Seq(Functor)
    BY <1>5, <2>2, ConcatProperties
  <2>5. Queue = (<<batch[ran + 1]>> \o rest) \o tasks
    BY <1>3 DEF Queue
  <2> QED
    BY <1>6, <2>3, <2>4, <2>5
<1>8. Queue # <<>> /\ Queue[1] = batch[ran + 1] /\ Tail(Queue) = q
  <2>1. PICK e \in Functor : e = batch[ran + 1]
    BY <1>4
  <2>2. <<e>> \in Seq(Functor) /\ Len(<<e>>) = 1 /\ <<e>>[1] = e
    OBVIOUS
  <2>3. /\ Queue \in Seq(Functor) /\ Len(Queue) = 1 + Len(q) /\ Len(q) \in Nat
        /\ \A i \in 1 .. 1 + Len(q) : Queue[i] = IF i <= 1 THEN <<e>>[i] ELSE q[i - 1]
    BY <1>7, <2>1, <2>2, ConcatProperties, LenProperties
  <2>4. Queue # <<>> /\ Queue[1] = e
    BY <2>2, <2>3
  <2>5. /\ Tail(Queue) \in Seq(Functor) /\ Len(Tail(Queue)) = Len(q)
        /\ \A i \in 1 .. Len(q) : Tail(Queue)[i] = Queue[i + 1]
    BY <2>3, <2>4, HeadTailProperties
  <2>6. \A i \in 1 .. Len(q) : Tail(Queue)[i] = q[i]
    BY <2>3, <2>5
  <2>7. Tail(Queue) = q
    BY <1>7, <2>5, <2>6, SeqEqual
  <2> QED
    BY <2>1, <2>4, <2>7
<1>9. Queue' = rest \o tasks'
  BY <1>2 DEF Queue
<1>10. ASSUME NEW f \in Functor, tasks' = Append(tasks, f)
       PROVE  Queue' = Append(q, f)
  <2>1. <<f>> \in Seq(Functor)
    OBVIOUS
  <2>0. tasks \in Seq(Functor)
    BY <1>1
  <2>2. Queue' = rest \o (tasks \o <<f>>)
    BY <1>9, <1>10, <2>0, AppendIsConcat
  <2>3. Queue' = (rest \o tasks) \o <<f>>
    BY <1>5, <2>0, <2>1, <2>2, ConcatAssociative
  <2> QED
    BY <1>6, <1>7, <2>3, AppendIsConcat
<1>11. InBatch(batch[ran + 1]) /\ \A g : InBatch(g)' => InBatch(g)
  BY <1>1 DEF InBatch
<1> QED
  BY <1>4, <1>6, <1>8, <1>9, <1>10, <1>11

(* RunAllTask takes the pool, and is done with its batch. *)
LEMMA QueueIsTaken ==
  ASSUME TypeOK, batch = <<>>, ran = 0, batch' = tasks, tasks' = <<>>, UNCHANGED ran
  PROVE  Queue' = Queue /\ \A g : InBatch(g)' => g \in Range(tasks)
<1>1. tasks \in Seq(Functor) /\ <<>> \in Seq(Functor) /\ Len(tasks) \in Nat /\ Len(<<>>) = 0
  BY LenProperties, EmptySeq DEF TypeOK
<1>2. Queue = SubSeq(<<>>, 1, 0) \o tasks /\ Queue' = SubSeq(tasks, 1, Len(tasks)) \o <<>>
  BY <1>1 DEF Queue
<1>3. SubSeq(<<>>, 1, 0) = <<>> /\ SubSeq(tasks, 1, Len(tasks)) = tasks
  BY <1>1, SubSeqEmpty, SubSeqFull
<1>4. Queue = tasks /\ Queue' = tasks
  BY <1>1, <1>2, <1>3, ConcatEmptySeq
<1>5. DOMAIN tasks = 1 .. Len(tasks)
  BY <1>1, LenProperties
<1>6. \A g : InBatch(g)' => g \in Range(tasks)
  BY <1>5 DEF InBatch, Range
<1> QED
  BY <1>4, <1>6

LEMMA QueueIsEnded ==
  ASSUME TypeOK, ran = Len(batch), batch' = <<>>, ran' = 0, UNCHANGED tasks
  PROVE  Queue' = Queue /\ Queue = tasks /\ \A g : ~InBatch(g)'
<1>1. tasks \in Seq(Functor) /\ <<>> \in Seq(Functor) /\ Len(batch) \in Nat /\ Len(<<>>) = 0
  BY LenProperties, EmptySeq DEF TypeOK
<1>2. Queue = SubSeq(batch, Len(batch) + 1, Len(batch)) \o tasks /\ Queue' = SubSeq(<<>>, 1, 0) \o tasks
  BY <1>1 DEF Queue
<1>3. SubSeq(<<>>, 1, 0) = <<>> /\ SubSeq(batch, Len(batch) + 1, Len(batch)) = <<>>
  BY <1>1, SubSeqEmpty
<1>4. Queue = tasks /\ Queue' = tasks
  BY <1>1, <1>2, <1>3, ConcatEmptySeq
<1>5. \A g : ~InBatch(g)'
  BY <1>1 DEF InBatch
<1> QED
  BY <1>4, <1>5

LEMMA Functors ==
  /\ \A f \in Functor : f[2] \in Conn /\ (f[1] = "Send" => f[3] \in Data /\ f[3][2] \in Nat)
  /\ \A f \in Functor, k \in {"Shutdown", "Release", "Remove"} : f[1] = k => f = <<k, f[2]>>
  /\ \A c \in Conn, k \in {"Shutdown", "Release", "Remove"} : <<k, c>> \in Functor
  /\ \A c \in Conn, x \in Data : <<"Send", c, x>> \in Functor
  /\ \A x \in Data : x[1] \in Caller /\ x[2] \in Nat
  BY DEF Functor, Data

-----------------------------------------------------------------------------
(* Channels *)

PollerTyped ==
  /\ process \in {"up", "exited", "aborted"}
  /\ events \in [Conn -> SUBSET {"OUT"}]
  /\ channels \in [DOMAIN channels -> Conn] /\ DOMAIN channels \subseteq Fd
  /\ interest \in [DOMAIN interest -> SUBSET {"OUT"}] /\ DOMAIN interest \subseteq Fd

(* A connection that monitors, or stops monitoring, its output gets        *)
(* registered.                                                             *)
Watches(c) == EnableWrite(c) \/ DisableWrite(c) \/ UNCHANGED pollerVars

LEMMA WatchStep ==
  ASSUME TypeOK, OwnChannels, NEW c \in Conn, fdOf[c] # None, UNCHANGED fdOf, Watches(c)
  PROVE  /\ PollerTyped' /\ OwnChannels'
         /\ Range(channels) \subseteq Range(channels')
         /\ Range(channels') \subseteq Range(channels) \cup {c}
<1>1. /\ PollerTyped /\ fdOf[c] \in Fd
  BY DEF TypeOK, PollerTyped
<1>2. CASE UNCHANGED pollerVars
  BY <1>1, <1>2 DEF pollerVars, PollerTyped, OwnChannels
<1>3. CASE ~UNCHANGED pollerVars
  <2>1. UpdateChannel(c) /\ events' \in [Conn -> SUBSET {"OUT"}]
    BY <1>1, <1>3 DEF Watches, EnableWrite, DisableWrite, PollerTyped
  <2>2. process' \in {"up", "exited", "aborted"}
    BY <1>1, <2>1 DEF UpdateChannel, PollerTyped
  <2>3. \/ fdOf[c] \in DOMAIN channels /\ channels' = channels
        \/ fdOf[c] \notin DOMAIN channels /\ channels' = With(channels, fdOf[c], c)
    BY <2>1 DEF UpdateChannel, HasChannel
  <2>4. interest' = interest \/ interest' = With(interest, fdOf[c], events'[c])
    BY <2>1 DEF UpdateChannel
  <2>5. /\ channels' \in [DOMAIN channels' -> Conn] /\ DOMAIN channels' = DOMAIN channels \cup {fdOf[c]}
        /\ \A fd \in DOMAIN channels : channels'[fd] = channels[fd]
        /\ fdOf[c] \notin DOMAIN channels => channels'[fdOf[c]] = c
    BY <1>1, <2>3 DEF With, PollerTyped
  <2>6. /\ interest' \in [DOMAIN interest' -> SUBSET {"OUT"}]
        /\ DOMAIN interest' \subseteq DOMAIN interest \cup {fdOf[c]}
    <3>1. events'[c] \in SUBSET {"OUT"}
      BY <2>1
    <3> QED
      BY <1>1, <2>4, <3>1 DEF With, PollerTyped
  <2>7. PollerTyped'
    BY <1>1, <2>1, <2>2, <2>5, <2>6 DEF PollerTyped
  <2>8. OwnChannels'
    BY <2>5, <2>6 DEF OwnChannels
  <2>9. Range(channels) \subseteq Range(channels') /\ Range(channels') \subseteq Range(channels) \cup {c}
    BY <2>5 DEF Range
  <2> QED
    BY <2>7, <2>8, <2>9
<1> QED
  BY <1>2, <1>3

LEMMA CloseStep ==
  ASSUME TypeOK, OwnChannels, NEW c \in Conn, UNCHANGED fdOf, RemoveAndClose(c)
  PROVE  /\ PollerTyped' /\ OwnChannels'
         /\ Range(channels') \subseteq Range(channels) \ {c}
<1>1. /\ PollerTyped
      /\ channels' = Without(channels, fdOf[c]) /\ events' = events
      /\ process' \in {"exited", process}
      /\ \/ interest' = Without(interest, fdOf[c])
         \/ interest' = interest /\ fdOf[c] \notin DOMAIN channels
  <2>1. PollerTyped
    BY DEF TypeOK, PollerTyped
  <2>2. interest' = Without(interest, fdOf[c]) \/ (interest' = interest /\ ~HasChannel(c))
    BY DEF RemoveAndClose
  <2> QED
    BY <2>1, <2>2 DEF RemoveAndClose, HasChannel
<1>2. /\ channels' \in [DOMAIN channels' -> Conn] /\ DOMAIN channels' = DOMAIN channels \ {fdOf[c]}
      /\ \A fd \in DOMAIN channels' : channels'[fd] = channels[fd]
  BY <1>1 DEF Without, Restrict, PollerTyped
<1>3. /\ interest' \in [DOMAIN interest' -> SUBSET {"OUT"}] /\ DOMAIN interest' \subseteq DOMAIN interest
      /\ DOMAIN interest' \subseteq DOMAIN channels'
  <2>1. CASE interest' = interest /\ fdOf[c] \notin DOMAIN channels
    BY <1>1, <1>2, <2>1 DEF PollerTyped, OwnChannels
  <2>2. CASE interest' = Without(interest, fdOf[c])
    BY <1>1, <1>2, <2>2 DEF Without, Restrict, PollerTyped, OwnChannels
  <2> QED
    BY <1>1, <2>1, <2>2
<1>4. PollerTyped' /\ OwnChannels'
  BY <1>1, <1>2, <1>3 DEF PollerTyped, OwnChannels
<1>5. Range(channels') \subseteq Range(channels) \ {c}
  BY <1>2 DEF Range, OwnChannels
<1> QED
  BY <1>4, <1>5

-----------------------------------------------------------------------------
(* Objects *)

(* What the operations of connection c leave well-formed *)
WellFormed(c) ==
  /\ PollerTyped' /\ OwnChannels'
  /\ Range(channels') \subseteq Range(channels) \cup {c}
  /\ status' \in [Conn -> {"DISCONNECTED", "DISCONNECTING"}]
  /\ sock' \in [Conn -> Fd \cup {None}] /\ \A d \in Conn : sock'[d] \in {None, fdOf[d]}
  /\ out' \in [Conn -> Seq(Data)]
  /\ tasks' = tasks \/ \E f \in Functor : f[2] = c /\ tasks' = Append(tasks, f)

(* Sending, shutting down and queueing remove no channel. *)
Acts(c) ==
  \/ \E x \in Data : SendInLoop(c, x)
  \/ ShutdownInloop(c)
  \/ /\ \E f \in Functor : f[2] = c /\ tasks' = Append(tasks, f)
     /\ UNCHANGED <<pollerVars, status, sock, out>>

LEMMA ActStep ==
  ASSUME TypeOK, OwnChannels, NEW c \in Conn, fdOf[c] # None, UNCHANGED fdOf, Acts(c)
  PROVE  WellFormed(c) /\ Range(channels) \subseteq Range(channels')
<1>1. /\ status \in [Conn -> {"DISCONNECTED", "DISCONNECTING"}]
      /\ sock \in [Conn -> Fd \cup {None}] /\ \A d \in Conn : sock[d] \in {None, fdOf[d]}
      /\ out \in [Conn -> Seq(Data)]
  BY DEF TypeOK
<1>2. <<"Release", c>> \in Functor /\ <<"Release", c>>[2] = c
  BY Functors
<1>3. ASSUME NEW x \in Data, SendInLoop(c, x)
      PROVE  WellFormed(c) /\ Range(channels) \subseteq Range(channels')
  <2>1. Watches(c) /\ UNCHANGED <<tasks, status, sock>>
    BY <1>3 DEF SendInLoop, WatchOutput, Watches
  <2>2. out[c] \in Seq(Data) /\ Append(out[c], x) \in Seq(Data)
    BY <1>1, Appended
  <2>3. out' \in [Conn -> Seq(Data)]
    BY <1>1, <1>3, <2>2 DEF SendInLoop
  <2> QED
    BY <1>1, <2>1, <2>3, WatchStep DEF WellFormed
<1>4. CASE ShutdownInloop(c)
  <2>1. /\ Watches(c) /\ UNCHANGED <<out, sock>>
        /\ status' = [status EXCEPT ![c] = "DISCONNECTING"]
        /\ tasks' = tasks \/ tasks' = Append(tasks, <<"Release", c>>)
    BY <1>4 DEF ShutdownInloop, WatchOutput, Watches, Release, QueueInLoop
  <2> QED
    BY <1>1, <1>2, <2>1, WatchStep DEF WellFormed
<1>5. CASE /\ \E f \in Functor : f[2] = c /\ tasks' = Append(tasks, f)
           /\ UNCHANGED <<pollerVars, status, sock, out>>
  BY <1>1, <1>5, WatchStep DEF WellFormed, Watches
<1> QED
  BY <1>3, <1>4, <1>5 DEF Acts

LEMMA ReleaseStep ==
  ASSUME TypeOK, OwnChannels, NEW c \in Conn, UNCHANGED fdOf, ReleaseInLoop(c)
  PROVE  /\ WellFormed(c) /\ Range(channels') \subseteq Range(channels) \ {c}
         /\ tasks' = Append(tasks, <<"Remove", c>>)
<1>1. <<"Remove", c>> \in Functor /\ <<"Remove", c>>[2] = c
  BY Functors
<1>2. /\ RemoveAndClose(c) /\ UNCHANGED out
      /\ status' = [status EXCEPT ![c] = "DISCONNECTED"]
      /\ tasks' = Append(tasks, <<"Remove", c>>)
      /\ sock' = [sock EXCEPT ![c] = None]
  BY DEF ReleaseInLoop, QueueInLoop, RemoveAndClose
<1>3. /\ status' \in [Conn -> {"DISCONNECTED", "DISCONNECTING"}]
      /\ sock' \in [Conn -> Fd \cup {None}] /\ \A d \in Conn : sock'[d] \in {None, fdOf[d]}
      /\ out' \in [Conn -> Seq(Data)]
  BY <1>2 DEF TypeOK
<1> QED
  BY <1>1, <1>2, <1>3, CloseStep DEF WellFormed

(* Steps that leave the rest as it is, but for the phase *)
LEMMA ObjectsKeep ==
  ASSUME Objects, TypeOK', OwnChannels', OneThingAtATime', DispatchedIsRegistered',
         UNCHANGED <<nextID, timers, fdOf>>,
         phase' \in {"established", "event"} => cur' \in Conn /\ fdOf[cur'] # None,
         \A c \in kept' : fdOf[c] # None,
         \A f \in Range(Queue') : f \in Range(Queue) \/ fdOf[f[2]] # None
  PROVE  Objects'
<1>1. IdsInTurn'
  BY DEF Objects, IdsInTurn, InUserCode
<1>2. KnownOnly'
  BY DEF Objects, KnownOnly
<1> QED
  BY <1>1, <1>2 DEF Objects

LEMMA QueuedIsKnown ==
  ASSUME TypeOK, NEW c \in Conn, fdOf[c] # None,
         tasks' = tasks \/ \E f \in Functor : f[2] = c /\ tasks' = Append(tasks, f),
         UNCHANGED <<batch, ran>>
  PROVE  /\ tasks' \in Seq(Functor)
         /\ \A f \in Range(Queue') : f \in Range(Queue) \/ fdOf[f[2]] # None
<1>1. Queue \in Seq(Functor) /\ tasks \in Seq(Functor)
  BY QueueIsTyped DEF TypeOK
<1>2. CASE tasks' = tasks
  BY <1>1, <1>2, QueueKeeps
<1>3. ASSUME NEW f \in Functor, f[2] = c, tasks' = Append(tasks, f)
      PROVE  /\ tasks' \in Seq(Functor)
             /\ \A g \in Range(Queue') : g \in Range(Queue) \/ fdOf[g[2]] # None
  <2>1. Queue' = Append(Queue, f)
    BY <1>3, QueueGets
  <2>2. \A g : g \in Range(Append(Queue, f)) <=> g \in Range(Queue) \/ g = f
    BY <1>1, <1>3, Appended
  <2>3. tasks' \in Seq(Functor)
    BY <1>1, <1>3, Appended
  <2> QED
    BY <1>3, <2>1, <2>2, <2>3
<1> QED
  BY <1>2, <1>3

LEMMA UserCallObjects ==
  ASSUME Objects, NEW c \in Conn, NEW who \in Caller,
         Send(who, c) \/ Shutdown(who, c) \/ UserRelease(who, c)
  PROVE  Objects'
<1>1. /\ MayCall(who, c) /\ fdOf[c] # None
      /\ UNCHANGED <<loopVars, objectVars, timers, lastSend, sent, revents>>
      /\ sends' \in 0 .. MaxCalls /\ closings' \in [Conn -> Nat]
      /\ UNCHANGED <<phase, cur, batch, ran, active, nextID, table, deletions, kept, fdOf>>
  <2>1. MayCall(who, c)
    BY DEF Send, Shutdown, UserRelease, CountClosing
  <2>2. fdOf[c] # None
    BY <2>1 DEF MayCall, Objects, KnownOnly, IdsInTurn
  <2>3. UNCHANGED <<loopVars, objectVars, timers, lastSend, sent, revents>>
    BY DEF Send, Shutdown, UserRelease, CountClosing
  <2>4. sends \in 0 .. MaxCalls /\ timers \in Nat /\ MaxCalls \in Nat /\ closings \in [Conn -> Nat]
    BY BoundAssumption DEF Objects, TypeOK
  <2>5. sends' \in 0 .. MaxCalls /\ closings' \in [Conn -> Nat]
    BY <2>4 DEF Send, Shutdown, UserRelease, CountClosing
  <2> QED
    BY <2>1, <2>2, <2>3, <2>5 DEF loopVars, objectVars
<1>2. Acts(c)
  <2>1. CASE Send(who, c)
    <3>1. <<who, sends + 1>> \in Data
      BY <1>1, <2>1, BoundAssumption DEF Objects, TypeOK, Send, Data
    <3>2. /\ <<"Send", c, <<who, sends + 1>>>> \in Functor
          /\ <<"Send", c, <<who, sends + 1>>>>[2] = c
      BY <3>1, Functors
    <3> QED
      BY <2>1, <3>1, <3>2 DEF Send, Acts, QueueInLoop
  <2>2. CASE Shutdown(who, c)
    BY <2>2, Functors DEF Shutdown, Acts, QueueInLoop
  <2>3. CASE UserRelease(who, c)
    BY <2>3, Functors DEF UserRelease, Acts, Release, QueueInLoop
  <2> QED
    BY <2>1, <2>2, <2>3
<1>3. WellFormed(c) /\ Range(channels) \subseteq Range(channels')
  BY <1>1, <1>2, ActStep DEF Objects
<1>4. /\ tasks' \in Seq(Functor)
      /\ \A f \in Range(Queue') : f \in Range(Queue) \/ fdOf[f[2]] # None
  BY <1>1, <1>3, QueuedIsKnown DEF Objects, WellFormed
<1>5. TypeOK'
  BY <1>1, <1>3, <1>4 DEF Objects, TypeOK, WellFormed, PollerTyped
<1>6. OwnChannels' /\ OneThingAtATime' /\ DispatchedIsRegistered'
  BY <1>1, <1>3 DEF Objects, WellFormed, OneThingAtATime, DispatchedIsRegistered
<1>7. phase' \in {"established", "event"} => cur' \in Conn /\ fdOf[cur'] # None
  BY <1>1 DEF Objects, IdsInTurn, InUserCode
<1> QED
  BY <1>1, <1>4, <1>5, <1>6, <1>7, ObjectsKeep DEF Objects, KnownOnly

LEMMA RunTaskObjects ==
  ASSUME Objects, RunTask
  PROVE  Objects'
<1>1. PICK f \in Functor : f = batch[ran + 1] /\ f = Queue[1]
  BY QueueRuns DEF Objects, RunTask
<1>2. PICK c \in Conn : c = f[2]
  BY <1>1, Functors
<1>3. /\ Queue \in Seq(Functor) /\ tasks \in Seq(Functor) /\ batch \in Seq(Functor)
      /\ Queue # <<>> /\ phase = "run" /\ ran < Len(batch) /\ ran' = ran + 1 /\ ran \in Nat
      /\ Len(batch) \in Nat
      /\ \A g : g \in Range(Queue) <=> g \in Range(Tail(Queue)) \/ g = f
      /\ tasks' = tasks => Queue' = Tail(Queue)
      /\ \A g \in Functor : tasks' = Append(tasks, g) => Queue' = Append(Tail(Queue), g)
      /\ UNCHANGED <<phase, cur, batch, active, nextID, kept, fdOf, timers, sends, closings, sent, revents>>
  <2>1. Queue \in Seq(Functor) /\ tasks \in Seq(Functor) /\ batch \in Seq(Functor) /\ Len(batch) \in Nat
    BY QueueIsTyped, LenProperties DEF Objects, TypeOK
  <2>2. /\ phase = "run" /\ ran < Len(batch) /\ ran' = ran + 1
        /\ UNCHANGED <<phase, cur, batch, active, nextID, kept, fdOf, timers, sends, closings, sent, revents>>
    BY DEF RunTask
  <2>3. /\ Queue # <<>>
        /\ tasks' = tasks => Queue' = Tail(Queue)
        /\ \A g \in Functor : tasks' = Append(tasks, g) => Queue' = Append(Tail(Queue), g)
    BY <2>2, QueueRuns DEF Objects
  <2>4. \A g : g \in Range(Queue) <=> g \in Range(Tail(Queue)) \/ g = f
    BY <1>1, <2>1, <2>3, TailOf
  <2> QED
    BY <2>1, <2>2, <2>3, <2>4 DEF Objects, TypeOK
<1>4. fdOf[c] # None
  BY <1>1, <1>2, <1>3 DEF Objects, KnownOnly
<1>5. /\ WellFormed(c) /\ deletions' \in [Conn -> 0 .. 2]
      /\ table' \in [DOMAIN table' -> Conn] /\ DOMAIN table' \subseteq DOMAIN table
  <2>1. /\ PollerTyped /\ deletions \in [Conn -> 0 .. 2] /\ table \in [DOMAIN table -> Conn]
    BY DEF Objects, TypeOK, PollerTyped
  <2>3. CASE Acts(c) /\ UNCHANGED <<table, deletions>>
    BY <1>3, <1>4, <2>1, <2>3, ActStep DEF Objects
  <2>4. CASE ReleaseInLoop(c) /\ UNCHANGED <<table, deletions>>
    BY <1>3, <2>1, <2>4, ReleaseStep DEF Objects
  <2>5. CASE RemoveConnectionInLoop(c)
    <3>1. /\ table' = Without(table, c) /\ deletions' = [deletions EXCEPT ![c] = 1]
          /\ sock' = [sock EXCEPT ![c] = None]
          /\ interest' = interest \/ interest' = Without(interest, sock[c])
          /\ UNCHANGED <<process, events, channels, tasks, status, out>>
      BY <2>5 DEF RemoveConnectionInLoop
    <3>2. /\ interest' \in [DOMAIN interest' -> SUBSET {"OUT"}]
          /\ DOMAIN interest' \subseteq DOMAIN interest
      BY <2>1, <3>1 DEF Without, Restrict, PollerTyped
    <3>3. PollerTyped' /\ OwnChannels'
      BY <1>3, <2>1, <3>1, <3>2 DEF PollerTyped, OwnChannels, Objects
    <3>4. WellFormed(c)
      BY <1>3, <3>1, <3>3 DEF WellFormed, Objects, TypeOK
    <3>5. table' \in [DOMAIN table' -> Conn] /\ DOMAIN table' \subseteq DOMAIN table
      BY <2>1, <3>1 DEF Without, Restrict
    <3> QED
      BY <2>1, <3>1, <3>4, <3>5
  <2>6. CASE UNCHANGED <<table, deletions, pollerVars, tasks, status, sock, out>>
    <3>1. PollerTyped' /\ OwnChannels'
      BY <1>3, <2>1, <2>6 DEF pollerVars, PollerTyped, OwnChannels, Objects
    <3> QED
      BY <1>3, <2>1, <2>6, <3>1 DEF pollerVars, WellFormed, Objects, TypeOK
  <2>7. \/ Acts(c) /\ UNCHANGED <<table, deletions>>
        \/ ReleaseInLoop(c) /\ UNCHANGED <<table, deletions>>
        \/ RemoveConnectionInLoop(c)
        \/ UNCHANGED <<table, deletions, pollerVars, tasks, status, sock, out>>
    BY <1>1, <1>2, Functors DEF RunTask, Acts
  <2> QED
    BY <2>3, <2>4, <2>5, <2>6, <2>7
<1>6. /\ tasks' \in Seq(Functor)
      /\ \A g \in Range(Queue') : g \in Range(Queue) \/ fdOf[g[2]] # None
  <2>1. CASE tasks' = tasks
    BY <1>3, <2>1
  <2>2. ASSUME NEW g \in Functor, g[2] = c, tasks' = Append(tasks, g)
        PROVE  /\ tasks' \in Seq(Functor)
               /\ \A h \in Range(Queue') : h \in Range(Queue) \/ fdOf[h[2]] # None
    <3>1. Tail(Queue) \in Seq(Functor)
      BY <1>3, TailOf
    <3>2. Queue' = Append(Tail(Queue), g)
      BY <1>3, <2>2
    <3>3. PICK q \in Seq(Functor) : q = Tail(Queue)
      BY <3>1
    <3>5. \A h : h \in Range(Append(q, g)) <=> h \in Range(q) \/ h = g
      BY Appended
    <3>4. tasks' \in Seq(Functor)
      BY <1>3, <2>2, Appended
    <3> QED
      BY <1>3, <1>4, <2>2, <3>2, <3>3, <3>4, <3>5
  <2> QED
    BY <1>5, <2>1, <2>2 DEF WellFormed
<1>7. TypeOK'
  <2>1. ran' \in 0 .. Len(batch')
    BY <1>3
  <2>2. DOMAIN table' \cup kept' \subseteq 1 .. nextID'
    BY <1>3, <1>5 DEF Objects, TypeOK
  <2>3. /\ process' \in {"up", "exited", "aborted"}
        /\ events' \in [Conn -> SUBSET {"OUT"}]
        /\ channels' \in [DOMAIN channels' -> Conn] /\ DOMAIN channels' \subseteq Fd
        /\ interest' \in [DOMAIN interest' -> SUBSET {"OUT"}] /\ DOMAIN interest' \subseteq Fd
    BY <1>5 DEF WellFormed, PollerTyped
  <2>4. /\ status' \in [Conn -> {"DISCONNECTED", "DISCONNECTING"}]
        /\ sock' \in [Conn -> Fd \cup {None}] /\ \A d \in Conn : sock'[d] \in {None, fdOf'[d]}
        /\ out' \in [Conn -> Seq(Data)]
    BY <1>3, <1>5 DEF WellFormed
  <2>5. /\ phase' \in {"poll", "handle", "established", "event", "run"}
        /\ cur' \in Conn \cup {Acceptor} /\ active' \subseteq Conn \cup {Acceptor}
        /\ nextID' \in Nat /\ fdOf' \in [Conn -> Fd \cup {None}]
        /\ sent' \in [Conn -> Seq(Data)] /\ revents' \in [Conn -> SUBSET Events]
        /\ timers' \in 0 .. MaxTimers /\ sends' \in 0 .. MaxCalls
        /\ closings' \in [Conn -> Nat]
    BY <1>3 DEF Objects, TypeOK
  <2>6. lastSend' \in [Conn -> 0 .. MaxCalls]
    BY DEF Objects, TypeOK, RunTask, NoteSends
  <2> QED
    BY <1>3, <1>5, <1>6, <2>1, <2>2, <2>3, <2>4, <2>5, <2>6 DEF TypeOK
<1>8. active' = {} /\ phase' = "run"
  BY <1>3 DEF Objects, OneThingAtATime
<1>9. OneThingAtATime' /\ DispatchedIsRegistered'
  <2>1. OneThingAtATime'
    BY <1>8 DEF OneThingAtATime
  <2>2. DispatchedIsRegistered'
    BY <1>8 DEF DispatchedIsRegistered
  <2> QED
    BY <2>1, <2>2
<1> QED
  BY <1>3, <1>9, <1>5, <1>6, <1>7, <1>8, ObjectsKeep DEF Objects, KnownOnly, WellFormed

(* A sequence cut in two *)
LEMMA CutInTwo ==
  ASSUME NEW S, NEW o \in Seq(S), NEW n \in 0 .. Len(o)
  PROVE  /\ SubSeq(o, 1, n) \in Seq(S) /\ SubSeq(o, n + 1, Len(o)) \in Seq(S)
         /\ SubSeq(o, 1, n) \o SubSeq(o, n + 1, Len(o)) = o
<1>1. PICK head, rest : head = SubSeq(o, 1, n) /\ rest = SubSeq(o, n + 1, Len(o))
  OBVIOUS
<1>2. /\ Len(o) \in Nat /\ n \in Nat /\ n <= Len(o)
      /\ n + 1 \in Int /\ Len(o) \in Int
  BY LenProperties
<1>3. \A i \in 1 .. Len(o) : o[i] \in S
  BY ElementOfSeq
<1>4. head \in Seq(S)
  <2>1. \A i \in 1 .. n : o[i] \in S
    BY <1>2, <1>3
  <2> QED
    BY <1>1, <1>2, <2>1, SubSeqProperties
<1>5. rest \in Seq(S)
  <2>1. \A i \in n + 1 .. Len(o) : o[i] \in S
    BY <1>2, <1>3
  <2> QED
    BY <1>1, <1>2, <2>1, SubSeqProperties
<1>6. head \o rest = o
  <2>1. n \in 1 - 1 .. Len(o) /\ 1 \in 1 .. Len(o) + 1 /\ Len(o) \in n .. Len(o)
    BY <1>2
  <2>2. SubSeq(o, 1, n) \o SubSeq(o, n + 1, Len(o)) = SubSeq(o, 1, Len(o))
    BY <2>1, ConcatAdjacentSubSeq
  <2>3. SubSeq(o, 1, Len(o)) = o
    BY SubSeqFull
  <2> QED
    BY <1>1, <2>2, <2>3, Zenon
<1> QED
  BY <1>1, <1>4, <1>5, <1>6

(* What the socket takes moves within the line. *)
LEMMA TakenStaysInLine ==
  ASSUME TypeOK, NEW c \in Conn, NEW n \in 0 .. Len(out[c]), SendTakes(c, n)
  PROVE  /\ out' \in [Conn -> Seq(Data)] /\ sent' \in [Conn -> Seq(Data)]
         /\ \A d \in Conn : Line(d)' = Line(d)
         /\ \A d \in Conn : d # c => out'[d] = out[d] /\ sent'[d] = sent[d]
         /\ sent'[c] = sent[c] \o SubSeq(out[c], 1, n)
         /\ out'[c] = SubSeq(out[c], n + 1, Len(out[c]))
<1>1. PICK o, s : o = out[c] /\ s = sent[c]
  OBVIOUS
<1>2. PICK head, rest : head = SubSeq(o, 1, n) /\ rest = SubSeq(o, n + 1, Len(o))
  OBVIOUS
<1>3. s \in Seq(Data)
  BY <1>1 DEF TypeOK
<1>4. head \in Seq(Data) /\ rest \in Seq(Data) /\ head \o rest = o
  <2>1. o \in Seq(Data) /\ n \in 0 .. Len(o)
    BY <1>1 DEF TypeOK
  <2> QED
    BY <1>2, <2>1, CutInTwo
<1>5. s \o head \in Seq(Data) /\ (s \o head) \o rest = s \o o
  <2>1. head \in Seq(Data)
    BY <1>4
  <2>2. rest \in Seq(Data)
    BY <1>4
  <2>3. s \o head \in Seq(Data)
    BY <1>3, <2>1, ConcatProperties
  <2>4. (s \o head) \o rest = s \o (head \o rest)
    BY <1>3, <2>1, <2>2, ConcatAssociative
  <2> QED
    BY <1>4, <2>3, <2>4
<1>6. sent' = [sent EXCEPT ![c] = s \o head] /\ out' = [out EXCEPT ![c] = rest]
  BY <1>1, <1>2 DEF SendTakes
<1>7. /\ out' \in [Conn -> Seq(Data)] /\ sent' \in [Conn -> Seq(Data)]
      /\ \A d \in Conn : d # c => out'[d] = out[d] /\ sent'[d] = sent[d]
      /\ out'[c] = rest /\ sent'[c] = s \o head
  BY <1>4, <1>5, <1>6 DEF TypeOK
<1> QED
  BY <1>1, <1>2, <1>5, <1>7 DEF Line

LEMMA RegisteredIsKnown ==
  ASSUME Objects, NEW c \in Conn, c \in active
  PROVE  c \in Range(channels) /\ fdOf[c] # None
<1>1. c # Acceptor
  BY BoundAssumption DEF Conn, Acceptor
<1>2. PICK fd \in DOMAIN channels : channels[fd] = c
  BY <1>1 DEF Objects, DispatchedIsRegistered, Range
<1> QED
  BY <1>2, FdAssumption DEF Objects, OwnChannels, TypeOK, Range

LEMMA HandleEventStep ==
  ASSUME Objects, NEW c \in Conn, Dispatch(c)
  PROVE  /\ Watches(c) /\ UNCHANGED <<status, sock>>
         /\ phase = "handle" /\ phase' = "event" /\ cur' = c /\ active' = active \ {c}
         /\ UNCHANGED <<batch, ran, nextID, table, deletions, kept, fdOf, timers, sends, closings, lastSend, revents>>
         /\ tasks' = tasks \/ tasks' = Append(tasks, <<"Release", c>>)
         /\ out' \in [Conn -> Seq(Data)] /\ sent' \in [Conn -> Seq(Data)]
         /\ \A d \in Conn : Line(d)' = Line(d)
         /\ \A d \in Conn : out[d] = <<>> \/ sock[d] = None => out'[d] = out[d] /\ sent'[d] = sent[d]
<1>1. /\ HandleEvent(c) /\ UNCHANGED <<status, sock>>
      /\ phase = "handle" /\ phase' = "event" /\ cur' = c /\ active' = active \ {c}
      /\ UNCHANGED <<batch, ran, nextID, table, deletions, kept, fdOf, timers, sends, closings, lastSend, revents>>
  BY DEF Dispatch, objectVars, callVars
<1>2. CASE SendFails(c) \/ HandleClose(c)
  <2>1. /\ tasks' = Append(tasks, <<"Release", c>>) /\ UNCHANGED <<out, sent, pollerVars>>
    BY <1>2 DEF SendFails, HandleClose, Release, QueueInLoop
  <2> QED
    BY <1>1, <2>1 DEF Objects, TypeOK, Watches, Line
<1>3. ASSUME NEW n \in 0 .. Len(out[c]), n = 0 <=> out[c] = <<>>, SendTakes(c, n)
      PROVE  /\ Watches(c)
             /\ tasks' = tasks \/ tasks' = Append(tasks, <<"Release", c>>)
             /\ out' \in [Conn -> Seq(Data)] /\ sent' \in [Conn -> Seq(Data)]
             /\ \A d \in Conn : Line(d)' = Line(d)
             /\ \A d \in Conn : out[d] = <<>> \/ sock[d] = None => out'[d] = out[d] /\ sent'[d] = sent[d]
  <2>1. Watches(c) /\ (tasks' = tasks \/ tasks' = Append(tasks, <<"Release", c>>))
    BY <1>3 DEF SendTakes, Watches, Release, QueueInLoop
  <2>2. /\ out' \in [Conn -> Seq(Data)] /\ sent' \in [Conn -> Seq(Data)]
        /\ \A d \in Conn : Line(d)' = Line(d)
        /\ \A d \in Conn : d # c => out'[d] = out[d] /\ sent'[d] = sent[d]
        /\ sent'[c] = sent[c] \o SubSeq(out[c], 1, n)
        /\ out'[c] = SubSeq(out[c], n + 1, Len(out[c]))
    BY <1>3, TakenStaysInLine DEF Objects
  <2>3. ASSUME out[c] = <<>> \/ sock[c] = None
        PROVE  out'[c] = out[c] /\ sent'[c] = sent[c]
    <3>1. n = 0
      BY <1>3, <2>3 DEF SendTakes
    <3>2. out[c] \in Seq(Data) /\ sent[c] \in Seq(Data)
      BY DEF Objects, TypeOK
    <3>3. SubSeq(out[c], 1, 0) = <<>> /\ SubSeq(out[c], 1, Len(out[c])) = out[c]
      BY <3>2, SubSeqEmpty, SubSeqFull
    <3> QED
      BY <2>2, <3>1, <3>2, <3>3, ConcatEmptySeq
  <2> QED
    BY <2>1, <2>2, <2>3
<1> QED
  BY <1>1, <1>2, <1>3 DEF HandleEvent, HandleWrite

LEMMA DispatchObjects ==
  ASSUME Objects, NEW c \in Conn, Dispatch(c)
  PROVE  Objects'
<1>1. /\ Watches(c) /\ UNCHANGED <<status, sock>>
      /\ phase = "handle" /\ phase' = "event" /\ cur' = c /\ active' = active \ {c}
      /\ UNCHANGED <<batch, ran, nextID, table, deletions, kept, fdOf, timers, sends, closings, lastSend, revents>>
      /\ tasks' = tasks \/ \E f \in Functor : f[2] = c /\ tasks' = Append(tasks, f)
      /\ out' \in [Conn -> Seq(Data)] /\ sent' \in [Conn -> Seq(Data)]
  BY HandleEventStep, Functors
<1>2. c \in active /\ fdOf[c] # None
  BY RegisteredIsKnown DEF Dispatch
<1>3. /\ PollerTyped' /\ OwnChannels'
      /\ Range(channels) \subseteq Range(channels')
  BY <1>1, <1>2, WatchStep DEF Objects
<1>4. /\ tasks' \in Seq(Functor)
      /\ \A f \in Range(Queue') : f \in Range(Queue) \/ fdOf[f[2]] # None
  BY <1>1, <1>2, QueuedIsKnown DEF Objects
<1>5. TypeOK'
  <2>1. /\ process' \in {"up", "exited", "aborted"}
        /\ events' \in [Conn -> SUBSET {"OUT"}]
        /\ channels' \in [DOMAIN channels' -> Conn] /\ DOMAIN channels' \subseteq Fd
        /\ interest' \in [DOMAIN interest' -> SUBSET {"OUT"}] /\ DOMAIN interest' \subseteq Fd
    BY <1>3 DEF PollerTyped
  <2> QED
    BY <1>1, <1>4, <2>1 DEF Objects, TypeOK
<1>6. OneThingAtATime' /\ DispatchedIsRegistered'
  BY <1>1, <1>3 DEF Objects, OneThingAtATime, DispatchedIsRegistered
<1> QED
  BY <1>1, <1>2, <1>3, <1>4, <1>5, <1>6, ObjectsKeep DEF Objects, KnownOnly

LEMMA PollObjects ==
  ASSUME Objects, Poll
  PROVE  Objects' /\ revents' \in [Conn -> SUBSET Events]
<1>1. /\ phase = "poll" /\ phase' = "handle"
      /\ UNCHANGED <<cur, batch, ran, pollerVars, objectVars, callVars, tasks, status, sock, out, sent>>
      /\ UNCHANGED <<process, events, channels, interest, nextID, table, deletions, kept, fdOf, timers, sends, closings, lastSend>>
  BY DEF Poll, pollerVars, objectVars, callVars
<1>2. PICK S \in SUBSET DOMAIN interest, A \in SUBSET {Acceptor} :
        LET ready == {channels[fd] : fd \in S}
        IN  /\ active' = ready \cup A
            /\ \E got \in [ready -> (SUBSET Events) \ {{}}] :
                 revents' = [c \in Conn |-> IF c \in ready THEN got[c] ELSE revents[c]]
  BY DEF Poll
<1>3. PICK ready : ready = {channels[fd] : fd \in S}
  OBVIOUS
<1>4. ready \subseteq Range(channels) /\ ready \subseteq Conn
  BY <1>3 DEF Objects, OwnChannels, TypeOK, Range
<1>5. active' \subseteq Conn \cup {Acceptor} /\ active' \ {Acceptor} \subseteq Range(channels)
  BY <1>2, <1>3, <1>4
<1>6. revents' \in [Conn -> SUBSET Events]
  BY <1>2, <1>3 DEF Objects, TypeOK
<1>7. TypeOK'
  BY <1>1, <1>5, <1>6 DEF Objects, TypeOK
<1>8. OwnChannels' /\ OneThingAtATime' /\ DispatchedIsRegistered'
  BY <1>1, <1>5 DEF Objects, OwnChannels, OneThingAtATime, DispatchedIsRegistered
<1>9. Queue' = Queue
  BY <1>1, QueueKeeps
<1> QED
  BY <1>1, <1>6, <1>7, <1>8, <1>9, ObjectsKeep DEF Objects, KnownOnly

LEMMA NewConnectionStep ==
  ASSUME Objects, NEW fd \in Fd, NewConnection(fd)
  PROVE  LET new == nextID + 1
         IN  /\ new \in Conn /\ fdOf[new] = None /\ sock[new] = None
             /\ nextID' = new /\ cur' = new /\ phase = "handle" /\ phase' = "established"
             /\ fdOf' = [fdOf EXCEPT ![new] = fd] /\ sock' = [sock EXCEPT ![new] = fd]
             /\ fd \notin Open /\ fd # None
             /\ active' = active \ {Acceptor} /\ nextID - timers < MaxConn
             /\ UNCHANGED <<process, events, channels, interest, batch, ran, table, deletions, kept,
                            timers, sends, closings, lastSend, tasks, status, out, sent, revents>>
<1>1. /\ nextID - timers < MaxConn /\ nextID \in Nat /\ timers \in 0 .. MaxTimers
      /\ MaxConn \in Nat /\ MaxTimers \in Nat
  BY BoundAssumption DEF NewConnection, Objects, TypeOK
<1>2. nextID + 1 \in Conn
  BY <1>1 DEF Conn
<1>3. ~(nextID + 1 <= nextID)
  BY <1>1
<1>4. fdOf[nextID + 1] = None /\ sock[nextID + 1] = None
  BY <1>2, <1>3 DEF Objects, IdsInTurn, TypeOK
<1>5. fd \notin Open /\ fd # None
  BY FdAssumption DEF NewConnection, LowestFree
<1> QED
  BY <1>1, <1>2, <1>4, <1>5 DEF NewConnection, pollerVars, callVars

LEMMA NewConnectionObjects ==
  ASSUME Objects, NEW fd \in Fd, NewConnection(fd)
  PROVE  Objects'
<1>1. PICK new \in Conn : new = nextID + 1
  BY NewConnectionStep
<1>2. /\ fdOf[new] = None /\ sock[new] = None
      /\ nextID' = new /\ cur' = new /\ phase = "handle" /\ phase' = "established"
      /\ fdOf' = [fdOf EXCEPT ![new] = fd] /\ sock' = [sock EXCEPT ![new] = fd]
      /\ fd \notin Open /\ fd # None
      /\ active' = active \ {Acceptor} /\ nextID - timers < MaxConn
      /\ UNCHANGED <<process, events, channels, interest, batch, ran, table, deletions, kept,
                     timers, sends, closings, lastSend, tasks, status, out, sent, revents>>
  BY <1>1, NewConnectionStep
<1>3. nextID \in Nat /\ timers \in Nat /\ MaxConn \in Nat
  BY BoundAssumption DEF Objects, TypeOK
<1>4. /\ \A c \in Conn : c # new => fdOf'[c] = fdOf[c] /\ sock'[c] = sock[c]
      /\ fdOf'[new] = fd /\ sock'[new] = fd
      /\ fdOf' \in [Conn -> Fd \cup {None}] /\ sock' \in [Conn -> Fd \cup {None}]
      /\ \A c \in Conn : sock'[c] \in {None, fdOf'[c]}
  BY <1>2 DEF Objects, TypeOK
<1>5. TypeOK'
  <2>1. DOMAIN table' \cup kept' \subseteq 1 .. nextID' /\ nextID' \in Nat
    BY <1>1, <1>2, <1>3 DEF Objects, TypeOK
  <2>2. /\ process' \in {"up", "exited", "aborted"}
        /\ phase' \in {"poll", "handle", "established", "event", "run"}
        /\ cur' \in Conn \cup {Acceptor} /\ active' \subseteq Conn \cup {Acceptor}
        /\ tasks' \in Seq(Functor) /\ batch' \in Seq(Functor) /\ ran' \in 0 .. Len(batch')
    BY <1>1, <1>2 DEF Objects, TypeOK
  <2>3. /\ table' \in [DOMAIN table' -> Conn] /\ deletions' \in [Conn -> 0 .. 2]
        /\ status' \in [Conn -> {"DISCONNECTED", "DISCONNECTING"}]
        /\ out' \in [Conn -> Seq(Data)] /\ sent' \in [Conn -> Seq(Data)]
        /\ events' \in [Conn -> SUBSET {"OUT"}] /\ revents' \in [Conn -> SUBSET Events]
        /\ channels' \in [DOMAIN channels' -> Conn] /\ DOMAIN channels' \subseteq Fd
        /\ interest' \in [DOMAIN interest' -> SUBSET {"OUT"}] /\ DOMAIN interest' \subseteq Fd
        /\ timers' \in 0 .. MaxTimers /\ sends' \in 0 .. MaxCalls /\ closings' \in [Conn -> Nat]
        /\ lastSend' \in [Conn -> 0 .. MaxCalls]
    BY <1>2 DEF Objects, TypeOK
  <2> QED
    BY <1>4, <2>1, <2>2, <2>3 DEF TypeOK
<1>6. IdsInTurn'
  <2>1. nextID' <= MaxConn + timers'
    BY <1>1, <1>2, <1>3
  <2>2. \A c \in Conn : fdOf'[c] # None => c <= nextID'
    BY <1>1, <1>2, <1>3, <1>4 DEF Objects, IdsInTurn, Conn
  <2> QED
    BY <1>2, <1>4, <2>1, <2>2 DEF IdsInTurn, InUserCode
<1>7. KnownOnly'
  <2>1. Queue' = Queue
    BY <1>2, QueueKeeps
  <2>2. (\A c \in kept : c \in Conn) /\ \A f \in Range(Queue) : f[2] \in Conn
    <3>1. \A c \in kept : c \in Conn
      <4>1. nextID <= MaxConn + timers /\ timers \in 0 .. MaxTimers /\ MaxTimers \in Nat
        BY BoundAssumption DEF Objects, IdsInTurn, TypeOK
      <4>2. \A c \in 1 .. nextID : c \in Conn
        BY <1>3, <4>1 DEF Conn
      <4> QED
        BY <4>2 DEF Objects, TypeOK
    <3>2. Range(Queue) \subseteq Functor
      BY QueueIsTyped, RangeOfSeq DEF Objects
    <3> QED
      BY <3>1, <3>2, Functors
  <2> QED
    BY <1>2, <1>4, <2>1, <2>2 DEF Objects, KnownOnly
<1>8. OwnChannels'
  BY <1>2, <1>4, FdAssumption DEF Objects, OwnChannels, TypeOK
<1>9. OneThingAtATime' /\ DispatchedIsRegistered'
  BY <1>2 DEF Objects, OneThingAtATime, DispatchedIsRegistered
<1> QED
  BY <1>5, <1>6, <1>7, <1>8, <1>9 DEF Objects

(* What does not touch channels, sockets or output *)
LEMMA QuietObjects ==
  ASSUME Objects,
         \/ EventReturns \/ EstablishedReturns \/ AcceptFails \/ TakeTasks \/ EndIteration
         \/ Keep \/ RunAfter \/ (\E c \in Conn : Drop(c)) \/ TouchFreed \/ UNCHANGED vars
  PROVE  Objects'
<1>1. CASE EventReturns
  <2>1. /\ phase = "event" /\ phase' = "handle" /\ cur' = Acceptor
        /\ UNCHANGED <<batch, ran, active, process, events, channels, interest, nextID, table, deletions,
                       kept, fdOf, timers, sends, closings, lastSend, tasks, status, sock, out, sent, revents>>
    BY <1>1 DEF EventReturns, pollerVars, objectVars, callVars
  <2>2. TypeOK' /\ OwnChannels' /\ OneThingAtATime' /\ DispatchedIsRegistered'
    BY <2>1 DEF Objects, TypeOK, OwnChannels, OneThingAtATime, DispatchedIsRegistered
  <2> QED
    BY <2>1, <2>2, QueueKeeps, ObjectsKeep DEF Objects, KnownOnly
<1>2. CASE EstablishedReturns
  <2>1. /\ phase = "established" /\ phase' = "handle" /\ cur' = Acceptor /\ table' = With(table, nextID, cur)
        /\ UNCHANGED <<batch, ran, active, process, events, channels, interest, nextID, deletions,
                       kept, fdOf, timers, sends, closings, lastSend, tasks, status, sock, out, sent, revents>>
    BY <1>2 DEF EstablishedReturns, pollerVars, callVars
  <2>2. cur \in Conn /\ cur <= nextID /\ nextID \in Nat /\ nextID \in 1 .. nextID
    <3>1. cur \in Conn /\ fdOf[cur] # None /\ nextID \in Nat
      BY <2>1 DEF Objects, IdsInTurn, InUserCode, TypeOK
    <3>2. cur <= nextID /\ cur \in Nat /\ cur >= 1
      BY <3>1, BoundAssumption DEF Objects, IdsInTurn, Conn
    <3> QED
      BY <3>1, <3>2
  <2>3. table' \in [DOMAIN table' -> Conn] /\ DOMAIN table' \cup kept' \subseteq 1 .. nextID
    BY <2>1, <2>2 DEF Objects, TypeOK, With
  <2>4. TypeOK' /\ OwnChannels' /\ OneThingAtATime' /\ DispatchedIsRegistered'
    BY <2>1, <2>3 DEF Objects, TypeOK, OwnChannels, OneThingAtATime, DispatchedIsRegistered
  <2> QED
    BY <2>1, <2>4, QueueKeeps, ObjectsKeep DEF Objects, KnownOnly
<1>3. CASE AcceptFails
  <2>1. /\ phase = "handle" /\ phase' = "handle" /\ active' = active \ {Acceptor}
        /\ UNCHANGED <<cur, batch, ran, process, events, channels, interest, nextID, table, deletions,
                       kept, fdOf, timers, sends, closings, lastSend, tasks, status, sock, out, sent, revents>>
    BY <1>3 DEF AcceptFails, pollerVars, objectVars, callVars
  <2>2. TypeOK' /\ OwnChannels' /\ OneThingAtATime' /\ DispatchedIsRegistered'
    BY <2>1 DEF Objects, TypeOK, OwnChannels, OneThingAtATime, DispatchedIsRegistered
  <2> QED
    BY <2>1, <2>2, QueueKeeps, ObjectsKeep DEF Objects, KnownOnly
<1>4. CASE TakeTasks
  <2>1. /\ phase = "handle" /\ phase' = "run" /\ active = {} /\ batch' = tasks /\ tasks' = <<>>
        /\ UNCHANGED <<cur, ran, active, process, events, channels, interest, nextID, table, deletions,
                       kept, fdOf, timers, sends, closings, lastSend, status, sock, out, sent, revents>>
    BY <1>4 DEF TakeTasks, pollerVars, objectVars, callVars
  <2>2. batch = <<>> /\ ran = 0
    BY <2>1 DEF Objects, OneThingAtATime
  <2>3. Queue' = Queue
    BY <2>1, <2>2, QueueIsTaken DEF Objects
  <2>4. ran' \in 0 .. Len(batch') /\ tasks' \in Seq(Functor)
    <3>1. Len(tasks) \in Nat /\ <<>> \in Seq(Functor)
      BY LenProperties, EmptySeq DEF Objects, TypeOK
    <3> QED
      BY <2>1, <2>2, <3>1
  <2>5. TypeOK' /\ OwnChannels' /\ OneThingAtATime' /\ DispatchedIsRegistered'
    BY <2>1, <2>4 DEF Objects, TypeOK, OwnChannels, OneThingAtATime, DispatchedIsRegistered
  <2> QED
    BY <2>1, <2>3, <2>5, ObjectsKeep DEF Objects, KnownOnly
<1>5. CASE EndIteration
  <2>1. /\ phase = "run" /\ phase' = "poll" /\ ran = Len(batch) /\ batch' = <<>> /\ ran' = 0
        /\ UNCHANGED <<cur, active, nextID, table, kept, fdOf, events, channels, interest,
                       timers, sends, closings, lastSend, tasks, status, sock, out, sent, revents>>
        /\ DeleteAgain(Orphans(kept, Range(tasks)))
    BY <1>5 DEF EndIteration, callVars
  <2>2. process' \in {"up", "exited", "aborted"} /\ deletions' \in [Conn -> 0 .. 2]
    BY <2>1 DEF DeleteAgain, Objects, TypeOK
  <2>3. Queue' = Queue /\ active = {}
    BY <2>1, QueueIsEnded DEF Objects, OneThingAtATime
  <2>4. ran' \in 0 .. Len(batch') /\ batch' \in Seq(Functor)
    BY <2>1, EmptySeq
  <2>5. TypeOK' /\ OwnChannels' /\ OneThingAtATime' /\ DispatchedIsRegistered'
    BY <2>1, <2>2, <2>3, <2>4 DEF Objects, TypeOK, OwnChannels, OneThingAtATime, DispatchedIsRegistered
  <2> QED
    BY <2>1, <2>3, <2>5, ObjectsKeep DEF Objects, KnownOnly
<1>6. CASE Keep
  <2>1. /\ InUserCode /\ kept' = kept \cup {cur}
        /\ UNCHANGED <<phase, cur, active, batch, ran, process, events, channels, interest, nextID, table,
                       deletions, fdOf, timers, sends, closings, lastSend, tasks, status, sock, out, sent, revents>>
    BY <1>6 DEF Keep, loopVars, pollerVars, callVars
  <2>2. cur \in 1 .. nextID /\ fdOf[cur] # None
    <3>1. cur \in Conn /\ fdOf[cur] # None /\ nextID \in Nat
      BY <2>1 DEF Objects, IdsInTurn, TypeOK
    <3> QED
      BY <3>1, BoundAssumption DEF Objects, IdsInTurn, Conn
  <2>3. TypeOK' /\ OwnChannels' /\ OneThingAtATime' /\ DispatchedIsRegistered'
    BY <2>1, <2>2 DEF Objects, TypeOK, OwnChannels, OneThingAtATime, DispatchedIsRegistered
  <2> QED
    BY <2>1, <2>2, <2>3, QueueKeeps, ObjectsKeep DEF Objects, KnownOnly, IdsInTurn, InUserCode
<1>7. CASE RunAfter
  <2>1. /\ timers < MaxTimers /\ timers' = timers + 1 /\ nextID' = nextID + 1
        /\ UNCHANGED <<phase, cur, active, batch, ran, process, events, channels, interest, kept, table,
                       deletions, fdOf, sends, closings, lastSend, tasks, status, sock, out, sent, revents>>
    BY <1>7 DEF RunAfter, loopVars, pollerVars
  <2>2. timers \in 0 .. MaxTimers /\ nextID \in Nat /\ MaxTimers \in Nat /\ MaxConn \in Nat
    BY BoundAssumption DEF Objects, TypeOK
  <2>3. timers' \in 0 .. MaxTimers /\ nextID' \in Nat /\ DOMAIN table \cup kept \subseteq 1 .. nextID'
    <3>1. DOMAIN table \cup kept \subseteq 1 .. nextID
      BY DEF Objects, TypeOK
    <3>2. 1 .. nextID \subseteq 1 .. nextID'
      BY <2>1, <2>2
    <3> QED
      BY <2>1, <2>2, <3>1, <3>2
  <2>4. TypeOK' /\ OwnChannels' /\ OneThingAtATime' /\ DispatchedIsRegistered'
    BY <2>1, <2>3 DEF Objects, TypeOK, OwnChannels, OneThingAtATime, DispatchedIsRegistered
  <2>5. IdsInTurn'
    <3>1. \A c \in Conn : c \in Nat
      BY BoundAssumption DEF Conn
    <3> QED
      BY <2>1, <2>2, <3>1 DEF Objects, IdsInTurn, InUserCode
  <2>6. KnownOnly'
    BY <2>1, QueueKeeps DEF Objects, KnownOnly
  <2> QED
    BY <2>4, <2>5, <2>6 DEF Objects
<1>8. ASSUME NEW c \in Conn, Drop(c)
      PROVE  Objects'
  <2>1. /\ kept' = kept \ {c} /\ DeleteAgain(Orphans(kept \ {c}, Range(tasks) \cup Range(batch)) \cap {c})
        /\ UNCHANGED <<phase, cur, active, batch, ran, events, channels, interest, nextID, table,
                       fdOf, timers, sends, closings, lastSend, tasks, status, sock, out, sent, revents>>
    BY <1>8 DEF Drop, loopVars, callVars
  <2>2. process' \in {"up", "exited", "aborted"} /\ deletions' \in [Conn -> 0 .. 2]
    BY <2>1 DEF DeleteAgain, Objects, TypeOK
  <2>3. TypeOK' /\ OwnChannels' /\ OneThingAtATime' /\ DispatchedIsRegistered'
    BY <2>1, <2>2 DEF Objects, TypeOK, OwnChannels, OneThingAtATime, DispatchedIsRegistered
  <2>4. IdsInTurn'
    <3>1. UNCHANGED <<nextID, timers, fdOf, phase, cur>>
      BY <2>1
    <3> QED
      BY <3>1 DEF Objects, IdsInTurn, InUserCode
  <2>5. Queue' = Queue
    BY <2>1, QueueKeeps
  <2>6. KnownOnly'
    BY <2>1, <2>5 DEF Objects, KnownOnly
  <2> QED
    BY <2>3, <2>4, <2>6 DEF Objects
<1>9. CASE UNCHANGED vars
  <2>1. UNCHANGED <<phase, cur, active, batch, ran, process, events, channels, interest, nextID, table, deletions,
                    kept, fdOf, timers, sends, closings, lastSend, tasks, status, sock, out, sent, revents>>
    BY <1>9 DEF vars, loopVars, pollerVars, objectVars, callVars
  <2>2. TypeOK' /\ OwnChannels' /\ OneThingAtATime' /\ DispatchedIsRegistered'
    BY <2>1 DEF Objects, TypeOK, OwnChannels, OneThingAtATime, DispatchedIsRegistered
  <2> QED
    BY <2>1, <2>2, QueueKeeps, ObjectsKeep DEF Objects, KnownOnly, IdsInTurn, InUserCode
<1>10. CASE TouchFreed
  <2>1. /\ process' = "aborted"
        /\ UNCHANGED <<phase, cur, active, batch, ran, events, channels, interest, nextID, table, deletions,
                       kept, fdOf, timers, sends, closings, lastSend, tasks, status, sock, out, sent, revents>>
    BY <1>10 DEF TouchFreed, loopVars, objectVars, callVars
  <2>2. TypeOK' /\ OwnChannels' /\ OneThingAtATime' /\ DispatchedIsRegistered'
    BY <2>1 DEF Objects, TypeOK, OwnChannels, OneThingAtATime, DispatchedIsRegistered
  <2> QED
    BY <2>1, <2>2, QueueKeeps, ObjectsKeep DEF Objects, KnownOnly, IdsInTurn, InUserCode
<1> QED
  BY <1>1, <1>2, <1>3, <1>4, <1>5, <1>6, <1>7, <1>8, <1>9, <1>10

LEMMA InitObjects == Init => Objects /\ Queue = <<>>
<1> SUFFICES ASSUME Init
             PROVE  Objects /\ Queue = <<>>
  OBVIOUS
<1>1. TypeOK
  BY BoundAssumption, EmptySeq DEF Init, TypeOK, Acceptor
<1>2. Queue = <<>>
  BY SubSeqEmpty, EmptySeq, ConcatEmptySeq DEF Init, Queue
<1>3. Range(Queue) = {}
  BY <1>2 DEF Range
<1>4. IdsInTurn /\ KnownOnly /\ OwnChannels /\ OneThingAtATime /\ DispatchedIsRegistered
  BY <1>3, BoundAssumption
     DEF Init, IdsInTurn, KnownOnly, OwnChannels, OneThingAtATime, DispatchedIsRegistered, InUserCode, Acceptor
<1> QED
  BY <1>1, <1>2, <1>4 DEF Objects

LEMMA ObjectsStep == Objects /\ [Next]_vars => Objects'
  BY PollObjects, DispatchObjects, NewConnectionObjects, RunTaskObjects, UserCallObjects, QuietObjects
     DEF Next, LoopStep, UserStep

(* The types of all variables are kept, for every number of connections,   *)
(* calls and descriptors.                                                  *)
THEOREM TypeCorrect == Spec => []TypeOK
<1>1. Objects => TypeOK
  BY DEF Objects
<1> QED
  BY <1>1, InitObjects, ObjectsStep, PTL DEF Spec

(* A channel that Start still has to dispatch is registered, whatever the  *)
(* callbacks of the same round have done meanwhile.                        *)
THEOREM DispatchIsSafe == Spec => []DispatchedIsRegistered
<1>1. Objects => DispatchedIsRegistered
  BY DEF Objects
<1> QED
  BY <1>1, InitObjects, ObjectsStep, PTL DEF Spec

-----------------------------------------------------------------------------
(* What the steps do, given that the objects are well-formed *)

(* Steps that are about the loop, the table or the user's pointers *)
Quiet ==
  \/ Poll \/ EventReturns \/ EstablishedReturns \/ AcceptFails \/ TakeTasks \/ EndIteration
  \/ Keep \/ RunAfter \/ (\E c \in Conn : Drop(c)) \/ TouchFreed \/ UNCHANGED vars

LEMMA QuietStep ==
  ASSUME Objects, Quiet
  PROVE  /\ Queue' = Queue
         /\ UNCHANGED <<channels, interest, events, status, sock, out, sent, fdOf, closings, sends, lastSend>>
         /\ process' \in {process, "up", "aborted"}
         /\ \A c \in Conn : deletions'[c] > 0 <=> deletions[c] > 0
         /\ \/ UNCHANGED tasks /\ \A f : InBatch(f)' => InBatch(f)
            \/ tasks' = <<>> /\ \A f : InBatch(f)' => f \in Range(tasks)
<1>1. CASE Poll \/ EventReturns \/ EstablishedReturns \/ AcceptFails \/ Keep \/ RunAfter \/ UNCHANGED vars
  <2>1. UNCHANGED <<tasks, batch, ran, process, deletions, channels, interest, events, status, sock, out, sent,
                    fdOf, closings, sends, lastSend>>
    BY <1>1 DEF Poll, EventReturns, EstablishedReturns, AcceptFails, Keep, RunAfter, vars,
                loopVars, pollerVars, objectVars, callVars
  <2> QED
    BY <2>1, QueueKeeps
<1>2. CASE TakeTasks
  <2>1. /\ phase = "handle" /\ batch' = tasks /\ tasks' = <<>>
        /\ UNCHANGED <<ran, process, deletions, channels, interest, events, status, sock, out, sent,
                       fdOf, closings, sends, lastSend>>
    BY <1>2 DEF TakeTasks, pollerVars, objectVars, callVars
  <2>2. batch = <<>> /\ ran = 0
    BY <2>1 DEF Objects, OneThingAtATime
  <2> QED
    BY <2>1, <2>2, QueueIsTaken DEF Objects
<1>3. CASE EndIteration
  <2>1. /\ ran = Len(batch) /\ batch' = <<>> /\ ran' = 0
        /\ UNCHANGED <<tasks, channels, interest, events, status, sock, out, sent, fdOf, closings, sends, lastSend>>
        /\ DeleteAgain(Orphans(kept, Range(tasks)))
    BY <1>3 DEF EndIteration, callVars
  <2>2. Queue' = Queue /\ \A f : ~InBatch(f)'
    BY <2>1, QueueIsEnded DEF Objects
  <2>3. process' \in {process, "up", "aborted"} /\ \A c \in Conn : deletions'[c] > 0 <=> deletions[c] > 0
    BY <2>1 DEF DeleteAgain, Orphans
  <2> QED
    BY <2>1, <2>2, <2>3
<1>4. ASSUME NEW c \in Conn, Drop(c)
      PROVE  /\ UNCHANGED <<tasks, batch, ran, channels, interest, events, status, sock, out, sent, fdOf, closings, sends, lastSend>>
             /\ process' \in {process, "up", "aborted"}
             /\ \A d \in Conn : deletions'[d] > 0 <=> deletions[d] > 0
  <2>1. /\ UNCHANGED <<tasks, batch, ran, channels, interest, events, status, sock, out, sent, fdOf, closings, sends, lastSend>>
        /\ DeleteAgain(Orphans(kept \ {c}, Range(tasks) \cup Range(batch)) \cap {c})
    BY <1>4 DEF Drop, loopVars, callVars
  <2> QED
    BY <2>1 DEF DeleteAgain, Orphans
<1>5. CASE TouchFreed
  <2>1. /\ process' = "aborted"
        /\ UNCHANGED <<tasks, batch, ran, deletions, channels, interest, events, status, sock, out, sent,
                       fdOf, closings, sends, lastSend>>
    BY <1>5 DEF TouchFreed, loopVars, objectVars, callVars
  <2> QED
    BY <2>1, QueueKeeps
<1> QED
  BY <1>1, <1>2, <1>3, <1>4, <1>5, QueueKeeps DEF Quiet

(* The user's calls *)
SendsNow(c, x) ==
  /\ sends' = sends + 1 /\ UNCHANGED closings
  /\ x[1] = "loop" /\ SendInLoop(c, x) /\ Queue' = Queue

SendsLater(c, x) ==
  /\ sends' = sends + 1 /\ UNCHANGED closings
  /\ x[1] = "other" /\ Queue' = Append(Queue, <<"Send", c, x>>)
  /\ tasks' = Append(tasks, <<"Send", c, x>>)
  /\ UNCHANGED <<pollerVars, status, sock, out>>

ShutsNow(c) ==
  /\ UNCHANGED sends /\ closings' = [closings EXCEPT ![c] = @ + 1]
  /\ ShutdownInloop(c) /\ batch = <<>>
  /\ Queue' = IF out[c] = <<>> THEN Append(Queue, <<"Release", c>>) ELSE Queue

ClosesLater(c, k) ==
  /\ UNCHANGED sends /\ closings' = [closings EXCEPT ![c] = @ + 1]
  /\ Queue' = Append(Queue, <<k, c>>) /\ tasks' = Append(tasks, <<k, c>>)
  /\ UNCHANGED <<pollerVars, status, sock, out>>

LEMMA UserCallStep ==
  ASSUME Objects, NEW c \in Conn, NEW who \in Caller,
         Send(who, c) \/ Shutdown(who, c) \/ UserRelease(who, c)
  PROVE  /\ fdOf[c] # None /\ process = "up"
         /\ UNCHANGED <<phase, batch, ran, fdOf, deletions, lastSend, sent, revents>>
         /\ \A f : InBatch(f)' <=> InBatch(f)
         /\ \/ \E x \in Data : x[2] = sends + 1 /\ (SendsNow(c, x) \/ SendsLater(c, x))
            \/ ShutsNow(c)
            \/ \E k \in {"Shutdown", "Release"} : ClosesLater(c, k)
<1>1. /\ fdOf[c] # None /\ process = "up" /\ (who = "loop" => InUserCode)
      /\ UNCHANGED <<phase, batch, ran, fdOf, deletions, lastSend, sent, revents>>
  <2>1. MayCall(who, c) /\ UNCHANGED <<phase, batch, ran, fdOf, deletions, lastSend, sent, revents>>
    BY DEF Send, Shutdown, UserRelease, CountClosing, loopVars, objectVars
  <2> QED
    BY <2>1 DEF MayCall, Objects, KnownOnly, IdsInTurn
<1>2. \A f : InBatch(f)' <=> InBatch(f)
  BY <1>1 DEF InBatch
<1>3. CASE Send(who, c)
  <2>1. PICK x \in Data : x = <<who, sends + 1>>
    <3>1. sends \in 0 .. MaxCalls /\ timers \in Nat /\ sends + timers < MaxCalls /\ MaxCalls \in Nat
      BY <1>3, BoundAssumption DEF Send, Objects, TypeOK
    <3>2. <<who, sends + 1>> \in Data
      BY <3>1 DEF Data
    <3> QED
      BY <3>2
  <2>2. <<"Send", c, x>> \in Functor
    BY Functors
  <2>3. CASE who = "loop"
    <3>1. SendInLoop(c, x) /\ sends' = sends + 1 /\ UNCHANGED closings /\ UNCHANGED tasks
      BY <1>3, <2>1, <2>3 DEF Send, SendInLoop
    <3> QED
      BY <1>1, <1>2, <2>1, <2>3, <3>1, QueueKeeps DEF SendsNow
  <2>4. CASE who = "other"
    <3>1. /\ sends' = sends + 1 /\ UNCHANGED closings /\ tasks' = Append(tasks, <<"Send", c, x>>)
          /\ UNCHANGED <<pollerVars, status, sock, out>>
      BY <1>3, <2>1, <2>4 DEF Send, QueueInLoop
    <3>2. Queue' = Append(Queue, <<"Send", c, x>>)
      BY <1>1, <2>2, <3>1, QueueGets DEF Objects
    <3> QED
      BY <1>1, <1>2, <2>1, <2>4, <3>1, <3>2 DEF SendsLater
  <2> QED
    BY <2>3, <2>4 DEF Caller
<1>4. CASE Shutdown(who, c) /\ who = "loop"
  <2>1. /\ UNCHANGED sends /\ closings' = [closings EXCEPT ![c] = @ + 1] /\ ShutdownInloop(c)
        /\ batch = <<>>
    BY <1>1, <1>4 DEF Shutdown, CountClosing, InUserCode, Objects, OneThingAtATime
  <2>2. tasks' = IF out[c] = <<>> THEN Append(tasks, <<"Release", c>>) ELSE tasks
    BY <2>1 DEF ShutdownInloop, Release, QueueInLoop
  <2>3. Queue' = IF out[c] = <<>> THEN Append(Queue, <<"Release", c>>) ELSE Queue
    BY <1>1, <2>2, Functors, QueueGets, QueueKeeps DEF Objects
  <2> QED
    BY <1>1, <1>2, <2>1, <2>3 DEF ShutsNow
<1>5. CASE (Shutdown(who, c) /\ who = "other") \/ UserRelease(who, c)
  <2>1. PICK k \in {"Shutdown", "Release"} :
          /\ UNCHANGED sends /\ closings' = [closings EXCEPT ![c] = @ + 1]
          /\ tasks' = Append(tasks, <<k, c>>)
          /\ UNCHANGED <<pollerVars, status, sock, out>>
    BY <1>5 DEF Shutdown, UserRelease, CountClosing, Release, QueueInLoop
  <2>2. Queue' = Append(Queue, <<k, c>>)
    BY <1>1, <2>1, Functors, QueueGets DEF Objects
  <2> QED
    BY <1>1, <1>2, <2>1, <2>2 DEF ClosesLater
<1> QED
  BY <1>3, <1>4, <1>5 DEF Caller

(* RunTask *)
RunsSend(c) ==
  /\ \E x \in Data : Queue[1] = <<"Send", c, x>> /\ SendInLoop(c, x)
  /\ Queue' = Tail(Queue)

RunsShutdown(c) ==
  /\ Queue[1] = <<"Shutdown", c>> /\ ShutdownInloop(c)
  /\ Queue' = IF out[c] = <<>> THEN Append(Tail(Queue), <<"Release", c>>) ELSE Tail(Queue)

RunsRelease(c) ==
  /\ Queue[1] = <<"Release", c>> /\ InBatch(<<"Release", c>>) /\ ReleaseInLoop(c) /\ NoteSends(c)
  /\ Queue' = Append(Tail(Queue), <<"Remove", c>>)

RunsRemove(c) ==
  /\ Queue[1] = <<"Remove", c>> /\ Queue' = Tail(Queue)
  /\ \/ RemoveConnectionInLoop(c)
     \/ UNCHANGED <<table, deletions, pollerVars, tasks, status, sock, out>>

LEMMA RunTaskStep ==
  ASSUME Objects, RunTask
  PROVE  /\ Queue # <<>> /\ phase = "run" /\ process = "up"
         /\ UNCHANGED <<phase, fdOf, sends, closings, sent>>
         /\ \A f : InBatch(f)' => InBatch(f)
         /\ \E c \in Conn :
              /\ fdOf[c] # None
              /\ \/ RunsSend(c) /\ UNCHANGED <<deletions, lastSend>>
                 \/ RunsShutdown(c) /\ UNCHANGED <<deletions, lastSend>>
                 \/ RunsRelease(c) /\ UNCHANGED deletions
                 \/ RunsRemove(c) /\ UNCHANGED lastSend
<1>1. /\ phase = "run" /\ process = "up" /\ ran < Len(batch) /\ ran' = ran + 1 /\ UNCHANGED batch
      /\ UNCHANGED <<phase, fdOf, sends, closings, sent>>
  BY DEF RunTask
<1>2. PICK f \in Functor : f = batch[ran + 1] /\ f = Queue[1] /\ InBatch(f)
  BY <1>1, QueueRuns DEF Objects
<1>3. /\ Queue # <<>> /\ Queue \in Seq(Functor)
      /\ tasks' = tasks => Queue' = Tail(Queue)
      /\ \A g \in Functor : tasks' = Append(tasks, g) => Queue' = Append(Tail(Queue), g)
      /\ \A g : InBatch(g)' => InBatch(g)
  BY <1>1, QueueRuns, QueueIsTyped DEF Objects
<1>4. PICK c \in Conn : c = f[2]
  BY <1>2, Functors
<1>5. fdOf[c] # None
  <2>1. f \in Range(Queue)
    BY <1>2, <1>3, TailOf
  <2> QED
    BY <1>4, <2>1 DEF Objects, KnownOnly
<1>6. \/ f[1] = "Send" /\ SendInLoop(c, f[3]) /\ UNCHANGED <<table, deletions, lastSend>>
      \/ f[1] = "Shutdown" /\ ShutdownInloop(c) /\ UNCHANGED <<table, deletions, lastSend>>
      \/ f[1] = "Release" /\ ReleaseInLoop(c) /\ NoteSends(c) /\ UNCHANGED <<table, deletions>>
      \/ f[1] = "Remove" /\ RemoveConnectionInLoop(c) /\ UNCHANGED lastSend
      \/ /\ f[1] = "Remove" /\ UNCHANGED lastSend
         /\ UNCHANGED <<table, deletions, pollerVars, tasks, status, sock, out>>
  BY <1>2, <1>4 DEF RunTask
<1>7. CASE f[1] = "Send" /\ SendInLoop(c, f[3]) /\ UNCHANGED <<table, deletions, lastSend>>
  <2>1. f[3] \in Data /\ f = <<"Send", c, f[3]>>
    BY <1>2, <1>4, <1>7, Functors DEF Functor
  <2>2. tasks' = tasks
    BY <1>7 DEF SendInLoop
  <2>3. RunsSend(c)
    BY <1>2, <1>3, <1>7, <2>1, <2>2 DEF RunsSend
  <2> QED
    BY <1>1, <1>3, <1>5, <1>7, <2>3
<1>8. CASE f[1] = "Shutdown" /\ ShutdownInloop(c) /\ UNCHANGED <<table, deletions, lastSend>>
  <2>1. f = <<"Shutdown", c>>
    BY <1>4, <1>8, Functors
  <2>2. tasks' = IF out[c] = <<>> THEN Append(tasks, <<"Release", c>>) ELSE tasks
    BY <1>8 DEF ShutdownInloop, Release, QueueInLoop
  <2>3. RunsShutdown(c)
    BY <1>2, <1>3, <1>8, <2>1, <2>2, Functors DEF RunsShutdown
  <2> QED
    BY <1>1, <1>3, <1>5, <1>8, <2>3
<1>9. CASE f[1] = "Release" /\ ReleaseInLoop(c) /\ NoteSends(c) /\ UNCHANGED <<table, deletions>>
  <2>1. f = <<"Release", c>>
    BY <1>4, <1>9, Functors
  <2>2. tasks' = Append(tasks, <<"Remove", c>>)
    BY <1>9 DEF ReleaseInLoop, QueueInLoop
  <2>3. RunsRelease(c)
    BY <1>2, <1>3, <1>9, <2>1, <2>2, Functors DEF RunsRelease
  <2> QED
    BY <1>1, <1>3, <1>5, <1>9, <2>3
<1>10. CASE /\ f[1] = "Remove" /\ UNCHANGED lastSend
            /\ \/ RemoveConnectionInLoop(c)
               \/ UNCHANGED <<table, deletions, pollerVars, tasks, status, sock, out>>
  <2>1. f = <<"Remove", c>>
    BY <1>4, <1>10, Functors
  <2>2. tasks' = tasks
    BY <1>10 DEF RemoveConnectionInLoop
  <2>3. RunsRemove(c)
    BY <1>2, <1>3, <1>10, <2>1, <2>2 DEF RunsRemove
  <2> QED
    BY <1>1, <1>3, <1>5, <1>10, <2>3
<1> QED
  BY <1>6, <1>7, <1>8, <1>9, <1>10

-----------------------------------------------------------------------------
(* Order *)

LEMMA TailKeepsOrder ==
  ASSUME NEW q \in Seq(Functor), q # <<>>, NEW n \in Nat, SendsInOrder(q, n)
  PROVE  /\ SendsInOrder(Tail(q), n)
         /\ q[1][1] = "Send" =>
              /\ q[1][3][1] = "other" /\ q[1][3][2] <= n
              /\ \A f \in Range(Tail(q)) : f[1] = "Send" => q[1][3][2] < f[3][2]
<1>1. /\ Len(q) \in Nat \ {0} /\ DOMAIN q = 1 .. Len(q) /\ DOMAIN Tail(q) = 1 .. Len(q) - 1
      /\ \A i \in 1 .. Len(q) - 1 : Tail(q)[i] = q[i + 1]
      /\ \A x : x \in Range(q) <=> x \in Range(Tail(q)) \/ x = q[1]
  BY TailOf
<1>2. \A i \in 1 .. Len(q) - 1 : i + 1 \in 1 .. Len(q) /\ 1 < i + 1
  BY <1>1
<1>3. 1 \in 1 .. Len(q)
  BY <1>1
<1>4. SendsInOrder(Tail(q), n)
  <2>1. \A i, j \in DOMAIN Tail(q) :
          i < j /\ Tail(q)[i][1] = "Send" /\ Tail(q)[j][1] = "Send" => Tail(q)[i][3][2] < Tail(q)[j][3][2]
    <3> SUFFICES ASSUME NEW i \in 1 .. Len(q) - 1, NEW j \in 1 .. Len(q) - 1, i < j,
                        Tail(q)[i][1] = "Send", Tail(q)[j][1] = "Send"
                 PROVE  Tail(q)[i][3][2] < Tail(q)[j][3][2]
      BY <1>1
    <3>1. i + 1 \in DOMAIN q /\ j + 1 \in DOMAIN q /\ i + 1 < j + 1
      BY <1>1, <1>2
    <3>2. Tail(q)[i] = q[i + 1] /\ Tail(q)[j] = q[j + 1]
      BY <1>1
    <3> QED
      BY <3>1, <3>2 DEF SendsInOrder
  <2> QED
    BY <1>1, <2>1 DEF SendsInOrder
<1>5. ASSUME q[1][1] = "Send", NEW f \in Range(Tail(q)), f[1] = "Send"
      PROVE  q[1][3][2] < f[3][2]
  <2>1. PICK i \in 1 .. Len(q) - 1 : f = q[i + 1]
    BY <1>1 DEF Range
  <2> QED
    BY <1>1, <1>2, <1>3, <1>5, <2>1 DEF SendsInOrder
<1> QED
  BY <1>1, <1>4, <1>5 DEF SendsInOrder

LEMMA AppendKeepsOrder ==
  ASSUME NEW q \in Seq(Functor), NEW n \in Nat, SendsInOrder(q, n), NEW f \in Functor, NEW m \in Nat,
         \/ m = n /\ f[1] # "Send"
         \/ m = n + 1 /\ f[1] = "Send" /\ f[3][1] = "other" /\ f[3][2] = m
  PROVE  SendsInOrder(Append(q, f), m)
<1>1. /\ Len(q) \in Nat /\ DOMAIN q = 1 .. Len(q) /\ DOMAIN Append(q, f) = 1 .. Len(q) + 1
      /\ \A i \in 1 .. Len(q) : Append(q, f)[i] = q[i]
      /\ Append(q, f)[Len(q) + 1] = f
      /\ \A x : x \in Range(Append(q, f)) <=> x \in Range(q) \/ x = f
  BY Appended
<1>2. \A g \in Range(q) : g \in Functor /\ (g[1] = "Send" => g[3][2] \in Nat /\ g[3][2] <= n)
  BY RangeOfSeq, Functors DEF SendsInOrder
<1>3. ASSUME NEW g \in Range(Append(q, f)), g[1] = "Send"
      PROVE  g[3][1] = "other" /\ g[3][2] <= m
  <2>1. CASE g \in Range(q)
    BY <1>2, <1>3, <2>1 DEF SendsInOrder
  <2>2. CASE g = f
    BY <1>3, <2>2
  <2> QED
    BY <1>1, <2>1, <2>2
<1>4. ASSUME NEW i \in DOMAIN Append(q, f), NEW j \in DOMAIN Append(q, f), i < j,
             Append(q, f)[i][1] = "Send", Append(q, f)[j][1] = "Send"
      PROVE  Append(q, f)[i][3][2] < Append(q, f)[j][3][2]
  <2>1. i \in 1 .. Len(q) /\ Append(q, f)[i] = q[i] /\ q[i] \in Range(q)
    BY <1>1, <1>4 DEF Range
  <2>2. CASE j \in 1 .. Len(q)
    BY <1>1, <1>4, <2>1, <2>2 DEF SendsInOrder
  <2>3. CASE j = Len(q) + 1
    BY <1>1, <1>2, <1>4, <2>1, <2>3
  <2> QED
    BY <1>1, <2>2, <2>3
<1> QED
  BY <1>3, <1>4 DEF SendsInOrder

LEMMA LineStaysBefore ==
  ASSUME NEW s \in Seq(Data), NEW q, NEW r, NEW c \in Conn, NEW n \in Nat, NEW m \in Nat, n <= m,
         IsBefore(s, q, c, n),
         \A f \in Range(r) : f \in Range(q) \/ f[1] # "Send" \/ f[3][2] = n + 1
  PROVE  IsBefore(s, r, c, m)
<1>1. \A i \in DOMAIN s : s[i][2] \in Nat
  BY LenProperties, ElementOfSeq, Functors
<1> QED
  BY <1>1 DEF IsBefore

LEMMA AppendKeepsLine ==
  ASSUME NEW s \in Seq(Data), NEW q \in Seq(Functor), NEW c \in Conn, NEW n \in Nat, NEW m \in Nat, n <= m,
         NEW x \in Data, x[2] <= m,
         LineInOrder(s), IsBefore(s, q, c, n),
         \A i \in DOMAIN s : s[i][1] = x[1] => s[i][2] < x[2],
         \A f \in Range(q) : x[1] = "other" /\ f[1] = "Send" /\ f[2] = c => x[2] < f[3][2]
  PROVE  LineInOrder(Append(s, x)) /\ IsBefore(Append(s, x), q, c, m)
<1>1. /\ Len(s) \in Nat /\ DOMAIN s = 1 .. Len(s) /\ DOMAIN Append(s, x) = 1 .. Len(s) + 1
      /\ \A i \in 1 .. Len(s) : Append(s, x)[i] = s[i]
      /\ Append(s, x)[Len(s) + 1] = x
  BY Appended
<1>2. IsBefore(s, q, c, m)
  BY LineStaysBefore
<1>3. IsBefore(Append(s, x), q, c, m)
  <2> SUFFICES ASSUME NEW i \in DOMAIN Append(s, x)
               PROVE  /\ Append(s, x)[i][2] <= m
                      /\ \A f \in Range(q) :
                           Append(s, x)[i][1] = "other" /\ f[1] = "Send" /\ f[2] = c
                             => Append(s, x)[i][2] < f[3][2]
    BY DEF IsBefore
  <2>1. CASE i \in 1 .. Len(s)
    BY <1>1, <1>2, <2>1 DEF IsBefore
  <2>2. CASE i = Len(s) + 1
    BY <1>1, <2>2
  <2> QED
    BY <1>1, <2>1, <2>2
<1>4. LineInOrder(Append(s, x))
  <2> SUFFICES ASSUME NEW i \in 1 .. Len(s) + 1, NEW j \in 1 .. Len(s) + 1, i < j,
                      Append(s, x)[i][1] = Append(s, x)[j][1]
               PROVE  Append(s, x)[i][2] < Append(s, x)[j][2]
    BY <1>1 DEF LineInOrder
  <2>1. i \in 1 .. Len(s) /\ Append(s, x)[i] = s[i]
    BY <1>1
  <2>2. CASE j \in 1 .. Len(s)
    BY <1>1, <2>1, <2>2 DEF LineInOrder
  <2>3. CASE j = Len(s) + 1
    BY <1>1, <2>1, <2>3
  <2> QED
    BY <1>1, <2>2, <2>3
<1> QED
  BY <1>3, <1>4

LEMMA LineIsTyped ==
  ASSUME TypeOK, NEW c \in Conn
  PROVE  Line(c) \in Seq(Data)
  BY ConcatProperties DEF TypeOK, Line

LEMMA LineGrows ==
  ASSUME TypeOK, NEW c \in Conn, NEW x \in Data, out' = [out EXCEPT ![c] = Append(@, x)], UNCHANGED sent
  PROVE  \A d \in Conn : Line(d)' = IF d = c THEN Append(Line(c), x) ELSE Line(d)
<1>1. PICK s \in Seq(Data), o \in Seq(Data) : s = sent[c] /\ o = out[c]
  BY DEF TypeOK
<1>2. Append(o, x) = o \o <<x>> /\ <<x>> \in Seq(Data)
  BY AppendIsConcat
<1>3. s \o (o \o <<x>>) = (s \o o) \o <<x>>
  BY <1>2, ConcatAssociative
<1>4. s \o o \in Seq(Data)
  BY ConcatProperties
<1>5. Append(s \o o, x) = (s \o o) \o <<x>>
  BY <1>4, AppendIsConcat
<1>6. /\ out'[c] = Append(o, x) /\ sent'[c] = s
      /\ \A d \in Conn : d # c => out'[d] = out[d] /\ sent'[d] = sent[d]
  BY <1>1 DEF TypeOK
<1>7. \A d \in Conn : Line(d) = sent[d] \o out[d] /\ Line(d)' = sent'[d] \o out'[d]
  BY DEF Line
<1>8. Line(c)' = s \o Append(o, x) /\ Line(c) = s \o o
  BY <1>1, <1>6, <1>7
<1>9. Line(c)' = Append(Line(c), x)
  BY <1>2, <1>3, <1>5, <1>8
<1>10. \A d \in Conn : d # c => Line(d)' = Line(d)
  BY <1>6, <1>7
<1> QED
  BY <1>9, <1>10

LEMMA LineIsBelow ==
  ASSUME Objects, Order, NEW c \in Conn
  PROVE  /\ Line(c) \in Seq(Data) /\ sends \in Nat /\ Queue \in Seq(Functor)
         /\ LineInOrder(Line(c)) /\ IsBefore(Line(c), Queue, c, sends)
         /\ SendsInOrder(Queue, sends)
<1>1. TypeOK
  BY DEF Objects
<1>2. Line(c) \in Seq(Data) /\ Queue \in Seq(Functor)
  BY <1>1, LineIsTyped, QueueIsTyped
<1>3. sends \in Nat
  BY <1>1, BoundAssumption DEF TypeOK
<1> QED
  BY <1>2, <1>3 DEF Order

(* Steps that put nothing into an output buffer *)
LEMMA LinesKeepOrder ==
  ASSUME Objects, Order, sends' \in Nat, sends <= sends', \A d \in Conn : Line(d)' = Line(d),
         SendsInOrder(Queue', sends'),
         \A f \in Range(Queue') : f \in Range(Queue) \/ f[1] # "Send" \/ f[3][2] = sends + 1
  PROVE  Order'
<1>1. PICK m \in Nat, q \in {Queue'} : m = sends'
  OBVIOUS
<1>2. ASSUME NEW d \in Conn
      PROVE  LineInOrder(Line(d)') /\ IsBefore(Line(d)', q, d, m)
  <2>1. PICK s \in Seq(Data) : s = Line(d)
    BY LineIsBelow
  <2>2. LineInOrder(s) /\ IsBefore(s, Queue, d, sends) /\ sends \in Nat
    BY <2>1, LineIsBelow
  <2>3. IsBefore(s, q, d, m)
    BY <1>1, <2>2, LineStaysBefore
  <2> QED
    BY <2>1, <2>2, <2>3
<1> QED
  BY <1>1, <1>2 DEF Order

LEMMA QueueKeepsOrder ==
  ASSUME NEW q \in Seq(Functor), NEW n \in Nat, SendsInOrder(q, n), NEW r,
         r = q \/ \E f \in Functor : f[1] # "Send" /\ r = Append(q, f)
  PROVE  /\ SendsInOrder(r, n)
         /\ \A g \in Range(r) : g \in Range(q) \/ g[1] # "Send"
<1>1. ASSUME NEW f \in Functor, f[1] # "Send", r = Append(q, f)
      PROVE  /\ SendsInOrder(r, n)
             /\ \A g \in Range(r) : g \in Range(q) \/ g[1] # "Send"
  <2>1. SendsInOrder(r, n)
    BY <1>1, AppendKeepsOrder
  <2>2. \A g : g \in Range(Append(q, f)) <=> g \in Range(q) \/ g = f
    BY Appended
  <2> QED
    BY <1>1, <2>1, <2>2
<1> QED
  BY <1>1

LEMMA OtherStepsOrder ==
  ASSUME Objects, Order, UNCHANGED sends, \A d \in Conn : Line(d)' = Line(d),
         NEW q, q = Queue \/ (Queue # <<>> /\ q = Tail(Queue)),
         Queue' = q \/ \E f \in Functor : f[1] # "Send" /\ Queue' = Append(q, f)
  PROVE  Order'
<1>1. Queue \in Seq(Functor) /\ sends \in Nat /\ SendsInOrder(Queue, sends)
  BY QueueIsTyped DEF Objects, Order, TypeOK
<1>2. q \in Seq(Functor) /\ SendsInOrder(q, sends) /\ Range(q) \subseteq Range(Queue)
  <2>1. CASE Queue # <<>> /\ q = Tail(Queue)
    <3>1. Tail(Queue) \in Seq(Functor) /\ \A x : x \in Range(Queue) <=> x \in Range(Tail(Queue)) \/ x = Queue[1]
      BY <1>1, <2>1, TailOf
    <3>2. SendsInOrder(Tail(Queue), sends)
      BY <1>1, <2>1, TailKeepsOrder
    <3> QED
      BY <2>1, <3>1, <3>2
  <2> QED
    BY <1>1, <2>1
<1>3. /\ SendsInOrder(Queue', sends)
      /\ \A g \in Range(Queue') : g \in Range(q) \/ g[1] # "Send"
  BY <1>1, <1>2, QueueKeepsOrder
<1> QED
  BY <1>1, <1>2, <1>3, LinesKeepOrder

(* An item that SendInLoop takes comes after all that is in the line of    *)
(* its connection.                                                         *)
LEMMA SendKeepsOrder ==
  ASSUME Objects, Order, NEW c \in Conn, NEW x \in Data, SendInLoop(c, x), UNCHANGED sent,
         sends' \in Nat, sends <= sends', x[2] <= sends',
         SendsInOrder(Queue', sends'), Range(Queue') \subseteq Range(Queue), Queue' \in Seq(Functor),
         \A i \in DOMAIN Line(c) : Line(c)[i][1] = x[1] => Line(c)[i][2] < x[2],
         \A f \in Range(Queue') : x[1] = "other" /\ f[1] = "Send" /\ f[2] = c => x[2] < f[3][2]
  PROVE  Order'
<1>1. CASE out' = out
  <2>1. \A d \in Conn : Line(d)' = Line(d)
    BY <1>1 DEF Line
  <2> QED
    BY <2>1, LinesKeepOrder
<1>2. CASE out' = [out EXCEPT ![c] = Append(@, x)]
  <2>1. \A d \in Conn : Line(d)' = IF d = c THEN Append(Line(c), x) ELSE Line(d)
    BY <1>2, LineGrows DEF Objects
  <2>2. PICK q \in Seq(Functor), m \in Nat : q = Queue' /\ m = sends'
    OBVIOUS
  <2>3. ASSUME NEW d \in Conn
        PROVE  LineInOrder(Line(d)') /\ IsBefore(Line(d)', q, d, m)
    <3>1. PICK s \in Seq(Data) : s = Line(d)
      BY LineIsBelow
    <3>2. LineInOrder(s) /\ IsBefore(s, Queue, d, sends) /\ sends \in Nat
      BY <3>1, LineIsBelow
    <3>3. IsBefore(s, q, d, m) /\ IsBefore(s, q, d, sends)
      <4>1. sends <= m /\ sends <= sends /\ \A f \in Range(q) : f \in Range(Queue)
        BY <2>2, <3>2
      <4>2. IsBefore(s, q, d, m)
        BY <3>2, <4>1, LineStaysBefore
      <4>3. IsBefore(s, q, d, sends)
        BY <3>2, <4>1, LineStaysBefore
      <4> QED
        BY <4>2, <4>3
    <3>4. CASE d = c
      <4>1. /\ LineInOrder(s) /\ IsBefore(s, q, c, sends) /\ sends \in Nat
            /\ sends <= m /\ x[2] <= m
            /\ \A i \in DOMAIN s : s[i][1] = x[1] => s[i][2] < x[2]
            /\ \A f \in Range(q) : x[1] = "other" /\ f[1] = "Send" /\ f[2] = c => x[2] < f[3][2]
        BY <2>2, <3>1, <3>2, <3>3, <3>4
      <4>2. LineInOrder(Append(s, x)) /\ IsBefore(Append(s, x), q, c, m)
        BY <4>1, AppendKeepsLine
      <4> QED
        BY <2>1, <3>1, <3>4, <4>2
    <3> QED
      BY <2>1, <3>1, <3>2, <3>3, <3>4
  <2> QED
    BY <2>2, <2>3 DEF Order
<1> QED
  BY <1>1, <1>2 DEF SendInLoop

LEMMA UserCallOrder ==
  ASSUME Objects, Order, NEW c \in Conn, NEW who \in Caller,
         Send(who, c) \/ Shutdown(who, c) \/ UserRelease(who, c)
  PROVE  Order'
<1>1. /\ UNCHANGED sent
      /\ \/ \E x \in Data : x[2] = sends + 1 /\ (SendsNow(c, x) \/ SendsLater(c, x))
         \/ ShutsNow(c)
         \/ \E k \in {"Shutdown", "Release"} : ClosesLater(c, k)
  BY UserCallStep
<1>2. /\ sends \in Nat /\ Queue \in Seq(Functor) /\ SendsInOrder(Queue, sends)
      /\ Line(c) \in Seq(Data) /\ IsBefore(Line(c), Queue, c, sends)
  BY LineIsBelow
<1>3. CASE ShutsNow(c) \/ \E k \in {"Shutdown", "Release"} : ClosesLater(c, k)
  <2>1. /\ UNCHANGED <<sends, out>>
        /\ Queue' = Queue \/ \E k \in {"Shutdown", "Release"} : Queue' = Append(Queue, <<k, c>>)
    BY <1>3 DEF ShutsNow, ClosesLater, ShutdownInloop
  <2>2. \A d \in Conn : Line(d)' = Line(d)
    BY <1>1, <2>1 DEF Line
  <2>3. \A k \in {"Shutdown", "Release"} : <<k, c>> \in Functor /\ <<k, c>>[1] # "Send"
    BY Functors
  <2>4. Queue' = Queue \/ \E f \in Functor : f[1] # "Send" /\ Queue' = Append(Queue, f)
    BY <2>1, <2>3
  <2> QED
    BY <2>1, <2>2, <2>4, OtherStepsOrder
<1>4. ASSUME NEW x \in Data, x[2] = sends + 1, SendsNow(c, x)
      PROVE  Order'
  <2>1. /\ sends' = sends + 1 /\ x[1] = "loop" /\ SendInLoop(c, x) /\ Queue' = Queue
    BY <1>4 DEF SendsNow
  <2>2. SendsInOrder(Queue, sends + 1)
    <3>1. \A f \in Range(Queue) : f[1] = "Send" => f[3][2] \in Nat
      BY <1>2, RangeOfSeq, Functors
    <3> QED
      BY <1>2, <3>1 DEF SendsInOrder
  <2>3. \A i \in DOMAIN Line(c) : Line(c)[i][1] = x[1] => Line(c)[i][2] < x[2]
    <3>1. PICK s \in Seq(Data) : s = Line(c)
      BY <1>2
    <3>2. \A i \in DOMAIN s : s[i][2] \in Nat
      BY LenProperties, ElementOfSeq, Functors
    <3>3. \A i \in DOMAIN s : s[i][2] <= sends
      BY <1>2, <3>1 DEF IsBefore
    <3> QED
      BY <1>2, <1>4, <3>1, <3>2, <3>3
  <2> QED
    BY <1>1, <1>2, <1>4, <2>1, <2>2, <2>3, SendKeepsOrder
<1>5. ASSUME NEW x \in Data, x[2] = sends + 1, SendsLater(c, x)
      PROVE  Order'
  <2>1. /\ sends' = sends + 1 /\ x[1] = "other" /\ Queue' = Append(Queue, <<"Send", c, x>>)
        /\ UNCHANGED out
    BY <1>5 DEF SendsLater
  <2>2. PICK f \in Functor : f = <<"Send", c, x>>
    BY Functors
  <2>3. \A d \in Conn : Line(d)' = Line(d)
    BY <1>1, <2>1 DEF Line
  <2>4. f[1] = "Send" /\ f[3] = x
    BY <2>2
  <2>5. sends + 1 \in Nat /\ sends <= sends + 1
    BY <1>2
  <2>6. SendsInOrder(Append(Queue, f), sends + 1)
    BY <1>2, <1>5, <2>1, <2>4, <2>5, AppendKeepsOrder
  <2>7. \A g : g \in Range(Append(Queue, f)) <=> g \in Range(Queue) \/ g = f
    BY <1>2, Appended
  <2>8. \A g \in Range(Queue') : g \in Range(Queue) \/ g[1] # "Send" \/ g[3][2] = sends + 1
    BY <1>5, <2>1, <2>2, <2>4, <2>7
  <2> QED
    BY <2>1, <2>2, <2>3, <2>5, <2>6, <2>8, LinesKeepOrder
<1> QED
  BY <1>1, <1>3, <1>4, <1>5

LEMMA RunTaskOrder ==
  ASSUME Objects, Order, RunTask
  PROVE  Order'
<1>1. /\ sends \in Nat /\ Queue \in Seq(Functor) /\ SendsInOrder(Queue, sends)
  BY QueueIsTyped DEF Objects, Order, TypeOK
<1>2. Queue # <<>> /\ UNCHANGED <<sends, sent>>
  BY RunTaskStep
<1>3. PICK q \in Seq(Functor) : q = Tail(Queue)
  BY <1>1, <1>2, TailOf
<1>4. /\ \A x : x \in Range(Queue) <=> x \in Range(q) \/ x = Queue[1]
      /\ Queue[1] \in Functor
  BY <1>1, <1>2, <1>3, TailOf
<1>5. /\ SendsInOrder(q, sends)
      /\ Queue[1][1] = "Send" =>
           /\ Queue[1][3][1] = "other" /\ Queue[1][3][2] <= sends
           /\ \A f \in Range(q) : f[1] = "Send" => Queue[1][3][2] < f[3][2]
  BY <1>1, <1>2, <1>3, TailKeepsOrder
<1>7. ASSUME NEW c \in Conn, RunsShutdown(c) \/ RunsRelease(c) \/ RunsRemove(c)
      PROVE  Order'
  <2>1. /\ UNCHANGED out
        /\ Queue' = q \/ \E k \in {"Release", "Remove"} : Queue' = Append(q, <<k, c>>)
    BY <1>3, <1>7 DEF RunsShutdown, RunsRelease, RunsRemove, ShutdownInloop, ReleaseInLoop, RemoveConnectionInLoop
  <2>2. \A d \in Conn : Line(d)' = Line(d)
    BY <1>2, <2>1 DEF Line
  <2>3. \A k \in {"Release", "Remove"} : <<k, c>> \in Functor /\ <<k, c>>[1] # "Send"
    BY Functors
  <2>4. Queue' = q \/ \E f \in Functor : f[1] # "Send" /\ Queue' = Append(q, f)
    BY <2>1, <2>3
  <2> QED
    BY <1>2, <1>3, <2>2, <2>4, OtherStepsOrder
<1>8. ASSUME NEW c \in Conn, RunsSend(c)
      PROVE  Order'
  <2>1. PICK x \in Data : Queue[1] = <<"Send", c, x>> /\ SendInLoop(c, x) /\ Queue' = q
    BY <1>3, <1>8 DEF RunsSend
  <2>2. /\ x[1] = "other" /\ x[2] <= sends
        /\ \A f \in Range(q) : f[1] = "Send" => x[2] < f[3][2]
    BY <1>5, <2>1
  <2>3. \A i \in DOMAIN Line(c) : Line(c)[i][1] = x[1] => Line(c)[i][2] < x[2]
    <3>1. PICK s \in Seq(Data) : s = Line(c) /\ IsBefore(s, Queue, c, sends)
      BY LineIsBelow
    <3>2. PICK f \in Range(Queue) : f = Queue[1] /\ f[1] = "Send" /\ f[2] = c /\ f[3] = x
      BY <1>4, <2>1
    <3>3. \A i \in DOMAIN s : s[i][1] = x[1] => s[i][2] < x[2]
      BY <2>2, <3>1, <3>2 DEF IsBefore
    <3> QED
      BY <3>1, <3>3
  <2>4. /\ sends' = sends /\ sends' \in Nat /\ sends <= sends' /\ x[2] <= sends'
        /\ SendsInOrder(Queue', sends') /\ Queue' \in Seq(Functor) /\ Range(Queue') \subseteq Range(Queue)
    BY <1>1, <1>2, <1>4, <1>5, <2>1, <2>2
  <2>5. \A f \in Range(Queue') : x[1] = "other" /\ f[1] = "Send" /\ f[2] = c => x[2] < f[3][2]
    BY <2>1, <2>2
  <2> QED
    BY <1>2, <2>1, <2>3, <2>4, <2>5, SendKeepsOrder
<1> QED
  BY <1>7, <1>8, RunTaskStep

LEMMA OrderStep == Objects /\ Order /\ [Next]_vars => Order'
<1> SUFFICES ASSUME Objects, Order, [Next]_vars
             PROVE  Order'
  OBVIOUS
<1>1. CASE Quiet
  <2>1. Queue' = Queue /\ UNCHANGED <<sends, sent, out>>
    BY <1>1, QuietStep
  <2>2. \A d \in Conn : Line(d)' = Line(d)
    BY <2>1 DEF Line
  <2> QED
    BY <2>1, <2>2, OtherStepsOrder
<1>2. ASSUME NEW fd \in Fd, NewConnection(fd)
      PROVE  Order'
  <2>1. UNCHANGED <<sends, sent, out, batch, ran, tasks>>
    BY <1>2 DEF NewConnection, callVars
  <2>2. Queue' = Queue
    BY <2>1, QueueKeeps
  <2>3. \A d \in Conn : Line(d)' = Line(d)
    BY <2>1 DEF Line
  <2> QED
    BY <2>1, <2>2, <2>3, OtherStepsOrder
<1>3. ASSUME NEW c \in Conn, Dispatch(c)
      PROVE  Order'
  <2>1. /\ UNCHANGED <<sends, batch, ran>> /\ \A d \in Conn : Line(d)' = Line(d)
        /\ tasks' = tasks \/ tasks' = Append(tasks, <<"Release", c>>)
    BY <1>3, HandleEventStep
  <2>2. <<"Release", c>> \in Functor /\ <<"Release", c>>[1] # "Send"
    BY Functors
  <2>3. Queue' = Queue \/ Queue' = Append(Queue, <<"Release", c>>)
    BY <2>1, <2>2, QueueKeeps, QueueGets DEF Objects
  <2> QED
    BY <2>1, <2>2, <2>3, OtherStepsOrder
<1>4. CASE RunTask
  BY <1>4, RunTaskOrder
<1>5. CASE \E who \in Caller, c \in Conn : Send(who, c) \/ Shutdown(who, c) \/ UserRelease(who, c)
  BY <1>5, UserCallOrder
<1> QED
  BY <1>1, <1>2, <1>3, <1>4, <1>5 DEF Next, LoopStep, UserStep, Quiet

LEMMA InitOrder == Init => Order
<1> SUFFICES ASSUME Init
             PROVE  Order
  OBVIOUS
<1>1. Queue = <<>>
  BY InitObjects
<1>2. \A c \in Conn : Line(c) = <<>>
  BY EmptySeq, ConcatEmptySeq DEF Init, Line
<1>3. DOMAIN <<>> = {} /\ Range(<<>>) = {}
  BY DEF Range
<1> QED
  BY <1>1, <1>2, <1>3 DEF Order, LineInOrder, IsBefore, SendsInOrder

(* What one thread sends on a connection leaves in the order of its calls, *)
(* through pool, output buffer and partial writes of any length.           *)
THEOREM DataLeavesInOrder == Spec => []SentInOrder
<1>1. Order => SentInOrder
  BY DEF Order, LineInOrder, Line, SentInOrder
<1>2. Init => Objects /\ Order
  BY InitObjects, InitOrder
<1>3. Objects /\ Order /\ [Next]_vars => (Objects /\ Order)'
  BY ObjectsStep, OrderStep
<1> QED
  BY <1>1, <1>2, <1>3, PTL DEF Spec

-----------------------------------------------------------------------------
(* The life of a connection, step by step *)

Asked == {c \in Conn : closings[c] > 0}
Pending == [c \in Conn |-> IF sock[c] = None THEN <<>> ELSE out[c]]

SameFor(c) ==
  /\ fdOf'[c] = fdOf[c] /\ sock'[c] = sock[c] /\ status'[c] = status[c]
  /\ out'[c] = out[c] /\ sent'[c] = sent[c]
  /\ deletions'[c] > 0 <=> deletions[c] > 0

LEMMA LifeIs ==
  ASSUME NEW c \in Conn
  PROVE  /\ Life[c] = IF fdOf[c] = None THEN "none"
                      ELSE IF deletions[c] > 0 THEN "forgotten"
                      ELSE IF sock[c] = None THEN "closed"
                      ELSE IF status[c] = "DISCONNECTING" THEN "closing" ELSE "open"
         /\ Pending[c] = IF sock[c] = None THEN <<>> ELSE out[c]
         /\ Life'[c] = IF fdOf'[c] = None THEN "none"
                       ELSE IF deletions'[c] > 0 THEN "forgotten"
                       ELSE IF sock'[c] = None THEN "closed"
                       ELSE IF status'[c] = "DISCONNECTING" THEN "closing" ELSE "open"
         /\ Pending'[c] = IF sock'[c] = None THEN <<>> ELSE out'[c]
<1>1. Life'[c] = IF fdOf'[c] = None THEN "none"
                 ELSE IF deletions'[c] > 0 THEN "forgotten"
                 ELSE IF sock'[c] = None THEN "closed"
                 ELSE IF status'[c] = "DISCONNECTING" THEN "closing" ELSE "open"
  BY DEF Life
<1>2. Life[c] = IF fdOf[c] = None THEN "none"
                ELSE IF deletions[c] > 0 THEN "forgotten"
                ELSE IF sock[c] = None THEN "closed"
                ELSE IF status[c] = "DISCONNECTING" THEN "closing" ELSE "open"
  BY DEF Life
<1> QED
  BY <1>1, <1>2 DEF Pending

(* A step is about one connection. *)
LEMMA LifeMoves ==
  ASSUME TypeOK, TypeOK', NEW c \in Conn, \A d \in Conn : d # c => SameFor(d)
  PROVE  /\ Life' = [Life EXCEPT ![c] = Life'[c]]
         /\ Pending' = [Pending EXCEPT ![c] = Pending'[c]]
         /\ sent' = [sent EXCEPT ![c] = sent'[c]]
<1>1. sent \in [Conn -> Seq(Data)] /\ sent' \in [Conn -> Seq(Data)]
  BY DEF TypeOK
<1>2. sent' = [sent EXCEPT ![c] = sent'[c]]
  BY <1>1 DEF SameFor
<1>3. Pending' = [Pending EXCEPT ![c] = Pending'[c]]
  BY DEF Pending, SameFor
<1>4. \A d \in Conn : d # c => Life'[d] = Life[d]
  BY LifeIs DEF SameFor
<1>5. Life = [d \in Conn |-> Life[d]] /\ Life' = [d \in Conn |-> Life'[d]]
  BY DEF Life
<1>6. Life' = [Life EXCEPT ![c] = Life'[c]]
  BY <1>4, <1>5
<1> QED
  BY <1>2, <1>3, <1>6

LEMMA LifeStays ==
  ASSUME TypeOK, TypeOK', \A d \in Conn : SameFor(d)
  PROVE  UNCHANGED <<Life, Pending, sent>>
<1>1. sent' = sent
  BY DEF TypeOK, SameFor
<1>2. Pending' = Pending
  BY DEF Pending, SameFor
<1>3. \A d \in Conn : Life'[d] = Life[d]
  BY LifeIs DEF SameFor
<1>4. Life = [d \in Conn |-> Life[d]] /\ Life' = [d \in Conn |-> Life'[d]]
  BY DEF Life
<1>5. Life' = Life
  BY <1>3, <1>4
<1> QED
  BY <1>1, <1>2, <1>5

LEMMA LivesKeep ==
  ASSUME Objects, Objects', Lives, UNCHANGED fdOf,
         NEW S \in SUBSET Conn, \A c \in S : fdOf[c] # None,
         \A d \in Conn \ S : SameFor(d),
         \A c \in S : sock'[c] \in {None, sock[c]},
         \A c \in S : sock'[c] # None /\ out'[c] # <<>> => status'[c] = "DISCONNECTING",
         \A c \in S : deletions'[c] > 0 => deletions[c] > 0 \/ sock'[c] = None,
         \A c \in Conn : Waits(<<"Remove", c>>)' => Waits(<<"Remove", c>>) \/ (c \in S /\ sock'[c] = None)
  PROVE  Lives'
<1>1. /\ deletions \in [Conn -> 0 .. 2] /\ deletions' \in [Conn -> 0 .. 2]
      /\ sock \in [Conn -> Fd \cup {None}]
  BY DEF Objects, TypeOK
<1>2. \A d \in Conn : deletions[d] \in 0 .. 2 /\ deletions'[d] \in 0 .. 2
  BY <1>1
<1>3. UnusedIsUntouched'
  <2>1. \A d \in Conn : fdOf[d] = None => d \notin S
    OBVIOUS
  <2>2. \A d \in Conn : fdOf[d] = None => deletions'[d] = 0
    BY <1>2, <2>1 DEF Lives, UnusedIsUntouched, SameFor
  <2> QED
    BY <2>1, <2>2 DEF Lives, UnusedIsUntouched, SameFor
<1>4. OutputMeansClosing'
  BY DEF Lives, OutputMeansClosing, SameFor
<1>5. RemovedAreClosed'
  <2> SUFFICES ASSUME NEW c \in Conn, deletions'[c] > 0 \/ Waits(<<"Remove", c>>)'
               PROVE  sock'[c] = None
    BY DEF RemovedAreClosed
  <2>1. deletions[c] > 0 \/ Waits(<<"Remove", c>>) \/ sock'[c] = None
    BY DEF SameFor
  <2>2. sock[c] = None => sock'[c] = None
    BY DEF SameFor
  <2> QED
    BY <2>1, <2>2 DEF Lives, RemovedAreClosed
<1> QED
  BY <1>3, <1>4, <1>5 DEF Lives

(* A step of Connection that is none of its life, or asks for its end only *)
LEMMA LifeStutters ==
  ASSUME UNCHANGED <<Life, Pending, sent>>,
         UNCHANGED Asked \/ \E c \in Conn : Asked' = Asked \cup {c}
  PROVE  [CL!Next]_(CL!vars)
<1>1. CASE UNCHANGED Asked
  BY <1>1 DEF Asked, Pending, CL!vars
<1>2. ASSUME NEW c \in Conn, Asked' = Asked \cup {c}
      PROVE  CL!Ask(c)
  BY <1>2 DEF Asked, Pending, CL!Ask
<1> QED
  BY <1>1, <1>2 DEF CL!Next

LEMMA AskedStays ==
  ASSUME UNCHANGED closings
  PROVE  UNCHANGED Asked
  BY DEF Asked

LEMMA AskedGrows ==
  ASSUME TypeOK, NEW c \in Conn, closings' = [closings EXCEPT ![c] = @ + 1]
  PROVE  Asked' = Asked \cup {c}
<1>1. closings \in [Conn -> Nat]
  BY DEF TypeOK
<1>2. closings'[c] > 0 /\ \A d \in Conn : d # c => closings'[d] = closings[d]
  BY <1>1
<1> QED
  BY <1>2 DEF Asked

LEMMA QuietLife ==
  ASSUME Objects, Objects', Lives, Quiet
  PROVE  Lives' /\ [CL!Next]_(CL!vars)
<1>1. \A d \in Conn : SameFor(d)
  BY QuietStep DEF SameFor
<1>2. Queue' = Queue /\ UNCHANGED fdOf /\ UNCHANGED Asked
  BY QuietStep, AskedStays
<1>3. \A c \in Conn : Waits(<<"Remove", c>>)' => Waits(<<"Remove", c>>)
  BY <1>2 DEF Waits
<1>4. Lives'
  <2>1. PICK S \in SUBSET Conn : S = {}
    OBVIOUS
  <2> QED
    BY <1>1, <1>2, <1>3, <2>1, LivesKeep
<1>5. UNCHANGED <<Life, Pending, sent>>
  BY <1>1, LifeStays DEF Objects
<1> QED
  BY <1>2, <1>4, <1>5, LifeStutters

LEMMA NewConnectionLife ==
  ASSUME Objects, Objects', Lives, NEW fd \in Fd, NewConnection(fd)
  PROVE  Lives' /\ [CL!Next]_(CL!vars)
<1>1. PICK new \in Conn : new = nextID + 1
  BY NewConnectionStep
<1>2. /\ fdOf[new] = None /\ fd # None
      /\ fdOf' = [fdOf EXCEPT ![new] = fd] /\ sock' = [sock EXCEPT ![new] = fd]
      /\ UNCHANGED <<batch, ran, deletions, tasks, status, out, sent, closings>>
  BY <1>1, NewConnectionStep
<1>3. /\ \A d \in Conn : d # new => SameFor(d)
      /\ fdOf'[new] = fd /\ sock'[new] = fd
  BY <1>2 DEF SameFor, Objects, TypeOK
<1>4. Queue' = Queue
  BY <1>2, QueueKeeps
<1>5. status[new] = "DISCONNECTED" /\ deletions[new] = 0 /\ out[new] = <<>> /\ ~Waits(<<"Remove", new>>)
  <2>1. <<"Remove", new>>[2] = new
    OBVIOUS
  <2> QED
    BY <1>2, <2>1 DEF Lives, UnusedIsUntouched, Objects, KnownOnly, Waits
<1>6. Lives'
  <2>1. UnusedIsUntouched'
    BY <1>2, <1>3 DEF Lives, UnusedIsUntouched, SameFor
  <2>2. OutputMeansClosing'
    BY <1>2, <1>3, <1>5 DEF Lives, OutputMeansClosing, SameFor
  <2>3. RemovedAreClosed'
    BY <1>2, <1>3, <1>4, <1>5 DEF Lives, RemovedAreClosed, SameFor, Waits
  <2> QED
    BY <2>1, <2>2, <2>3 DEF Lives
<1>7. CL!Open(new)
  <2>1. /\ Life' = [Life EXCEPT ![new] = Life'[new]]
        /\ Pending' = [Pending EXCEPT ![new] = Pending'[new]]
    BY <1>3, LifeMoves DEF Objects
  <2>2. Life[new] = "none" /\ Life'[new] = "open" /\ Pending[new] = Pending'[new]
    <3>1. sock[new] = None
      BY <1>2 DEF Objects, TypeOK
    <3> QED
      BY <1>2, <1>3, <1>5, <3>1, LifeIs
  <2>3. Pending' = Pending
    BY <2>1, <2>2 DEF Pending
  <2> QED
    BY <1>2, <2>1, <2>2, <2>3, AskedStays DEF CL!Open, CL!Move, Pending, Asked
<1> QED
  BY <1>6, <1>7 DEF CL!Next

LEMMA DispatchLife ==
  ASSUME Objects, Objects', Lives, NEW c \in Conn, Dispatch(c)
  PROVE  Lives' /\ [CL!Next]_(CL!vars)
<1>1. /\ UNCHANGED <<status, sock, batch, ran, deletions, fdOf, closings>>
      /\ tasks' = tasks \/ tasks' = Append(tasks, <<"Release", c>>)
      /\ \A d \in Conn : out[d] = <<>> \/ sock[d] = None => out'[d] = out[d] /\ sent'[d] = sent[d]
  BY HandleEventStep
<1>2. fdOf[c] # None
  BY RegisteredIsKnown DEF Dispatch
<1>3. \A d \in Conn : d # c => SameFor(d)
  <2>1. CASE UNCHANGED <<out, sent>>
    BY <1>1, <2>1 DEF SameFor
  <2>2. CASE \E n \in 0 .. Len(out[c]) : SendTakes(c, n)
    BY <1>1, <2>2, TakenStaysInLine DEF SameFor, Objects
  <2> QED
    BY <2>1, <2>2 DEF Dispatch, HandleEvent, HandleWrite, SendFails, HandleClose
<1>4. \A d \in Conn : Waits(<<"Remove", d>>)' => Waits(<<"Remove", d>>)
  <2>1. CASE tasks' = tasks
    BY <1>1, <2>1, QueueKeeps DEF Waits
  <2>2. CASE tasks' = Append(tasks, <<"Release", c>>)
    <3>1. PICK f \in Functor : f = <<"Release", c>>
      BY Functors
    <3>2. Queue' = Append(Queue, f) /\ Queue \in Seq(Functor)
      BY <1>1, <2>2, <3>1, QueueGets, QueueIsTyped DEF Objects
    <3>3. \A g : g \in Range(Append(Queue, f)) <=> g \in Range(Queue) \/ g = f
      BY <3>2, Appended
    <3>4. \A d \in Conn : <<"Remove", d>> # f
      BY <3>1
    <3> QED
      BY <3>2, <3>3, <3>4 DEF Waits
  <2> QED
    BY <1>1, <2>1, <2>2
<1>5. Lives'
  <2>1. \A d \in {c} : sock'[d] # None /\ out'[d] # <<>> => status'[d] = "DISCONNECTING"
    BY <1>1 DEF Lives, OutputMeansClosing
  <2>2. {c} \in SUBSET Conn /\ \A d \in {c} : fdOf[d] # None
    BY <1>2
  <2> QED
    BY <1>1, <1>3, <1>4, <2>1, <2>2, LivesKeep
<1>6. CASE \A d \in Conn : SameFor(d)
  <2>1. UNCHANGED <<Life, Pending, sent>>
    BY <1>6, LifeStays DEF Objects
  <2> QED
    BY <1>1, <1>5, <2>1, LifeStutters, AskedStays
<1>7. CASE ~SameFor(c)
  <2>1. out[c] # <<>> /\ sock[c] # None /\ status[c] = "DISCONNECTING" /\ deletions[c] = 0
    <3>1. out[c] # <<>> /\ sock[c] # None
      BY <1>1, <1>7 DEF SameFor
    <3>2. deletions \in [Conn -> 0 .. 2]
      BY DEF Objects, TypeOK
    <3>3. deletions[c] \in 0 .. 2 /\ ~(deletions[c] > 0)
      BY <3>1, <3>2 DEF Lives, RemovedAreClosed
    <3> QED
      BY <3>1, <3>3 DEF Lives, OutputMeansClosing
  <2>2. PICK n \in 0 .. Len(out[c]) : n # 0 /\ SendTakes(c, n)
    <3>1. ~UNCHANGED <<out, sent>>
      BY <1>1, <1>7 DEF SameFor
    <3> QED
      BY <2>1, <3>1 DEF Dispatch, HandleEvent, HandleWrite, SendFails, HandleClose
  <2>3. /\ sent'[c] = sent[c] \o SubSeq(out[c], 1, n)
        /\ out'[c] = SubSeq(out[c], n + 1, Len(out[c]))
    BY <2>2, TakenStaysInLine DEF Objects
  <2>4. /\ Life' = [Life EXCEPT ![c] = Life'[c]]
        /\ Pending' = [Pending EXCEPT ![c] = Pending'[c]]
        /\ sent' = [sent EXCEPT ![c] = sent'[c]]
    BY <1>3, LifeMoves DEF Objects
  <2>5. Life[c] = "closing" /\ Life'[c] = Life[c] /\ Pending[c] = out[c] /\ Pending'[c] = out'[c]
    BY <1>1, <1>2, <2>1, LifeIs
  <2>6. n \in 1 .. Len(Pending[c])
    BY <2>2, <2>5
  <2>7. Life' = Life
    BY <2>4, <2>5 DEF Life
  <2>8. CL!Deliver(c, n)
    BY <1>1, <2>3, <2>4, <2>5, <2>7, AskedStays DEF CL!Deliver, Pending, Asked
  <2>9. CL!Next
    BY <2>6, <2>8 DEF CL!Next, Pending
  <2> QED
    BY <1>5, <2>9
<1> QED
  BY <1>3, <1>6, <1>7

LEMMA SendLife ==
  ASSUME Objects, Objects', Lives, NEW c \in Conn, fdOf[c] # None,
         NEW x \in Data, SendInLoop(c, x), UNCHANGED <<fdOf, sent, deletions, closings>>,
         \A d \in Conn : Waits(<<"Remove", d>>)' => Waits(<<"Remove", d>>)
  PROVE  Lives' /\ [CL!Next]_(CL!vars)
<1>1. /\ UNCHANGED <<status, sock>>
      /\ \/ out' = out
         \/ status[c] = "DISCONNECTING" /\ out' = [out EXCEPT ![c] = Append(out[c], x)]
  BY DEF SendInLoop, Objects, TypeOK
<1>2. \A d \in Conn : d # c => SameFor(d)
  BY <1>1 DEF SameFor, Objects, TypeOK
<1>3. Lives'
  <2>1. \A d \in {c} : sock'[d] # None /\ out'[d] # <<>> => status'[d] = "DISCONNECTING"
    BY <1>1 DEF Lives, OutputMeansClosing
  <2>2. {c} \in SUBSET Conn /\ \A d \in {c} : fdOf[d] # None
    OBVIOUS
  <2> QED
    BY <1>1, <1>2, <2>1, <2>2, LivesKeep
<1>4. CASE out' = out \/ sock[c] = None
  <2>1. /\ Life' = [Life EXCEPT ![c] = Life'[c]]
        /\ Pending' = [Pending EXCEPT ![c] = Pending'[c]]
    BY <1>2, LifeMoves DEF Objects
  <2>2. Life'[c] = Life[c] /\ Pending'[c] = Pending[c]
    BY <1>1, <1>4, LifeIs
  <2>3. Life' = Life
    BY <2>1, <2>2 DEF Life
  <2>4. Pending' = Pending
    BY <2>1, <2>2 DEF Pending
  <2> QED
    BY <1>3, <2>3, <2>4, LifeStutters, AskedStays
<1>5. CASE sock[c] # None /\ status[c] = "DISCONNECTING" /\ out' = [out EXCEPT ![c] = Append(out[c], x)]
  <2>1. /\ Life' = [Life EXCEPT ![c] = Life'[c]]
        /\ Pending' = [Pending EXCEPT ![c] = Pending'[c]]
    BY <1>2, LifeMoves DEF Objects
  <2>2. Life[c] = "closing" /\ Life'[c] = Life[c]
    <3>1. ~(deletions[c] > 0)
      BY <1>5 DEF Lives, RemovedAreClosed
    <3> QED
      BY <1>1, <1>5, <3>1, LifeIs
  <2>3. Pending[c] = out[c] /\ Pending'[c] = out'[c]
    BY <1>1, <1>5, LifeIs
  <2>4. out'[c] = Append(out[c], x)
    BY <1>5 DEF Objects, TypeOK
  <2>5. Life' = Life
    BY <2>1, <2>2 DEF Life
  <2>6. Pending' = [Pending EXCEPT ![c] = Append(Pending[c], x)]
    BY <2>1, <2>3, <2>4
  <2>7. CL!Take(c, x)
    BY <2>2, <2>5, <2>6, AskedStays DEF CL!Take, Pending, Asked
  <2>8. CL!Next
    BY <2>7 DEF CL!Next
  <2> QED
    BY <1>3, <2>8
<1> QED
  BY <1>1, <1>4, <1>5

LEMMA ShutdownLife ==
  ASSUME Objects, Objects', Lives, NEW c \in Conn, fdOf[c] # None, Asked' = Asked \cup {c},
         ShutdownInloop(c), UNCHANGED <<fdOf, sent, deletions>>,
         \A d \in Conn : Waits(<<"Remove", d>>)' => Waits(<<"Remove", d>>)
  PROVE  Lives' /\ [CL!Next]_(CL!vars)
<1>1. /\ UNCHANGED <<out, sock>>
      /\ status' = [status EXCEPT ![c] = "DISCONNECTING"]
      /\ status'[c] = "DISCONNECTING"
  BY DEF ShutdownInloop, Objects, TypeOK
<1>2. \A d \in Conn : d # c => SameFor(d)
  BY <1>1 DEF SameFor, Objects, TypeOK
<1>3. Lives'
  <2>1. \A d \in {c} : sock'[d] # None /\ out'[d] # <<>> => status'[d] = "DISCONNECTING"
    BY <1>1
  <2>2. {c} \in SUBSET Conn /\ \A d \in {c} : fdOf[d] # None
    OBVIOUS
  <2> QED
    BY <1>1, <1>2, <2>1, <2>2, LivesKeep
<1>4. /\ Life' = [Life EXCEPT ![c] = Life'[c]]
      /\ Pending' = [Pending EXCEPT ![c] = Pending'[c]]
  BY <1>2, LifeMoves DEF Objects
<1>5. Pending' = Pending
  <2>1. Pending'[c] = Pending[c]
    BY <1>1, LifeIs
  <2> QED
    BY <1>4, <2>1 DEF Pending
<1>6. CASE sock[c] = None \/ status[c] = "DISCONNECTING"
  <2>1. Life'[c] = Life[c]
    BY <1>1, <1>6, LifeIs
  <2>2. Life' = Life
    BY <1>4, <2>1 DEF Life
  <2> QED
    BY <1>3, <1>5, <2>2, LifeStutters
<1>7. CASE sock[c] # None /\ status[c] # "DISCONNECTING"
  <2>1. Life[c] = "open" /\ Life'[c] = "closing"
    <3>1. ~(deletions[c] > 0)
      BY <1>7 DEF Lives, RemovedAreClosed
    <3> QED
      BY <1>1, <1>7, <3>1, LifeIs
  <2>2. CL!ShutDown(c)
    BY <1>4, <1>5, <2>1 DEF CL!ShutDown, CL!Move, Pending, Asked
  <2> QED
    BY <1>3, <2>2 DEF CL!Next
<1> QED
  BY <1>6, <1>7

LEMMA ReleaseLife ==
  ASSUME Objects, Objects', Lives, NEW c \in Conn, fdOf[c] # None, c \in Asked,
         ReleaseInLoop(c), UNCHANGED <<fdOf, sent, deletions, closings>>,
         \A d \in Conn : Waits(<<"Remove", d>>)' => Waits(<<"Remove", d>>) \/ d = c
  PROVE  Lives' /\ [CL!Next]_(CL!vars)
<1>1. /\ out' = out /\ status' = [status EXCEPT ![c] = "DISCONNECTED"]
      /\ sock' = [sock EXCEPT ![c] = None] /\ sock'[c] = None
  BY DEF ReleaseInLoop, RemoveAndClose, Objects, TypeOK
<1>2. \A d \in Conn : d # c => SameFor(d)
  BY <1>1 DEF SameFor, Objects, TypeOK
<1>3. Lives'
  <2>1. {c} \in SUBSET Conn /\ \A d \in {c} : fdOf[d] # None
    OBVIOUS
  <2> QED
    BY <1>1, <1>2, <2>1, LivesKeep
<1>4. /\ Life' = [Life EXCEPT ![c] = Life'[c]]
      /\ Pending' = [Pending EXCEPT ![c] = Pending'[c]]
  BY <1>2, LifeMoves DEF Objects
<1>5. CASE sock[c] = None
  <2>1. Life'[c] = Life[c] /\ Pending'[c] = Pending[c]
    BY <1>1, <1>5, LifeIs
  <2>2. Life' = Life
    BY <1>4, <2>1 DEF Life
  <2>3. Pending' = Pending
    BY <1>4, <2>1 DEF Pending
  <2> QED
    BY <1>3, <2>2, <2>3, LifeStutters, AskedStays
<1>6. CASE sock[c] # None
  <2>1. Life[c] \in {"open", "closing"} /\ Life'[c] = "closed" /\ Pending'[c] = <<>>
    <3>1. ~(deletions[c] > 0)
      BY <1>6 DEF Lives, RemovedAreClosed
    <3> QED
      BY <1>1, <1>6, <3>1, LifeIs
  <2>2. CL!Close(c)
    BY <1>4, <2>1, AskedStays DEF CL!Close, CL!Move, Pending, Asked
  <2> QED
    BY <1>3, <2>2 DEF CL!Next
<1> QED
  BY <1>5, <1>6

LEMMA RemoveLife ==
  ASSUME Objects, Objects', Lives, NEW c \in Conn, fdOf[c] # None,
         Waits(<<"Remove", c>>), RemoveConnectionInLoop(c), UNCHANGED <<fdOf, sent, closings>>,
         \A d \in Conn : Waits(<<"Remove", d>>)' => Waits(<<"Remove", d>>)
  PROVE  Lives' /\ [CL!Next]_(CL!vars)
<1>1. /\ UNCHANGED <<status, out>>
      /\ sock' = [sock EXCEPT ![c] = None] /\ sock'[c] = None
      /\ deletions' = [deletions EXCEPT ![c] = 1] /\ deletions'[c] = 1
  BY DEF RemoveConnectionInLoop, Objects, TypeOK
<1>2. \A d \in Conn : d # c => SameFor(d)
  BY <1>1 DEF SameFor, Objects, TypeOK
<1>3. Lives'
  <2>1. {c} \in SUBSET Conn /\ \A d \in {c} : fdOf[d] # None
    OBVIOUS
  <2> QED
    BY <1>1, <1>2, <2>1, LivesKeep
<1>4. /\ Life' = [Life EXCEPT ![c] = Life'[c]]
      /\ Pending' = [Pending EXCEPT ![c] = Pending'[c]]
  BY <1>2, LifeMoves DEF Objects
<1>5. sock[c] = None
  BY DEF Lives, RemovedAreClosed
<1>6. Life'[c] = "forgotten" /\ Pending'[c] = Pending[c]
  BY <1>1, <1>5, LifeIs
<1>7. Pending' = Pending
  BY <1>4, <1>6 DEF Pending
<1>8. CASE deletions[c] > 0
  <2>1. Life[c] = "forgotten"
    BY <1>8, LifeIs
  <2>2. Life' = Life
    BY <1>4, <1>6, <2>1 DEF Life
  <2> QED
    BY <1>3, <1>7, <2>2, LifeStutters, AskedStays
<1>9. CASE ~(deletions[c] > 0)
  <2>1. Life[c] = "closed"
    BY <1>5, <1>9, LifeIs
  <2>2. CL!Forget(c)
    BY <1>4, <1>6, <1>7, <2>1, AskedStays DEF CL!Forget, CL!Move, Pending, Asked
  <2> QED
    BY <1>3, <2>2 DEF CL!Next
<1> QED
  BY <1>8, <1>9

(* Only the user has Shutdown and Release wait: errors and hang-ups reach  *)
(* no connection before that.                                              *)
LEMMA WaitingWasAsked ==
  ASSUME Objects, Closing, NEW c \in Conn, Waits(<<"Shutdown", c>>) \/ Waits(<<"Release", c>>)
  PROVE  c \in Asked
<1>1. closings \in [Conn -> Nat]
  BY DEF Objects, TypeOK
<1>2. closings[c] \in Nat /\ closings[c] # 0
  <2>1. closings[c] = 0 => CalledOnce(c)
    BY DEF CalledOnce
  <2> QED
    BY <1>1, <2>1 DEF Closing, ClosingOf, OpenUntilCalled
<1> QED
  BY <1>2 DEF Asked

LEMMA RunTaskLife ==
  ASSUME Objects, Objects', Lives, Closing, RunTask
  PROVE  Lives' /\ [CL!Next]_(CL!vars)
<1>1. /\ Queue # <<>> /\ Queue \in Seq(Functor) /\ UNCHANGED <<fdOf, sent, closings>>
  BY RunTaskStep, QueueIsTyped DEF Objects
<1>2. PICK q \in Seq(Functor) : q = Tail(Queue)
  BY <1>1, TailOf
<1>3. /\ \A x : x \in Range(Queue) <=> x \in Range(q) \/ x = Queue[1]
      /\ Queue[1] \in Functor
  BY <1>1, <1>2, TailOf
<1>4. ASSUME NEW f \in Functor, Queue' = Append(q, f)
      PROVE  \A d \in Conn : Waits(<<"Remove", d>>)' => Waits(<<"Remove", d>>) \/ f = <<"Remove", d>>
  <2>1. \A g : g \in Range(Append(q, f)) <=> g \in Range(q) \/ g = f
    BY Appended
  <2> QED
    BY <1>3, <1>4, <2>1 DEF Waits
<1>5. Queue' = q => \A d \in Conn : Waits(<<"Remove", d>>)' => Waits(<<"Remove", d>>)
  BY <1>3 DEF Waits
<1>6. \A c \in Conn : <<"Release", c>> \in Functor /\ <<"Remove", c>> \in Functor
  BY Functors
<1>7. ASSUME NEW c \in Conn, Queue[1] \in {<<"Shutdown", c>>, <<"Release", c>>}
      PROVE  c \in Asked
  <2>1. Waits(<<"Shutdown", c>>) \/ Waits(<<"Release", c>>)
    BY <1>3, <1>7 DEF Waits
  <2> QED
    BY <2>1, WaitingWasAsked
<1>8. ASSUME NEW c \in Conn, fdOf[c] # None, RunsSend(c), UNCHANGED deletions
      PROVE  Lives' /\ [CL!Next]_(CL!vars)
  BY <1>1, <1>2, <1>5, <1>8, SendLife DEF RunsSend
<1>9. ASSUME NEW c \in Conn, fdOf[c] # None, RunsShutdown(c), UNCHANGED deletions
      PROVE  Lives' /\ [CL!Next]_(CL!vars)
  <2>1. ShutdownInloop(c) /\ (Queue' = q \/ Queue' = Append(q, <<"Release", c>>))
    BY <1>2, <1>9 DEF RunsShutdown
  <2>2. \A d \in Conn : Waits(<<"Remove", d>>)' => Waits(<<"Remove", d>>)
    <3>1. PICK f \in Functor : f = <<"Release", c>>
      BY <1>6
    <3>2. \A d \in Conn : f # <<"Remove", d>>
      BY <3>1
    <3> QED
      BY <1>4, <1>5, <2>1, <3>1, <3>2
  <2>3. Asked' = Asked \cup {c}
    BY <1>1, <1>7, <1>9, AskedStays DEF RunsShutdown
  <2> QED
    BY <1>1, <1>9, <2>1, <2>2, <2>3, ShutdownLife
<1>10. ASSUME NEW c \in Conn, fdOf[c] # None, RunsRelease(c), UNCHANGED deletions
       PROVE  Lives' /\ [CL!Next]_(CL!vars)
  <2>1. ReleaseInLoop(c) /\ Queue' = Append(q, <<"Remove", c>>)
    BY <1>2, <1>10 DEF RunsRelease
  <2>2. \A d \in Conn : Waits(<<"Remove", d>>)' => Waits(<<"Remove", d>>) \/ d = c
    <3>1. PICK f \in Functor : f = <<"Remove", c>>
      BY <1>6
    <3>2. \A d \in Conn : f = <<"Remove", d>> => d = c
      BY <3>1
    <3> QED
      BY <1>4, <2>1, <3>1, <3>2
  <2>3. c \in Asked
    BY <1>7, <1>10 DEF RunsRelease
  <2> QED
    BY <1>1, <1>10, <2>1, <2>2, <2>3, ReleaseLife
<1>11. ASSUME NEW c \in Conn, fdOf[c] # None, RunsRemove(c)
       PROVE  Lives' /\ [CL!Next]_(CL!vars)
  <2>1. Queue[1] = <<"Remove", c>> /\ Queue' = q
    BY <1>2, <1>11 DEF RunsRemove
  <2>2. Waits(<<"Remove", c>>) /\ \A d \in Conn : Waits(<<"Remove", d>>)' => Waits(<<"Remove", d>>)
    BY <1>3, <1>5, <2>1 DEF Waits
  <2>3. CASE RemoveConnectionInLoop(c)
    BY <1>1, <1>11, <2>2, <2>3, RemoveLife
  <2>4. CASE UNCHANGED <<table, deletions, pollerVars, tasks, status, sock, out>>
    <3>1. \A d \in Conn : SameFor(d)
      BY <1>1, <2>4 DEF SameFor
    <3>2. UNCHANGED <<Life, Pending, sent>>
      BY <3>1, LifeStays DEF Objects
    <3>3. PICK S \in SUBSET Conn : S = {}
      OBVIOUS
    <3>4. Lives'
      BY <1>1, <2>2, <3>1, <3>3, LivesKeep
    <3> QED
      BY <1>1, <3>2, <3>4, LifeStutters, AskedStays
  <2> QED
    BY <1>11, <2>3, <2>4 DEF RunsRemove
<1> QED
  BY <1>8, <1>9, <1>10, <1>11, RunTaskStep

LEMMA UserCallLife ==
  ASSUME Objects, Objects', Lives, NEW c \in Conn, NEW who \in Caller,
         Send(who, c) \/ Shutdown(who, c) \/ UserRelease(who, c)
  PROVE  Lives' /\ [CL!Next]_(CL!vars)
<1>1. /\ fdOf[c] # None /\ UNCHANGED <<fdOf, deletions, sent>>
      /\ \/ \E x \in Data : x[2] = sends + 1 /\ (SendsNow(c, x) \/ SendsLater(c, x))
         \/ ShutsNow(c)
         \/ \E k \in {"Shutdown", "Release"} : ClosesLater(c, k)
  BY UserCallStep
<1>2. closings' = [closings EXCEPT ![c] = @ + 1] => Asked' = Asked \cup {c}
  BY AskedGrows DEF Objects
<1>3. Queue \in Seq(Functor)
  BY QueueIsTyped DEF Objects
<1>4. ASSUME NEW f \in Functor, f[1] # "Remove", Queue' = Append(Queue, f)
      PROVE  \A d \in Conn : Waits(<<"Remove", d>>)' => Waits(<<"Remove", d>>)
  <2>1. \A g : g \in Range(Append(Queue, f)) <=> g \in Range(Queue) \/ g = f
    BY <1>3, Appended
  <2>2. \A d \in Conn : f # <<"Remove", d>>
    BY <1>4
  <2> QED
    BY <1>4, <2>1, <2>2 DEF Waits
<1>5. /\ \A k \in {"Shutdown", "Release"} : <<k, c>> \in Functor /\ <<k, c>>[1] # "Remove"
      /\ \A x \in Data : <<"Send", c, x>> \in Functor /\ <<"Send", c, x>>[1] # "Remove"
  BY Functors
<1>6. ASSUME NEW x \in Data, SendsNow(c, x)
      PROVE  Lives' /\ [CL!Next]_(CL!vars)
  <2>1. SendInLoop(c, x) /\ UNCHANGED closings /\ \A d \in Conn : Waits(<<"Remove", d>>)' => Waits(<<"Remove", d>>)
    BY <1>6 DEF SendsNow, Waits
  <2> QED
    BY <1>1, <1>2, <2>1, SendLife
<1>7. CASE ShutsNow(c)
  <2>1. /\ ShutdownInloop(c) /\ (Queue' = Queue \/ Queue' = Append(Queue, <<"Release", c>>))
        /\ Asked' = Asked \cup {c}
    BY <1>2, <1>7 DEF ShutsNow
  <2>2. \A d \in Conn : Waits(<<"Remove", d>>)' => Waits(<<"Remove", d>>)
    <3>1. CASE Queue' = Queue
      BY <3>1 DEF Waits
    <3>2. CASE Queue' = Append(Queue, <<"Release", c>>)
      BY <1>4, <1>5, <3>2
    <3> QED
      BY <2>1, <3>1, <3>2
  <2> QED
    BY <1>1, <1>2, <2>1, <2>2, ShutdownLife
<1>8. CASE (\E x \in Data : SendsLater(c, x)) \/ \E k \in {"Shutdown", "Release"} : ClosesLater(c, k)
  <2>1. PICK f \in Functor : f[1] # "Remove" /\ Queue' = Append(Queue, f)
    BY <1>5, <1>8 DEF SendsLater, ClosesLater
  <2>2. \A d \in Conn : Waits(<<"Remove", d>>)' => Waits(<<"Remove", d>>)
    BY <1>4, <2>1
  <2>3. \A d \in Conn : SameFor(d)
    BY <1>1, <1>8 DEF SendsLater, ClosesLater, SameFor
  <2>4. UNCHANGED <<Life, Pending, sent>>
    BY <2>3, LifeStays DEF Objects
  <2>5. PICK S \in SUBSET Conn : S = {}
    OBVIOUS
  <2>6. Lives'
    BY <1>1, <2>2, <2>3, <2>5, LivesKeep
  <2>7. UNCHANGED Asked \/ Asked' = Asked \cup {c}
    BY <1>2, <1>8, AskedStays DEF SendsLater, ClosesLater
  <2> QED
    BY <2>4, <2>6, <2>7, LifeStutters
<1> QED
  BY <1>1, <1>6, <1>7, <1>8

LEMMA LivesStep == Objects /\ Lives /\ Closing /\ [Next]_vars => Lives' /\ [CL!Next]_(CL!vars)
<1> SUFFICES ASSUME Objects, Lives, Closing, [Next]_vars
             PROVE  Lives' /\ [CL!Next]_(CL!vars)
  OBVIOUS
<1>1. Objects'
  BY ObjectsStep
<1>2. \/ Quiet \/ RunTask
      \/ \E fd \in Fd : NewConnection(fd)
      \/ \E c \in Conn : Dispatch(c)
      \/ \E who \in Caller, c \in Conn : Send(who, c) \/ Shutdown(who, c) \/ UserRelease(who, c)
  BY DEF Next, LoopStep, UserStep, Quiet
<1> QED
  BY <1>1, <1>2, QuietLife, NewConnectionLife, DispatchLife, RunTaskLife, UserCallLife

LEMMA InitLife == Init => Lives /\ CL!Init
<1> SUFFICES ASSUME Init
             PROVE  Lives /\ CL!Init
  OBVIOUS
<1>1. Queue = <<>>
  BY InitObjects
<1>2. \A f : ~Waits(f)
  BY <1>1 DEF Waits, Range
<1>3. Lives
  BY <1>2 DEF Init, Lives, UnusedIsUntouched, OutputMeansClosing, RemovedAreClosed
<1>4. CL!Init
  <2>1. Life = [c \in Conn |-> Life[c]] /\ \A c \in Conn : Life[c] = "none"
    BY LifeIs DEF Life, Init
  <2>2. Life = [c \in Conn |-> "none"]
    BY <2>1
  <2>3. Asked = {}
    BY DEF Init, Asked
  <2> QED
    BY <2>2, <2>3 DEF CL!Init, Init, Asked
<1> QED
  BY <1>3, <1>4

-----------------------------------------------------------------------------
(* Closing *)

LEMMA TailKeepsClosing ==
  ASSUME NEW q \in Seq(Functor), q # <<>>
  PROVE  /\ \A f : AtMostOnce(q, f) =>
              AtMostOnce(Tail(q), f) /\ (q[1] = f => f \notin Range(Tail(q)))
         /\ \A c, n : OnlyLate(q, c, n) => OnlyLate(Tail(q), c, n)
         /\ \A c, n : RemovesLast(q, c, n) =>
              /\ RemovesLast(Tail(q), c, n)
              /\ q[1] = <<"Remove", c>> => OnlyLate(Tail(q), c, n)
<1>1. /\ Len(q) \in Nat \ {0} /\ DOMAIN q = 1 .. Len(q) /\ DOMAIN Tail(q) = 1 .. Len(q) - 1
      /\ \A i \in 1 .. Len(q) - 1 : Tail(q)[i] = q[i + 1]
      /\ \A x : x \in Range(q) <=> x \in Range(Tail(q)) \/ x = q[1]
  BY TailOf
<1>2. /\ 1 \in DOMAIN q
      /\ \A i \in DOMAIN Tail(q) : i + 1 \in DOMAIN q /\ 1 < i + 1 /\ Tail(q)[i] = q[i + 1]
      /\ \A i, j \in DOMAIN Tail(q) : (i < j => i + 1 < j + 1) /\ (i + 1 = j + 1 => i = j)
  BY <1>1
<1>3. \A x \in Range(Tail(q)) : \E i \in DOMAIN Tail(q) : x = q[i + 1]
  BY <1>2 DEF Range
<1>4. ASSUME NEW f, AtMostOnce(q, f)
      PROVE  AtMostOnce(Tail(q), f) /\ (q[1] = f => f \notin Range(Tail(q)))
  <2>1. AtMostOnce(Tail(q), f)
    BY <1>2, <1>4 DEF AtMostOnce
  <2>2. ASSUME q[1] = f, f \in Range(Tail(q))
        PROVE  FALSE
    <3>1. PICK i \in DOMAIN Tail(q) : f = q[i + 1]
      BY <1>3, <2>2
    <3>2. 1 = i + 1
      BY <1>2, <1>4, <2>2, <3>1 DEF AtMostOnce
    <3> QED
      BY <1>1, <3>2
  <2> QED
    BY <2>1, <2>2
<1>5. \A c, n : OnlyLate(q, c, n) => OnlyLate(Tail(q), c, n)
  BY <1>1 DEF OnlyLate
<1>6. ASSUME NEW c, NEW n, RemovesLast(q, c, n)
      PROVE  /\ RemovesLast(Tail(q), c, n)
             /\ q[1] = <<"Remove", c>> => OnlyLate(Tail(q), c, n)
  <2>1. RemovesLast(Tail(q), c, n)
    <3> SUFFICES ASSUME NEW i \in DOMAIN Tail(q), NEW j \in DOMAIN Tail(q), i < j,
                        Tail(q)[i] = <<"Remove", c>>, Tail(q)[j][2] = c
                 PROVE  IsLate(Tail(q)[j], n)
      BY DEF RemovesLast
    <3>1. /\ i + 1 \in DOMAIN q /\ j + 1 \in DOMAIN q /\ i + 1 < j + 1
          /\ q[i + 1] = <<"Remove", c>> /\ q[j + 1][2] = c /\ Tail(q)[j] = q[j + 1]
      BY <1>2
    <3> QED
      BY <1>6, <3>1 DEF RemovesLast
  <2>2. q[1] = <<"Remove", c>> => OnlyLate(Tail(q), c, n)
    BY <1>2, <1>3, <1>6 DEF RemovesLast, OnlyLate
  <2> QED
    BY <2>1, <2>2
<1> QED
  BY <1>4, <1>5, <1>6

LEMMA AppendKeepsClosing ==
  ASSUME NEW q \in Seq(Functor), NEW f \in Functor
  PROVE  /\ \A g : AtMostOnce(q, g) /\ (g # f \/ g \notin Range(q)) => AtMostOnce(Append(q, f), g)
         /\ \A c, n : OnlyLate(q, c, n) /\ (f[2] # c \/ IsLate(f, n)) => OnlyLate(Append(q, f), c, n)
         /\ \A c, n : RemovesLast(q, c, n) /\ (f[2] # c \/ IsLate(f, n) \/ <<"Remove", c>> \notin Range(q))
                        => RemovesLast(Append(q, f), c, n)
<1>1. /\ Len(q) \in Nat /\ DOMAIN q = 1 .. Len(q) /\ DOMAIN Append(q, f) = 1 .. Len(q) + 1
      /\ \A i \in 1 .. Len(q) : Append(q, f)[i] = q[i]
      /\ Append(q, f)[Len(q) + 1] = f
      /\ \A x : x \in Range(Append(q, f)) <=> x \in Range(q) \/ x = f
  BY Appended
<1>2. PICK r \in Seq(Functor), m \in Nat : r = Append(q, f) /\ m = Len(q)
  BY <1>1, Appended
<1>3. /\ \A i \in DOMAIN r : (i \in DOMAIN q /\ r[i] = q[i] /\ q[i] \in Range(q)) \/ (i = m + 1 /\ r[i] = f)
      /\ \A i, j \in DOMAIN r : i < j => i \in DOMAIN q
      /\ \A i \in DOMAIN q : i # m + 1
  BY <1>1, <1>2 DEF Range
<1>4. ASSUME NEW g, AtMostOnce(q, g), g # f \/ g \notin Range(q)
      PROVE  AtMostOnce(r, g)
  <2> SUFFICES ASSUME NEW i \in DOMAIN r, NEW j \in DOMAIN r, r[i] = g, r[j] = g
               PROVE  i = j
    BY DEF AtMostOnce
  <2>1. CASE g # f
    <3>1. i \in DOMAIN q /\ j \in DOMAIN q /\ q[i] = g /\ q[j] = g
      BY <1>3, <2>1
    <3> QED
      BY <1>4, <3>1 DEF AtMostOnce
  <2>2. CASE g \notin Range(q)
    BY <1>3, <2>2
  <2> QED
    BY <1>4, <2>1, <2>2
<1>5. \A c, n : OnlyLate(q, c, n) /\ (f[2] # c \/ IsLate(f, n)) => OnlyLate(r, c, n)
  BY <1>1, <1>2 DEF OnlyLate
<1>6. ASSUME NEW c, NEW n, RemovesLast(q, c, n),
             f[2] # c \/ IsLate(f, n) \/ <<"Remove", c>> \notin Range(q)
      PROVE  RemovesLast(r, c, n)
  BY <1>3, <1>6 DEF RemovesLast
<1> QED
  BY <1>2, <1>4, <1>5, <1>6

(* What a step leaves of the queue, as far as connection c is concerned *)
QueueKept(c) ==
  /\ \A k \in {"Shutdown", "Release", "Remove"} :
       <<k, c>> \in Range(Queue') => <<k, c>> \in Range(Queue)
  /\ AtMostOnce(Queue, <<"Shutdown", c>>) => AtMostOnce(Queue', <<"Shutdown", c>>)
  /\ \A n : OnlyLate(Queue, c, n) => OnlyLate(Queue', c, n)
  /\ \A n : RemovesLast(Queue, c, n) => RemovesLast(Queue', c, n)

LEMMA TailIsKept ==
  ASSUME Objects, NEW q, q = Queue \/ (Queue # <<>> /\ q = Tail(Queue))
  PROVE  /\ q \in Seq(Functor) /\ Range(q) \subseteq Range(Queue)
         /\ \A f : AtMostOnce(Queue, f) => AtMostOnce(q, f)
         /\ \A c, n : OnlyLate(Queue, c, n) => OnlyLate(q, c, n)
         /\ \A c, n : RemovesLast(Queue, c, n) => RemovesLast(q, c, n)
<1>1. Queue \in Seq(Functor)
  BY QueueIsTyped DEF Objects
<1>2. CASE Queue # <<>> /\ q = Tail(Queue)
  <2>1. Tail(Queue) \in Seq(Functor) /\ \A x : x \in Range(Queue) <=> x \in Range(Tail(Queue)) \/ x = Queue[1]
    BY <1>1, <1>2, TailOf
  <2> QED
    BY <1>1, <1>2, <2>1, TailKeepsClosing
<1> QED
  BY <1>1, <1>2

LEMMA QueueIsKept ==
  ASSUME Objects, NEW q, q = Queue \/ (Queue # <<>> /\ q = Tail(Queue)), NEW c \in Conn,
         Queue' = q \/ \E f \in Functor : f[2] # c /\ Queue' = Append(q, f)
  PROVE  QueueKept(c)
<1>1. /\ q \in Seq(Functor) /\ Range(q) \subseteq Range(Queue)
      /\ AtMostOnce(Queue, <<"Shutdown", c>>) => AtMostOnce(q, <<"Shutdown", c>>)
      /\ \A n : OnlyLate(Queue, c, n) => OnlyLate(q, c, n)
      /\ \A n : RemovesLast(Queue, c, n) => RemovesLast(q, c, n)
  BY TailIsKept
<1>2. CASE Queue' = q
  BY <1>1, <1>2 DEF QueueKept
<1>3. ASSUME NEW f \in Functor, f[2] # c, Queue' = Append(q, f)
      PROVE  QueueKept(c)
  <2>1. \A x : x \in Range(Append(q, f)) <=> x \in Range(q) \/ x = f
    BY <1>1, Appended
  <2>2. f # <<"Shutdown", c>> /\ f # <<"Release", c>> /\ f # <<"Remove", c>>
    BY <1>3
  <2>3. /\ AtMostOnce(q, <<"Shutdown", c>>) => AtMostOnce(Append(q, f), <<"Shutdown", c>>)
        /\ \A n : OnlyLate(q, c, n) => OnlyLate(Append(q, f), c, n)
        /\ \A n : RemovesLast(q, c, n) => RemovesLast(Append(q, f), c, n)
    BY <1>1, <1>3, <2>2, AppendKeepsClosing
  <2> QED
    BY <1>1, <1>3, <2>1, <2>2, <2>3 DEF QueueKept
<1> QED
  BY <1>2, <1>3

(* Nothing has happened to connection c, and it has lost functors at most. *)
LEMMA ClosingKeeps ==
  ASSUME Objects, Objects', NEW c \in Conn, ClosingOf(c),
         closings'[c] = closings[c], lastSend'[c] = lastSend[c],
         status'[c] = status[c], sock'[c] = sock[c], fdOf'[c] = fdOf[c],
         deletions'[c] > 0 <=> deletions[c] > 0,
         c \in Range(channels') => c \in Range(channels),
         QueueKept(c)
  PROVE  ClosingOf(c)'
<1> SUFFICES ASSUME CalledOnce(c)'
             PROVE  /\ OpenUntilCalled(c)' /\ ShutdownFindsItOpen(c)'
                    /\ RegisteredIsClosing(c)' /\ RemoveComesLast(c)'
  BY DEF ClosingOf
<1>1. deletions'[c] = 0 <=> deletions[c] = 0
  <2>1. deletions \in [Conn -> 0 .. 2] /\ deletions' \in [Conn -> 0 .. 2]
    BY DEF Objects, TypeOK
  <2>2. deletions[c] \in 0 .. 2 /\ deletions'[c] \in 0 .. 2
    BY <2>1
  <2> QED
    BY <2>2
<1>2. /\ OpenUntilCalled(c) /\ ShutdownFindsItOpen(c)
      /\ RegisteredIsClosing(c) /\ RemoveComesLast(c)
  BY DEF ClosingOf, CalledOnce
<1>3. OpenUntilCalled(c)'
  BY <1>1, <1>2 DEF OpenUntilCalled, NotRegistered, Waits, QueueKept
<1>4. ShutdownFindsItOpen(c)'
  BY <1>1, <1>2 DEF ShutdownFindsItOpen, NotRegistered, Waits, QueueKept
<1>5. RegisteredIsClosing(c)'
  BY <1>2 DEF RegisteredIsClosing, NotRegistered
<1>6. RemoveComesLast(c)'
  BY <1>2 DEF RemoveComesLast, QueueKept
<1> QED
  BY <1>3, <1>4, <1>5, <1>6

(* Its one closing has been called, and Shutdown has run. *)
LEMMA ClosingGoesOn ==
  ASSUME NEW c \in Conn, closings'[c] # 0, <<"Shutdown", c>> \notin Range(Queue'),
         c \in Range(channels') => status'[c] = "DISCONNECTING",
         status'[c] = "DISCONNECTING" => sock'[c] # None,
         deletions'[c] > 0 => OnlyLate(Queue', c, lastSend'[c]),
         RemovesLast(Queue', c, lastSend'[c])
  PROVE  ClosingOf(c)'
  BY DEF ClosingOf, OpenUntilCalled, ShutdownFindsItOpen, RegisteredIsClosing, RemoveComesLast,
         NotRegistered, Waits

(* While a connection is open, no RemoveConnectionInLoop waits for it. *)
LEMMA OpenHasNoRemove ==
  ASSUME Objects, Lives, NEW c \in Conn, sock[c] # None
  PROVE  /\ deletions[c] = 0 /\ <<"Remove", c>> \notin Range(Queue)
         /\ \A q \in Seq(Functor) : Range(q) \subseteq Range(Queue) => \A n : RemovesLast(q, c, n)
<1>1. deletions[c] = 0
  <2>1. deletions \in [Conn -> 0 .. 2]
    BY DEF Objects, TypeOK
  <2>2. deletions[c] \in 0 .. 2 /\ ~(deletions[c] > 0)
    BY <2>1 DEF Lives, RemovedAreClosed
  <2> QED
    BY <2>2
<1>2. <<"Remove", c>> \notin Range(Queue)
  BY DEF Lives, RemovedAreClosed, Waits
<1>3. \A q \in Seq(Functor) : <<"Remove", c>> \notin Range(q) => \A n : RemovesLast(q, c, n)
  BY DEF RemovesLast, Range
<1> QED
  BY <1>1, <1>2, <1>3

LEMMA OpenQueueGets ==
  ASSUME Objects, Lives, NEW c \in Conn, sock[c] # None,
         NEW q, q = Queue \/ (Queue # <<>> /\ q = Tail(Queue)),
         NEW f \in Functor, Queue' = Append(q, f)
  PROVE  /\ (\A n : RemovesLast(Queue', c, n)) /\ \A g : g \in Range(Queue') <=> g \in Range(q) \/ g = f
         /\ \A g : AtMostOnce(q, g) /\ g \notin Range(q) => AtMostOnce(Queue', g)
<1>1. q \in Seq(Functor) /\ Range(q) \subseteq Range(Queue)
  BY TailIsKept
<1>2. (\A n : RemovesLast(q, c, n)) /\ <<"Remove", c>> \notin Range(q)
  BY <1>1, OpenHasNoRemove
<1>3. \A g : g \in Range(Append(q, f)) <=> g \in Range(q) \/ g = f
  BY <1>1, Appended
<1>4. \A n : RemovesLast(Append(q, f), c, n)
  BY <1>1, <1>2, AppendKeepsClosing
<1>5. \A g : AtMostOnce(q, g) /\ g \notin Range(q) => AtMostOnce(Append(q, f), g)
  BY <1>1, AppendKeepsClosing
<1> QED
  BY <1>3, <1>4, <1>5

LEMMA QuietClosing ==
  ASSUME Objects, Objects', Closing, Quiet
  PROVE  Closing'
<1>1. /\ Queue' = Queue /\ UNCHANGED <<channels, status, sock, fdOf, closings, lastSend>>
      /\ \A c \in Conn : deletions'[c] > 0 <=> deletions[c] > 0
  BY QuietStep
<1>2. \A c \in Conn : QueueKept(c)
  BY <1>1, QueueIsKept
<1> QED
  BY <1>1, <1>2, ClosingKeeps DEF Closing

LEMMA NewConnectionClosing ==
  ASSUME Objects, Objects', Lives, Closing, NEW fd \in Fd, NewConnection(fd)
  PROVE  Closing'
<1>1. PICK new \in Conn : new = nextID + 1
  BY NewConnectionStep
<1>2. /\ fdOf[new] = None /\ fd # None
      /\ fdOf' = [fdOf EXCEPT ![new] = fd] /\ sock' = [sock EXCEPT ![new] = fd]
      /\ UNCHANGED <<batch, ran, deletions, tasks, status, channels, closings, lastSend>>
  BY <1>1, NewConnectionStep
<1>3. /\ \A d \in Conn : d # new => fdOf'[d] = fdOf[d] /\ sock'[d] = sock[d]
      /\ fdOf'[new] = fd /\ sock'[new] = fd
  BY <1>2 DEF Objects, TypeOK
<1>4. Queue' = Queue /\ \A d \in Conn : QueueKept(d)
  BY <1>2, QueueKeeps, QueueIsKept
<1>5. \A d \in Conn : d # new => ClosingOf(d)'
  BY <1>2, <1>3, <1>4, ClosingKeeps DEF Closing
<1>6. ClosingOf(new)'
  <2>1. \A f \in Range(Queue) : f[2] # new
    BY <1>2 DEF Objects, KnownOnly
  <2>2. \A k \in {"Shutdown", "Release", "Remove"} : <<k, new>> \notin Range(Queue)
    BY <2>1
  <2>3. new \notin Range(channels)
    BY <1>2, FdAssumption DEF Objects, OwnChannels, TypeOK, Range
  <2>4. status[new] = "DISCONNECTED" /\ deletions[new] = 0
    BY <1>2 DEF Lives, UnusedIsUntouched
  <2>5. OpenUntilCalled(new)'
    BY <1>2, <1>3, <1>4, <2>2, <2>3, <2>4 DEF OpenUntilCalled, NotRegistered, Waits
  <2>6. ShutdownFindsItOpen(new)'
    BY <1>4, <2>2 DEF ShutdownFindsItOpen, Waits
  <2>7. RegisteredIsClosing(new)'
    BY <1>2, <2>3, <2>4 DEF RegisteredIsClosing, NotRegistered
  <2>8. \A n : OnlyLate(Queue, new, n)
    BY <2>1 DEF OnlyLate
  <2>9. \A n : RemovesLast(Queue, new, n)
    <3>1. \A i \in DOMAIN Queue : Queue[i] # <<"Remove", new>>
      BY <2>2 DEF Range
    <3> QED
      BY <3>1 DEF RemovesLast
  <2>10. RemoveComesLast(new)'
    BY <1>4, <2>8, <2>9 DEF RemoveComesLast
  <2> QED
    BY <2>5, <2>6, <2>7, <2>10 DEF ClosingOf
<1> QED
  BY <1>5, <1>6 DEF Closing

LEMMA DispatchClosing ==
  ASSUME Objects, Objects', Lives, Closing, NEW c \in Conn, Dispatch(c)
  PROVE  Closing'
<1>1. /\ Watches(c) /\ UNCHANGED <<status, sock, batch, ran, deletions, fdOf, closings, lastSend>>
      /\ tasks' = tasks \/ tasks' = Append(tasks, <<"Release", c>>)
  BY HandleEventStep
<1>2. c \in Range(channels) /\ fdOf[c] # None
  BY RegisteredIsKnown DEF Dispatch
<1>3. Range(channels') \subseteq Range(channels) \cup {c}
  BY <1>1, <1>2, WatchStep DEF Objects
<1>4. PICK f \in Functor : f = <<"Release", c>>
  BY Functors
<1>5. Queue' = Queue \/ Queue' = Append(Queue, f)
  BY <1>1, <1>4, QueueKeeps, QueueGets DEF Objects
<1>6. \A d \in Conn : d # c => ClosingOf(d)'
  <2>1. \A d \in Conn : d # c => QueueKept(d)
    BY <1>4, <1>5, QueueIsKept
  <2> QED
    BY <1>1, <1>3, <2>1, ClosingKeeps DEF Closing
<1>7. ASSUME CalledOnce(c)
      PROVE  ClosingOf(c)'
  <2>1. closings[c] # 0 /\ status[c] = "DISCONNECTING" /\ sock[c] # None /\ <<"Shutdown", c>> \notin Range(Queue)
    BY <1>2, <1>7 DEF Closing, ClosingOf, OpenUntilCalled, ShutdownFindsItOpen, RegisteredIsClosing,
                      NotRegistered, Waits
  <2>2. deletions[c] = 0
    BY <2>1, OpenHasNoRemove
  <2>3. RemovesLast(Queue', c, lastSend'[c]) /\ <<"Shutdown", c>> \notin Range(Queue')
    <3>1. CASE Queue' = Queue
      BY <2>1, <3>1, OpenHasNoRemove, QueueIsTyped DEF Objects
    <3>2. CASE Queue' = Append(Queue, f)
      <4>1. f # <<"Shutdown", c>>
        BY <1>4
      <4> QED
        BY <2>1, <3>2, <4>1, OpenQueueGets
    <3> QED
      BY <1>5, <3>1, <3>2
  <2> QED
    BY <1>1, <2>1, <2>2, <2>3, ClosingGoesOn
<1>8. ASSUME ~CalledOnce(c)
      PROVE  ClosingOf(c)'
  BY <1>1, <1>8 DEF ClosingOf, CalledOnce
<1> QED
  BY <1>6, <1>7, <1>8 DEF Closing

LEMMA SendClosing ==
  ASSUME Objects, Objects', Lives, Closing, NEW c \in Conn, fdOf[c] # None,
         NEW x \in Data, SendInLoop(c, x), UNCHANGED <<fdOf, deletions, closings, lastSend>>,
         \A d \in Conn : QueueKept(d)
  PROVE  Closing'
<1>1. /\ UNCHANGED <<status, sock>>
      /\ UNCHANGED channels \/ status[c] = "DISCONNECTING"
  BY DEF SendInLoop, pollerVars, Objects, TypeOK
<1>2. Range(channels') \subseteq Range(channels) \cup {c}
  <2>1. Acts(c)
    BY DEF Acts
  <2> QED
    BY <2>1, ActStep DEF Objects, WellFormed
<1>3. \A d \in Conn : d # c => ClosingOf(d)'
  BY <1>1, <1>2, ClosingKeeps DEF Closing
<1>4. CASE UNCHANGED channels
  <2>1. ClosingOf(c)'
    BY <1>1, <1>4, ClosingKeeps DEF Closing
  <2> QED
    BY <1>3, <2>1 DEF Closing
<1>5. CASE status[c] = "DISCONNECTING"
  <2>1. ASSUME CalledOnce(c)
        PROVE  ClosingOf(c)'
    <3>1. /\ closings[c] # 0 /\ <<"Shutdown", c>> \notin Range(Queue) /\ sock[c] # None
          /\ deletions[c] > 0 => OnlyLate(Queue, c, lastSend[c])
          /\ RemovesLast(Queue, c, lastSend[c])
      BY <1>5, <2>1 DEF Closing, ClosingOf, OpenUntilCalled, ShutdownFindsItOpen, RegisteredIsClosing,
                        RemoveComesLast, Waits
    <3>2. /\ <<"Shutdown", c>> \notin Range(Queue')
          /\ OnlyLate(Queue, c, lastSend[c]) => OnlyLate(Queue', c, lastSend[c])
          /\ RemovesLast(Queue', c, lastSend[c])
      BY <3>1 DEF QueueKept
    <3> QED
      BY <1>1, <1>5, <3>1, <3>2, ClosingGoesOn
  <2>2. ASSUME ~CalledOnce(c)
        PROVE  ClosingOf(c)'
    BY <2>2 DEF ClosingOf, CalledOnce
  <2> QED
    BY <1>3, <2>1, <2>2 DEF Closing
<1> QED
  BY <1>1, <1>4, <1>5

LEMMA ShutdownClosing ==
  ASSUME Objects, Objects', Lives, Closing, NEW c \in Conn, fdOf[c] # None,
         ShutdownInloop(c), UNCHANGED <<fdOf, deletions, lastSend>>,
         \A d \in Conn : d # c => closings'[d] = closings[d],
         NEW q, q = Queue \/ (Queue # <<>> /\ q = Tail(Queue)),
         Queue' = q \/ Queue' = Append(q, <<"Release", c>>),
         closings'[c] <= 1 =>
           closings'[c] # 0 /\ sock[c] # None /\ <<"Shutdown", c>> \notin Range(q)
  PROVE  Closing'
<1>1. /\ UNCHANGED sock /\ status'[c] = "DISCONNECTING"
      /\ \A d \in Conn : d # c => status'[d] = status[d]
  BY DEF ShutdownInloop, Objects, TypeOK
<1>2. Range(channels') \subseteq Range(channels) \cup {c}
  <2>1. Acts(c)
    BY DEF Acts
  <2> QED
    BY <2>1, ActStep DEF Objects, WellFormed
<1>3. PICK f \in Functor : f = <<"Release", c>> /\ f[2] = c /\ f # <<"Shutdown", c>>
  BY Functors
<1>4. \A d \in Conn : d # c => QueueKept(d)
  BY <1>3, QueueIsKept
<1>5. \A d \in Conn : d # c => ClosingOf(d)'
  BY <1>1, <1>2, <1>4, ClosingKeeps DEF Closing
<1>6. CASE closings'[c] <= 1
  <2>1. deletions[c] = 0
    BY <1>6, OpenHasNoRemove
  <2>2. RemovesLast(Queue', c, lastSend'[c]) /\ <<"Shutdown", c>> \notin Range(Queue')
    <3>1. CASE Queue' = q
      BY <1>6, <3>1, TailIsKept, OpenHasNoRemove
    <3>2. CASE Queue' = Append(q, f)
      BY <1>3, <1>6, <3>2, OpenQueueGets
    <3> QED
      BY <1>3, <3>1, <3>2
  <2> QED
    BY <1>1, <1>5, <1>6, <2>1, <2>2, ClosingGoesOn DEF Closing
<1>7. CASE ~(closings'[c] <= 1)
  BY <1>5, <1>7 DEF Closing, ClosingOf, CalledOnce
<1> QED
  BY <1>6, <1>7

LEMMA RunTaskClosing ==
  ASSUME Objects, Objects', Lives, Closing, RunTask
  PROVE  Closing'
<1>1. /\ Queue # <<>> /\ Queue \in Seq(Functor) /\ UNCHANGED <<fdOf, closings>>
      /\ closings \in [Conn -> Nat]
  BY RunTaskStep, QueueIsTyped DEF Objects, TypeOK
<1>2. PICK q \in Seq(Functor) : q = Tail(Queue)
  BY <1>1, TailOf
<1>3. /\ \A x : x \in Range(Queue) <=> x \in Range(q) \/ x = Queue[1]
      /\ Queue[1] \in Functor
  BY <1>1, <1>2, TailOf
<1>4. Queue' = q => \A d \in Conn : QueueKept(d)
  BY <1>1, <1>2, QueueIsKept
<1>6. ASSUME NEW c \in Conn, fdOf[c] # None, RunsSend(c), UNCHANGED <<deletions, lastSend>>
      PROVE  Closing'
  <2>1. PICK x \in Data : SendInLoop(c, x) /\ Queue' = q
    BY <1>2, <1>6 DEF RunsSend
  <2> QED
    BY <1>1, <1>4, <1>6, <2>1, SendClosing
<1>7. ASSUME NEW c \in Conn, fdOf[c] # None, RunsShutdown(c), UNCHANGED <<deletions, lastSend>>
      PROVE  Closing'
  <2>1. /\ ShutdownInloop(c) /\ Queue[1] = <<"Shutdown", c>>
        /\ Queue' = q \/ Queue' = Append(q, <<"Release", c>>)
    BY <1>2, <1>7 DEF RunsShutdown
  <2>2. <<"Shutdown", c>> \in Range(Queue)
    BY <1>3, <2>1
  <2>3. ASSUME closings[c] <= 1
        PROVE  closings[c] # 0 /\ sock[c] # None /\ <<"Shutdown", c>> \notin Range(q)
    <3>1. closings[c] # 0 /\ sock[c] # None /\ AtMostOnce(Queue, <<"Shutdown", c>>)
      BY <2>2, <2>3 DEF Closing, ClosingOf, CalledOnce, OpenUntilCalled, ShutdownFindsItOpen, Waits
    <3>2. <<"Shutdown", c>> \notin Range(Tail(Queue))
      BY <1>1, <2>1, <3>1, TailKeepsClosing
    <3> QED
      BY <1>2, <3>1, <3>2
  <2> QED
    BY <1>1, <1>2, <1>7, <2>1, <2>3, ShutdownClosing
<1>8. ASSUME NEW c \in Conn, fdOf[c] # None, RunsRelease(c), UNCHANGED deletions
      PROVE  Closing'
  <2>1. ReleaseInLoop(c) /\ Queue[1] = <<"Release", c>> /\ Queue' = Append(q, <<"Remove", c>>)
    BY <1>2, <1>8 DEF RunsRelease
  <2>2. /\ \A d \in Conn : d # c => status'[d] = status[d] /\ sock'[d] = sock[d]
        /\ status'[c] = "DISCONNECTED" /\ sock'[c] = None
    BY <2>1 DEF ReleaseInLoop, RemoveAndClose, Objects, TypeOK
  <2>3. Range(channels') \subseteq Range(channels) \ {c}
    BY <1>1, <2>1, ReleaseStep DEF Objects
  <2>4. PICK f \in Functor : f = <<"Remove", c>> /\ f[2] = c /\ f[1] = "Remove"
    BY Functors
  <2>5. \A d \in Conn : d # c => QueueKept(d)
    BY <1>1, <1>2, <2>1, <2>4, QueueIsKept
  <2>9. /\ \A d \in Conn : d # c => lastSend'[d] = lastSend[d]
        /\ sock[c] # None \/ lastSend'[c] = lastSend[c]
    BY <1>8 DEF RunsRelease, NoteSends, Objects, TypeOK
  <2>6. \A d \in Conn : d # c => ClosingOf(d)'
    BY <1>1, <1>8, <2>2, <2>3, <2>5, <2>9, ClosingKeeps DEF Closing
  <2>7. ASSUME CalledOnce(c)
        PROVE  ClosingOf(c)'
    <3>1. <<"Release", c>> \in Range(Queue)
      BY <1>3, <2>1
    <3>2. /\ closings[c] # 0 /\ <<"Shutdown", c>> \notin Range(Queue)
          /\ RemovesLast(Queue, c, lastSend[c]) /\ ~(deletions[c] > 0)
      <4>1. ~IsLate(<<"Release", c>>, lastSend[c]) /\ <<"Release", c>>[2] = c
        BY DEF IsLate
      <4> QED
        BY <2>7, <3>1, <4>1 DEF Closing, ClosingOf, OpenUntilCalled, ShutdownFindsItOpen, RemoveComesLast,
                                Waits, OnlyLate
    <3>3. RemovesLast(Append(q, f), c, lastSend'[c])
      <4>1. RemovesLast(q, c, lastSend'[c])
        <5>1. CASE sock[c] # None
          BY <1>1, <1>2, <5>1, TailIsKept, OpenHasNoRemove
        <5>2. CASE lastSend'[c] = lastSend[c]
          BY <1>1, <1>2, <3>2, <5>2, TailIsKept
        <5> QED
          BY <2>9, <5>1, <5>2
      <4>2. IsLate(f, lastSend'[c])
        BY <2>4 DEF IsLate
      <4> QED
        BY <4>1, <4>2, AppendKeepsClosing
    <3>4. <<"Shutdown", c>> \notin Range(Append(q, f))
      <4>1. \A x : x \in Range(Append(q, f)) <=> x \in Range(q) \/ x = f
        BY Appended
      <4> QED
        BY <1>3, <2>4, <3>2, <4>1
    <3>5. Queue' = Append(q, f) /\ closings'[c] # 0 /\ ~(deletions'[c] > 0)
      BY <1>1, <1>8, <2>1, <2>4, <3>2
    <3>6. RemovesLast(Queue', c, lastSend'[c]) /\ <<"Shutdown", c>> \notin Range(Queue')
      BY <3>3, <3>4, <3>5
    <3> QED
      BY <2>2, <2>3, <3>5, <3>6, ClosingGoesOn
  <2>8. ASSUME ~CalledOnce(c)
        PROVE  ClosingOf(c)'
    BY <1>1, <2>8 DEF ClosingOf, CalledOnce
  <2> QED
    BY <2>6, <2>7, <2>8 DEF Closing
<1>9. ASSUME NEW c \in Conn, fdOf[c] # None, RunsRemove(c), UNCHANGED lastSend
      PROVE  Closing'
  <2>1. Queue[1] = <<"Remove", c>> /\ Queue' = q /\ \A d \in Conn : QueueKept(d)
    BY <1>2, <1>4, <1>9 DEF RunsRemove
  <2>2. CASE RemoveConnectionInLoop(c)
    <3>1. /\ \A d \in Conn : d # c => sock'[d] = sock[d] /\ deletions'[d] = deletions[d]
          /\ UNCHANGED <<status, channels>> /\ sock'[c] = None
      BY <2>2 DEF RemoveConnectionInLoop, Objects, TypeOK
    <3>2. \A d \in Conn : d # c => ClosingOf(d)'
      BY <1>1, <1>9, <2>1, <3>1, ClosingKeeps DEF Closing
    <3>3. ASSUME CalledOnce(c)
          PROVE  ClosingOf(c)'
      <4>1. <<"Remove", c>> \in Range(Queue)
        BY <1>3, <2>1
      <4>2. sock[c] = None
        BY <4>1 DEF Lives, RemovedAreClosed, Waits
      <4>3. /\ closings[c] # 0 /\ <<"Shutdown", c>> \notin Range(Queue)
            /\ status[c] # "DISCONNECTING" /\ c \notin Range(channels) /\ RemovesLast(Queue, c, lastSend[c])
        BY <3>3, <4>1, <4>2 DEF Closing, ClosingOf, OpenUntilCalled, ShutdownFindsItOpen,
                                RegisteredIsClosing, RemoveComesLast, NotRegistered, Waits
      <4>4. OnlyLate(q, c, lastSend[c]) /\ RemovesLast(q, c, lastSend[c])
        BY <1>1, <1>2, <2>1, <4>3, TailKeepsClosing
      <4> QED
        BY <1>1, <1>3, <1>9, <2>1, <3>1, <4>3, <4>4, ClosingGoesOn
    <3>4. ASSUME ~CalledOnce(c)
          PROVE  ClosingOf(c)'
      BY <1>1, <3>4 DEF ClosingOf, CalledOnce
    <3> QED
      BY <3>2, <3>3, <3>4 DEF Closing
  <2>3. CASE UNCHANGED <<table, deletions, pollerVars, tasks, status, sock, out>>
    <3>1. UNCHANGED channels
      BY <2>3 DEF pollerVars
    <3> QED
      BY <1>1, <1>9, <2>1, <2>3, <3>1, ClosingKeeps DEF Closing
  <2> QED
    BY <1>9, <2>2, <2>3 DEF RunsRemove
<1> QED
  BY <1>6, <1>7, <1>8, <1>9, RunTaskStep

LEMMA UserCallClosing ==
  ASSUME Objects, Objects', NotedInTurn, Lives, Closing, NEW c \in Conn, NEW who \in Caller,
         Send(who, c) \/ Shutdown(who, c) \/ UserRelease(who, c)
  PROVE  Closing'
<1>1. /\ fdOf[c] # None /\ UNCHANGED <<fdOf, deletions, lastSend>>
      /\ \/ \E x \in Data : x[2] = sends + 1 /\ (SendsNow(c, x) \/ SendsLater(c, x))
         \/ ShutsNow(c)
         \/ \E k \in {"Shutdown", "Release"} : ClosesLater(c, k)
  BY UserCallStep
<1>2. closings \in [Conn -> Nat] /\ Queue \in Seq(Functor) /\ sends \in Nat /\ lastSend[c] \in Nat
  <2>1. MaxCalls \in Nat /\ sends \in 0 .. MaxCalls /\ lastSend \in [Conn -> 0 .. MaxCalls]
    BY BoundAssumption DEF Objects, TypeOK
  <2>2. lastSend[c] \in 0 .. MaxCalls
    BY <2>1
  <2>3. closings \in [Conn -> Nat] /\ Queue \in Seq(Functor)
    BY QueueIsTyped DEF Objects, TypeOK
  <2> QED
    BY <2>1, <2>2, <2>3
<1>4. ASSUME NEW x \in Data, SendsNow(c, x)
      PROVE  Closing'
  <2>1. SendInLoop(c, x) /\ Queue' = Queue /\ UNCHANGED closings
    BY <1>4 DEF SendsNow
  <2>2. \A d \in Conn : QueueKept(d)
    BY <2>1, QueueIsKept
  <2> QED
    BY <1>1, <1>2, <2>1, <2>2, SendClosing
<1>5. ASSUME NEW x \in Data, x[2] = sends + 1, SendsLater(c, x)
      PROVE  Closing'
  <2>1. PICK f \in Functor : f = <<"Send", c, x>> /\ f[2] = c
    BY Functors
  <2>2. Queue' = Append(Queue, f) /\ UNCHANGED <<closings, channels, status, sock>>
    BY <1>5, <2>1 DEF SendsLater, pollerVars
  <2>3. \A d \in Conn : d # c => QueueKept(d)
    BY <2>1, <2>2, QueueIsKept
  <2>4. \A d \in Conn : d # c => ClosingOf(d)'
    BY <1>1, <2>2, <2>3, ClosingKeeps DEF Closing
  <2>5. /\ \A g : g \in Range(Queue') <=> g \in Range(Queue) \/ g = f
        /\ OnlyLate(Queue, c, lastSend[c]) => OnlyLate(Queue', c, lastSend[c])
        /\ RemovesLast(Queue, c, lastSend[c]) => RemovesLast(Queue', c, lastSend[c])
    <3>1. x[2] > lastSend[c]
      BY <1>2, <1>5 DEF NotedInTurn
    <3>2. IsLate(f, lastSend[c])
      BY <2>1, <3>1 DEF IsLate
    <3>3. \A g : g \in Range(Append(Queue, f)) <=> g \in Range(Queue) \/ g = f
      BY <1>2, Appended
    <3> QED
      BY <1>2, <2>2, <3>2, <3>3, AppendKeepsClosing
  <2>6. AtMostOnce(Queue, <<"Shutdown", c>>) => AtMostOnce(Queue', <<"Shutdown", c>>)
    <3>1. f # <<"Shutdown", c>>
      BY <2>1
    <3> QED
      BY <1>2, <2>2, <3>1, AppendKeepsClosing
  <2>7. \A k \in {"Shutdown", "Release", "Remove"} : <<k, c>> \in Range(Queue') => <<k, c>> \in Range(Queue)
    BY <2>1, <2>5
  <2>8. ClosingOf(c)'
    <3>1. ASSUME CalledOnce(c)
          PROVE  /\ OpenUntilCalled(c)' /\ ShutdownFindsItOpen(c)'
                 /\ RegisteredIsClosing(c)' /\ RemoveComesLast(c)'
      <4>1. OpenUntilCalled(c) /\ ShutdownFindsItOpen(c) /\ RegisteredIsClosing(c) /\ RemoveComesLast(c)
        BY <3>1 DEF Closing, ClosingOf
      <4>2. OpenUntilCalled(c)'
        BY <1>1, <2>2, <2>7, <4>1 DEF OpenUntilCalled, NotRegistered, Waits
      <4>3. ShutdownFindsItOpen(c)'
        BY <1>1, <2>2, <2>6, <2>7, <4>1 DEF ShutdownFindsItOpen, NotRegistered, Waits
      <4>4. RegisteredIsClosing(c)'
        BY <2>2, <4>1 DEF RegisteredIsClosing, NotRegistered
      <4>5. RemoveComesLast(c)'
        BY <1>1, <2>5, <4>1 DEF RemoveComesLast
      <4> QED
        BY <4>2, <4>3, <4>4, <4>5
    <3> QED
      BY <2>2, <3>1 DEF ClosingOf, CalledOnce
  <2> QED
    BY <2>4, <2>8 DEF Closing
<1>6. ASSUME closings' = [closings EXCEPT ![c] = @ + 1], closings'[c] <= 1
      PROVE  /\ closings'[c] = 1 /\ status[c] = "DISCONNECTED" /\ c \notin Range(channels)
             /\ deletions[c] = 0 /\ sock[c] # None
             /\ <<"Shutdown", c>> \notin Range(Queue) /\ <<"Release", c>> \notin Range(Queue)
  <2>1. closings[c] \in Nat /\ closings'[c] = closings[c] + 1
    BY <1>2, <1>6
  <2>2. closings[c] = 0
    BY <1>6, <2>1
  <2>3. OpenUntilCalled(c)
    BY <2>2 DEF Closing, ClosingOf, CalledOnce
  <2> QED
    BY <1>1, <2>1, <2>2, <2>3 DEF OpenUntilCalled, NotRegistered, Waits
<1>7. CASE ShutsNow(c)
  <2>1. /\ ShutdownInloop(c) /\ closings' = [closings EXCEPT ![c] = @ + 1]
        /\ Queue' = Queue \/ Queue' = Append(Queue, <<"Release", c>>)
    BY <1>7 DEF ShutsNow
  <2>2. \A d \in Conn : d # c => closings'[d] = closings[d]
    BY <1>2, <2>1
  <2>3. closings'[c] <= 1 => closings'[c] # 0 /\ sock[c] # None /\ <<"Shutdown", c>> \notin Range(Queue)
    BY <1>6, <2>1
  <2> QED
    BY <1>1, <1>2, <2>1, <2>2, <2>3, ShutdownClosing
<1>8. ASSUME NEW k \in {"Shutdown", "Release"}, ClosesLater(c, k)
      PROVE  Closing'
  <2>1. PICK f \in Functor : f = <<k, c>> /\ f[2] = c /\ f[1] = k
    BY Functors
  <2>2. /\ Queue' = Append(Queue, f) /\ UNCHANGED <<channels, status, sock>>
        /\ closings' = [closings EXCEPT ![c] = @ + 1]
    BY <1>8, <2>1 DEF ClosesLater, pollerVars
  <2>3. \A d \in Conn : d # c => QueueKept(d) /\ closings'[d] = closings[d]
    BY <1>2, <2>1, <2>2, QueueIsKept
  <2>4. \A d \in Conn : d # c => ClosingOf(d)'
    BY <1>1, <2>2, <2>3, ClosingKeeps DEF Closing
  <2>5. ASSUME closings'[c] <= 1
        PROVE  ClosingOf(c)'
    <3>1. /\ closings'[c] = 1 /\ status[c] = "DISCONNECTED" /\ c \notin Range(channels)
          /\ deletions[c] = 0 /\ sock[c] # None
          /\ <<"Shutdown", c>> \notin Range(Queue) /\ <<"Release", c>> \notin Range(Queue)
      BY <1>6, <2>2, <2>5
    <3>2. AtMostOnce(Queue, <<"Shutdown", c>>)
      BY <3>1 DEF AtMostOnce, Range
    <3>3. /\ RemovesLast(Queue', c, lastSend[c]) /\ \A g : g \in Range(Queue') <=> g \in Range(Queue) \/ g = f
          /\ AtMostOnce(Queue', <<"Shutdown", c>>)
      BY <1>1, <2>2, <3>1, <3>2, OpenQueueGets
    <3>4. ~(<<"Shutdown", c>> \in Range(Queue') /\ <<"Release", c>> \in Range(Queue'))
      BY <2>1, <3>1, <3>3
    <3>5. ShutdownFindsItOpen(c)'
      BY <1>1, <2>2, <3>1, <3>3, <3>4 DEF ShutdownFindsItOpen, NotRegistered, Waits
    <3>6. OpenUntilCalled(c)' /\ RegisteredIsClosing(c)' /\ RemoveComesLast(c)'
      BY <1>1, <2>2, <3>1, <3>3 DEF OpenUntilCalled, RegisteredIsClosing, NotRegistered, RemoveComesLast
    <3> QED
      BY <3>5, <3>6 DEF ClosingOf
  <2>6. ASSUME ~(closings'[c] <= 1)
        PROVE  ClosingOf(c)'
    BY <2>6 DEF ClosingOf, CalledOnce
  <2> QED
    BY <2>4, <2>5, <2>6 DEF Closing
<1> QED
  BY <1>1, <1>4, <1>5, <1>7, <1>8

LEMMA NotedStep == Objects /\ NotedInTurn /\ [Next]_vars => NotedInTurn'
<1> SUFFICES ASSUME Objects, NotedInTurn, [Next]_vars
             PROVE  NotedInTurn'
  OBVIOUS
<1>1. /\ sends \in Nat /\ lastSend \in [Conn -> Nat]
      /\ \A c \in Conn : lastSend[c] \in Nat /\ lastSend[c] <= sends
  BY DEF Objects, TypeOK, NotedInTurn
<1>2. CASE UNCHANGED <<sends, lastSend>>
  BY <1>1, <1>2 DEF NotedInTurn
<1>3. CASE sends' \in {sends, sends + 1} /\ UNCHANGED lastSend
  BY <1>1, <1>3 DEF NotedInTurn
<1>4. CASE UNCHANGED sends /\ \E c \in Conn : NoteSends(c)
  BY <1>1, <1>4 DEF NotedInTurn, NoteSends
<1>5. Quiet => UNCHANGED <<sends, lastSend>>
  BY QuietStep
<1>6. \A fd \in Fd : NewConnection(fd) => UNCHANGED <<sends, lastSend>>
  BY NewConnectionStep
<1>7. \A c \in Conn : Dispatch(c) => UNCHANGED <<sends, lastSend>>
  BY HandleEventStep
<1>8. \A who \in Caller, c \in Conn :
        Send(who, c) \/ Shutdown(who, c) \/ UserRelease(who, c)
          => sends' \in {sends, sends + 1} /\ UNCHANGED lastSend
  BY DEF Send, Shutdown, UserRelease, CountClosing
<1>9. RunTask => UNCHANGED sends /\ (UNCHANGED lastSend \/ \E c \in Conn : NoteSends(c))
  BY RunTaskStep DEF RunsRelease
<1> QED
  BY <1>2, <1>3, <1>4, <1>5, <1>6, <1>7, <1>8, <1>9 DEF Next, LoopStep, UserStep, Quiet

LEMMA ClosingStep == Objects /\ NotedInTurn /\ Lives /\ Closing /\ [Next]_vars => Closing'
<1> SUFFICES ASSUME Objects, NotedInTurn, Lives, Closing, [Next]_vars
             PROVE  Closing'
  OBVIOUS
<1>1. Objects'
  BY ObjectsStep
<1>2. \/ Quiet \/ RunTask
      \/ \E fd \in Fd : NewConnection(fd)
      \/ \E c \in Conn : Dispatch(c)
      \/ \E who \in Caller, c \in Conn : Send(who, c) \/ Shutdown(who, c) \/ UserRelease(who, c)
  BY DEF Next, LoopStep, UserStep, Quiet
<1> QED
  BY <1>1, <1>2, QuietClosing, NewConnectionClosing, DispatchClosing, RunTaskClosing, UserCallClosing

LEMMA InitClosing == Init => NotedInTurn /\ Closing
<1> SUFFICES ASSUME Init, NEW c \in Conn
             PROVE  lastSend[c] <= sends /\ ClosingOf(c)
  BY DEF NotedInTurn, Closing
<1>1. Queue = <<>>
  BY InitObjects
<1>2. \A f : ~Waits(f)
  BY <1>1 DEF Waits, Range
<1>3. NotRegistered(c)
  BY DEF Init, NotRegistered, Range
<1>4. \A n : RemovesLast(Queue, c, n)
  BY <1>1 DEF RemovesLast
<1> QED
  BY <1>2, <1>3, <1>4
     DEF Init, ClosingOf, OpenUntilCalled, ShutdownFindsItOpen, RegisteredIsClosing, RemoveComesLast

LEMMA LifeInvariance ==
  /\ Init => Objects /\ NotedInTurn /\ Lives /\ Closing
  /\ Objects /\ NotedInTurn /\ Lives /\ Closing /\ [Next]_vars
       => (Objects /\ NotedInTurn /\ Lives /\ Closing)'
<1>1. Init => Objects /\ NotedInTurn /\ Lives /\ Closing
  BY InitObjects, InitLife, InitClosing
<1> QED
  BY <1>1, ObjectsStep, NotedStep, LivesStep, ClosingStep

(* For any number of connections and calls: when a connection is deleted,  *)
(* no channel is left, and of the functors that bind its bare address only *)
(* those of the Sends that were called after its socket was closed.        *)
THEOREM DeletedIsGone == Spec => []DeletedIsForgotten
<1>1. Objects /\ NotedInTurn /\ Lives /\ Closing => DeletedIsForgotten
  <2> SUFFICES ASSUME Objects, Lives, Closing, NEW c \in Conn, deletions[c] > 0, closings[c] <= 1
               PROVE  /\ c \notin Range(channels) \cup active
                      /\ \A f \in Waiting : f[2] = c => IsLate(f, lastSend[c])
    BY DEF DeletedIsForgotten, IsLate
  <2>1. sock[c] = None
    BY DEF Lives, RemovedAreClosed
  <2>2. c \notin Range(channels) /\ OnlyLate(Queue, c, lastSend[c])
    BY <2>1 DEF Closing, ClosingOf, CalledOnce, RegisteredIsClosing, RemoveComesLast, NotRegistered
  <2>3. c \notin active
    BY <2>2, RegisteredIsKnown
  <2>4. Waiting = Range(Queue)
    BY QueueIsTyped DEF Objects
  <2> QED
    BY <2>2, <2>3, <2>4 DEF OnlyLate
<1> QED
  BY <1>1, LifeInvariance, PTL DEF Spec

(* The server implements the life of a connection: whatever the order of   *)
(* Send, Shutdown, Release, hang-ups, partial writes and failing sends, it *)
(* opens, closes and forgets each connection once, closes it only when its *)
(* user has asked for that, and delivers in order.                         *)
THEOREM Refinement == Spec => ImplementsConnectionLife
<1>1. Init => CL!Init
  BY InitLife
<1>2. Objects /\ NotedInTurn /\ Lives /\ Closing /\ [Next]_vars => [CL!Next]_(CL!vars)
  BY LivesStep
<1> QED
  BY <1>1, <1>2, LifeInvariance, PTL DEF Spec, ImplementsConnectionLife, CL!Spec

-----------------------------------------------------------------------------
(* Descriptors *)

LEMMA BatchKeeps ==
  ASSUME NEW c \in Conn, ReleasedInOneBatch(c), CalledOnce(c)' => CalledOnce(c),
         InBatch(<<"Release", c>>)' => InBatch(<<"Release", c>>),
         <<"Release", c>> \in Range(tasks') => <<"Release", c>> \in Range(tasks),
         sock'[c] = sock[c], fdOf'[c] = fdOf[c], Open' \subseteq Open
  PROVE  ReleasedInOneBatch(c)'
  BY DEF ReleasedInOneBatch

LEMMA SocketsStayDifferent ==
  ASSUME SocketsDiffer, \A c \in Conn : sock'[c] = sock[c] \/ sock'[c] = None
  PROVE  SocketsDiffer' /\ Open' \subseteq Open
  BY DEF SocketsDiffer, Open

LEMMA ReleaseIsQueued ==
  ASSUME Objects, NEW f \in Functor, tasks' = Append(tasks, f)
  PROVE  \A g : g \in Range(tasks') <=> g \in Range(tasks) \/ g = f
<1>1. tasks \in Seq(Functor)
  BY DEF Objects, TypeOK
<1>2. \A g : g \in Range(Append(tasks, f)) <=> g \in Range(tasks) \/ g = f
  BY <1>1, Appended
<1> QED
  BY <1>2

(* epoll_ctl succeeds for an open connection, and does what the Poller     *)
(* does.                                                                   *)
LEMMA WatchMatches ==
  ASSUME Objects, SocketsDiffer, Matches, NEW c \in Conn, sock[c] # None,
         UNCHANGED <<sock, fdOf>>, Watches(c)
  PROVE  Matches'
<1>1. fdOf[c] = sock[c] /\ fdOf[c] \in Open /\ fdOf[c] # None
  BY DEF Objects, TypeOK, Open
<1>2. fdOf[c] \in DOMAIN channels => channels[fdOf[c]] = c
  <2>1. ASSUME fdOf[c] \in DOMAIN channels
        PROVE  channels[fdOf[c]] = c
    <3>1. channels[fdOf[c]] \in Conn /\ sock[channels[fdOf[c]]] = fdOf[c]
      BY <2>1 DEF Matches, Objects, TypeOK
    <3> QED
      BY <1>1, <3>1 DEF SocketsDiffer
  <2> QED
    BY <2>1
<1>3. CASE UNCHANGED pollerVars
  BY <1>3 DEF pollerVars, Matches
<1>4. CASE ~UNCHANGED pollerVars
  <2>1. /\ UpdateChannel(c) /\ events \in [Conn -> SUBSET {"OUT"}]
        /\ events' = [events EXCEPT ![c] = events'[c]]
    BY <1>4 DEF Watches, EnableWrite, DisableWrite, Objects, TypeOK
  <2>2. /\ ~CtlFails(IF HasChannel(c) THEN "MOD" ELSE "ADD", fdOf[c])
    BY <1>1 DEF CtlFails, HasChannel, Matches
  <2>3. /\ process' = process /\ interest' = With(interest, fdOf[c], events'[c])
        /\ \/ fdOf[c] \in DOMAIN channels /\ channels' = channels
           \/ fdOf[c] \notin DOMAIN channels /\ channels' = With(channels, fdOf[c], c)
    BY <2>1, <2>2 DEF UpdateChannel, HasChannel
  <2>4. /\ DOMAIN channels' = DOMAIN channels \cup {fdOf[c]} /\ channels'[fdOf[c]] = c
        /\ \A fd \in DOMAIN channels : fd # fdOf[c] => channels'[fd] = channels[fd]
    BY <1>2, <2>3 DEF With
  <2>5. /\ DOMAIN interest' = DOMAIN interest \cup {fdOf[c]} /\ interest'[fdOf[c]] = events'[c]
        /\ \A fd \in DOMAIN interest : fd # fdOf[c] => interest'[fd] = interest[fd]
    BY <2>3 DEF With
  <2>6. ASSUME NEW fd \in DOMAIN channels, fd # fdOf[c]
        PROVE  channels[fd] \in Conn /\ channels[fd] # c /\ events'[channels[fd]] = events[channels[fd]]
    BY <2>1, <2>6 DEF Objects, TypeOK, OwnChannels
  <2>7. DOMAIN channels' = DOMAIN interest' /\ process' # "exited"
    BY <2>3, <2>4, <2>5 DEF Matches
  <2>8. \A fd \in DOMAIN channels' : sock'[channels'[fd]] = fd /\ interest'[fd] = events'[channels'[fd]]
    BY <1>1, <2>4, <2>5, <2>6 DEF Matches
  <2> QED
    BY <2>7, <2>8 DEF Matches
<1> QED
  BY <1>3, <1>4

LEMMA CloseMatches ==
  ASSUME Objects, SocketsDiffer, Matches, NEW c \in Conn, UNCHANGED fdOf, RemoveAndClose(c),
         sock[c] = None => fdOf[c] \notin Open
  PROVE  Matches'
<1>1. fdOf[c] \in DOMAIN channels => fdOf[c] \in Open /\ fdOf[c] \in DOMAIN interest
  <2>1. DOMAIN channels \subseteq Fd /\ \A fd \in DOMAIN channels : channels[fd] \in Conn
    BY DEF Objects, TypeOK
  <2>2. DOMAIN channels = DOMAIN interest /\ \A fd \in DOMAIN channels : sock[channels[fd]] = fd
    BY DEF Matches
  <2> QED
    BY <2>1, <2>2, FdAssumption DEF Open
<1>2. /\ process' = process /\ events' = events
      /\ channels' = Without(channels, fdOf[c])
      /\ sock' = [sock EXCEPT ![c] = None]
      /\ \/ interest' = Without(interest, fdOf[c])
         \/ interest' = interest /\ fdOf[c] \notin DOMAIN channels
  BY <1>1 DEF RemoveAndClose, HasChannel, CtlFails
<1>3. /\ DOMAIN channels' = DOMAIN channels \ {fdOf[c]}
      /\ \A fd \in DOMAIN channels' : channels'[fd] = channels[fd]
  BY <1>2 DEF Without, Restrict
<1>4. /\ DOMAIN interest' = DOMAIN interest \ {fdOf[c]}
      /\ \A fd \in DOMAIN interest' : interest'[fd] = interest[fd]
  <2>1. CASE interest' = Without(interest, fdOf[c])
    BY <2>1 DEF Without, Restrict
  <2>2. CASE interest' = interest /\ fdOf[c] \notin DOMAIN channels
    BY <2>2 DEF Matches
  <2> QED
    BY <1>2, <2>1, <2>2
<1>5. \A fd \in DOMAIN channels' : channels[fd] \in Conn /\ channels[fd] # c
  BY <1>3 DEF Objects, TypeOK, OwnChannels
<1>6. \A fd \in DOMAIN channels' : sock'[channels[fd]] = sock[channels[fd]]
  BY <1>2, <1>5 DEF Objects, TypeOK
<1> QED
  BY <1>2, <1>3, <1>4, <1>6 DEF Matches

LEMMA QuietDescriptors ==
  ASSUME Objects, Objects', Descriptors, Quiet
  PROVE  Descriptors'
<1>1. /\ UNCHANGED <<channels, interest, events, sock, fdOf, closings>>
      /\ process' \in {process, "up", "aborted"}
      /\ \/ UNCHANGED tasks /\ \A f : InBatch(f)' => InBatch(f)
         \/ tasks' = <<>> /\ \A f : InBatch(f)' => f \in Range(tasks)
  BY QuietStep
<1>2. SocketsDiffer' /\ Open' = Open
  BY <1>1 DEF Descriptors, SocketsDiffer, Open
<1>3. (ClosedOnce => Matches)'
  BY <1>1 DEF Descriptors, ClosedOnce, Matches
<1>4. ASSUME NEW c \in Conn
      PROVE  ReleasedInOneBatch(c)'
  <2>1. ReleasedInOneBatch(c)
    BY DEF Descriptors
  <2>2. CASE UNCHANGED tasks /\ \A f : InBatch(f)' => InBatch(f)
    BY <1>1, <1>2, <2>1, <2>2, BatchKeeps DEF CalledOnce
  <2>3. CASE tasks' = <<>> /\ \A f : InBatch(f)' => f \in Range(tasks)
    <3>1. \A f : f \notin Range(tasks')
      BY <2>3 DEF Range
    <3> QED
      BY <1>1, <1>2, <2>1, <2>3, <3>1 DEF ReleasedInOneBatch, CalledOnce
  <2> QED
    BY <1>1, <2>2, <2>3
<1> QED
  BY <1>2, <1>3, <1>4 DEF Descriptors

LEMMA NewConnectionDescriptors ==
  ASSUME Objects, Objects', Descriptors, NEW fd \in Fd, NewConnection(fd)
  PROVE  Descriptors'
<1>1. PICK new \in Conn : new = nextID + 1
  BY NewConnectionStep
<1>2. /\ fdOf[new] = None /\ sock[new] = None /\ fd # None /\ fd \notin Open /\ phase = "handle"
      /\ fdOf' = [fdOf EXCEPT ![new] = fd] /\ sock' = [sock EXCEPT ![new] = fd]
      /\ UNCHANGED <<process, events, channels, interest, batch, ran, tasks, closings>>
  BY <1>1, NewConnectionStep
<1>3. /\ \A d \in Conn : d # new => fdOf'[d] = fdOf[d] /\ sock'[d] = sock[d]
      /\ fdOf'[new] = fd /\ sock'[new] = fd
  BY <1>2 DEF Objects, TypeOK
<1>4. SocketsDiffer'
  <2>1. \A d \in Conn : sock[d] # fd
    BY <1>2 DEF Open
  <2> QED
    BY <1>3, <2>1 DEF Descriptors, SocketsDiffer
<1>5. \A fd2 \in DOMAIN channels : channels[fd2] \in Conn /\ channels[fd2] # new
  BY <1>2, FdAssumption DEF Objects, OwnChannels, TypeOK
<1>6. (ClosedOnce => Matches)'
  BY <1>2, <1>3, <1>5 DEF Descriptors, ClosedOnce, Matches
<1>7. ASSUME NEW c \in Conn
      PROVE  ReleasedInOneBatch(c)'
  <2>1. batch = <<>> /\ ran = 0 /\ Len(<<>>) = 0
    BY <1>2 DEF Objects, OneThingAtATime
  <2>2. ~InBatch(<<"Release", c>>)'
    BY <1>2, <2>1 DEF InBatch
  <2>3. CASE c = new
    BY <1>2, <1>3, <2>2, <2>3 DEF ReleasedInOneBatch
  <2>4. CASE c # new
    BY <1>2, <1>3, <2>2, <2>4 DEF Descriptors, ReleasedInOneBatch, CalledOnce
  <2> QED
    BY <2>3, <2>4
<1> QED
  BY <1>4, <1>6, <1>7 DEF Descriptors

LEMMA DispatchDescriptors ==
  ASSUME Objects, Objects', Lives, Closing, Descriptors, NEW c \in Conn, Dispatch(c)
  PROVE  Descriptors'
<1>1. /\ Watches(c) /\ phase = "handle" /\ UNCHANGED <<sock, batch, ran, fdOf, closings>>
      /\ tasks' = tasks \/ tasks' = Append(tasks, <<"Release", c>>)
  BY HandleEventStep
<1>2. c \in Range(channels)
  BY RegisteredIsKnown DEF Dispatch
<1>3. CalledOnce(c) => sock[c] # None
  BY <1>2 DEF Closing, ClosingOf, RegisteredIsClosing, NotRegistered
<1>4. SocketsDiffer' /\ Open' = Open
  BY <1>1 DEF Descriptors, SocketsDiffer, Open
<1>5. (ClosedOnce => Matches)'
  <2>1. ClosedOnce' => CalledOnce(c) /\ Matches /\ SocketsDiffer
    BY <1>1 DEF Descriptors, ClosedOnce, CalledOnce
  <2> QED
    BY <1>1, <1>3, <2>1, WatchMatches
<1>6. PICK f \in Functor : f = <<"Release", c>> /\ \A d \in Conn : d # c => f # <<"Release", d>>
  BY Functors
<1>7. ASSUME NEW d \in Conn
      PROVE  ReleasedInOneBatch(d)'
  <2>1. ReleasedInOneBatch(d)
    BY DEF Descriptors
  <2>2. batch = <<>> /\ ran = 0 /\ Len(<<>>) = 0
    BY <1>1 DEF Objects, OneThingAtATime
  <2>3. ~InBatch(<<"Release", d>>)'
    BY <1>1, <2>2 DEF InBatch
  <2>4. CASE d # c
    <3>1. <<"Release", d>> \in Range(tasks') => <<"Release", d>> \in Range(tasks)
      BY <1>1, <1>6, <2>4, ReleaseIsQueued
    <3> QED
      BY <1>1, <1>4, <2>1, <2>3, <3>1, BatchKeeps DEF CalledOnce
  <2>5. CASE d = c
    BY <1>1, <1>3, <2>3, <2>5 DEF ReleasedInOneBatch, CalledOnce
  <2> QED
    BY <2>4, <2>5
<1> QED
  BY <1>4, <1>5, <1>7 DEF Descriptors

(* Steps that close nothing and queue no Release *)
LEMMA WatchDescriptors ==
  ASSUME Objects, Descriptors, UNCHANGED <<sock, fdOf, closings>>,
         NEW c \in Conn, Watches(c), UNCHANGED pollerVars \/ (CalledOnce(c) => sock[c] # None),
         \A f : InBatch(f)' => InBatch(f),
         \A d \in Conn : <<"Release", d>> \in Range(tasks') => <<"Release", d>> \in Range(tasks)
  PROVE  Descriptors'
<1>1. SocketsDiffer' /\ Open' = Open
  BY DEF Descriptors, SocketsDiffer, Open
<1>2. ASSUME NEW d \in Conn
      PROVE  ReleasedInOneBatch(d)'
  BY <1>1, BatchKeeps DEF Descriptors, CalledOnce
<1>3. (ClosedOnce => Matches)'
  <2>1. CASE UNCHANGED pollerVars
    BY <2>1 DEF Descriptors, ClosedOnce, Matches, pollerVars
  <2>2. CASE CalledOnce(c) => sock[c] # None
    <3>1. ClosedOnce' => CalledOnce(c) /\ Matches /\ SocketsDiffer
      BY DEF Descriptors, ClosedOnce, CalledOnce
    <3> QED
      BY <2>2, <3>1, WatchMatches
  <2> QED
    BY <2>1, <2>2
<1> QED
  BY <1>1, <1>2, <1>3 DEF Descriptors

LEMMA SendDescriptors ==
  ASSUME Objects, Closing, Descriptors, UNCHANGED <<fdOf, closings>>,
         NEW c \in Conn, NEW x \in Data, SendInLoop(c, x),
         \A f : InBatch(f)' => InBatch(f)
  PROVE  Descriptors'
<1>1. /\ Watches(c) /\ UNCHANGED <<sock, tasks>>
      /\ UNCHANGED pollerVars \/ status[c] = "DISCONNECTING"
  BY DEF SendInLoop, WatchOutput, Watches, Objects, TypeOK
<1>2. status[c] = "DISCONNECTING" => (CalledOnce(c) => sock[c] # None)
  BY DEF Closing, ClosingOf, RegisteredIsClosing
<1> QED
  BY <1>1, <1>2, WatchDescriptors

LEMMA ShutdownDescriptors ==
  ASSUME Objects, Descriptors, UNCHANGED fdOf,
         NEW c \in Conn, ShutdownInloop(c), \A f : InBatch(f)' => InBatch(f),
         \A d \in Conn : CalledOnce(d)' => CalledOnce(d),
         CalledOnce(c)' => sock[c] # None /\ ~InBatch(<<"Release", c>>)
  PROVE  Descriptors'
<1>1. /\ Watches(c) /\ UNCHANGED sock
      /\ tasks' = tasks \/ tasks' = Append(tasks, <<"Release", c>>)
  BY DEF ShutdownInloop, WatchOutput, Watches, Release, QueueInLoop
<1>2. SocketsDiffer' /\ Open' = Open
  BY <1>1 DEF Descriptors, SocketsDiffer, Open
<1>3. (ClosedOnce => Matches)'
  <2>1. ClosedOnce' => CalledOnce(c)' /\ Matches /\ SocketsDiffer
    BY DEF Descriptors, ClosedOnce, CalledOnce
  <2> QED
    BY <1>1, <2>1, WatchMatches
<1>4. PICK f \in Functor : f = <<"Release", c>> /\ \A d \in Conn : d # c => f # <<"Release", d>>
  BY Functors
<1>5. ASSUME NEW d \in Conn, d # c
      PROVE  ReleasedInOneBatch(d)'
  <2>1. <<"Release", d>> \in Range(tasks') => <<"Release", d>> \in Range(tasks)
    BY <1>1, <1>4, <1>5, ReleaseIsQueued
  <2> QED
    BY <1>1, <1>2, <2>1, BatchKeeps DEF Descriptors
<1>6. ReleasedInOneBatch(c)'
  BY <1>1 DEF ReleasedInOneBatch
<1> QED
  BY <1>2, <1>3, <1>5, <1>6 DEF Descriptors

LEMMA ReleaseDescriptors ==
  ASSUME Objects, Descriptors, UNCHANGED <<fdOf, closings>>,
         NEW c \in Conn, ReleaseInLoop(c), InBatch(<<"Release", c>>),
         \A f : InBatch(f)' => InBatch(f)
  PROVE  Descriptors'
<1>1. RemoveAndClose(c) /\ tasks' = Append(tasks, <<"Remove", c>>) /\ sock' = [sock EXCEPT ![c] = None]
  BY DEF ReleaseInLoop, RemoveAndClose, QueueInLoop
<1>2. /\ \A d \in Conn : d # c => sock'[d] = sock[d]
      /\ sock'[c] = None /\ sock[c] \in {None, fdOf[c]}
  BY <1>1 DEF Objects, TypeOK
<1>3. SocketsDiffer' /\ Open' \subseteq Open
  BY <1>2, SocketsStayDifferent DEF Descriptors
<1>4. (ClosedOnce => Matches)'
  <2>1. ClosedOnce' => Matches /\ SocketsDiffer /\ (sock[c] = None => fdOf[c] \notin Open)
    BY DEF Descriptors, ClosedOnce, CalledOnce, ReleasedInOneBatch
  <2> QED
    BY <1>1, <2>1, CloseMatches
<1>5. PICK f \in Functor : f = <<"Remove", c>> /\ \A d \in Conn : f # <<"Release", d>>
  BY Functors
<1>6. \A d \in Conn : <<"Release", d>> \in Range(tasks') => <<"Release", d>> \in Range(tasks)
  BY <1>1, <1>5, ReleaseIsQueued
<1>7. ASSUME NEW d \in Conn, d # c
      PROVE  ReleasedInOneBatch(d)'
  BY <1>2, <1>3, <1>6, <1>7, BatchKeeps DEF Descriptors, CalledOnce
<1>8. ReleasedInOneBatch(c)'
  <2> SUFFICES ASSUME CalledOnce(c)
               PROVE  <<"Release", c>> \notin Range(tasks') /\ fdOf[c] \notin Open'
    BY DEF ReleasedInOneBatch, CalledOnce
  <2>1. <<"Release", c>> \notin Range(tasks) /\ (sock[c] = None => fdOf[c] \notin Open)
    BY DEF Descriptors, ReleasedInOneBatch
  <2>2. sock[c] # None => fdOf[c] \notin Open'
    BY <1>2 DEF Descriptors, SocketsDiffer, Open
  <2> QED
    BY <1>3, <1>6, <2>1, <2>2
<1> QED
  BY <1>3, <1>4, <1>7, <1>8 DEF Descriptors

LEMMA RunTaskDescriptors ==
  ASSUME Objects, Lives, Closing, Descriptors, RunTask
  PROVE  Descriptors'
<1>1. /\ Queue # <<>> /\ Queue \in Seq(Functor) /\ UNCHANGED <<fdOf, closings>>
      /\ \A f : InBatch(f)' => InBatch(f)
  BY RunTaskStep, QueueIsTyped DEF Objects
<1>2. Queue[1] \in Range(Queue)
  BY <1>1, TailOf
<1>3. ASSUME UNCHANGED <<channels, interest, events, sock, tasks>>, process' # "exited"
      PROVE  Descriptors'
  <2>1. SocketsDiffer' /\ Open' = Open
    BY <1>3 DEF Descriptors, SocketsDiffer, Open
  <2>2. (ClosedOnce => Matches)'
    BY <1>1, <1>3 DEF Descriptors, ClosedOnce, Matches
  <2>3. \A d \in Conn : ReleasedInOneBatch(d)'
    BY <1>1, <1>3, <2>1, BatchKeeps DEF Descriptors, CalledOnce
  <2> QED
    BY <2>1, <2>2, <2>3 DEF Descriptors
<1>5. ASSUME NEW c \in Conn, RunsSend(c)
      PROVE  Descriptors'
  BY <1>1, <1>5, SendDescriptors DEF RunsSend
<1>6. ASSUME NEW c \in Conn, RunsShutdown(c)
      PROVE  Descriptors'
  <2>1. ShutdownInloop(c) /\ <<"Shutdown", c>> \in Range(Queue)
    BY <1>2, <1>6 DEF RunsShutdown
  <2>2. ASSUME CalledOnce(c)
        PROVE  sock[c] # None /\ ~InBatch(<<"Release", c>>)
    <3>1. sock[c] # None /\ <<"Release", c>> \notin Range(Queue)
      BY <2>1, <2>2 DEF Closing, ClosingOf, ShutdownFindsItOpen, Waits
    <3> QED
      BY <3>1, QueueIsTyped DEF Objects
  <2> QED
    BY <1>1, <2>1, <2>2, ShutdownDescriptors DEF CalledOnce
<1>7. ASSUME NEW c \in Conn, RunsRelease(c)
      PROVE  Descriptors'
  BY <1>1, <1>7, ReleaseDescriptors DEF RunsRelease
<1>8. ASSUME NEW c \in Conn, RunsRemove(c)
      PROVE  Descriptors'
  <2>1. process = "up"
    BY RunTaskStep
  <2>2. CASE RemoveConnectionInLoop(c)
    <3>1. sock[c] = None
      BY <1>2, <1>8 DEF RunsRemove, Lives, RemovedAreClosed, Waits
    <3>2. UNCHANGED <<process, channels, interest, events, tasks>> /\ sock' = [sock EXCEPT ![c] = None]
      BY <2>2, <3>1 DEF RemoveConnectionInLoop
    <3>3. sock' = sock
      BY <3>1, <3>2 DEF Objects, TypeOK
    <3> QED
      BY <1>3, <2>1, <3>2, <3>3
  <2>3. CASE UNCHANGED <<table, deletions, pollerVars, tasks, status, sock, out>>
    BY <1>3, <2>1, <2>3 DEF pollerVars
  <2> QED
    BY <1>8, <2>2, <2>3 DEF RunsRemove
<1> QED
  BY <1>5, <1>6, <1>7, <1>8, RunTaskStep

LEMMA UserCallDescriptors ==
  ASSUME Objects, Closing, Descriptors, NEW c \in Conn, NEW who \in Caller,
         Send(who, c) \/ Shutdown(who, c) \/ UserRelease(who, c)
  PROVE  Descriptors'
<1>1. /\ fdOf[c] # None /\ UNCHANGED fdOf /\ \A f : InBatch(f)' => InBatch(f)
      /\ \/ \E x \in Data : x[2] = sends + 1 /\ (SendsNow(c, x) \/ SendsLater(c, x))
         \/ ShutsNow(c)
         \/ \E k \in {"Shutdown", "Release"} : ClosesLater(c, k)
  BY UserCallStep
<1>2. closings \in [Conn -> Nat] /\ tasks \in Seq(Functor)
  BY DEF Objects, TypeOK
<1>3. ASSUME NEW x \in Data, SendsNow(c, x)
      PROVE  Descriptors'
  BY <1>1, <1>3, SendDescriptors DEF SendsNow
<1>4. ASSUME NEW x \in Data, SendsLater(c, x)
      PROVE  Descriptors'
  <2>1. PICK f \in Functor : f = <<"Send", c, x>> /\ \A d \in Conn : f # <<"Release", d>>
    BY Functors
  <2>2. tasks' = Append(tasks, f) /\ UNCHANGED <<pollerVars, sock, closings>>
    BY <1>4, <2>1 DEF SendsLater
  <2>3. \A d \in Conn : <<"Release", d>> \in Range(tasks') => <<"Release", d>> \in Range(tasks)
    BY <2>1, <2>2, ReleaseIsQueued
  <2> QED
    BY <1>1, <2>2, <2>3, WatchDescriptors DEF Watches
<1>5. ASSUME closings' = [closings EXCEPT ![c] = @ + 1]
      PROVE  /\ \A d \in Conn : CalledOnce(d)' => CalledOnce(d)
             /\ CalledOnce(c)' => sock[c] # None /\ ~InBatch(<<"Release", c>>)
  <2>1. /\ closings[c] \in Nat /\ closings'[c] = closings[c] + 1
        /\ \A d \in Conn : d # c => closings'[d] = closings[d]
    BY <1>2, <1>5
  <2>2. CalledOnce(c)' => closings[c] = 0
    BY <2>1 DEF CalledOnce
  <2>3. \A d \in Conn : CalledOnce(d)' => CalledOnce(d)
    BY <2>1, <2>2 DEF CalledOnce
  <2>4. CalledOnce(c)' => sock[c] # None /\ <<"Release", c>> \notin Range(Queue)
    BY <1>1, <2>2, <2>3 DEF Closing, ClosingOf, OpenUntilCalled, Waits
  <2> QED
    BY <2>3, <2>4, QueueIsTyped DEF Objects
<1>6. CASE ShutsNow(c)
  <2>1. ShutdownInloop(c) /\ closings' = [closings EXCEPT ![c] = @ + 1]
    BY <1>6 DEF ShutsNow
  <2> QED
    BY <1>1, <1>5, <2>1, ShutdownDescriptors
<1>7. ASSUME NEW k \in {"Shutdown", "Release"}, ClosesLater(c, k)
      PROVE  Descriptors'
  <2>1. PICK f \in Functor : f = <<k, c>> /\ \A d \in Conn : d # c => f # <<"Release", d>>
    BY Functors
  <2>2. /\ tasks' = Append(tasks, f) /\ UNCHANGED <<process, channels, interest, events, sock>>
        /\ closings' = [closings EXCEPT ![c] = @ + 1]
    BY <1>7, <2>1 DEF ClosesLater, pollerVars
  <2>3. SocketsDiffer' /\ Open' = Open
    BY <2>2 DEF Descriptors, SocketsDiffer, Open
  <2>4. (ClosedOnce => Matches)'
    BY <1>5, <2>2 DEF Descriptors, ClosedOnce, CalledOnce, Matches
  <2>5. \A d \in Conn : d # c => (<<"Release", d>> \in Range(tasks') => <<"Release", d>> \in Range(tasks))
    BY <2>1, <2>2, ReleaseIsQueued
  <2>6. \A d \in Conn : d # c => ReleasedInOneBatch(d)'
    BY <1>1, <1>5, <2>2, <2>3, <2>5, BatchKeeps DEF Descriptors
  <2>7. ReleasedInOneBatch(c)'
    BY <1>1, <1>5, <2>2 DEF ReleasedInOneBatch
  <2> QED
    BY <2>3, <2>4, <2>6, <2>7 DEF Descriptors
<1> QED
  BY <1>1, <1>3, <1>4, <1>6, <1>7

LEMMA DescriptorsStep == Objects /\ Lives /\ Closing /\ Descriptors /\ [Next]_vars => Descriptors'
<1> SUFFICES ASSUME Objects, Lives, Closing, Descriptors, [Next]_vars
             PROVE  Descriptors'
  OBVIOUS
<1>1. Objects'
  BY ObjectsStep
<1>2. \/ Quiet \/ RunTask
      \/ \E fd \in Fd : NewConnection(fd)
      \/ \E c \in Conn : Dispatch(c)
      \/ \E who \in Caller, c \in Conn : Send(who, c) \/ Shutdown(who, c) \/ UserRelease(who, c)
  BY DEF Next, LoopStep, UserStep, Quiet
<1> QED
  BY <1>1, <1>2, QuietDescriptors, NewConnectionDescriptors, DispatchDescriptors, RunTaskDescriptors,
     UserCallDescriptors

LEMMA InitDescriptors == Init => Descriptors
<1> SUFFICES ASSUME Init
             PROVE  Descriptors
  OBVIOUS
<1>1. Open = {} /\ SocketsDiffer
  BY DEF Init, Open, SocketsDiffer
<1>2. Matches
  BY DEF Init, Matches
<1>3. \A f : f \notin Range(tasks)
  BY DEF Init, Range
<1> QED
  BY <1>1, <1>2, <1>3 DEF Descriptors, ReleasedInOneBatch

(* The inductive invariant holds in every state of the server. *)
THEOREM Invariance == Spec => []IInv
<1>1. Init => IInv
  BY InitObjects, InitOrder, InitLife, InitClosing, InitDescriptors DEF IInv
<1>2. IInv /\ [Next]_vars => IInv'
  BY ObjectsStep, OrderStep, NotedStep, LivesStep, ClosingStep, DescriptorsStep DEF IInv
<1> QED
  BY <1>1, <1>2, PTL DEF Spec

(* While nobody closes a connection twice, epoll_ctl never fails and the   *)
(* Poller's map agrees with the kernel, though descriptors are accepted    *)
(* again before the connections that had them have left the table.         *)
THEOREM PollerAndKernelAgree == Spec => []PollerMatchesKernel
<1>1. IInv => PollerMatchesKernel
  BY DEF IInv, Descriptors, Matches, PollerMatchesKernel
<1> QED
  BY <1>1, Invariance, PTL

=============================================================================
