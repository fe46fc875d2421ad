------------------------------ MODULE EventLoop ------------------------------
(***************************************************************************)
(* One EventLoop of Server.hpp: the thread that runs Start(), the threads  *)
(* that hand it functors through RunInLoop and QueueInLoop, the mutex that *)
(* guards _Tasks, and the eventfd that gets epoll_wait to return.          *)
(*                                                                         *)
(* QueueInLoop copies the functor it is given, and its caller may give the *)
(* same one again: what goes through the pool is the copy, and a member of *)
(* Task is one call together with the copy it makes.  The loop's own       *)
(* thread reaches RunInLoop and QueueInLoop from the user code it runs:    *)
(* before Start (phase "setup"), in a channel's callback ("callback") or   *)
(* in a functor ("task").                                                  *)
(***************************************************************************)
EXTENDS Naturals, SequencesExt

CONSTANTS
  Thread,     \* the other threads that hold a pointer to this loop
  Loop,       \* the thread that constructed the loop (_ThreadID) and runs Start
  Task,       \* the calls of the loop, and the copies of functors they make
  NoTask,     \* the argument of a thread that is not inside QueueInLoop
  Free,       \* the owner of _Mutex when nobody holds it
  Fd,         \* descriptors of the other channels registered with the poller
  EventFd,    \* the descriptor _EventFd
  MaxEvents   \* the length of the array given to epoll_wait (MAX_POLLER_SIZE)

Caller == Thread \cup {Loop}

ASSUME LoopAssumption == Loop \notin Thread
ASSUME FreeAssumption == Free \notin Caller
ASSUME NoTaskAssumption == NoTask \notin Task
ASSUME FdAssumption == EventFd \notin Fd
ASSUME MaxEventsAssumption == MaxEvents \in Nat \ {0}

VARIABLES
  fresh,      \* the calls that no thread has made yet
  tasks,      \* _Tasks, the task pool
  mutex,      \* the owner of _Mutex
  pc,         \* where each thread is inside QueueInLoop, or "idle"
  cb,         \* the call each thread is inside of, until its copy is pushed
  eventfd,    \* the counter behind _EventFd
  ready,      \* the other descriptors the kernel reports as ready
  phase,      \* where the loop's thread is inside Start
  active,     \* Activities: channels returned by Poll and not handled yet
  batch,      \* _TempFunctor: functors taken from _Tasks and not started yet
  ran         \* functors started, in order

callVars == <<fresh, mutex, pc, cb>>
loopVars == <<phase, active, batch>>
vars == <<fresh, tasks, mutex, pc, cb, eventfd, ready, phase, active, batch, ran>>

TypeOK ==
  /\ fresh \subseteq Task
  /\ tasks \in Seq(Task)
  /\ mutex \in Caller \cup {Free}
  /\ pc \in [Caller -> {"idle", "lock", "push", "wake"}]
  /\ cb \in [Caller -> Task \cup {NoTask}]
  /\ eventfd \in Nat
  /\ ready \subseteq Fd
  /\ phase \in {"setup", "poll", "handle", "callback", "run", "task"}
  /\ active \subseteq Fd \cup {EventFd}
  /\ batch \in Seq(Task)
  /\ ran \in Seq(Task)

Init ==
  /\ fresh = Task
  /\ tasks = <<>>
  /\ mutex = Free
  /\ pc = [t \in Caller |-> "idle"]
  /\ cb = [t \in Caller |-> NoTask]
  /\ eventfd = 0
  /\ ready = {}
  /\ phase = "setup"
  /\ active = {}
  /\ batch = <<>>
  /\ ran = <<>>

-----------------------------------------------------------------------------
(* Handing over a functor *)

IsInLoop(t) == t = Loop

(* The loop's thread can only call the loop from the user code it runs. *)
InUserCode(t) == IsInLoop(t) => phase \in {"setup", "callback", "task"}

(* QueueInLoop is entered; the next thing it does is to lock _Mutex. *)
QueueInLoop(t, u) ==
  /\ pc[t] = "idle"
  /\ InUserCode(t)
  /\ u \in fresh
  /\ fresh' = fresh \ {u}
  /\ pc' = [pc EXCEPT ![t] = "lock"]
  /\ cb' = [cb EXCEPT ![t] = u]
  /\ UNCHANGED <<tasks, mutex, eventfd, ready, loopVars, ran>>

(* RunInLoop runs the functor at once on the loop's thread and queues it   *)
(* from any other.                                                         *)
RunInLoop(t, u) ==
  \/ /\ IsInLoop(t)
     /\ pc[t] = "idle"
     /\ InUserCode(t)
     /\ u \in fresh
     /\ fresh' = fresh \ {u}
     /\ ran' = Append(ran, u)
     /\ UNCHANGED <<tasks, mutex, pc, cb, eventfd, ready, loopVars>>
  \/ /\ ~ IsInLoop(t)
     /\ QueueInLoop(t, u)

(* Mutant: the lock is taken without waiting for its owner. *)
LockWithoutWaiting(t) ==
  /\ pc[t] = "lock"
  /\ mutex' = t
  /\ pc' = [pc EXCEPT ![t] = "push"]
  /\ UNCHANGED <<fresh, tasks, cb, eventfd, ready, loopVars, ran>>

LockMutex(t) ==
  /\ pc[t] = "lock"
  /\ mutex = Free
  /\ mutex' = t
  /\ pc' = [pc EXCEPT ![t] = "push"]
  /\ UNCHANGED <<fresh, tasks, cb, eventfd, ready, loopVars, ran>>

(* Mutant: QueueInLoop returns without WakeUpEventFd. *)
PushWithoutWakeUp(t) ==
  /\ pc[t] = "push"
  /\ tasks' = Append(tasks, cb[t])
  /\ mutex' = Free
  /\ pc' = [pc EXCEPT ![t] = "idle"]
  /\ cb' = [cb EXCEPT ![t] = NoTask]
  /\ UNCHANGED <<fresh, eventfd, ready, loopVars, ran>>

(* Mutant: the functor is moved from before it is pushed. *)
PushMovedFrom(t) ==
  /\ pc[t] = "push"
  /\ tasks' = Append(tasks, NoTask)
  /\ mutex' = Free
  /\ pc' = [pc EXCEPT ![t] = "wake"]
  /\ cb' = [cb EXCEPT ![t] = NoTask]
  /\ UNCHANGED <<fresh, eventfd, ready, loopVars, ran>>

(* The functor enters the pool and the end of the block unlocks _Mutex. *)
PushTask(t) ==
  /\ pc[t] = "push"
  /\ tasks' = Append(tasks, cb[t])
  /\ mutex' = Free
  /\ pc' = [pc EXCEPT ![t] = "wake"]
  /\ cb' = [cb EXCEPT ![t] = NoTask]
  /\ UNCHANGED <<fresh, eventfd, ready, loopVars, ran>>

WakeUpEventFd(t) ==
  /\ pc[t] = "wake"
  /\ eventfd' = eventfd + 1
  /\ pc' = [pc EXCEPT ![t] = "idle"]
  /\ UNCHANGED <<fresh, tasks, mutex, cb, ready, loopVars, ran>>

QueueStep(t) == LockMutex(t) \/ PushTask(t) \/ WakeUpEventFd(t)

-----------------------------------------------------------------------------
(* Start *)

Start ==
  /\ phase = "setup"
  /\ pc[Loop] = "idle"
  /\ phase' = "poll"
  /\ UNCHANGED <<callVars, tasks, eventfd, ready, active, batch, ran>>

(* Level-triggered readiness: the eventfd stays ready until it is read. *)
Ready == ready \cup (IF eventfd > 0 THEN {EventFd} ELSE {})

(* epoll_wait blocks until something is ready and returns as many ready    *)
(* descriptors as the array holds.                                         *)
Poll ==
  /\ phase = "poll"
  /\ \E A \in SUBSET Ready :
       /\ A # {}
       /\ \/ A = Ready /\ Cardinality(A) <= MaxEvents
          \/ A # Ready /\ Cardinality(A) = MaxEvents
       /\ active' = A
  /\ phase' = "handle"
  /\ UNCHANGED <<callVars, tasks, eventfd, ready, batch, ran>>

(* Mutant: the callback of _EventChannel does not read the descriptor. *)
IgnoreEventFd ==
  /\ phase = "handle"
  /\ EventFd \in active
  /\ active' = active \ {EventFd}
  /\ UNCHANGED <<callVars, tasks, eventfd, ready, phase, batch, ran>>

(* The read callback of _EventChannel. *)
ReadEventFd ==
  /\ phase = "handle"
  /\ EventFd \in active
  /\ eventfd' = 0
  /\ active' = active \ {EventFd}
  /\ UNCHANGED <<callVars, tasks, ready, phase, batch, ran>>

(* HandleEvent calls the callbacks of another channel, which may or may    *)
(* not exhaust what made its descriptor ready.                             *)
HandleEvent(fd) ==
  /\ phase = "handle"
  /\ fd \in active \cap Fd
  /\ active' = active \ {fd}
  /\ ready' \in {ready, ready \ {fd}}
  /\ phase' = "callback"
  /\ UNCHANGED <<callVars, tasks, eventfd, batch, ran>>

CallbackReturns ==
  /\ phase = "callback"
  /\ pc[Loop] = "idle"
  /\ phase' = "handle"
  /\ UNCHANGED <<callVars, tasks, eventfd, ready, active, batch, ran>>

(* Mutant: the pool is copied and not emptied. *)
CopyAllTask ==
  /\ phase = "handle"
  /\ active = {}
  /\ mutex = Free
  /\ batch' = tasks
  /\ phase' = "run"
  /\ UNCHANGED <<callVars, tasks, eventfd, ready, active, ran>>

(* Mutant: the mutex stays locked while the functors run. *)
RunAllTaskLocked ==
  /\ phase = "handle"
  /\ active = {}
  /\ mutex = Free
  /\ mutex' = Loop
  /\ batch' = tasks
  /\ tasks' = <<>>
  /\ phase' = "run"
  /\ UNCHANGED <<fresh, pc, cb, eventfd, ready, active, ran>>

(* RunAllTask takes the whole pool under the lock, and runs it without. *)
RunAllTask ==
  /\ phase = "handle"
  /\ active = {}
  /\ mutex = Free
  /\ batch' = tasks
  /\ tasks' = <<>>
  /\ phase' = "run"
  /\ UNCHANGED <<callVars, eventfd, ready, active, ran>>

RunTask ==
  /\ phase = "run"
  /\ batch # <<>>
  /\ ran' = Append(ran, Head(batch))
  /\ batch' = Tail(batch)
  /\ phase' = "task"
  /\ UNCHANGED <<callVars, tasks, eventfd, ready, active>>

TaskReturns ==
  /\ phase = "task"
  /\ pc[Loop] = "idle"
  /\ phase' = "run"
  /\ UNCHANGED <<callVars, tasks, eventfd, ready, active, batch, ran>>

(* Mutant: the pool is drained again until it stays empty. *)
DrainUntilEmpty ==
  /\ phase = "run"
  /\ batch = <<>>
  /\ batch' = tasks
  /\ tasks' = <<>>
  /\ phase' = IF tasks = <<>> THEN "poll" ELSE "run"
  /\ UNCHANGED <<callVars, eventfd, ready, active, ran>>

(* RunAllTask returns and the for(;;) of Start goes around. *)
EndIteration ==
  /\ phase = "run"
  /\ batch = <<>>
  /\ phase' = "poll"
  /\ UNCHANGED <<callVars, tasks, eventfd, ready, active, batch, ran>>

LoopStep ==
  \/ Start
  \/ Poll
  \/ ReadEventFd
  \/ \E fd \in Fd : HandleEvent(fd)
  \/ CallbackReturns
  \/ RunAllTask
  \/ RunTask
  \/ TaskReturns
  \/ EndIteration

(* The peer or the timer makes another descriptor ready. *)
BecomeReady(fd) ==
  /\ fd \notin ready
  /\ ready' = ready \cup {fd}
  /\ UNCHANGED <<callVars, tasks, eventfd, loopVars, ran>>

-----------------------------------------------------------------------------
Next ==
  \/ LoopStep
  \/ \E t \in Caller : QueueStep(t)
  \/ \E t \in Caller, u \in Task : QueueInLoop(t, u) \/ RunInLoop(t, u)
  \/ \E fd \in Fd : BecomeReady(fd)

Spec == Init /\ [][Next]_vars

(***************************************************************************)
(* The threads are scheduled by the operating system, so a thread that can *)
(* take its next step does; nobody has to call the loop, and no descriptor *)
(* has to become ready.  The kernel puts what it reported at the end of    *)
(* its ready list, so a descriptor that stays ready is not left out of     *)
(* every epoll_wait when more are ready than the array holds.              *)
(***************************************************************************)
Fairness ==
  /\ WF_vars(LoopStep)
  /\ SF_vars(Poll /\ EventFd \in active')
  /\ \A t \in Caller : WF_vars(QueueStep(t))

FairSpec == Spec /\ Fairness

-----------------------------------------------------------------------------
(* Properties *)

(***************************************************************************)
(* QueueInLoop writes the eventfd because epoll_wait may be blocked with   *)
(* no descriptor ready.  A functor in _Tasks is never forgotten: the       *)
(* eventfd is readable, or a caller is about to write it, or the write is  *)
(* already consumed and the loop has not taken the pool yet.  In           *)
(* particular the loop never blocks in Poll on a non-empty pool unless     *)
(* somebody is on the way to wake it.                                      *)
(***************************************************************************)
NoLostWakeup ==
  tasks # <<>> =>
    \/ eventfd > 0
    \/ \E t \in Caller : pc[t] = "wake"
    \/ phase \in {"handle", "callback"}

(***************************************************************************)
(* A thread owns _Mutex exactly while it is between locking and pushing,   *)
(* so at most one thread changes _Tasks at a time, and RunAllTask never    *)
(* runs a functor with the mutex held.                                     *)
(***************************************************************************)
MutexOwner == \A t \in Caller : mutex = t <=> pc[t] = "push"

(***************************************************************************)
(* RunAllTask swaps the pool away before it runs anything: while a batch   *)
(* runs, no functor leaves _Tasks, so a functor that is queued by a        *)
(* functor waits for the next iteration and descriptors are polled before  *)
(* it runs.                                                                *)
(***************************************************************************)
PoolOnlyGrowsInBatch ==
  [][(phase \in {"run", "task"}) => IsPrefix(tasks, tasks')]_vars

(* The batch and the pool together are one queue; a functor on its way     *)
(* into the pool is not accepted yet.                                      *)
InHand == {t \in Caller : pc[t] \in {"lock", "push"}}
Queued == batch \o tasks
NotQueued == fresh \cup {cb[t] : t \in InHand}

TQ == INSTANCE TaskQueue WITH created <- NotQueued, queue <- Queued

(***************************************************************************)
(* Every functor is run exactly once, in the order in which the functors   *)
(* entered the pool, whatever the interleaving of callers and loop.        *)
(***************************************************************************)
ImplementsTaskQueue == TQ!Spec

(* A functor that entered the pool is eventually started. *)
EveryTaskRuns ==
  \A u \in Task : u \in Range(tasks) ~> u \in Range(ran)

(***************************************************************************)
(* QueueInLoop always returns: it never waits on a thread that waits for   *)
(* it, in particular not when a functor queues another one.                *)
(***************************************************************************)
CallsReturn ==
  \A t \in Caller : pc[t] # "idle" ~> pc[t] = "idle"

(***************************************************************************)
(* A wake-up is consumed: a loop with nothing to do gets back to blocking  *)
(* in epoll_wait instead of spinning on a readable eventfd.                *)
(***************************************************************************)
WakeupConsumed == eventfd > 0 ~> eventfd = 0

=============================================================================
