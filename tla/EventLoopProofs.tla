--------------------------- MODULE EventLoopProofs ---------------------------
(***************************************************************************)
(* Proofs about EventLoop, for any number of threads, functors and         *)
(* descriptors: the type invariant, no lost wake-up, the owner of the      *)
(* mutex, and that the loop implements TaskQueue.                          *)
(***************************************************************************)
EXTENDS EventLoop, SequenceTheorems, TLAPS

(* RunAllTask leaves nothing of its batch behind. *)
BatchInRun == phase \notin {"run", "task"} => batch = <<>>

(* Two threads are never inside the same call, nor inside one that is yet  *)
(* to be made.                                                             *)
CallsAreDistinct ==
  /\ \A t \in InHand : cb[t] \in Task \ fresh
  /\ \A t, s \in InHand : cb[t] = cb[s] => t = s

(***************************************************************************)
(* The inductive invariant.  CallsAreDistinct is what types the argument   *)
(* of PushTask and what makes a push one Accept of the abstract queue;     *)
(* BatchInRun is what makes RunAllTask a stutter of the abstract queue.    *)
(***************************************************************************)
IInv == TypeOK /\ CallsAreDistinct /\ MutexOwner /\ NoLostWakeup /\ BatchInRun

LEMMA InitIInv == Init => IInv
  BY LoopAssumption, FreeAssumption
     DEF Init, IInv, TypeOK, CallsAreDistinct, InHand, MutexOwner, NoLostWakeup,
         BatchInRun, Caller

-----------------------------------------------------------------------------
LEMMA TypeStep ==
  ASSUME TypeOK, CallsAreDistinct, [Next]_vars
  PROVE  TypeOK'
<1> USE DEF TypeOK, callVars, loopVars
<1>1. ASSUME NEW t \in Caller, NEW u \in Task, QueueInLoop(t, u)
      PROVE  TypeOK'
  BY <1>1 DEF QueueInLoop
<1>2. ASSUME NEW t \in Caller, NEW u \in Task, RunInLoop(t, u)
      PROVE  TypeOK'
  <2>1. CASE QueueInLoop(t, u)
    BY <2>1, <1>1
  <2>2. CASE ran' = Append(ran, u) /\ fresh' = fresh \ {u}
             /\ UNCHANGED <<tasks, mutex, pc, cb, eventfd, ready, loopVars>>
    BY <2>2
  <2> QED
    BY <1>2, <2>1, <2>2 DEF RunInLoop
<1>3. ASSUME NEW t \in Caller, QueueStep(t)
      PROVE  TypeOK'
  <2>1. CASE LockMutex(t)
    BY <2>1 DEF LockMutex
  <2>2. CASE PushTask(t)
    <3>1. cb[t] \in Task
      BY <2>2 DEF PushTask, CallsAreDistinct, InHand
    <3> QED
      BY <2>2, <3>1 DEF PushTask
  <2>3. CASE WakeUpEventFd(t)
    BY <2>3 DEF WakeUpEventFd
  <2> QED
    BY <1>3, <2>1, <2>2, <2>3 DEF QueueStep
<1>4. CASE LoopStep
  <2>1. CASE Start
    BY <2>1 DEF Start
  <2>2. CASE Poll
    BY <2>2 DEF Poll, Ready
  <2>3. CASE ReadEventFd
    BY <2>3 DEF ReadEventFd
  <2>4. ASSUME NEW fd \in Fd, HandleEvent(fd)
        PROVE  TypeOK'
    BY <2>4 DEF HandleEvent
  <2>5. CASE CallbackReturns
    BY <2>5 DEF CallbackReturns
  <2>6. CASE RunAllTask
    BY <2>6 DEF RunAllTask
  <2>7. CASE RunTask
    <3>1. Head(batch) \in Task /\ Tail(batch) \in Seq(Task)
      BY <2>7, HeadTailProperties DEF RunTask
    <3> QED
      BY <2>7, <3>1 DEF RunTask
  <2>8. CASE TaskReturns
    BY <2>8 DEF TaskReturns
  <2>9. CASE EndIteration
    BY <2>9 DEF EndIteration
  <2> QED
    BY <1>4, <2>1, <2>2, <2>3, <2>4, <2>5, <2>6, <2>7, <2>8, <2>9 DEF LoopStep
<1>5. ASSUME NEW fd \in Fd, BecomeReady(fd)
      PROVE  TypeOK'
  BY <1>5 DEF BecomeReady
<1>6. CASE UNCHANGED vars
  BY <1>6 DEF vars
<1> QED
  BY <1>1, <1>2, <1>3, <1>4, <1>5, <1>6 DEF Next

-----------------------------------------------------------------------------
(* Only QueueInLoop and RunInLoop begin a call, and only PushTask lets go  *)
(* of its copy.                                                            *)
LEMMA CallsStep ==
  ASSUME TypeOK, CallsAreDistinct, [Next]_vars
  PROVE  CallsAreDistinct'
<1> USE DEF TypeOK, CallsAreDistinct, InHand, callVars, loopVars
<1>1. ASSUME NEW t \in Caller, NEW u \in Task, QueueInLoop(t, u)
      PROVE  CallsAreDistinct'
  BY <1>1 DEF QueueInLoop
<1>2. ASSUME NEW t \in Caller, NEW u \in Task, RunInLoop(t, u)
      PROVE  CallsAreDistinct'
  BY <1>1, <1>2 DEF RunInLoop
<1>3. ASSUME NEW t \in Caller, QueueStep(t)
      PROVE  CallsAreDistinct'
  <2>1. CASE LockMutex(t)
    BY <2>1 DEF LockMutex
  <2>2. CASE PushTask(t)
    BY <2>2 DEF PushTask
  <2>3. CASE WakeUpEventFd(t)
    BY <2>3 DEF WakeUpEventFd
  <2> QED
    BY <1>3, <2>1, <2>2, <2>3 DEF QueueStep
<1>4. CASE UNCHANGED callVars
  BY <1>4
<1> QED
  BY <1>1, <1>2, <1>3, <1>4
     DEF Next, vars, LoopStep, Start, Poll, ReadEventFd, HandleEvent, CallbackReturns,
         RunAllTask, RunTask, TaskReturns, EndIteration, BecomeReady

LEMMA MutexStep ==
  ASSUME TypeOK, MutexOwner, [Next]_vars
  PROVE  MutexOwner'
<1> USE FreeAssumption DEF TypeOK, MutexOwner, callVars, loopVars
<1>1. ASSUME NEW t \in Caller, NEW u \in Task, QueueInLoop(t, u)
      PROVE  MutexOwner'
  BY <1>1 DEF QueueInLoop
<1>2. ASSUME NEW t \in Caller, NEW u \in Task, RunInLoop(t, u)
      PROVE  MutexOwner'
  BY <1>1, <1>2 DEF RunInLoop
<1>3. ASSUME NEW t \in Caller, QueueStep(t)
      PROVE  MutexOwner'
  <2>1. CASE LockMutex(t)
    BY <2>1 DEF LockMutex
  <2>2. CASE PushTask(t)
    BY <2>2 DEF PushTask
  <2>3. CASE WakeUpEventFd(t)
    BY <2>3 DEF WakeUpEventFd
  <2> QED
    BY <1>3, <2>1, <2>2, <2>3 DEF QueueStep
<1>4. CASE UNCHANGED callVars
  BY <1>4
<1> QED
  BY <1>1, <1>2, <1>3, <1>4
     DEF Next, vars, LoopStep, Start, Poll, ReadEventFd, HandleEvent, CallbackReturns,
         RunAllTask, RunTask, TaskReturns, EndIteration, BecomeReady

(* A push leaves its caller at "wake"; the write makes the eventfd         *)
(* readable; only the loop makes it unreadable, before it takes the pool.  *)
LEMMA WakeupStep ==
  ASSUME TypeOK, NoLostWakeup, [Next]_vars
  PROVE  NoLostWakeup'
<1> USE DEF TypeOK, NoLostWakeup, callVars, loopVars
<1>1. ASSUME NEW t \in Caller, NEW u \in Task, QueueInLoop(t, u)
      PROVE  NoLostWakeup'
  BY <1>1 DEF QueueInLoop
<1>2. ASSUME NEW t \in Caller, NEW u \in Task, RunInLoop(t, u)
      PROVE  NoLostWakeup'
  BY <1>1, <1>2 DEF RunInLoop
<1>3. ASSUME NEW t \in Caller, QueueStep(t)
      PROVE  NoLostWakeup'
  <2>1. CASE LockMutex(t)
    BY <2>1 DEF LockMutex
  <2>2. CASE PushTask(t)
    BY <2>2 DEF PushTask
  <2>3. CASE WakeUpEventFd(t)
    BY <2>3 DEF WakeUpEventFd
  <2> QED
    BY <1>3, <2>1, <2>2, <2>3 DEF QueueStep
<1>4. CASE LoopStep
  BY <1>4
     DEF LoopStep, Start, Poll, ReadEventFd, HandleEvent, CallbackReturns, RunAllTask,
         RunTask, TaskReturns, EndIteration
<1>5. CASE UNCHANGED <<callVars, tasks, eventfd, loopVars>>
  BY <1>5
<1> QED
  BY <1>1, <1>2, <1>3, <1>4, <1>5 DEF Next, vars, BecomeReady

LEMMA BatchStep ==
  ASSUME TypeOK, BatchInRun, [Next]_vars
  PROVE  BatchInRun'
  BY DEF TypeOK, BatchInRun, Next, vars, callVars, loopVars, QueueInLoop, RunInLoop,
         QueueStep, LockMutex, PushTask, WakeUpEventFd, LoopStep, Start, Poll,
         ReadEventFd, HandleEvent, CallbackReturns, RunAllTask, RunTask, TaskReturns,
         EndIteration, BecomeReady

LEMMA StepIInv == IInv /\ [Next]_vars => IInv'
  BY TypeStep, CallsStep, MutexStep, WakeupStep, BatchStep DEF IInv

THEOREM Invariance == Spec => []IInv
  BY InitIInv, StepIInv, PTL DEF Spec

-----------------------------------------------------------------------------
(***************************************************************************)
(* The type invariant of the loop, its pool and its callers.               *)
(***************************************************************************)
THEOREM TypeCorrect == Spec => []TypeOK
  BY Invariance, PTL DEF IInv

(***************************************************************************)
(* No functor is left in the pool of a loop that nobody is going to wake   *)
(* (QueueInLoop pushes before it writes the eventfd).                      *)
(***************************************************************************)
THEOREM NoWakeupIsLost == Spec => []NoLostWakeup
  BY Invariance, PTL DEF IInv

(***************************************************************************)
(* _Mutex is owned exactly by the thread that is pushing a functor.        *)
(***************************************************************************)
THEOREM MutualExclusion == Spec => []MutexOwner
  BY Invariance, PTL DEF IInv

-----------------------------------------------------------------------------
(* Sequences: a pool that was pushed to extends the pool it was. *)
LEMMA AppendExtends ==
  ASSUME NEW S, NEW s \in Seq(S), NEW e \in S
  PROVE  IsPrefix(s, Append(s, e))
<1>1. Append(s, e) \in Seq(S) /\ Len(Append(s, e)) = Len(s) + 1 /\ Len(s) \in Nat
  BY AppendProperties, LenProperties
<1>2. CASE s = <<>>
  <2>1. SubSeq(s, 1, Len(s)) = <<>> /\ SubSeq(Append(s, e), 1, Len(s)) = <<>>
    BY <1>2, SubSeqEmpty
  <2> QED
    BY <1>1, <2>1 DEF IsPrefix
<1>3. CASE s # <<>>
  <2>1. Len(s) \in 1 .. Len(s)
    BY <1>1, <1>3, EmptySeq
  <2>2. <<e>> \in Seq(S)
    OBVIOUS
  <2>3. SubSeq(s \o <<e>>, 1, Len(s)) = SubSeq(s, 1, Len(s))
    BY <2>1, <2>2, SubSeqOfConcat1
  <2>4. Append(s, e) = s \o <<e>>
    BY AppendIsConcat
  <2> QED
    BY <1>1, <2>3, <2>4 DEF IsPrefix
<1> QED
  BY <1>2, <1>3

LEMMA ExtendsItself ==
  ASSUME NEW S, NEW s \in Seq(S)
  PROVE  IsPrefix(s, s)
  BY LenProperties DEF IsPrefix

(* Sequences: a push at the end of the pool is a push at the end of what   *)
(* is left of the batch followed by the pool.                              *)
LEMMA PushBehindBatch ==
  ASSUME NEW S, NEW b \in Seq(S), NEW s \in Seq(S), NEW e \in S
  PROVE  b \o Append(s, e) = Append(b \o s, e)
<1>1. <<e>> \in Seq(S) /\ b \o s \in Seq(S)
  BY ConcatProperties
<1>2. Append(s, e) = s \o <<e>> /\ Append(b \o s, e) = (b \o s) \o <<e>>
  BY <1>1, AppendIsConcat
<1>3. (b \o s) \o <<e>> = b \o (s \o <<e>>)
  BY <1>1, ConcatAssociative
<1> QED
  BY <1>2, <1>3

(* Sequences: the oldest functor of batch and pool is the batch's first. *)
LEMMA OldestIsInBatch ==
  ASSUME NEW S, NEW b \in Seq(S), NEW s \in Seq(S), b # <<>>
  PROVE  /\ b \o s # <<>>
         /\ Head(b \o s) = Head(b)
         /\ Tail(b \o s) = Tail(b) \o s
<1>1. /\ Len(b) \in Nat \ {0}
      /\ Len(s) \in Nat
      /\ b \o s \in Seq(S)
      /\ Len(b \o s) = Len(b) + Len(s)
      /\ \A i \in 1 .. Len(b) + Len(s) :
            (b \o s)[i] = IF i <= Len(b) THEN b[i] ELSE s[i - Len(b)]
  BY EmptySeq, LenProperties, ConcatProperties
<1>2. b \o s # <<>>
  BY <1>1, EmptySeq
<1>3. Head(b \o s) = Head(b)
  BY <1>1
<1>4. /\ Tail(b) \in Seq(S)
      /\ Len(Tail(b)) = Len(b) - 1
      /\ \A i \in 1 .. Len(Tail(b)) : Tail(b)[i] = b[i + 1]
  BY HeadTailProperties
<1>5. /\ Tail(b \o s) \in Seq(S)
      /\ Len(Tail(b \o s)) = Len(b \o s) - 1
      /\ \A i \in 1 .. Len(Tail(b \o s)) : Tail(b \o s)[i] = (b \o s)[i + 1]
  BY <1>1, <1>2, HeadTailProperties
<1>6. /\ Tail(b) \o s \in Seq(S)
      /\ Len(Tail(b) \o s) = Len(b) - 1 + Len(s)
      /\ \A i \in 1 .. Len(b) - 1 + Len(s) :
            (Tail(b) \o s)[i] = IF i <= Len(b) - 1 THEN Tail(b)[i] ELSE s[i - (Len(b) - 1)]
  BY <1>4, ConcatProperties
<1>7. ASSUME NEW i \in 1 .. Len(Tail(b \o s))
      PROVE  Tail(b \o s)[i] = (Tail(b) \o s)[i]
  BY <1>1, <1>4, <1>5, <1>6
<1>8. Tail(b \o s) = Tail(b) \o s
  BY <1>1, <1>5, <1>6, <1>7, SeqEqual
<1> QED
  BY <1>2, <1>3, <1>8

-----------------------------------------------------------------------------
(***************************************************************************)
(* While a batch of functors runs, functors only enter the pool: a functor *)
(* queued by a functor waits for the next iteration of Start.              *)
(***************************************************************************)
THEOREM PoolGrows == Spec => PoolOnlyGrowsInBatch
<1>1. ASSUME IInv, [Next]_vars, phase \in {"run", "task"}
      PROVE  IsPrefix(tasks, tasks')
  <2>1. tasks \in Seq(Task)
    BY <1>1 DEF IInv, TypeOK
  <2>2. CASE tasks' = tasks
    BY <2>1, <2>2, ExtendsItself
  <2>3. ASSUME NEW t \in Caller, PushTask(t)
        PROVE  IsPrefix(tasks, tasks')
    <3>1. cb[t] \in Task /\ tasks' = Append(tasks, cb[t])
      BY <1>1, <2>3 DEF IInv, CallsAreDistinct, InHand, PushTask
    <3> QED
      BY <2>1, <3>1, AppendExtends
  <2> QED
    BY <1>1, <2>2, <2>3
       DEF Next, vars, callVars, loopVars, QueueInLoop, RunInLoop, QueueStep, LockMutex,
           WakeUpEventFd, LoopStep, Start, Poll, ReadEventFd, HandleEvent,
           CallbackReturns, RunAllTask, RunTask, TaskReturns, EndIteration, BecomeReady
<1>2. IInv /\ [Next]_vars => [(phase \in {"run", "task"}) => IsPrefix(tasks, tasks')]_vars
  BY <1>1
<1> QED
  BY <1>2, Invariance, PTL DEF Spec, PoolOnlyGrowsInBatch

-----------------------------------------------------------------------------
(* Refinement: the steps that hand a functor over or move it. *)

LEMMA QueueInLoopRefines ==
  ASSUME IInv, NEW t \in Caller, NEW u \in Task, QueueInLoop(t, u)
  PROVE  UNCHANGED <<NotQueued, Queued, ran>>
<1>1. fresh' = fresh \ {u} /\ u \in fresh
  BY DEF QueueInLoop
<1>2. InHand' = InHand \cup {t} /\ t \notin InHand
  BY DEF QueueInLoop, InHand, IInv, TypeOK
<1>3. cb'[t] = u /\ \A s \in InHand : cb'[s] = cb[s]
  BY <1>2 DEF QueueInLoop, InHand, IInv, TypeOK
<1>4. NotQueued' = NotQueued
  BY <1>1, <1>2, <1>3 DEF NotQueued
<1> QED
  BY <1>4 DEF QueueInLoop, loopVars, Queued

LEMMA RunInLoopRefines ==
  ASSUME IInv, NEW t \in Caller, NEW u \in Task, RunInLoop(t, u)
  PROVE  TQ!RunNow(u) \/ UNCHANGED <<NotQueued, Queued, ran>>
<1>1. CASE QueueInLoop(t, u)
  BY <1>1, QueueInLoopRefines
<1>2. CASE /\ u \in fresh
           /\ fresh' = fresh \ {u}
           /\ ran' = Append(ran, u)
           /\ UNCHANGED <<tasks, mutex, pc, cb, eventfd, ready, loopVars>>
  <2>1. InHand' = InHand /\ cb' = cb
    BY <1>2 DEF InHand
  <2>2. \A s \in InHand : cb[s] \notin fresh
    BY DEF IInv, CallsAreDistinct
  <2>3. u \in NotQueued /\ NotQueued' = NotQueued \ {u}
    BY <1>2, <2>1, <2>2 DEF NotQueued
  <2> QED
    BY <1>2, <2>3 DEF TQ!RunNow, Queued, loopVars
<1> QED
  BY <1>1, <1>2 DEF RunInLoop

LEMMA PushTaskRefines ==
  ASSUME IInv, NEW t \in Caller, PushTask(t)
  PROVE  \E u \in Task : TQ!Accept(u)
<1>1. t \in InHand /\ InHand' = InHand \ {t}
  BY DEF PushTask, InHand, IInv, TypeOK
<1>2. /\ cb[t] \in Task \ fresh
      /\ \A s \in InHand \ {t} : cb[s] # cb[t] /\ cb'[s] = cb[s]
  BY <1>1 DEF PushTask, InHand, IInv, TypeOK, CallsAreDistinct
<1>3. cb[t] \in NotQueued /\ NotQueued' = NotQueued \ {cb[t]}
  BY <1>1, <1>2 DEF PushTask, NotQueued
<1>4. Queued' = Append(Queued, cb[t])
  <2>1. batch \in Seq(Task) /\ tasks \in Seq(Task)
    BY DEF IInv, TypeOK
  <2>2. batch \o Append(tasks, cb[t]) = Append(batch \o tasks, cb[t])
    BY <1>2, <2>1, PushBehindBatch
  <2> QED
    BY <2>2 DEF PushTask, Queued, loopVars
<1>5. ran' = ran
  BY DEF PushTask
<1> QED
  BY <1>2, <1>3, <1>4, <1>5 DEF TQ!Accept

LEMMA RunAllTaskRefines ==
  ASSUME IInv, RunAllTask
  PROVE  UNCHANGED <<NotQueued, Queued, ran>>
<1>1. batch = <<>> /\ tasks \in Seq(Task)
  BY DEF RunAllTask, IInv, BatchInRun, TypeOK
<1>2. tasks \o <<>> = tasks /\ <<>> \o tasks = tasks
  BY <1>1, ConcatEmptySeq
<1>3. Queued' = Queued
  BY <1>1, <1>2 DEF RunAllTask, Queued
<1> QED
  BY <1>3 DEF RunAllTask, NotQueued, InHand, callVars

LEMMA RunTaskRefines ==
  ASSUME IInv, RunTask
  PROVE  TQ!RunOldest
<1>1. batch # <<>> /\ batch \in Seq(Task) /\ tasks \in Seq(Task)
  BY DEF RunTask, IInv, TypeOK
<1>2. /\ Queued # <<>>
      /\ Head(Queued) = Head(batch)
      /\ Tail(Queued) = Tail(batch) \o tasks
  BY <1>1, OldestIsInBatch DEF Queued
<1> QED
  BY <1>2 DEF RunTask, TQ!RunOldest, Queued, NotQueued, InHand, callVars

LEMMA StepRefines ==
  ASSUME IInv, [Next]_vars
  PROVE  [TQ!Next]_TQ!vars
<1> USE DEF TQ!Next, TQ!vars
<1>1. ASSUME NEW t \in Caller, NEW u \in Task, QueueInLoop(t, u)
      PROVE  UNCHANGED TQ!vars
  BY <1>1, QueueInLoopRefines
<1>2. ASSUME NEW t \in Caller, NEW u \in Task, RunInLoop(t, u)
      PROVE  [TQ!Next]_TQ!vars
  BY <1>2, RunInLoopRefines
<1>3. ASSUME NEW t \in Caller, PushTask(t)
      PROVE  TQ!Next
  BY <1>3, PushTaskRefines
<1>4. ASSUME NEW t \in Caller, LockMutex(t) \/ WakeUpEventFd(t)
      PROVE  UNCHANGED TQ!vars
  <2>1. InHand' = InHand
    BY <1>4 DEF LockMutex, WakeUpEventFd, InHand, IInv, TypeOK
  <2>2. UNCHANGED <<fresh, cb, batch, tasks, ran>>
    BY <1>4 DEF LockMutex, WakeUpEventFd, loopVars
  <2> QED
    BY <2>1, <2>2 DEF NotQueued, Queued
<1>5. CASE RunAllTask
  BY <1>5, RunAllTaskRefines
<1>6. CASE RunTask
  BY <1>6, RunTaskRefines
<1>7. ASSUME UNCHANGED <<callVars, tasks, batch, ran>>
      PROVE  UNCHANGED TQ!vars
  BY <1>7 DEF NotQueued, InHand, Queued, callVars
<1>8. CASE LoopStep
  <2>1. LoopStep => RunAllTask \/ RunTask \/ UNCHANGED <<callVars, tasks, batch, ran>>
    BY DEF LoopStep, Start, Poll, ReadEventFd, HandleEvent, CallbackReturns, TaskReturns,
           EndIteration
  <2> QED
    BY <1>5, <1>6, <1>7, <1>8, <2>1
<1>9. ASSUME NEW fd \in Fd, BecomeReady(fd)
      PROVE  UNCHANGED TQ!vars
  BY <1>7, <1>9 DEF BecomeReady, loopVars
<1>10. CASE UNCHANGED vars
  BY <1>7, <1>10 DEF vars, callVars
<1> HIDE DEF TQ!Next, TQ!vars
<1>11. ASSUME NEW t \in Caller, QueueStep(t)
       PROVE  [TQ!Next]_TQ!vars
  BY <1>3, <1>4, <1>11 DEF QueueStep
<1> QED
  BY <1>1, <1>2, <1>8, <1>9, <1>10, <1>11 DEF Next

(***************************************************************************)
(* The pool, the batch, the lock and the callers together are the queue of *)
(* TaskQueue: every functor handed to QueueInLoop is run once, in the      *)
(* order of the pushes, and nothing else is run but what the loop's own    *)
(* thread gives to RunInLoop.                                              *)
(***************************************************************************)
THEOREM Refinement == Spec => ImplementsTaskQueue
<1>1. Init => TQ!Init
  <2>1. ASSUME Init PROVE Queued = <<>>
    BY <2>1, ConcatEmptySeq, EmptySeq DEF Init, Queued
  <2>2. ASSUME Init PROVE NotQueued = Task
    BY <2>2 DEF Init, NotQueued, InHand
  <2> QED
    BY <2>1, <2>2 DEF Init, TQ!Init
<1>2. IInv /\ [Next]_vars => [TQ!Next]_TQ!vars
  BY StepRefines
<1> QED
  BY <1>1, <1>2, Invariance, PTL DEF Spec, ImplementsTaskQueue, TQ!Spec

=============================================================================
