------------------------- MODULE LoopThreadPoolProofs -------------------------
(***************************************************************************)
(* Proofs about LoopThreadPool, for any number of threads: the handshake   *)
(* hands over loops that exist and loses no notification, and the loops    *)
(* are dealt out in turn.                                                  *)
(***************************************************************************)
EXTENDS LoopThreadPool, SequenceTheorems, TLAPS

(* How far Create and SetThreadCount have got. *)
Phases ==
  /\ main # "done" => nextIdx = 0 /\ recent = <<>>
  /\ main = "setup" => loops = <<>>
  /\ main \in {"new", "lock", "test", "asleep"} => Len(loops) < threadCount
  /\ main = "done" => Len(loops) = threadCount

(* The threads that Create has come to are those that run. *)
Started ==
  \A i \in Index :
    thread[i] = "none" <=> i > Len(loops) \/ (i = Len(loops) /\ main \in {"setup", "new", "done"})

(* A thread publishes its own loop, on its way into it. *)
Published == \A i \in Index : loop[i] = IF thread[i] = "loop" THEN i ELSE Null

(***************************************************************************)
(* The mutex excludes: a thread is in its critical section exactly when it *)
(* owns its mutex, and so is the thread of Create.                         *)
(***************************************************************************)
MutexIsHeld ==
  \A i \in Index :
    /\ mutex[i] = i <=> thread[i] = "publish"
    /\ mutex[i] = Main <=> main = "test" /\ i = Current

(***************************************************************************)
(* Create sleeps only as long as the loop is not published: the            *)
(* notification is always still to come.                                   *)
(***************************************************************************)
NoLostWakeup == main = "asleep" => thread[Current] \in {"construct", "lock", "publish"}

(* The loop that NextLoop returned d calls before the last one. *)
Dealt(d) == IF d <= nextIdx THEN nextIdx - d ELSE nextIdx + threadCount - d

DealtInTurn ==
  IF threadCount = 0
  THEN recent \in {<<>>, <<Base>>}
  ELSE /\ nextIdx < threadCount
       /\ Len(recent) <= threadCount
       /\ \A j \in 1 .. Len(recent) : recent[j] = Dealt(Len(recent) - j)

(***************************************************************************)
(* LoopsAreConstructed needs to know that what the mutex protects is the   *)
(* thread's own loop, and RoundRobin which loops the last calls returned.  *)
(***************************************************************************)
IInv ==
  /\ TypeOK /\ Phases /\ Started /\ Published
  /\ MutexIsHeld /\ NoLostWakeup /\ LoopsAreConstructed /\ DealtInTurn

LEMMA CurrentIsAnIndex ==
  ASSUME TypeOK, Phases, main \in {"new", "lock", "test", "asleep"}
  PROVE  Current \in Index /\ Current = Len(loops)
  BY CountAssumption, LenProperties DEF TypeOK, Phases, Current, Index

LEMMA InitIInv == Init => IInv
<1>1. ASSUME Init
      PROVE  TypeOK
  BY <1>1, CountAssumption, EmptySeq DEF Init, TypeOK
<1>2. Init => Phases /\ NoLostWakeup /\ LoopsAreConstructed /\ DealtInTurn
  BY EmptySeq DEF Init, Phases, NoLostWakeup, LoopsAreConstructed, DealtInTurn
<1>3. Init => Started /\ Published /\ MutexIsHeld
  BY EmptySeq, MainAssumption, CountAssumption
     DEF Init, Started, Published, MutexIsHeld, Index
<1> QED
  BY <1>1, <1>2, <1>3 DEF IInv

-----------------------------------------------------------------------------
(* The handshake between Create and the threads. *)

HandshakeInv ==
  /\ TypeOK /\ Phases /\ Started /\ Published
  /\ MutexIsHeld /\ NoLostWakeup /\ LoopsAreConstructed

Handshake == MainStep \/ WakeSpuriously \/ \E i \in Index : ThreadStep(i)

LEMMA GetLoopReturnsStep ==
  ASSUME HandshakeInv, GetLoopReturns
  PROVE  HandshakeInv'
<1> USE DEF HandshakeInv
<1>1. Current \in Index /\ Current = Len(loops) /\ Len(loops) \in Nat
  BY CurrentIsAnIndex, LenProperties DEF GetLoopReturns, TypeOK
<1>2. /\ main = "test" /\ Len(loops) < threadCount /\ threadCount \in Nat
      /\ loop[Current] = Current /\ thread[Current] = "loop"
  BY <1>1, CountAssumption DEF GetLoopReturns, Phases, TypeOK, Published
<1>3. /\ loops' \in Seq(Index \cup {Null}) /\ Len(loops') = Len(loops) + 1
      /\ \A k \in 1 .. Len(loops) : loops'[k] = loops[k]
      /\ loops'[Len(loops) + 1] = Current
  BY <1>1, <1>2, AppendProperties DEF GetLoopReturns, TypeOK
<1>4. TypeOK' /\ Phases'
  BY <1>1, <1>2, <1>3, MainAssumption DEF GetLoopReturns, TypeOK, Phases
<1>5. Started' /\ Published'
  BY <1>1, <1>2, <1>3, CountAssumption DEF GetLoopReturns, Started, Published, Index
<1>6. MutexIsHeld' /\ NoLostWakeup'
  BY <1>1, <1>2, <1>3, MainAssumption DEF GetLoopReturns, TypeOK, MutexIsHeld, NoLostWakeup, Current
<1>7. LoopsAreConstructed'
  BY <1>1, <1>2, <1>3 DEF GetLoopReturns, LoopsAreConstructed
<1> QED
  BY <1>4, <1>5, <1>6, <1>7

LEMMA HandshakeStep ==
  ASSUME HandshakeInv, Handshake
  PROVE  HandshakeInv'
<1> USE DEF HandshakeInv
<1>1. Len(loops) \in Nat /\ threadCount \in Nat /\ Index \subseteq Nat
  BY LenProperties, CountAssumption DEF TypeOK, Index
<1>2. CASE NewLoopThread
  <2>1. Current \in Index /\ Current = Len(loops)
    BY <1>2, CurrentIsAnIndex DEF NewLoopThread
  <2> QED
    BY <1>1, <1>2, <2>1, NullAssumption, MainAssumption
       DEF NewLoopThread, TypeOK, Phases, Started, Published, MutexIsHeld, NoLostWakeup,
           LoopsAreConstructed, Current
<1>3. CASE LockMutex
  <2>1. Current \in Index /\ Current = Len(loops)
    BY <1>3, CurrentIsAnIndex DEF LockMutex
  <2> QED
    BY <1>1, <1>3, <2>1, NullAssumption, MainAssumption
       DEF LockMutex, TypeOK, Phases, Started, Published, MutexIsHeld, NoLostWakeup,
           LoopsAreConstructed, Current
<1>4. CASE Sleep
  <2>1. Current \in Index /\ Current = Len(loops)
    BY <1>4, CurrentIsAnIndex DEF Sleep
  <2> QED
    BY <1>1, <1>4, <2>1, NullAssumption, MainAssumption
       DEF Sleep, TypeOK, Phases, Started, Published, MutexIsHeld, NoLostWakeup,
           LoopsAreConstructed, Current
<1>5. CASE GetLoopReturns
  BY <1>5, GetLoopReturnsStep
<1>6. CASE WakeSpuriously
  BY <1>1, <1>6
     DEF WakeSpuriously, TypeOK, Phases, Started, Published, MutexIsHeld, NoLostWakeup,
         LoopsAreConstructed, Current
<1>7. ASSUME NEW i \in Index, ThreadStep(i)
      PROVE  HandshakeInv'
  <2>1. CASE Construct(i)
    BY <1>1, <2>1
       DEF Construct, TypeOK, Phases, Started, Published, MutexIsHeld, NoLostWakeup,
           LoopsAreConstructed, Current
  <2>2. CASE EntryLock(i)
    BY <1>1, <2>2, MainAssumption
       DEF EntryLock, TypeOK, Phases, Started, Published, MutexIsHeld, NoLostWakeup,
           LoopsAreConstructed, Current
  <2>3. CASE Publish(i)
    BY <1>1, <2>3, MainAssumption
       DEF Publish, TypeOK, Phases, Started, Published, MutexIsHeld, NoLostWakeup,
           LoopsAreConstructed, Current
  <2> QED
    BY <1>7, <2>1, <2>2, <2>3 DEF ThreadStep
<1> QED
  BY <1>2, <1>3, <1>4, <1>5, <1>6, <1>7 DEF Handshake, MainStep

-----------------------------------------------------------------------------
(* The dealing *)

LEMMA NextInTurn ==
  ASSUME NEW n \in Nat, NEW i \in 0 .. n - 1
  PROVE  (i + 1) % n = IF i + 1 = n THEN 0 ELSE i + 1
  OBVIOUS

(* The last element of recent becomes the loop that is returned, and the   *)
(* others move up, the oldest one out when there are threadCount.          *)
LEMMA RememberStep ==
  ASSUME TypeOK, threadCount > 0, Len(recent) <= threadCount,
         NEW l \in Index, Remember(l)
  PROVE  /\ recent' \in Seq(Index \cup {Base, Null})
         /\ Len(recent') = IF Len(recent) < threadCount THEN Len(recent) + 1 ELSE threadCount
         /\ recent'[Len(recent')] = l
         /\ \A j \in 1 .. Len(recent') - 1 :
              recent'[j] = recent[j + (Len(recent) + 1 - Len(recent'))]
<1> DEFINE S == Index \cup {Base, Null}
<1>1. recent \in Seq(S) /\ Len(recent) \in Nat /\ threadCount \in Nat /\ l \in S
  BY LenProperties, CountAssumption DEF TypeOK
<1>2. CASE Len(recent) < threadCount
  <2>1. recent' = Append(recent, l)
    BY <1>2 DEF Remember
  <2> HIDE DEF S
  <2>2. /\ Append(recent, l) \in Seq(S) /\ Len(Append(recent, l)) = Len(recent) + 1
        /\ \A j \in 1 .. Len(recent) : Append(recent, l)[j] = recent[j]
        /\ Append(recent, l)[Len(recent) + 1] = l
    BY <1>1, AppendProperties
  <2> QED
    BY <1>1, <1>2, <2>1, <2>2 DEF S
<1>3. CASE ~(Len(recent) < threadCount)
  <2>1. recent' = Append(Tail(recent), l) /\ Len(recent) = threadCount /\ recent # <<>>
    BY <1>1, <1>3, EmptySeq DEF Remember
  <2> HIDE DEF S
  <2>2. /\ Tail(recent) \in Seq(S) /\ Len(Tail(recent)) = Len(recent) - 1
        /\ \A j \in 1 .. Len(recent) - 1 : Tail(recent)[j] = recent[j + 1]
    BY <1>1, <2>1, HeadTailProperties
  <2> DEFINE t == Tail(recent)
  <2> HIDE DEF t
  <2>3. /\ Append(t, l) \in Seq(S) /\ Len(Append(t, l)) = Len(t) + 1
        /\ \A j \in 1 .. Len(t) : Append(t, l)[j] = t[j]
        /\ Append(t, l)[Len(t) + 1] = l
    BY <1>1, <2>2, AppendProperties DEF t
  <2> QED
    BY <1>1, <1>3, <2>1, <2>2, <2>3 DEF S, t
<1> QED
  BY <1>2, <1>3

LEMMA NextLoopStep ==
  ASSUME HandshakeInv, DealtInTurn, NextLoop
  PROVE  HandshakeInv' /\ DealtInTurn'
<1>1. /\ main = "done" /\ threadCount \in Nat /\ threadCount > 0 /\ threadCount <= MaxCount
      /\ Len(loops) = threadCount /\ nextIdx \in Nat /\ nextIdx < threadCount
      /\ Len(recent) <= threadCount /\ Len(recent) \in Nat
  BY CountAssumption, LenProperties
     DEF NextLoop, HandshakeInv, TypeOK, Phases, DealtInTurn
<1>2. nextIdx' = (IF nextIdx + 1 = threadCount THEN 0 ELSE nextIdx + 1) /\ nextIdx' \in 0 .. threadCount - 1
  BY <1>1, NextInTurn DEF NextLoop
<1>3. loops[nextIdx' + 1] = nextIdx' /\ nextIdx' \in Index
  BY <1>1, <1>2, CountAssumption DEF HandshakeInv, LoopsAreConstructed, Index
<1>4. /\ recent' \in Seq(Index \cup {Base, Null})
      /\ Len(recent') = IF Len(recent) < threadCount THEN Len(recent) + 1 ELSE threadCount
      /\ recent'[Len(recent')] = nextIdx'
      /\ \A j \in 1 .. Len(recent') - 1 :
           recent'[j] = recent[j + (Len(recent) + 1 - Len(recent'))]
  BY <1>1, <1>3, RememberStep DEF NextLoop, HandshakeInv
<1>5. Len(recent') \in Nat /\ Len(recent') <= Len(recent) + 1
  BY <1>1, <1>4
<1>6. HandshakeInv'
  BY <1>1, <1>2, <1>4
     DEF NextLoop, HandshakeInv, TypeOK, Phases, Started, Published, MutexIsHeld, NoLostWakeup,
         LoopsAreConstructed, Current
<1>7. ASSUME NEW j \in 1 .. Len(recent')
      PROVE  recent'[j] = Dealt(Len(recent) - j)'
  <2>1. CASE j = Len(recent')
    BY <1>1, <1>2, <1>4, <2>1 DEF Dealt
  <2>2. CASE j # Len(recent')
    <3> DEFINE k == j + (Len(recent) + 1 - Len(recent'))
    <3>0. /\ j \in Nat /\ 1 <= j /\ j <= Len(recent') - 1 /\ j \in 1 .. Len(recent') - 1
          /\ Len(recent') = Len(recent) + 1 \/ Len(recent') = Len(recent)
      <4>1. CASE Len(recent) < threadCount
        BY <1>1, <1>4, <1>5, <2>2, <4>1
      <4>2. CASE ~(Len(recent) < threadCount)
        BY <1>1, <1>4, <1>5, <2>2, <4>2
      <4> QED
        BY <4>1, <4>2
    <3>1. k \in 1 .. Len(recent) /\ Len(recent) - k + 1 = Len(recent') - j
      BY <1>1, <1>5, <3>0
    <3>2. recent'[j] = recent[k]
      BY <1>4, <3>0
    <3> HIDE DEF k
    <3>3. recent[k] = Dealt(Len(recent) - k)
      BY <1>1, <3>1 DEF DealtInTurn
    <3>4. Len(recent) - k \in 0 .. threadCount - 2
      BY <1>1, <1>4, <1>5, <2>2, <3>1
    <3> DEFINE d == Len(recent) - k
    <3>5. d \in 0 .. threadCount - 2 /\ Len(recent') - j = d + 1 /\ threadCount' = threadCount
      BY <3>1, <3>4 DEF NextLoop
    <3>6. recent'[j] = IF d <= nextIdx THEN nextIdx - d ELSE nextIdx + threadCount - d
      BY <3>2, <3>3 DEF Dealt
    <3> HIDE DEF d
    <3>7. (IF d <= nextIdx THEN nextIdx - d ELSE nextIdx + threadCount - d)
            = IF d + 1 <= nextIdx' THEN nextIdx' - (d + 1) ELSE nextIdx' + threadCount - (d + 1)
      <4>1. CASE nextIdx + 1 = threadCount
        BY <1>1, <1>2, <3>5, <4>1
      <4>2. CASE nextIdx + 1 # threadCount
        BY <1>1, <1>2, <3>5, <4>2
      <4> QED
        BY <4>1, <4>2
    <3> QED
      BY <3>5, <3>6, <3>7 DEF Dealt
  <2> QED
    BY <2>1, <2>2
<1>8. DealtInTurn'
  BY <1>1, <1>2, <1>4, <1>5, <1>7 DEF NextLoop, DealtInTurn
<1> QED
  BY <1>6, <1>8

LEMMA StepIInv == IInv /\ [Next]_vars => IInv'
<1> SUFFICES ASSUME HandshakeInv, DealtInTurn, [Next]_vars
             PROVE  HandshakeInv' /\ DealtInTurn'
  BY DEF IInv, HandshakeInv
<1>1. ASSUME NEW n \in 0 .. MaxCount, SetThreadCount(n)
      PROVE  HandshakeInv' /\ DealtInTurn'
  BY <1>1, EmptySeq, CountAssumption
     DEF SetThreadCount, HandshakeInv, TypeOK, Phases, Started, Published, MutexIsHeld,
         NoLostWakeup, LoopsAreConstructed, Current, DealtInTurn
<1>2. CASE Create
  BY <1>2, EmptySeq, CountAssumption
     DEF Create, HandshakeInv, TypeOK, Phases, Started, Published, MutexIsHeld,
         NoLostWakeup, LoopsAreConstructed, Current, DealtInTurn, Dealt
<1>3. CASE Handshake
  <2>1. UNCHANGED <<threadCount, nextIdx, recent>>
    BY <1>3 DEF Handshake, MainStep, ThreadStep, NewLoopThread, LockMutex, Sleep, GetLoopReturns,
            WakeSpuriously, Construct, EntryLock, Publish
  <2> QED
    BY <1>3, <2>1, HandshakeStep DEF DealtInTurn, Dealt
<1>4. CASE NextLoop
  BY <1>4, NextLoopStep
<1>5. CASE NextLoopIsBase
  <2>1. <<Base>> \in Seq(Index \cup {Base, Null})
    OBVIOUS
  <2> QED
    BY <1>5, <2>1
       DEF NextLoopIsBase, HandshakeInv, TypeOK, Phases, Started, Published, MutexIsHeld,
           NoLostWakeup, LoopsAreConstructed, Current, DealtInTurn
<1>6. CASE UNCHANGED vars
  BY <1>6
     DEF vars, HandshakeInv, TypeOK, Phases, Started, Published, MutexIsHeld,
         NoLostWakeup, LoopsAreConstructed, Current, DealtInTurn, Dealt
<1> QED
  BY <1>1, <1>2, <1>3, <1>4, <1>5, <1>6 DEF Next, Handshake

-----------------------------------------------------------------------------
(* The theorems *)

THEOREM Invariance == Spec => []IInv
  BY InitIInv, StepIInv, PTL DEF Spec

(***************************************************************************)
(* The variables of the pool and of its threads have their types.          *)
(***************************************************************************)
THEOREM TypeCorrect == Spec => []TypeOK
  BY Invariance, PTL DEF IInv

(***************************************************************************)
(* GetLoop returns to Create only with the loop of the thread it started,  *)
(* constructed, however the two threads interleave.                        *)
(***************************************************************************)
THEOREM LoopsExist == Spec => []LoopsAreConstructed
  BY Invariance, PTL DEF IInv

(***************************************************************************)
(* Whenever Create sleeps in GetLoop its thread has still to lock, publish *)
(* and notify: the safety half of CreateReturns, for any number of         *)
(* threads.                                                                *)
(***************************************************************************)
THEOREM NotificationIsToCome == Spec => []NoLostWakeup
  BY Invariance, PTL DEF IInv

(***************************************************************************)
(* threadCount calls of NextLoop in a row return threadCount loops that    *)
(* differ, and never a loop that does not exist.                           *)
(***************************************************************************)
THEOREM LoopsAreDealtInTurn == Spec => []RoundRobin
<1>1. ASSUME IInv
      PROVE  RoundRobin
  <2>1. /\ recent \in Seq(Index \cup {Base, Null}) /\ Len(recent) \in Nat
        /\ threadCount \in Nat /\ nextIdx \in Nat /\ threadCount <= MaxCount
        /\ DOMAIN recent = 1 .. Len(recent)
    BY <1>1, LenProperties, CountAssumption DEF IInv, TypeOK
  <2>2. CASE threadCount = 0
    <3>1. Len(recent) <= 1 /\ \A j \in 1 .. Len(recent) : recent[j] = Base
      BY <1>1, <2>2 DEF IInv, DealtInTurn
    <3> QED
      BY <2>1, <3>1, NullAssumption DEF RoundRobin, IsInjective, Range
  <2>3. CASE threadCount # 0
    <3>1. /\ nextIdx < threadCount /\ Len(recent) <= threadCount
          /\ \A j \in 1 .. Len(recent) : recent[j] = Dealt(Len(recent) - j)
      BY <1>1, <2>3 DEF IInv, DealtInTurn
    <3>2. \A j \in 1 .. Len(recent) : recent[j] \in Index
      BY <2>1, <3>1, CountAssumption DEF Dealt, Index
    <3>3. ASSUME NEW j \in 1 .. Len(recent), NEW k \in 1 .. Len(recent), recent[j] = recent[k]
          PROVE  j = k
      BY <2>1, <3>1, <3>3 DEF Dealt
    <3> QED
      BY <2>1, <3>2, <3>3, NullAssumption DEF RoundRobin, IsInjective, Range
  <2> QED
    BY <2>1, <2>2, <2>3
<1> QED
  BY <1>1, Invariance, PTL

=============================================================================
