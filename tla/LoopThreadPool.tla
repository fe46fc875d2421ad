---------------------------- MODULE LoopThreadPool ----------------------------
(***************************************************************************)
(* LoopThreadPool and LoopThread of Server.hpp: the thread that runs       *)
(* Create starts one thread per loop and waits on a condition variable     *)
(* until that thread has constructed its EventLoop and published its       *)
(* address; NextLoop then deals out the loops in turn.                     *)
(*                                                                         *)
(* Create is called once, from TCPServer::Start, after the server's setup  *)
(* called SetThreadCount.                                                  *)
(***************************************************************************)
EXTENDS Naturals, SequencesExt

CONSTANTS
  MaxCount,   \* bound: the largest thread count
  Base,       \* _BaseLoop
  Null,       \* a LoopThread's _Loop before it is published
  Main,       \* the thread that runs Create
  Free        \* the owner of a mutex that nobody holds

Index == 0 .. MaxCount - 1

ASSUME CountAssumption == MaxCount \in Nat
(* The loop on the stack of the i-th thread is named by i. *)
ASSUME NullAssumption == Null \notin Index /\ Base \notin Index \cup {Null}
ASSUME MainAssumption == Main \notin Index /\ Free \notin Index \cup {Main}

VARIABLES
  threadCount,  \* _ThreadCount
  nextIdx,      \* _NextIdx
  loops,        \* _Loops, as far as Create has filled it
  main,         \* where Main is inside Create and GetLoop
  mutex,        \* the owner of each LoopThread's _Mutex
  loop,         \* each LoopThread's _Loop
  thread,       \* where each thread is inside ThreadEntry
  recent        \* the loops that the last calls of NextLoop returned

vars == <<threadCount, nextIdx, loops, main, mutex, loop, thread, recent>>

TypeOK ==
  /\ threadCount \in 0 .. MaxCount
  /\ nextIdx \in Nat
  /\ loops \in Seq(Index \cup {Null})
  /\ Len(loops) <= threadCount
  /\ main \in {"setup", "new", "lock", "test", "asleep", "done"}
  /\ mutex \in [Index -> Index \cup {Main, Free}]
  /\ loop \in [Index -> Index \cup {Null}]
  /\ thread \in [Index -> {"none", "construct", "lock", "publish", "loop"}]
  /\ recent \in Seq(Index \cup {Base, Null})

Init ==
  /\ threadCount = 0
  /\ nextIdx = 0
  /\ loops = <<>>
  /\ main = "setup"
  /\ mutex = [i \in Index |-> Free]
  /\ loop = [i \in Index |-> Null]
  /\ thread = [i \in Index |-> "none"]
  /\ recent = <<>>

-----------------------------------------------------------------------------
(* The thread of the server's setup and of Create *)

(* A negative count, with which NextLoop would look into an empty vector,  *)
(* is left out.                                                            *)
SetThreadCount(n) ==
  /\ main = "setup"
  /\ threadCount' = n
  /\ UNCHANGED <<nextIdx, loops, main, mutex, loop, thread, recent>>

Create ==
  /\ main = "setup"
  /\ main' = IF threadCount > 0 THEN "new" ELSE "done"
  /\ UNCHANGED <<threadCount, nextIdx, loops, mutex, loop, thread, recent>>

(* The index of the thread that Create is at. *)
Current == Len(loops)

(* The constructor of LoopThread starts the thread. *)
NewLoopThread ==
  /\ main = "new"
  /\ thread' = [thread EXCEPT ![Current] = "construct"]
  /\ main' = "lock"
  /\ UNCHANGED <<threadCount, nextIdx, loops, mutex, loop, recent>>

(* GetLoop locks _Mutex, and so does wait when it wakes up. *)
LockMutex ==
  /\ main = "lock"
  /\ mutex[Current] = Free
  /\ mutex' = [mutex EXCEPT ![Current] = Main]
  /\ main' = "test"
  /\ UNCHANGED <<threadCount, nextIdx, loops, loop, thread, recent>>

(* wait releases the mutex and sleeps in one step. *)
Sleep ==
  /\ main = "test"
  /\ loop[Current] = Null
  /\ mutex' = [mutex EXCEPT ![Current] = Free]
  /\ main' = "asleep"
  /\ UNCHANGED <<threadCount, nextIdx, loops, loop, thread, recent>>

(* A condition variable may wake up without having been notified. *)
WakeSpuriously ==
  /\ main = "asleep"
  /\ main' = "lock"
  /\ UNCHANGED <<threadCount, nextIdx, loops, mutex, loop, thread, recent>>

(* Mutant: the predicate is not tested again after the wait. *)
ReturnUntested ==
  /\ main = "test"
  /\ loops' = Append(loops, loop[Current])
  /\ mutex' = [mutex EXCEPT ![Current] = Free]
  /\ main' = IF Len(loops) + 1 < threadCount THEN "new" ELSE "done"
  /\ UNCHANGED <<threadCount, nextIdx, loop, thread, recent>>

(* Mutant: Create goes on for one thread too many. *)
ReturnOneMore ==
  /\ main = "test"
  /\ loop[Current] # Null
  /\ loops' = Append(loops, loop[Current])
  /\ mutex' = [mutex EXCEPT ![Current] = Free]
  /\ main' = IF Len(loops) < threadCount /\ Len(loops) + 1 < MaxCount THEN "new" ELSE "done"
  /\ UNCHANGED <<threadCount, nextIdx, loop, thread, recent>>

(* GetLoop returns to Create, which stores the loop and goes on. *)
GetLoopReturns ==
  /\ main = "test"
  /\ loop[Current] # Null
  /\ loops' = Append(loops, loop[Current])
  /\ mutex' = [mutex EXCEPT ![Current] = Free]
  /\ main' = IF Len(loops) + 1 < threadCount THEN "new" ELSE "done"
  /\ UNCHANGED <<threadCount, nextIdx, loop, thread, recent>>

-----------------------------------------------------------------------------
(* ThreadEntry *)

Construct(i) ==
  /\ thread[i] = "construct"
  /\ thread' = [thread EXCEPT ![i] = "lock"]
  /\ UNCHANGED <<threadCount, nextIdx, loops, main, mutex, loop, recent>>

EntryLock(i) ==
  /\ thread[i] = "lock"
  /\ mutex[i] = Free
  /\ mutex' = [mutex EXCEPT ![i] = i]
  /\ thread' = [thread EXCEPT ![i] = "publish"]
  /\ UNCHANGED <<threadCount, nextIdx, loops, main, loop, recent>>

(* Mutant: nobody is notified. *)
PublishSilently(i) ==
  /\ thread[i] = "publish"
  /\ loop' = [loop EXCEPT ![i] = i]
  /\ mutex' = [mutex EXCEPT ![i] = Free]
  /\ thread' = [thread EXCEPT ![i] = "loop"]
  /\ UNCHANGED <<threadCount, nextIdx, loops, main, recent>>

(* The address is stored and notified under the mutex; then the loop runs  *)
(* and never returns.                                                      *)
Publish(i) ==
  /\ thread[i] = "publish"
  /\ loop' = [loop EXCEPT ![i] = i]
  /\ main' = IF main = "asleep" /\ Current = i THEN "lock" ELSE main
  /\ mutex' = [mutex EXCEPT ![i] = Free]
  /\ thread' = [thread EXCEPT ![i] = "loop"]
  /\ UNCHANGED <<threadCount, nextIdx, loops, recent>>

-----------------------------------------------------------------------------
(* The last threadCount results are remembered. *)
Remember(l) ==
  recent' = IF Len(recent) < threadCount THEN Append(recent, l) ELSE Append(Tail(recent), l)

(* Mutant: the index advances by two. *)
NextLoopSkipping ==
  /\ main = "done"
  /\ threadCount > 0
  /\ nextIdx' = (nextIdx + 2) % threadCount
  /\ Remember(loops[nextIdx' + 1])
  /\ UNCHANGED <<threadCount, loops, main, mutex, loop, thread>>

(* Without threads NextLoop always returns the base loop. *)
NextLoop ==
  /\ main = "done"
  /\ threadCount > 0
  /\ nextIdx' = (nextIdx + 1) % threadCount
  /\ Remember(loops[nextIdx' + 1])
  /\ UNCHANGED <<threadCount, loops, main, mutex, loop, thread>>

NextLoopIsBase ==
  /\ main = "done"
  /\ threadCount = 0
  /\ recent' = <<Base>>
  /\ UNCHANGED <<threadCount, nextIdx, loops, main, mutex, loop, thread>>

MainStep == NewLoopThread \/ LockMutex \/ Sleep \/ GetLoopReturns

ThreadStep(i) == Construct(i) \/ EntryLock(i) \/ Publish(i)

Next ==
  \/ \E n \in 0 .. MaxCount : SetThreadCount(n)
  \/ Create
  \/ MainStep
  \/ WakeSpuriously
  \/ \E i \in Index : ThreadStep(i)
  \/ NextLoop
  \/ NextLoopIsBase

Spec == Init /\ [][Next]_vars

(* Every thread that can run does, and only finitely many wake-ups come    *)
(* without a notification.                                                 *)
FairSpec ==
  /\ Spec
  /\ WF_vars(MainStep)
  /\ \A i \in Index : WF_vars(ThreadStep(i))
  /\ <>[][~ WakeSpuriously]_vars

-----------------------------------------------------------------------------
(* Properties *)

(***************************************************************************)
(* GetLoop waits until the loop exists: a loop in _Loops is the loop of    *)
(* its own thread, constructed and about to run, whatever wakes the waiter *)
(* up and however early the thread publishes.                              *)
(***************************************************************************)
LoopsAreConstructed ==
  \A k \in 1 .. Len(loops) : loops[k] = k - 1 /\ thread[k - 1] = "loop"

(***************************************************************************)
(* NextLoop deals out the loops in turn: threadCount calls in a row return *)
(* threadCount different loops.                                            *)
(***************************************************************************)
RoundRobin == IsInjective(recent) /\ Null \notin Range(recent)

(***************************************************************************)
(* The handshake loses no notification: Create gets all its loops, without *)
(* relying on a spurious wake-up.                                          *)
(***************************************************************************)
CreateReturns == main = "new" ~> main = "done"

=============================================================================
