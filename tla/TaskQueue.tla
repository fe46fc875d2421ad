------------------------------ MODULE TaskQueue ------------------------------
(***************************************************************************)
(* What an EventLoop promises to the code that hands it functors: every    *)
(* functor given to QueueInLoop waits in one first-in first-out queue and  *)
(* is run exactly once, one functor at a time; a functor that the loop's   *)
(* own thread gives to RunInLoop is run on the spot, ahead of the queue.   *)
(* No thread, lock, descriptor or wake-up is visible here.                 *)
(***************************************************************************)
EXTENDS Sequences

CONSTANT Task       \* the calls, each with its functor

VARIABLES
  created,    \* calls whose functor has not been accepted yet
  queue,      \* functors accepted and not run yet, oldest first
  ran         \* functors run, in the order they were started

vars == <<created, queue, ran>>

Init ==
  /\ created = Task
  /\ queue = <<>>
  /\ ran = <<>>

(* A functor is accepted at the end of the queue. *)
Accept(u) ==
  /\ u \in created
  /\ created' = created \ {u}
  /\ queue' = Append(queue, u)
  /\ UNCHANGED ran

(* The loop starts the oldest functor. *)
RunOldest ==
  /\ queue # <<>>
  /\ ran' = Append(ran, Head(queue))
  /\ queue' = Tail(queue)
  /\ UNCHANGED created

(* The loop's own thread runs a functor immediately. *)
RunNow(u) ==
  /\ u \in created
  /\ created' = created \ {u}
  /\ ran' = Append(ran, u)
  /\ UNCHANGED queue

Next ==
  \/ \E u \in Task : Accept(u) \/ RunNow(u)
  \/ RunOldest

Spec == Init /\ [][Next]_vars

-----------------------------------------------------------------------------
TypeOK ==
  /\ created \subseteq Task
  /\ queue \in Seq(Task)
  /\ ran \in Seq(Task)

=============================================================================
