------------------------------ MODULE TimerWheel ------------------------------
(***************************************************************************)
(* The TimerWheel of Server.hpp, on its loop's thread: a ring of Capacity  *)
(* slots, each a list of shared pointers to TimerTask objects; a map from  *)
(* ids to weak pointers; and a timerfd that counts seconds.                *)
(*                                                                         *)
(* A TimerTask lives as long as a slot points to it, and its destructor    *)
(* runs its function and then its release function.  At most one task per  *)
(* id is alive (see AddNewTimer), so a list of pointers is a sequence of   *)
(* ids.  A timer's function runs inside list::clear and may itself add,    *)
(* refresh and cancel timers (phase "task").                               *)
(***************************************************************************)
EXTENDS Naturals, SequencesExt

CONSTANTS
  Id,             \* the ids that timers are added under
  NoId,           \* the value of firing when no function runs
  Delay,          \* the delays that timers are added with
  NestedDelay,    \* those of them that timers' functions use
  Capacity,       \* _Capacity, the number of slots
  MaxNodes,       \* bound: pointers in one slot
  MaxSeconds      \* bound: expirations of the timerfd that wait to be read

Slot == 0 .. Capacity - 1

(***************************************************************************)
(* A timer's function that adds a timer to the very slot that is being     *)
(* cleared pushes to a list in the middle of list::clear, which leaves the *)
(* new node unreachable or expires it at once.  The model keeps to the     *)
(* delays for which this does not happen.                                  *)
(***************************************************************************)
ASSUME CapacityAssumption == Capacity \in Nat \ {0}
ASSUME DelayAssumption == Delay \subseteq Nat /\ NestedDelay \subseteq Delay
ASSUME NestedDelayAssumption == \A d \in NestedDelay : d % Capacity # 0
ASSUME NoIdAssumption == NoId \notin Id
ASSUME BoundAssumption == MaxNodes \in Nat /\ MaxSeconds \in Nat \ {0}

VARIABLES
  tick,       \* _Tick
  wheel,      \* _Wheel
  timerMap,   \* the keys of _TimerMap
  timeout,    \* _timeout of the task of each id, 0 when there is none
  canceled,   \* the ids of the tasks whose _isCanceled is set
  seconds,    \* the counter behind _Timerfd
  times,      \* iterations that are left of the loop in OnTimerTask
  phase,      \* where the loop's thread is inside OnTimerTask, "idle" or "crashed"
  firing      \* the id of the task whose function is running

vars == <<tick, wheel, timerMap, timeout, canceled, seconds, times, phase, firing>>

TypeOK ==
  /\ tick \in Slot
  /\ wheel \in [Slot -> Seq(Id)]
  /\ timerMap \subseteq Id
  /\ timeout \in [Id -> Delay \cup {0}]
  /\ canceled \subseteq Id
  /\ seconds \in Nat
  /\ times \in Nat
  /\ phase \in {"idle", "advance", "clear", "task", "crashed"}
  /\ firing \in Id \cup {NoId}

Init ==
  /\ tick = 0
  /\ wheel = [s \in Slot |-> <<>>]
  /\ timerMap = {}
  /\ timeout = [id \in Id |-> 0]
  /\ canceled = {}
  /\ seconds = 0
  /\ times = 0
  /\ phase = "idle"
  /\ firing = NoId

-----------------------------------------------------------------------------
(* Some slot points to the task of id: lock() of its weak pointer succeeds. *)
Alive(id) == \E s \in Slot : id \in Range(wheel[s])

HasTimer(id) == id \in timerMap

(* Callbacks of other channels, functors and timers' functions all run on  *)
(* the loop's thread, outside or inside OnTimerTask.                       *)
InUserCode == phase \in {"idle", "task"}

PushBack(s, id) ==
  /\ Len(wheel[s]) < MaxNodes
  /\ wheel' = [wheel EXCEPT ![s] = Append(@, id)]

TimerAddInLoop(id, d) ==
  /\ InUserCode
  /\ phase = "task" => d \in NestedDelay
  /\ PushBack((tick + d) % Capacity, id)
  /\ timerMap' = timerMap \cup {id}
  /\ timeout' = [timeout EXCEPT ![id] = d]
  /\ UNCHANGED <<tick, canceled, seconds, times, phase, firing>>

(* The callers of TimerAdd either test HasTimer first or use a new id.     *)
(* They mean this; what TimerAdd makes of it is the subject of RunAfter.   *)
AddNewTimer(id, d) == ~ HasTimer(id) /\ TimerAddInLoop(id, d)

(* The map keeps an id while the task's function runs.  A function that    *)
(* refreshes its own timer finds the id, lock() fails, and the code        *)
(* follows a null pointer.                                                 *)
TimerRefreshInLoop(id) ==
  /\ InUserCode
  /\ HasTimer(id)
  /\ \/ /\ Alive(id)
        /\ phase = "task" => timeout[id] \in NestedDelay
        /\ PushBack((timeout[id] + tick) % Capacity, id)
        /\ UNCHANGED phase
     \/ /\ ~ Alive(id)
        /\ phase' = "crashed"
        /\ UNCHANGED wheel
  /\ UNCHANGED <<tick, timerMap, timeout, canceled, seconds, times, firing>>

(* Connection::ReleaseInLoop, run as a timer's function, cancels its own   *)
(* timer: the failed lock() makes that a step without effect.              *)
TimerCancelInLoop(id) ==
  /\ InUserCode
  /\ HasTimer(id)
  /\ Alive(id)
  /\ canceled' = canceled \cup {id}
  /\ UNCHANGED <<tick, wheel, timerMap, timeout, seconds, times, phase, firing>>

-----------------------------------------------------------------------------
(* The kernel counts a second. *)
Second ==
  /\ seconds < MaxSeconds
  /\ seconds' = seconds + 1
  /\ UNCHANGED <<tick, wheel, timerMap, timeout, canceled, times, phase, firing>>

(* Mutant: the loop over the expirations starts at one. *)
SkipFirstSecond ==
  /\ phase = "idle"
  /\ seconds > 0
  /\ times' = seconds - 1
  /\ seconds' = 0
  /\ phase' = "advance"
  /\ UNCHANGED <<tick, wheel, timerMap, timeout, canceled, firing>>

(* The timerfd is readable only when its counter is not zero. *)
OnTimerTask ==
  /\ phase = "idle"
  /\ seconds > 0
  /\ times' = seconds
  /\ seconds' = 0
  /\ phase' = "advance"
  /\ UNCHANGED <<tick, wheel, timerMap, timeout, canceled, firing>>

(* Mutant: _Tick is not taken modulo _Capacity. *)
AdvanceWithoutModulo ==
  /\ phase = "advance"
  /\ times > 0
  /\ times' = times - 1
  /\ tick' = tick + 1
  /\ phase' = "clear"
  /\ UNCHANGED <<wheel, timerMap, timeout, canceled, seconds, firing>>

(* Mutant: the loop over the expirations does not count. *)
AdvanceWithoutCount ==
  /\ phase = "advance"
  /\ times > 0
  /\ tick' = (tick + 1) % Capacity
  /\ phase' = "clear"
  /\ UNCHANGED <<wheel, timerMap, timeout, canceled, seconds, times, firing>>

RunOntimeTask ==
  /\ phase = "advance"
  /\ times > 0
  /\ times' = times - 1
  /\ tick' = (tick + 1) % Capacity
  /\ phase' = "clear"
  /\ UNCHANGED <<wheel, timerMap, timeout, canceled, seconds, firing>>

(* Mutant: the task has no release function. *)
KeepInMap(id) ==
  /\ timeout' = [timeout EXCEPT ![id] = 0]
  /\ canceled' = canceled \ {id}
  /\ UNCHANGED timerMap

(* The release function, and the end of the object. *)
RemoveTimer(id) ==
  /\ timerMap' = timerMap \ {id}
  /\ timeout' = [timeout EXCEPT ![id] = 0]
  /\ canceled' = canceled \ {id}

(* clear() lets go of the first pointer of the slot. *)
DropPointer(id) ==
  /\ phase = "clear"
  /\ wheel[tick] # <<>>
  /\ id = Head(wheel[tick])
  /\ wheel' = [wheel EXCEPT ![tick] = Tail(@)]
  /\ UNCHANGED <<tick, seconds, times>>

(* The task is pointed to from elsewhere: it was refreshed. *)
DropShared(id) ==
  /\ DropPointer(id)
  /\ Alive(id)'
  /\ UNCHANGED <<timerMap, timeout, canceled, phase, firing>>

DropCanceled(id) ==
  /\ DropPointer(id)
  /\ ~ Alive(id)'
  /\ id \in canceled
  /\ RemoveTimer(id)
  /\ UNCHANGED <<phase, firing>>

(* Mutant: the destructor does not look at _isCanceled. *)
DropLastCanceledOrNot(id) ==
  /\ DropPointer(id)
  /\ ~ Alive(id)'
  /\ firing' = id
  /\ phase' = "task"
  /\ UNCHANGED <<timerMap, timeout, canceled>>

(* The last pointer of a task that is not canceled: its function runs. *)
DropLast(id) ==
  /\ DropPointer(id)
  /\ ~ Alive(id)'
  /\ id \notin canceled
  /\ firing' = id
  /\ phase' = "task"
  /\ UNCHANGED <<timerMap, timeout, canceled>>

TaskReturns ==
  /\ phase = "task"
  /\ RemoveTimer(firing)
  /\ firing' = NoId
  /\ phase' = "clear"
  /\ UNCHANGED <<tick, wheel, seconds, times>>

EndClear ==
  /\ phase = "clear"
  /\ wheel[tick] = <<>>
  /\ phase' = "advance"
  /\ UNCHANGED <<tick, wheel, timerMap, timeout, canceled, seconds, times, firing>>

OnTimerTaskReturns ==
  /\ phase = "advance"
  /\ times = 0
  /\ phase' = "idle"
  /\ UNCHANGED <<tick, wheel, timerMap, timeout, canceled, seconds, times, firing>>

-----------------------------------------------------------------------------
LoopStep ==
  \/ OnTimerTask
  \/ RunOntimeTask
  \/ \E id \in Id : DropShared(id) \/ DropCanceled(id) \/ DropLast(id)
  \/ TaskReturns
  \/ EndClear
  \/ OnTimerTaskReturns

Next ==
  \/ \E id \in Id, d \in Delay : AddNewTimer(id, d)
  \/ \E id \in Id : TimerRefreshInLoop(id) \/ TimerCancelInLoop(id)
  \/ Second
  \/ LoopStep

Spec == Init /\ [][Next]_vars

(***************************************************************************)
(* Seconds keep elapsing, the loop keeps running, and a timer's function   *)
(* returns.                                                                *)
(***************************************************************************)
FairSpec == Spec /\ WF_vars(Second) /\ WF_vars(LoopStep)

-----------------------------------------------------------------------------
(* Properties *)

(***************************************************************************)
(* The weak pointers of _TimerMap neither keep an id whose task is gone    *)
(* nor miss one: its keys are the ids of the tasks that some slot points   *)
(* to, and the one whose function is running.  HasTimer decides on it      *)
(* whether a connection's timer is refreshed or added.                     *)
(***************************************************************************)
MapMatchesWheel ==
  timerMap = {id \in Id : Alive(id)} \cup ({firing} \cap Id)

(***************************************************************************)
(* Connections refresh their timers from callbacks, functors and other     *)
(* timers' functions: the task is there, and only a function that          *)
(* refreshes its own timer follows a null pointer.                         *)
(***************************************************************************)
RefreshFindsTask ==
  [][\A id \in Id : TimerRefreshInLoop(id) /\ phase' = "crashed" => id = firing]_vars

(* Ticks until the hand clears slot s. *)
Distance(s) ==
  IF s = tick THEN IF phase \in {"clear", "task", "crashed"} THEN 0 ELSE Capacity
              ELSE (s + Capacity - tick) % Capacity

(* The farthest slot that points to a task keeps it alive. *)
Left(id) ==
  IF Alive(id) THEN Max({Distance(s) : s \in {q \in Slot : id \in Range(wheel[q])}})
               ELSE 0

Status(id) ==
  CASE id = firing -> "firing"
    [] id # firing /\ Alive(id) -> IF id \in canceled THEN "canceled" ELSE "armed"
    [] OTHER -> "none"

TS == INSTANCE TimerService WITH
        status <- [id \in Id |-> Status(id)],
        left <- [id \in Id |-> Left(id)],
        behind <- seconds + times

(***************************************************************************)
(* A timer's function runs once, at the tick that its delay and its last   *)
(* refresh determine, unless it was canceled; and no second gets lost when *)
(* the loop reads the timerfd late.                                        *)
(***************************************************************************)
ImplementsTimerService == TS!Spec

(***************************************************************************)
(* A task that is not refreshed again and again leaves the wheel, and its  *)
(* id becomes free for TimerAdd, unless the process crashes.               *)
(***************************************************************************)
TimersExpire ==
  \A id \in Id :
    <>[]HasTimer(id) => []<><<TimerRefreshInLoop(id)>>_vars \/ <>(phase = "crashed")

(***************************************************************************)
(* OnTimerTask catches up with the timerfd and returns to the loop: the    *)
(* functions of expired timers, adding and refreshing others, do not keep  *)
(* it in the slot it clears, unless one of them crashes the process.       *)
(***************************************************************************)
HandReturns == phase # "idle" ~> phase \in {"idle", "crashed"}

=============================================================================
