---------------------------- MODULE TimeWheelDemo ----------------------------
(***************************************************************************)
(* The TimeWheel of TestCode/TimeWheelDemo.cc under a caller like its      *)
(* main: sleep a second, perhaps refresh, RunOntimeTask, and so on.  The   *)
(* callbacks do not use the wheel, so clearing a slot is one step; whether *)
(* a slot points to a timer once or twice makes no difference, nor does    *)
(* _PreIndex, which is printed only.                                       *)
(***************************************************************************)
EXTENDS Naturals, SequencesExt

CONSTANTS
  Timer,        \* Timer objects
  Id,           \* timer ids
  Timeout,      \* the timeouts that AddTimer is called with
  MaxTimeout,   \* _MaxTimeout
  WheelSize     \* _WheelSize

ASSUME SizeAssumption ==
  WheelSize \in Nat \ {0} /\ MaxTimeout \in Nat /\ Timeout \subseteq Nat

Slot == 0 .. WheelSize - 1

VARIABLES
  process,      \* running, aborted, ended, or crashed by what is undefined
  curIndex,     \* _CurIndex
  wheel,        \* the timers that each slot of _Wheel points to
  timerMap,     \* _TimerMap
  timers,       \* the Timers that exist
  asleep,       \* the caller's next step is sleep(1), not RunOntimeTask
  twice         \* history: an id was added while there was a timer of that id

vars == <<process, curIndex, wheel, timerMap, timers, asleep, twice>>

(* age: seconds since the timer was added or last refreshed *)
TimerState == [id : Id, timeout : 0 .. MaxTimeout, canceled : BOOLEAN, age : Nat]

TypeOK ==
  /\ process \in {"running", "aborted", "ended", "crashed"}
  /\ curIndex \in Slot
  /\ wheel \in [Slot -> SUBSET Timer]
  /\ timerMap \in [DOMAIN timerMap -> Timer] /\ DOMAIN timerMap \subseteq Id
  /\ timers \in [DOMAIN timers -> TimerState] /\ DOMAIN timers \subseteq Timer
  /\ asleep \in BOOLEAN /\ twice \in BOOLEAN

Init ==
  /\ process = "running" /\ curIndex = 0
  /\ wheel = [s \in Slot |-> {}]
  /\ timerMap = <<>> /\ timers = <<>>
  /\ asleep = TRUE /\ twice = FALSE

Without(f, S) == Restrict(f, DOMAIN f \ S)

With(f, k, v) == [i \in DOMAIN f \cup {k} |-> IF i = k THEN v ELSE f[i]]

PushBack(x, after) ==
  wheel' = [wheel EXCEPT ![(curIndex + after) % WheelSize] = @ \cup {x}]

AddTimer(x, id, t) ==
  /\ process = "running" /\ x \notin DOMAIN timers /\ t <= MaxTimeout
  /\ PushBack(x, t)
  /\ timerMap' = With(timerMap, id, x)
  /\ timers' = With(timers, x, [id |-> id, timeout |-> t, canceled |-> FALSE, age |-> 0])
  /\ twice' = (twice \/ \E y \in DOMAIN timers : timers[y].id = id)
  /\ UNCHANGED <<process, curIndex, asleep>>

(* The timer's age starts again.  An id that is not in the map fails the   *)
(* assertion.                                                              *)
TimerRefresh(id) ==
  /\ process = "running"
  /\ \/ /\ id \in DOMAIN timerMap
        /\ LET x == timerMap[id]
           IN  PushBack(x, timers[x].timeout) /\ timers' = [timers EXCEPT ![x].age = 0]
        /\ UNCHANGED process
     \/ /\ id \notin DOMAIN timerMap
        /\ process' = "aborted"
        /\ UNCHANGED <<wheel, timers>>
  /\ UNCHANGED <<curIndex, timerMap, asleep, twice>>

(* Mutant: the timer is forgotten at once. *)
CancelAndForget(id) ==
  /\ process = "running" /\ id \in DOMAIN timerMap
  /\ timers' = [timers EXCEPT ![timerMap[id]].canceled = TRUE]
  /\ timerMap' = Without(timerMap, {id})
  /\ UNCHANGED <<process, curIndex, wheel, asleep, twice>>

CancelTimer(id) ==
  /\ process = "running" /\ id \in DOMAIN timerMap
  /\ timers' = [timers EXCEPT ![timerMap[id]].canceled = TRUE]
  /\ UNCHANGED <<process, curIndex, wheel, timerMap, asleep, twice>>

Sleep ==
  /\ process = "running" /\ asleep
  /\ asleep' = FALSE
  /\ timers' = [x \in DOMAIN timers |-> [timers[x] EXCEPT !.age = @ + 1]]
  /\ UNCHANGED <<process, curIndex, wheel, timerMap, twice>>

(* The timers that only slot s points to *)
OnlyIn(s) == {x \in wheel[s] : \A other \in Slot \ {s} : x \notin wheel[other]}

(* Mutant: the timer has no release callback. *)
DestroyKeepingMap(gone) == timers' = Without(timers, gone) /\ UNCHANGED timerMap

(* The destructors remove the ids from the map, whatever they lead to by   *)
(* now, and call the callbacks of the timers that are not canceled.        *)
Destroy(gone) ==
  /\ timers' = Without(timers, gone)
  /\ timerMap' = Without(timerMap, {timers[x].id : x \in gone})

(* The slot that the index points to before it moves is cleared. *)
ClearSlot ==
  /\ process = "running" /\ ~asleep
  /\ asleep' = TRUE
  /\ wheel' = [wheel EXCEPT ![curIndex] = {}]
  /\ Destroy(OnlyIn(curIndex))
  /\ UNCHANGED <<process, twice>>

(* Mutant: the index moves on when the slot is empty only. *)
StayInSlot ==
  /\ ClearSlot
  /\ curIndex' = IF wheel[curIndex] = {} THEN (curIndex + 1) % WheelSize ELSE curIndex

(* Mutant: _CurIndex is not taken modulo the size. *)
AdvanceWithoutModulo == ClearSlot /\ curIndex' = curIndex + 1

RunOntimeTask == ClearSlot /\ curIndex' = (curIndex + 1) % WheelSize

(* The wheel is destroyed: its destructor cancels what is in the slots,    *)
(* then _TimerMap is destroyed and then _Wheel, with the timers, whose     *)
(* destructors look for their ids in what was _TimerMap.                   *)
End ==
  /\ process = "running"
  /\ process' \in IF timers = <<>> THEN {"ended"} ELSE {"ended", "crashed"}
  /\ timers' = <<>> /\ timerMap' = <<>> /\ wheel' = [s \in Slot |-> {}]
  /\ UNCHANGED <<curIndex, asleep, twice>>

Next ==
  \/ \E x \in Timer, id \in Id, t \in Timeout : AddTimer(x, id, t)
  \/ \E id \in Id : TimerRefresh(id) \/ CancelTimer(id)
  \/ Sleep
  \/ RunOntimeTask
  \/ End

Spec == Init /\ [][Next]_vars

-----------------------------------------------------------------------------
(* _TimerMap leads to timers that exist and bear the id; every timer is in *)
(* the wheel; and the map has all of them, so that HasTimer tells when a   *)
(* timer was executed, as main relies on, unless an id was added twice:    *)
(* then the end of the first timer hides the second one.                   *)
MapMatchesWheel ==
  /\ \A id \in DOMAIN timerMap :
       timerMap[id] \in DOMAIN timers /\ timers[timerMap[id]].id = id
  /\ DOMAIN timers = UNION Range(wheel)
  /\ ~twice => DOMAIN timers \subseteq Range(timerMap)

(* A timer goes timeout seconds, taken modulo the turn of the wheel, after *)
(* it was added or last refreshed or, when that happened between           *)
(* RunOntimeTask and sleep, one second later.                              *)
ExpiresWithinASecond ==
  [][\A x \in DOMAIN timers \ DOMAIN timers' :
       process' = "running" =>
         LET due == timers[x].timeout % WheelSize IN timers[x].age \in due .. due + 1]_vars

(* A wheel with timers left must not be destroyed.  That HasTimer is false *)
(* for every id, upon which main ends, tells that none is left, unless an  *)
(* id was added twice.                                                     *)
EndsCleanly == [][End /\ timerMap = <<>> /\ ~twice => process' = "ended"]_vars

(* "Each task is executed 5s after it is added"; "this adds a task that is *)
(* executed in 5 seconds" (TimeWheelDemo.cc:274, 281): a task is executed  *)
(* as many seconds after it was added as its timeout says.                 *)
ExecutedAfterTimeout ==
  [][RunOntimeTask =>
       \A x \in DOMAIN timers \ DOMAIN timers' :
         timers[x].canceled \/ timers[x].age = timers[x].timeout]_vars

=============================================================================
