----------------------------- MODULE TimerService -----------------------------
(***************************************************************************)
(* What the timer wheel of an EventLoop promises: a timer expires exactly  *)
(* Wait(d) ticks after it was added or last refreshed, once; a canceled    *)
(* timer goes away without running its function; and every second that     *)
(* elapses is one tick, also when the loop is late.  The order of timers   *)
(* that expire at the same tick is not specified.                          *)
(***************************************************************************)
EXTENDS Naturals

CONSTANTS
  Id,         \* timer ids
  Delay,      \* the delays that timers are added with
  Capacity    \* the number of ticks in one turn of the wheel

(* A wheel measures a delay modulo its turn, and never expires a timer at  *)
(* the tick at which it was added.                                         *)
Wait(d) == IF d % Capacity = 0 THEN Capacity ELSE d % Capacity

VARIABLES
  status,     \* of each timer
  timeout,    \* the delay each timer was added with
  left,       \* ticks until each timer expires
  behind      \* seconds that elapsed and are not counted as ticks yet

vars == <<status, timeout, left, behind>>

Init ==
  /\ status = [id \in Id |-> "none"]
  /\ timeout = [id \in Id |-> 0]
  /\ left = [id \in Id |-> 0]
  /\ behind = 0

Pending == {id \in Id : status[id] \in {"armed", "canceled"}}

Add(id, d) ==
  /\ status[id] = "none"
  /\ status' = [status EXCEPT ![id] = "armed"]
  /\ timeout' = [timeout EXCEPT ![id] = d]
  /\ left' = [left EXCEPT ![id] = Wait(d)]
  /\ UNCHANGED behind

(* Refreshing a canceled timer delays its end and does not revive it. *)
Refresh(id) ==
  /\ id \in Pending
  /\ left' = [left EXCEPT ![id] = Wait(timeout[id])]
  /\ UNCHANGED <<status, timeout, behind>>

Cancel(id) ==
  /\ id \in Pending
  /\ status' = [status EXCEPT ![id] = "canceled"]
  /\ UNCHANGED <<timeout, left, behind>>

Second ==
  /\ behind' = behind + 1
  /\ UNCHANGED <<status, timeout, left>>

(* The next tick waits until everything due at this one has expired. *)
Tick ==
  /\ behind > 0
  /\ behind' = behind - 1
  /\ \A id \in Id : status[id] # "firing"
  /\ \A id \in Pending : left[id] > 0
  /\ left' = [id \in Id |-> IF id \in Pending THEN left[id] - 1 ELSE left[id]]
  /\ UNCHANGED <<status, timeout>>

Gone(id) ==
  /\ status' = [status EXCEPT ![id] = "none"]
  /\ timeout' = [timeout EXCEPT ![id] = 0]

(* A due timer's function starts, one at a time. *)
Fire(id) ==
  /\ status[id] = "armed"
  /\ left[id] = 0
  /\ \A other \in Id : status[other] # "firing"
  /\ status' = [status EXCEPT ![id] = "firing"]
  /\ UNCHANGED <<timeout, left, behind>>

Fired(id) ==
  /\ status[id] = "firing"
  /\ Gone(id)
  /\ UNCHANGED <<left, behind>>

Drop(id) ==
  /\ status[id] = "canceled"
  /\ left[id] = 0
  /\ Gone(id)
  /\ UNCHANGED <<left, behind>>

Next ==
  \/ \E id \in Id, d \in Delay : Add(id, d)
  \/ \E id \in Id : Refresh(id) \/ Cancel(id) \/ Fire(id) \/ Fired(id) \/ Drop(id)
  \/ Second
  \/ Tick

Spec == Init /\ [][Next]_vars

=============================================================================
