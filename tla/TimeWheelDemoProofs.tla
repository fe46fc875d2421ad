-------------------------- MODULE TimeWheelDemoProofs --------------------------
(***************************************************************************)
(* Proofs about TimeWheelDemo, for any timers, ids, timeouts and sizes:    *)
(* the map and the wheel agree, so that main ends cleanly, and a timer     *)
(* expires within a second of the time that its timeout determines.        *)
(***************************************************************************)
EXTENDS TimeWheelDemo, Integers, SequenceTheorems, TLAPS

(***************************************************************************)
(* MapMatchesWheel says where the timers are as a set; as an invariant it  *)
(* has to say of each timer that the map has it under its own id.          *)
(***************************************************************************)
MapIsExact ==
  /\ \A id \in DOMAIN timerMap :
       timerMap[id] \in DOMAIN timers /\ timers[timerMap[id]].id = id
  /\ \A x \in Timer : x \in DOMAIN timers <=> \E s \in Slot : x \in wheel[s]
  /\ ~twice => \A x \in DOMAIN timers :
                 timers[x].id \in DOMAIN timerMap /\ timerMap[timers[x].id] = x

(* Runs of RunOntimeTask until slot s is cleared. *)
Distance(s) == IF s >= curIndex THEN s - curIndex ELSE s - curIndex + WheelSize

Due(x) == timers[x].timeout % WheelSize

(***************************************************************************)
(* A timer's last slot is the one it was pushed to last, and the age is    *)
(* the number of runs since then, or one off while the caller is between   *)
(* sleep and RunOntimeTask, or was when the timer was pushed.              *)
(***************************************************************************)
LastSlot(x, s) ==
  /\ x \in wheel[s]
  /\ \A r \in Slot : x \in wheel[r] => Distance(r) <= Distance(s)
  /\ Distance(s) <= Due(x)
  /\ LET runs == Due(x) - Distance(s)
     IN  timers[x].age = runs \/ timers[x].age = (IF asleep THEN runs - 1 ELSE runs + 1)

AgeIsRuns == \A x \in DOMAIN timers : \E s \in Slot : LastSlot(x, s)

IInv == TypeOK /\ MapIsExact /\ AgeIsRuns

-----------------------------------------------------------------------------
(* Functions with keys added and removed *)

LEMMA WithType ==
  ASSUME NEW S, NEW f, f \in [DOMAIN f -> S], NEW k, NEW v \in S
  PROVE  With(f, k, v) \in [DOMAIN With(f, k, v) -> S]
  BY DEF With

LEMMA WithoutType ==
  ASSUME NEW T, NEW f, f \in [DOMAIN f -> T], NEW S
  PROVE  Without(f, S) \in [DOMAIN Without(f, S) -> T]
  BY DEF Without, Restrict

-----------------------------------------------------------------------------
(* The wheel *)

LEMMA SlotIsNat == Slot \subseteq Nat /\ 0 \in Slot /\ WheelSize \in Nat /\ \A s \in Slot : s < WheelSize
  BY SizeAssumption DEF Slot

(* Quotient and rest are unique. *)
LEMMA RestIsUnique ==
  ASSUME NEW q \in Int, NEW p \in Int, NEW r \in Slot, NEW s \in Slot,
         (WheelSize * q) + r = (WheelSize * p) + s
  PROVE  r = s
<1>1. WheelSize * (q - p) = s - r
  BY SizeAssumption DEF Slot
<1>2. q - p >= 1 => WheelSize * (q - p) >= WheelSize
  BY SizeAssumption
<1>3. q - p <= -1 => WheelSize * (q - p) <= -WheelSize
  BY SizeAssumption
<1> QED
  BY SizeAssumption, <1>1, <1>2, <1>3 DEF Slot

LEMMA QuotientAndRest ==
  ASSUME NEW n \in Nat
  PROVE  /\ n = (WheelSize * (n \div WheelSize)) + (n % WheelSize)
         /\ n \div WheelSize \in Nat /\ n % WheelSize \in Slot
  BY SizeAssumption DEF Slot

LEMMA RestOfSum ==
  ASSUME NEW c \in Slot, NEW n \in Nat
  PROVE  (c + n) % WheelSize =
           IF c + (n % WheelSize) < WheelSize
           THEN c + (n % WheelSize)
           ELSE c + (n % WheelSize) - WheelSize
<1> DEFINE q == n \div WheelSize
           r == n % WheelSize
           p == (c + n) \div WheelSize
           s == (c + n) % WheelSize
<1>1. c \in Nat /\ c + n \in Nat /\ c < WheelSize /\ WheelSize \in Nat \ {0}
  BY SizeAssumption DEF Slot
<1>2. n = (WheelSize * q) + r /\ q \in Nat /\ r \in Slot
  BY QuotientAndRest
<1>3. c + n = (WheelSize * p) + s /\ p \in Nat /\ s \in Slot
  BY <1>1, QuotientAndRest
<1>4. r \in Nat /\ r < WheelSize
  BY <1>1, <1>2 DEF Slot
<1> HIDE DEF q, r, p, s
<1>5. CASE c + r < WheelSize
  <2>1. c + r \in Slot
    BY <1>1, <1>4, <1>5 DEF Slot
  <2>2. (WheelSize * p) + s = (WheelSize * q) + (c + r)
    BY <1>1, <1>2, <1>3, <1>4
  <2>3. s = c + r
    BY <1>2, <1>3, <2>1, <2>2, RestIsUnique
  <2> QED
    BY <1>5, <2>3 DEF r, s
<1>6. CASE ~(c + r < WheelSize)
  <2>1. c + r - WheelSize \in Slot /\ q + 1 \in Int
    BY <1>1, <1>2, <1>4, <1>6 DEF Slot
  <2>2. (WheelSize * p) + s = (WheelSize * (q + 1)) + (c + r - WheelSize)
    BY <1>1, <1>2, <1>3, <1>4
  <2>3. s = c + r - WheelSize
    BY <1>2, <1>3, <2>1, <2>2, RestIsUnique
  <2> QED
    BY <1>6, <2>3 DEF r, s
<1> QED
  BY <1>5, <1>6 DEF r

(* A timer is pushed as many slots ahead as its timeout says, modulo the   *)
(* turn of the wheel.                                                      *)
LEMMA PushedAhead ==
  ASSUME curIndex \in Slot, NEW after \in Nat
  PROVE  /\ (curIndex + after) % WheelSize \in Slot
         /\ Distance((curIndex + after) % WheelSize) = after % WheelSize
         /\ after % WheelSize \in Slot
<1>1. curIndex \in 0 .. WheelSize - 1 /\ WheelSize \in Nat \ {0}
  BY SizeAssumption DEF Slot
<1>2. after % WheelSize \in 0 .. WheelSize - 1
  BY QuotientAndRest DEF Slot
<1>3. (curIndex + after) % WheelSize =
        IF curIndex + (after % WheelSize) < WheelSize
        THEN curIndex + (after % WheelSize)
        ELSE curIndex + (after % WheelSize) - WheelSize
  BY RestOfSum
<1>4. ASSUME NEW a, NEW p, a \in 0 .. WheelSize - 1, a = after % WheelSize,
             p = (curIndex + after) % WheelSize
      PROVE  p \in Slot /\ a \in Slot /\ Distance(p) = a
  <2>1. p = IF curIndex + a < WheelSize THEN curIndex + a ELSE curIndex + a - WheelSize
    BY <1>3, <1>4
  <2>2. CASE curIndex + a < WheelSize
    BY <1>1, <1>4, <2>1, <2>2 DEF Distance, Slot
  <2>3. CASE ~(curIndex + a < WheelSize)
    BY <1>1, <1>4, <2>1, <2>3 DEF Distance, Slot
  <2> QED
    BY <2>2, <2>3
<1> QED
  BY <1>2, <1>4, Zenon

(* When the index moves on, every slot but the cleared one comes closer.   *)
LEMMA IndexMovesOn ==
  ASSUME curIndex \in Slot, curIndex' = (curIndex + 1) % WheelSize
  PROVE  /\ curIndex' \in Slot
         /\ \A s \in Slot : s # curIndex => Distance(s)' = Distance(s) - 1
         /\ Distance(curIndex) = 0
         /\ \A s \in Slot : Distance(s) \in Nat
<1>1. curIndex \in 0 .. WheelSize - 1 /\ WheelSize \in Nat \ {0}
  BY SizeAssumption DEF Slot
<1>2. curIndex' = IF curIndex + 1 = WheelSize THEN 0 ELSE curIndex + 1
  BY <1>1
<1> QED
  BY <1>1, <1>2 DEF Distance, Slot

LEMMA PushStep ==
  ASSUME TypeOK, AgeIsRuns, NEW x \in Timer, NEW after \in Nat, PushBack(x, after),
         UNCHANGED <<curIndex, asleep>>,
         x \in DOMAIN timers', timers'[x].timeout = after, timers'[x].age = 0,
         \A r \in Slot : x \in wheel[r] => Distance(r) <= after % WheelSize,
         \A y \in DOMAIN timers' : y # x => y \in DOMAIN timers /\ timers'[y] = timers[y]
  PROVE  AgeIsRuns'
<1>1. curIndex \in Slot /\ wheel \in [Slot -> SUBSET Timer]
  BY DEF TypeOK
<1>2. PICK p \in Slot, due \in Slot :
        /\ p = (curIndex + after) % WheelSize
        /\ due = after % WheelSize
        /\ Distance(p) = due
  BY <1>1, PushedAhead
<1>3. wheel' = [wheel EXCEPT ![p] = @ \cup {x}]
  BY <1>2 DEF PushBack
<1>4. /\ x \in wheel'[p]
      /\ \A r \in Slot : x \in wheel'[r] => r = p \/ x \in wheel[r]
      /\ \A r \in Slot, y \in Timer : y # x => (y \in wheel'[r] <=> y \in wheel[r])
  BY <1>1, <1>2, <1>3
<1>5. \A r : Distance(r)' = Distance(r)
  BY DEF Distance
<1>6. LastSlot(x, p)'
  <2>1. Due(x)' = due
    BY <1>2 DEF Due
  <2>2. \A r \in Slot : x \in wheel'[r] => Distance(r) <= due
    BY <1>2, <1>4, SlotIsNat
  <2>3. due - due = 0
    BY SlotIsNat
  <2> QED
    BY <1>2, <1>4, <1>5, <2>1, <2>2, <2>3, SlotIsNat DEF LastSlot
<1>7. ASSUME NEW y \in DOMAIN timers', y # x
      PROVE  \E s \in Slot : LastSlot(y, s)'
  <2>1. y \in DOMAIN timers /\ timers'[y] = timers[y]
    BY <1>7
  <2>2. PICK s \in Slot : LastSlot(y, s)
    BY <2>1 DEF AgeIsRuns
  <2>3. y \in Timer
    BY <1>1, <2>2 DEF LastSlot
  <2>4. Due(y)' = Due(y)
    BY <2>1 DEF Due
  <2>5. LastSlot(y, s)'
    BY <1>4, <1>5, <1>7, <2>1, <2>2, <2>3, <2>4 DEF LastSlot
  <2> QED
    BY <2>5
<1> QED
  BY <1>2, <1>6, <1>7 DEF AgeIsRuns

-----------------------------------------------------------------------------
(* The steps *)

LEMMA InitIInv == Init => IInv
<1> SUFFICES ASSUME Init
             PROVE  IInv
  OBVIOUS
<1>1. DOMAIN timers = {} /\ DOMAIN timerMap = {} /\ timers = <<>> /\ timerMap = <<>>
  BY DEF Init
<1>2. TypeOK
  <2>1. timerMap \in [{} -> Timer] /\ timers \in [{} -> TimerState]
    BY <1>1
  <2> QED
    BY <1>1, <2>1, SlotIsNat DEF Init, TypeOK
<1>3. MapIsExact /\ AgeIsRuns
  BY <1>1 DEF Init, MapIsExact, AgeIsRuns
<1> QED
  BY <1>2, <1>3 DEF IInv

LEMMA AddTimerStep ==
  ASSUME IInv, NEW x \in Timer, NEW id \in Id, NEW t \in Timeout, AddTimer(x, id, t)
  PROVE  IInv'
<1> DEFINE new == [id |-> id, timeout |-> t, canceled |-> FALSE, age |-> 0]
<1>1. t \in Nat /\ t <= MaxTimeout /\ new \in TimerState
  BY SizeAssumption DEF AddTimer, TimerState
<1>2. /\ timerMap' = With(timerMap, id, x) /\ timers' = With(timers, x, new)
      /\ x \notin DOMAIN timers
      /\ process = "running" /\ UNCHANGED <<process, curIndex, asleep>>
      /\ twice' = (twice \/ \E y \in DOMAIN timers : timers[y].id = id)
      /\ PushBack(x, t)
  BY DEF AddTimer
<1>3. PICK p \in Slot : p = (curIndex + t) % WheelSize
  BY <1>1, PushedAhead DEF IInv, TypeOK
<1>4. /\ DOMAIN timers' = DOMAIN timers \cup {x} /\ timers'[x] = new
      /\ \A y \in DOMAIN timers : timers'[y] = timers[y]
  BY <1>2 DEF With
<1>5. /\ DOMAIN timerMap' = DOMAIN timerMap \cup {id} /\ timerMap'[id] = x
      /\ \A i \in DOMAIN timerMap : i # id => timerMap'[i] = timerMap[i]
  BY <1>2 DEF With
<1>6. timers' \in [DOMAIN timers' -> TimerState] /\ timerMap' \in [DOMAIN timerMap' -> Timer]
  <2>1. timers \in [DOMAIN timers -> TimerState] /\ timerMap \in [DOMAIN timerMap -> Timer]
    BY DEF IInv, TypeOK
  <2> HIDE DEF new
  <2> QED
    BY <1>1, <1>2, <2>1, WithType
<1>7. wheel' = [wheel EXCEPT ![p] = @ \cup {x}] /\ wheel \in [Slot -> SUBSET Timer]
  BY <1>2, <1>3 DEF PushBack, IInv, TypeOK
<1>8. TypeOK'
  BY <1>2, <1>4, <1>5, <1>6, <1>7 DEF IInv, TypeOK
<1>9. MapIsExact'
  <2>1. \A i \in DOMAIN timerMap' : timerMap'[i] \in DOMAIN timers' /\ timers'[timerMap'[i]].id = i
    BY <1>4, <1>5 DEF IInv, MapIsExact
  <2>2. \A y \in Timer : y \in DOMAIN timers' <=> \E s \in Slot : y \in wheel'[s]
    BY <1>4, <1>7 DEF IInv, MapIsExact
  <2>3. ASSUME ~twice', NEW y \in DOMAIN timers'
        PROVE  timers'[y].id \in DOMAIN timerMap' /\ timerMap'[timers'[y].id] = y
    <3>1. ~twice /\ \A z \in DOMAIN timers : timers[z].id # id
      BY <1>2, <2>3
    <3>2. CASE y = x
      BY <1>4, <1>5, <3>2
    <3>3. CASE y # x
      <4>1. y \in DOMAIN timers /\ timers'[y] = timers[y] /\ timers[y].id # id
        BY <1>4, <2>3, <3>1, <3>3
      <4>2. timers[y].id \in DOMAIN timerMap /\ timerMap[timers[y].id] = y
        BY <3>1, <4>1 DEF IInv, MapIsExact
      <4> QED
        BY <1>5, <4>1, <4>2
    <3> QED
      BY <3>2, <3>3
  <2> QED
    BY <2>1, <2>2, <2>3 DEF MapIsExact
<1>10. AgeIsRuns'
  <2>1. \A r \in Slot : x \in wheel[r] => Distance(r) <= t % WheelSize
    BY <1>2 DEF IInv, MapIsExact
  <2>2. timers'[x].timeout = t /\ timers'[x].age = 0
    BY <1>4
  <2> QED
    BY <1>1, <1>2, <1>4, <2>1, <2>2, PushStep DEF IInv
<1> QED
  BY <1>2, <1>8, <1>9, <1>10 DEF IInv

(* The assertion of TimerRefresh fails. *)
LEMMA AbortStep ==
  ASSUME IInv, NEW id \in Id, TimerRefresh(id), id \notin DOMAIN timerMap
  PROVE  IInv' /\ UNCHANGED timers
<1>1. process' = "aborted" /\ UNCHANGED <<curIndex, wheel, timerMap, timers, asleep, twice>>
  BY DEF TimerRefresh
<1> QED
  BY <1>1 DEF IInv, TypeOK, MapIsExact, AgeIsRuns, LastSlot, Distance, Due

LEMMA RefreshStep ==
  ASSUME IInv, NEW id \in Id, TimerRefresh(id), id \in DOMAIN timerMap
  PROVE  IInv'
<1>1. PICK x \in DOMAIN timers : x = timerMap[id] /\ x \in Timer
  BY DEF TimerRefresh, IInv, MapIsExact, TypeOK
<1>2. timers[x] \in TimerState
  BY DEF IInv, TypeOK
<1>3. PICK after \in Nat : after = timers[x].timeout
  BY <1>2, SizeAssumption DEF TimerState
<1>4. /\ process = "running" /\ PushBack(x, after)
      /\ timers' = [timers EXCEPT ![x].age = 0]
      /\ UNCHANGED <<process, curIndex, timerMap, asleep, twice>>
  BY <1>1, <1>3 DEF TimerRefresh
<1>5. PICK p \in Slot : p = (curIndex + after) % WheelSize
  BY PushedAhead DEF IInv, TypeOK
<1>6. wheel' = [wheel EXCEPT ![p] = @ \cup {x}] /\ wheel \in [Slot -> SUBSET Timer]
  BY <1>4, <1>5 DEF PushBack, IInv, TypeOK
<1>7. /\ DOMAIN timers' = DOMAIN timers
      /\ timers'[x] \in TimerState /\ timers'[x].age = 0
      /\ timers'[x].timeout = after /\ timers'[x].id = timers[x].id
      /\ \A y \in DOMAIN timers : y # x => timers'[y] = timers[y]
  BY <1>2, <1>3, <1>4 DEF IInv, TypeOK, TimerState
<1>8. TypeOK'
  <2>1. timers' \in [DOMAIN timers' -> TimerState]
    BY <1>4, <1>7 DEF IInv, TypeOK
  <2> QED
    BY <1>1, <1>4, <1>6, <1>7, <2>1 DEF IInv, TypeOK
<1>9. MapIsExact'
  BY <1>1, <1>4, <1>6, <1>7 DEF IInv, MapIsExact
<1>10. AgeIsRuns'
  <2>1. \A r \in Slot : x \in wheel[r] => Distance(r) <= after % WheelSize
    <3>1. PICK s \in Slot : LastSlot(x, s)
      BY DEF IInv, AgeIsRuns
    <3>2. curIndex \in Slot
      BY DEF IInv, TypeOK
    <3> QED
      BY <1>3, <3>1, <3>2, SlotIsNat, QuotientAndRest DEF LastSlot, Due, Distance
  <2> QED
    BY <1>1, <1>4, <1>7, <2>1, PushStep DEF IInv
<1> QED
  BY <1>4, <1>8, <1>9, <1>10 DEF IInv

LEMMA CancelStep ==
  ASSUME IInv, NEW id \in Id, CancelTimer(id)
  PROVE  IInv'
<1>1. PICK x \in DOMAIN timers : x = timerMap[id]
  BY DEF CancelTimer, IInv, MapIsExact
<1>2. /\ process = "running" /\ timers' = [timers EXCEPT ![x].canceled = TRUE]
      /\ UNCHANGED <<process, curIndex, wheel, timerMap, asleep, twice>>
  BY <1>1 DEF CancelTimer
<1>3. /\ DOMAIN timers' = DOMAIN timers
      /\ \A y \in DOMAIN timers : /\ timers'[y] \in TimerState /\ timers'[y].id = timers[y].id
                                  /\ timers'[y].age = timers[y].age
                                  /\ timers'[y].timeout = timers[y].timeout
  BY <1>2 DEF IInv, TypeOK, TimerState
<1>4. TypeOK'
  BY <1>2, <1>3 DEF IInv, TypeOK
<1>5. MapIsExact'
  BY <1>2, <1>3 DEF IInv, MapIsExact
<1>6. AgeIsRuns'
  BY <1>2, <1>3 DEF IInv, AgeIsRuns, LastSlot, Distance, Due
<1> QED
  BY <1>2, <1>4, <1>5, <1>6 DEF IInv

LEMMA SleepStep ==
  ASSUME IInv, Sleep
  PROVE  IInv'
<1>1. /\ process = "running" /\ asleep /\ asleep' = FALSE
      /\ UNCHANGED <<process, curIndex, wheel, timerMap, twice>>
  BY DEF Sleep
<1>2. /\ DOMAIN timers' = DOMAIN timers
      /\ \A y \in DOMAIN timers : /\ timers'[y] \in TimerState /\ timers'[y].id = timers[y].id
                                  /\ timers'[y].age = timers[y].age + 1
                                  /\ timers'[y].timeout = timers[y].timeout
  BY DEF Sleep, IInv, TypeOK, TimerState
<1>3. TypeOK'
  <2>1. timers' \in [DOMAIN timers' -> TimerState]
    BY <1>2 DEF Sleep
  <2> QED
    BY <1>1, <1>2, <2>1 DEF IInv, TypeOK
<1>4. MapIsExact'
  BY <1>1, <1>2 DEF IInv, MapIsExact
<1>5. ASSUME NEW x \in DOMAIN timers', NEW s \in Slot, LastSlot(x, s)
      PROVE  LastSlot(x, s)'
  <2>1. /\ Due(x)' = Due(x) /\ x \in DOMAIN timers
        /\ \A r : Distance(r)' = Distance(r)
    BY <1>1, <1>2 DEF Due, Distance
  <2>2. Due(x) \in Nat /\ Distance(s) \in Int /\ timers[x].age \in Nat
    <3>1. timers[x] \in TimerState /\ curIndex \in Slot
      BY <2>1 DEF IInv, TypeOK
    <3> QED
      BY <3>1, SlotIsNat, QuotientAndRest, SizeAssumption DEF TimerState, Due, Distance
  <2> QED
    BY <1>1, <1>2, <1>5, <2>1, <2>2 DEF LastSlot
<1>6. AgeIsRuns'
  BY <1>2, <1>5 DEF IInv, AgeIsRuns
<1> QED
  BY <1>1, <1>3, <1>4, <1>6 DEF IInv

(* Clearing the slot at the index destroys the timers that no other slot   *)
(* points to.                                                              *)
LEMMA RunStep ==
  ASSUME IInv, RunOntimeTask
  PROVE  /\ IInv'
         /\ \A x \in DOMAIN timers \ DOMAIN timers' : timers[x].age \in Due(x) .. Due(x) + 1
<1> DEFINE gone == OnlyIn(curIndex)
<1>1. /\ process = "running" /\ ~asleep /\ asleep' = TRUE
      /\ wheel' = [wheel EXCEPT ![curIndex] = {}]
      /\ timers' = Without(timers, gone)
      /\ timerMap' = Without(timerMap, {timers[x].id : x \in gone})
      /\ curIndex' = (curIndex + 1) % WheelSize
      /\ UNCHANGED <<process, twice>>
  BY DEF RunOntimeTask, ClearSlot, Destroy
<1>2. curIndex \in Slot /\ wheel \in [Slot -> SUBSET Timer]
  BY DEF IInv, TypeOK
<1>3. /\ curIndex' \in Slot /\ Distance(curIndex) = 0
      /\ \A s \in Slot : s # curIndex => Distance(s)' = Distance(s) - 1
      /\ \A s \in Slot : Distance(s) \in Nat
  BY <1>1, <1>2, IndexMovesOn
<1>4. gone = {x \in wheel[curIndex] : \A s \in Slot \ {curIndex} : x \notin wheel[s]}
  BY DEF OnlyIn
<1>5. /\ DOMAIN timers' = DOMAIN timers \ gone
      /\ \A x \in DOMAIN timers' : timers'[x] = timers[x]
  BY <1>1 DEF Without, Restrict
<1>6. /\ DOMAIN timerMap' = DOMAIN timerMap \ {timers[x].id : x \in gone}
      /\ \A id \in DOMAIN timerMap' : timerMap'[id] = timerMap[id]
  BY <1>1 DEF Without, Restrict
<1>7. TypeOK'
  <2>1. timers' \in [DOMAIN timers' -> TimerState]
    BY <1>1, WithoutType DEF IInv, TypeOK
  <2>2. timerMap' \in [DOMAIN timerMap' -> Timer]
    BY <1>1, WithoutType DEF IInv, TypeOK
  <2> QED
    BY <1>1, <1>2, <1>3, <1>5, <1>6, <2>1, <2>2 DEF IInv, TypeOK
<1>8. \A x \in Timer, s \in Slot : x \in wheel'[s] <=> s # curIndex /\ x \in wheel[s]
  BY <1>1, <1>2
<1>9. \A x \in DOMAIN timers : x \in Timer /\ (x \in gone <=> \A s \in Slot : s # curIndex => x \notin wheel[s])
  BY <1>2, <1>4 DEF IInv, TypeOK, MapIsExact
<1>10. \A x \in gone : x \in DOMAIN timers
  BY <1>2, <1>4 DEF IInv, MapIsExact
<1> HIDE DEF gone
<1>11. MapIsExact'
  <2>1. ASSUME NEW id \in DOMAIN timerMap'
        PROVE  timerMap'[id] \in DOMAIN timers' /\ timers'[timerMap'[id]].id = id
    <3>1. /\ id \in DOMAIN timerMap /\ timerMap'[id] = timerMap[id]
          /\ \A x \in gone : timers[x].id # id
      BY <1>6
    <3>2. timerMap[id] \in DOMAIN timers /\ timers[timerMap[id]].id = id
      BY <3>1 DEF IInv, MapIsExact
    <3> QED
      BY <1>5, <3>1, <3>2
  <2>2. ASSUME NEW x \in Timer
        PROVE  x \in DOMAIN timers' <=> \E s \in Slot : x \in wheel'[s]
    BY <1>5, <1>8, <1>9 DEF IInv, MapIsExact
  <2>3. ASSUME ~twice', NEW x \in DOMAIN timers'
        PROVE  timers'[x].id \in DOMAIN timerMap' /\ timerMap'[timers'[x].id] = x
    <3>1. ~twice /\ x \in DOMAIN timers /\ x \notin gone /\ timers'[x] = timers[x]
      BY <1>1, <1>5, <2>3
    <3>2. timers[x].id \in DOMAIN timerMap /\ timerMap[timers[x].id] = x
      BY <3>1 DEF IInv, MapIsExact
    <3>3. \A y \in gone : timers[y].id # timers[x].id
      BY <1>10, <3>1, <3>2 DEF IInv, MapIsExact
    <3> QED
      BY <1>6, <3>1, <3>2, <3>3
  <2> QED
    BY <2>1, <2>2, <2>3 DEF MapIsExact
<1>12. ASSUME NEW x \in DOMAIN timers
       PROVE  Due(x) \in Nat /\ timers[x].age \in Nat
  <2>1. timers[x] \in TimerState
    BY DEF IInv, TypeOK
  <2> QED
    BY <2>1, SlotIsNat, QuotientAndRest, SizeAssumption DEF TimerState, Due
<1>13. ASSUME NEW x \in DOMAIN timers'
       PROVE  \E s \in Slot : LastSlot(x, s)'
  <2>1. x \in DOMAIN timers /\ x \notin gone /\ timers'[x] = timers[x] /\ x \in Timer
    BY <1>5, <1>9
  <2>2. PICK s \in Slot : LastSlot(x, s)
    BY <2>1 DEF IInv, AgeIsRuns
  <2>3. PICK r \in Slot : r # curIndex /\ x \in wheel[r]
    BY <1>9, <2>1
  <2>4. s # curIndex
    <3>1. Distance(r) <= Distance(s)
      BY <2>2, <2>3 DEF LastSlot
    <3>2. Distance(r) # 0
      BY <1>2, <2>3, SlotIsNat DEF Distance
    <3> QED
      BY <1>3, <3>1, <3>2
  <2>5. Due(x)' = Due(x) /\ Distance(s)' = Distance(s) - 1 /\ Distance(s) \in Nat
    BY <1>3, <2>1, <2>4 DEF Due
  <2>6. x \in wheel'[s]
    BY <1>8, <2>1, <2>2, <2>4 DEF LastSlot
  <2>7. \A q \in Slot : x \in wheel'[q] => Distance(q)' <= Distance(s)'
    BY <1>3, <1>8, <2>1, <2>2, <2>5 DEF LastSlot
  <2>8. Due(x) \in Nat /\ timers[x].age \in Nat
    BY <1>12, <2>1
  <2>9. Distance(s)' <= Due(x)'
    BY <2>2, <2>5, <2>8 DEF LastSlot
  <2>10. LET runs == Due(x) - Distance(s) IN timers[x].age = runs \/ timers[x].age = runs + 1
    BY <1>1, <2>2 DEF LastSlot
  <2>11. LET runs == Due(x)' - Distance(s)'
         IN  timers'[x].age = runs \/ timers'[x].age = runs - 1
    BY <2>1, <2>5, <2>8, <2>10
  <2>12. LastSlot(x, s)'
    BY <1>1, <2>6, <2>7, <2>9, <2>11 DEF LastSlot
  <2> QED
    BY <2>12
<1>14. ASSUME NEW x \in DOMAIN timers \ DOMAIN timers'
       PROVE  timers[x].age \in Due(x) .. Due(x) + 1
  <2>1. x \in gone /\ x \in DOMAIN timers
    BY <1>5
  <2>2. PICK s \in Slot : LastSlot(x, s)
    BY <2>1 DEF IInv, AgeIsRuns
  <2>3. s = curIndex
    BY <1>9, <2>1, <2>2 DEF LastSlot
  <2>4. Due(x) \in Nat /\ timers[x].age \in Nat
    BY <1>12, <2>1
  <2>5. LET runs == Due(x) - Distance(s) IN timers[x].age = runs \/ timers[x].age = runs + 1
    BY <1>1, <2>2 DEF LastSlot
  <2> QED
    BY <1>3, <2>3, <2>4, <2>5
<1>15. AgeIsRuns'
  BY <1>13 DEF AgeIsRuns
<1> QED
  BY <1>1, <1>7, <1>11, <1>14, <1>15 DEF IInv

LEMMA EndStep ==
  ASSUME IInv, End
  PROVE  IInv'
<1>1. /\ timers' = <<>> /\ timerMap' = <<>> /\ wheel' = [s \in Slot |-> {}]
      /\ process' \in {"ended", "crashed"}
      /\ UNCHANGED <<curIndex, asleep, twice>>
  BY DEF End
<1>2. /\ DOMAIN timers' = {} /\ timers' \in [{} -> TimerState]
      /\ DOMAIN timerMap' = {} /\ timerMap' \in [{} -> Timer]
  BY <1>1
<1>3. TypeOK'
  BY <1>1, <1>2 DEF IInv, TypeOK
<1>4. MapIsExact' /\ AgeIsRuns'
  BY <1>1, <1>2 DEF MapIsExact, AgeIsRuns
<1> QED
  BY <1>3, <1>4 DEF IInv

LEMMA StutterStep ==
  ASSUME IInv, UNCHANGED vars
  PROVE  IInv'
  BY DEF IInv, vars, TypeOK, MapIsExact, AgeIsRuns, LastSlot, Distance, Due

LEMMA StepIInv == IInv /\ [Next]_vars => IInv'
  BY AddTimerStep, AbortStep, RefreshStep, CancelStep, SleepStep, RunStep, EndStep, StutterStep DEF Next

-----------------------------------------------------------------------------
(* The theorems *)

THEOREM Invariance == Spec => []IInv
  BY InitIInv, StepIInv, PTL DEF Spec

(***************************************************************************)
(* The wheel, the map and the timers have their types; the index stays     *)
(* inside the wheel.                                                       *)
(***************************************************************************)
THEOREM TypeCorrect == Spec => []TypeOK
  BY Invariance, PTL DEF IInv

(***************************************************************************)
(* The map leads to timers that exist, under their own ids; every timer is *)
(* in the wheel; and HasTimer misses none unless an id was added twice.    *)
(***************************************************************************)
THEOREM MapAndWheelAgree == Spec => []MapMatchesWheel
<1>1. ASSUME IInv
      PROVE  MapMatchesWheel
  <2>1. DOMAIN timers = UNION Range(wheel)
    <3>1. /\ DOMAIN timers \subseteq Timer /\ wheel \in [Slot -> SUBSET Timer]
          /\ \A x \in Timer : x \in DOMAIN timers <=> \E s \in Slot : x \in wheel[s]
      BY <1>1 DEF IInv, TypeOK, MapIsExact
    <3>2. Range(wheel) = {wheel[s] : s \in Slot}
      BY <3>1 DEF Range
    <3>3. \A x : x \in UNION Range(wheel) <=> \E s \in Slot : x \in wheel[s]
      BY <3>2
    <3> QED
      BY <3>1, <3>3
  <2>2. ~twice => DOMAIN timers \subseteq Range(timerMap)
    BY <1>1 DEF IInv, MapIsExact, Range
  <2> QED
    BY <1>1, <2>1, <2>2 DEF IInv, MapIsExact, MapMatchesWheel
<1> QED
  BY <1>1, Invariance, PTL

LEMMA EmptyFunction ==
  ASSUME NEW S, NEW f \in [{} -> S]
  PROVE  f = <<>>
<1>1. 1 .. 0 = {}
  OBVIOUS
<1>2. f \in [1 .. 0 -> S]
  BY <1>1, Zenon
<1>3. f \in Seq(S)
  BY <1>2, SeqDef
<1> QED
  BY <1>2, <1>3, LenProperties, EmptySeq

(***************************************************************************)
(* When HasTimer is false for every id and none was added twice, no timer  *)
(* is left, and the wheel can be destroyed.                                *)
(***************************************************************************)
THEOREM WheelEndsCleanly == Spec => EndsCleanly
<1>1. ASSUME IInv, End, timerMap = <<>>, ~twice
      PROVE  process' = "ended"
  <2>1. DOMAIN timerMap = {}
    BY <1>1
  <2>2. DOMAIN timers = {}
    BY <1>1, <2>1 DEF IInv, MapIsExact
  <2>3. timers = <<>>
    BY <1>1, <2>2, EmptyFunction DEF IInv, TypeOK
  <2> QED
    BY <1>1, <2>3 DEF End
<1> QED
  BY <1>1, Invariance, PTL DEF Spec, EndsCleanly

(***************************************************************************)
(* However timers are added and refreshed, each goes as many seconds after *)
(* the last of it as its timeout says modulo the turn of the wheel, or one *)
(* more: no other timer's refresh delays or hastens it.                    *)
(***************************************************************************)
THEOREM ExpiryIsOnTime == Spec => ExpiresWithinASecond
<1> DEFINE OnTime == \A x \in DOMAIN timers \ DOMAIN timers' :
                       process' = "running" =>
                         LET due == timers[x].timeout % WheelSize
                         IN  timers[x].age \in due .. due + 1
<1>1. ASSUME IInv, [Next]_vars
      PROVE  [OnTime]_vars
  <2>1. ASSUME NEW x \in Timer, NEW id \in Id, NEW t \in Timeout, AddTimer(x, id, t)
        PROVE  OnTime
    BY <2>1 DEF AddTimer, With
  <2>2. ASSUME NEW id \in Id, TimerRefresh(id) \/ CancelTimer(id)
        PROVE  OnTime
    BY <2>2 DEF TimerRefresh, CancelTimer
  <2>3. CASE Sleep
    BY <2>3 DEF Sleep
  <2>4. CASE RunOntimeTask
    BY <1>1, <2>4, RunStep DEF Due
  <2>5. CASE End
    BY <2>5 DEF End
  <2> QED
    BY <1>1, <2>1, <2>2, <2>3, <2>4, <2>5 DEF Next
<1> QED
  BY <1>1, Invariance, PTL DEF Spec, ExpiresWithinASecond

=============================================================================
