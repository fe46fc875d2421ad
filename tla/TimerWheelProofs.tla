---------------------------- MODULE TimerWheelProofs ----------------------------
(***************************************************************************)
(* Proofs about TimerWheel, for any ids, delays and capacity: the map has  *)
(* exactly the timers that the wheel has, and the wheel implements the     *)
(* timer service.                                                          *)
(***************************************************************************)
EXTENDS TimerWheel, Integers, SequenceTheorems, WellFoundedInduction, TLAPS

(* Slot s has a pointer to the task of id. *)
Points(s, id) == id \in Range(wheel[s])

(* The function that runs is that of a task which no slot points to any    *)
(* more.                                                                   *)
FiringIsGone ==
  /\ phase \in {"task", "crashed"} <=> firing \in Id
  /\ \A s \in Slot : ~Points(s, firing)

(* Only a task that exists is marked as canceled: the next one that is     *)
(* added under its id is not.                                              *)
CanceledExist == \A id \in canceled : Alive(id)

(* No pointer is farther away than a refresh would put one. *)
WithinWait == \A id \in Id, s \in Slot : Points(s, id) => Distance(s) <= TS!Wait(timeout[id])

(* Between two calls of OnTimerTask nothing is left of the loop in it. *)
LoopIsDone == phase = "idle" => times = 0

(***************************************************************************)
(* MapMatchesWheel alone is not inductive: while a function runs, its id   *)
(* is in the map and its task is gone.  The refinement needs the rest.     *)
(***************************************************************************)
IInv ==
  /\ TypeOK /\ MapMatchesWheel /\ FiringIsGone
  /\ CanceledExist /\ WithinWait /\ LoopIsDone

-----------------------------------------------------------------------------
(* Slots and distances *)

LEMMA SlotIsNat ==
  /\ Capacity \in Nat \ {0}
  /\ Slot \subseteq Nat /\ 0 \in Slot /\ \A s \in Slot : s < Capacity
  BY CapacityAssumption DEF Slot

(* Quotient and rest are unique. *)
LEMMA RestIsUnique ==
  ASSUME NEW q \in Int, NEW p \in Int, NEW r \in Slot, NEW s \in Slot,
         (Capacity * q) + r = (Capacity * p) + s
  PROVE  r = s
<1>1. Capacity * (q - p) = s - r
  BY CapacityAssumption DEF Slot
<1>2. q - p >= 1 => Capacity * (q - p) >= Capacity
  BY CapacityAssumption
<1>3. q - p <= -1 => Capacity * (q - p) <= -Capacity
  BY CapacityAssumption
<1> QED
  BY CapacityAssumption, <1>1, <1>2, <1>3 DEF Slot

LEMMA Rest ==
  ASSUME NEW n \in Nat
  PROVE  n % Capacity \in Slot /\ \E q \in Int : n = (Capacity * q) + (n % Capacity)
<1>1. /\ n = (Capacity * (n \div Capacity)) + (n % Capacity)
      /\ n \div Capacity \in Int /\ n % Capacity \in 0 .. Capacity - 1
  BY CapacityAssumption
<1> QED
  BY <1>1 DEF Slot

(* The slot d ahead of c. *)
LEMMA SlotAhead ==
  ASSUME NEW c \in Slot, NEW d \in Nat
  PROVE  LET r == d % Capacity
         IN  (c + d) % Capacity = IF c + r < Capacity THEN c + r ELSE c + r - Capacity
<1>1. PICK r \in Slot : r = d % Capacity /\ \E q \in Int : d = (Capacity * q) + r
  BY Rest
<1>2. PICK q \in Int : d = (Capacity * q) + r
  BY <1>1
<1>3. c + d \in Nat /\ c \in Nat /\ r \in Nat /\ Capacity \in Nat /\ c < Capacity /\ r < Capacity
  BY SlotIsNat
<1>4. PICK s \in Slot : s = (c + d) % Capacity /\ \E p \in Int : c + d = (Capacity * p) + s
  BY <1>3, Rest
<1>5. PICK p \in Int : c + d = (Capacity * p) + s
  BY <1>4
<1>6. s = IF c + r < Capacity THEN c + r ELSE c + r - Capacity
  <2>1. CASE c + r < Capacity
    <3>1. c + r \in Slot /\ (Capacity * p) + s = (Capacity * q) + (c + r)
      BY <1>2, <1>3, <1>5, <2>1, SlotIsNat DEF Slot
    <3>2. s = c + r
      BY <3>1, RestIsUnique
    <3> QED
      BY <2>1, <3>2
  <2>2. CASE ~(c + r < Capacity)
    <3>1. /\ c + r - Capacity \in Slot /\ q + 1 \in Int
          /\ (Capacity * p) + s = (Capacity * (q + 1)) + (c + r - Capacity)
      BY <1>2, <1>3, <1>5, <2>2, SlotIsNat DEF Slot
    <3>2. s = c + r - Capacity
      BY <3>1, RestIsUnique
    <3> QED
      BY <2>2, <3>2
  <2> QED
    BY <2>1, <2>2
<1> QED
  BY <1>1, <1>4, <1>6

LEMMA SmallRest ==
  ASSUME NEW n \in Slot
  PROVE  n % Capacity = n
<1>1. n \in Nat /\ 0 \in Slot /\ 0 \in Nat
  BY SlotIsNat
<1>2. PICK r \in Slot : r = n % Capacity /\ \E q \in Int : n = (Capacity * q) + r
  BY <1>1, Rest
<1>3. PICK q \in Int : n = (Capacity * q) + r
  BY <1>2
<1>4. PICK z \in Int : (Capacity * z) + n = (Capacity * q) + r
  <2>1. (Capacity * 0) + n = (Capacity * q) + r
    BY <1>1, <1>3, SlotIsNat
  <2> QED
    BY <2>1
<1> QED
  BY <1>2, <1>4, RestIsUnique

LEMMA DistanceValue ==
  ASSUME tick \in Slot, NEW s \in Slot
  PROVE  /\ Distance(s) = IF s = tick THEN IF phase \in {"clear", "task", "crashed"} THEN 0 ELSE Capacity
                          ELSE IF s > tick THEN s - tick ELSE s + Capacity - tick
         /\ Distance(s) \in 0 .. Capacity
         /\ s # tick => Distance(s) > 0
<1>1. s \in Nat /\ tick \in Nat /\ s < Capacity /\ tick < Capacity /\ Capacity \in Nat
  BY SlotIsNat
<1>2. CASE s = tick
  BY <1>1, <1>2 DEF Distance
<1>3. CASE s > tick
  <2>1. s - tick \in Slot /\ Capacity \in Nat
    BY <1>1, <1>3 DEF Slot
  <2>2. PICK d \in Slot : d = s - tick
    BY <2>1
  <2>3. PICK r \in Slot : r = Capacity % Capacity /\ r = 0
    BY <1>1, SlotIsNat
  <2>4. d + r < Capacity /\ d + r = d
    BY <2>3, SlotIsNat
  <2>5. (d + Capacity) % Capacity = d
    BY <1>1, <2>3, <2>4, SlotAhead
  <2>6. s + Capacity - tick = d + Capacity
    BY <1>1, <2>2
  <2>7. Distance(s) = s - tick
    BY <1>1, <1>3, <2>2, <2>5, <2>6 DEF Distance
  <2> QED
    BY <1>1, <1>3, <2>7
<1>4. CASE s < tick
  <2>1. s + Capacity - tick \in Slot
    BY <1>1, <1>4 DEF Slot
  <2>2. Distance(s) = s + Capacity - tick
    BY <1>1, <1>4, <2>1, SmallRest DEF Distance
  <2> QED
    BY <1>1, <1>4, <2>2
<1> QED
  BY <1>1, <1>2, <1>3, <1>4

(* Where a timer with delay d is pushed, it waits as long as it should. *)
LEMMA PushedToWait ==
  ASSUME TypeOK, InUserCode, NEW d \in Nat, phase = "task" => d \in NestedDelay
  PROVE  /\ (tick + d) % Capacity \in Slot
         /\ Distance((tick + d) % Capacity) = TS!Wait(d)
<1>1. tick \in Slot /\ tick \in Nat /\ d \in Nat /\ Capacity \in Nat \ {0} /\ tick < Capacity
  BY SlotIsNat, DelayAssumption DEF TypeOK
<1>2. PICK r \in Slot : r = d % Capacity
  BY <1>1, Rest
<1>3. PICK p : p = (tick + d) % Capacity
  OBVIOUS
<1>4. p = IF tick + r < Capacity THEN tick + r ELSE tick + r - Capacity
  BY <1>1, <1>2, <1>3, SlotAhead
<1>5. r \in Nat /\ r < Capacity
  BY SlotIsNat
<1>6. p \in Slot
  BY <1>1, <1>4, <1>5 DEF Slot
<1>7. CASE r = 0
  <2>1. p = tick /\ phase \notin {"clear", "task", "crashed"}
    BY <1>1, <1>2, <1>4, <1>7, NestedDelayAssumption DEF InUserCode
  <2> QED
    BY <1>1, <1>2, <1>3, <1>6, <1>7, <2>1 DEF Distance, TS!Wait
<1>8. CASE r # 0
  <2>1. p # tick /\ (IF p > tick THEN p - tick ELSE p + Capacity - tick) = r
    <3>1. CASE tick + r < Capacity
      BY <1>1, <1>4, <1>5, <1>8, <3>1
    <3>2. CASE ~(tick + r < Capacity)
      BY <1>1, <1>4, <1>5, <1>8, <3>2
    <3> QED
      BY <3>1, <3>2
  <2>2. Distance(p) = r
    BY <1>1, <1>6, <2>1, DistanceValue
  <2> QED
    BY <1>2, <1>3, <1>6, <1>8, <2>2 DEF TS!Wait
<1> QED
  BY <1>7, <1>8

-----------------------------------------------------------------------------
(* Lists of pointers *)

LEMMA RangeOfAppend ==
  ASSUME NEW q \in Seq(Id), NEW id \in Id
  PROVE  Append(q, id) \in Seq(Id) /\ \A x : x \in Range(Append(q, id)) <=> x \in Range(q) \/ x = id
<1>1. /\ Append(q, id) \in Seq(Id) /\ Len(Append(q, id)) = Len(q) + 1 /\ Len(q) \in Nat
      /\ \A i \in 1 .. Len(q) : Append(q, id)[i] = q[i]
      /\ Append(q, id)[Len(q) + 1] = id
  BY AppendProperties, LenProperties
<1>2. DOMAIN q = 1 .. Len(q) /\ DOMAIN Append(q, id) = 1 .. Len(q) + 1
  BY <1>1, LenProperties
<1>3. /\ Len(q) + 1 \in 1 .. Len(q) + 1
      /\ \A i \in 1 .. Len(q) + 1 : i \in 1 .. Len(q) \/ i = Len(q) + 1
      /\ \A i \in 1 .. Len(q) : i \in 1 .. Len(q) + 1
  BY <1>1
<1> QED
  BY <1>1, <1>2, <1>3 DEF Range

LEMMA RangeOfTail ==
  ASSUME NEW q \in Seq(Id), q # <<>>
  PROVE  /\ Head(q) \in Id /\ Tail(q) \in Seq(Id)
         /\ \A x : x \in Range(q) <=> x \in Range(Tail(q)) \/ x = Head(q)
<1>1. /\ Head(q) \in Id /\ Tail(q) \in Seq(Id) /\ Len(Tail(q)) = Len(q) - 1
      /\ \A i \in 1 .. Len(Tail(q)) : Tail(q)[i] = q[i + 1]
  BY HeadTailProperties
<1>2. Len(q) \in Nat \ {0} /\ DOMAIN q = 1 .. Len(q) /\ DOMAIN Tail(q) = 1 .. Len(q) - 1
  BY <1>1, LenProperties, EmptySeq
<1>3. Head(q) = q[1]
  BY <1>2
<1>4. /\ 1 \in 1 .. Len(q)
      /\ \A i \in 1 .. Len(q) : i = 1 \/ (i - 1 \in 1 .. Len(q) - 1 /\ (i - 1) + 1 = i)
      /\ \A i \in 1 .. Len(q) - 1 : i + 1 \in 1 .. Len(q)
  BY <1>2
<1>5. \A i \in 1 .. Len(q) : i = 1 \/ (i - 1 \in DOMAIN Tail(q) /\ Tail(q)[i - 1] = q[i])
  BY <1>1, <1>2, <1>4
<1>6. ASSUME NEW x
      PROVE  x \in Range(q) <=> x \in Range(Tail(q)) \/ x = Head(q)
  <2>1. x \in Range(q) <=> \E i \in 1 .. Len(q) : x = q[i]
    BY <1>2 DEF Range
  <2>2. x \in Range(Tail(q)) <=> \E i \in 1 .. Len(q) - 1 : x = Tail(q)[i]
    BY <1>2 DEF Range
  <2>3. \A i \in 1 .. Len(q) - 1 : Tail(q)[i] = q[i + 1]
    BY <1>1
  <2> QED
    BY <1>2, <1>3, <1>4, <1>5, <2>1, <2>2, <2>3
<1> QED
  BY <1>1, <1>6

LEMMA RangeOfEmpty == \A x : x \notin Range(<<>>)
  BY DEF Range

-----------------------------------------------------------------------------
(* The farthest pointer *)

LEMMA BoundedSetHasMax ==
  ASSUME NEW n \in Nat, NEW S \in SUBSET (0 .. n), S # {}
  PROVE  Max(S) \in S /\ \A x \in S : x <= Max(S)
<1> DEFINE T == {n - x : x \in S}
           R == OpToRel(<, Nat)
<1>1. T \subseteq Nat /\ T # {}
  <2>1. \A x \in S : n - x \in Nat
    OBVIOUS
  <2> QED
    BY <2>1
<1>2. IsWellFoundedOn(R, Nat)
  BY NatLessThanWellFounded, Zenon
<1>3. \A i, j \in Nat : <<i, j>> \in R <=> i < j
  BY DEF OpToRel
<1> HIDE DEF R
<1>4. PICK m \in T : \A x \in T : ~(<<x, m>> \in R)
  <2> HIDE DEF T
  <2> QED
    BY <1>1, <1>2, WFMin
<1>5. PICK y \in S : m = n - y
  BY <1>4
<1>6. \A x \in S : ~(n - x < n - y)
  BY <1>1, <1>3, <1>4, <1>5
<1>7. \A x \in S : y >= x
  BY <1>6
<1>8. Max(S) \in S /\ \A x \in S : Max(S) >= x
  BY <1>5, <1>7 DEF Max
<1> QED
  BY <1>8

Farthest(id, s) == Points(s, id) /\ \A r \in Slot : Points(r, id) => Distance(r) <= Distance(s)

LeftIsFarthest ==
  \A id \in Id :
    /\ Alive(id) => \E s \in Slot : Farthest(id, s)
    /\ \A s \in Slot : Farthest(id, s) => Left(id) = Distance(s)
    /\ ~Alive(id) => Left(id) = 0

LEMMA LeftValue == TypeOK => LeftIsFarthest
<1> SUFFICES ASSUME TypeOK, NEW id \in Id
             PROVE  /\ Alive(id) => \E s \in Slot : Farthest(id, s)
                    /\ \A s \in Slot : Farthest(id, s) => Left(id) = Distance(s)
                    /\ ~Alive(id) => Left(id) = 0
  BY DEF LeftIsFarthest
<1> DEFINE D == {Distance(s) : s \in {q \in Slot : id \in Range(wheel[q])}}
<1>1. tick \in Slot /\ Capacity \in Nat
  BY SlotIsNat DEF TypeOK
<1>2. \A d : d \in D <=> \E s \in Slot : Points(s, id) /\ d = Distance(s)
  BY DEF Points
<1>3. D \in SUBSET (0 .. Capacity)
  BY <1>1, <1>2, DistanceValue
<1>4. Alive(id) => Left(id) = Max(D)
  BY DEF Left
<1>5. ~Alive(id) => Left(id) = 0
  BY DEF Left
<1>6. Alive(id) <=> \E s \in Slot : Points(s, id)
  BY DEF Alive, Points
<1> HIDE DEF D
<1>7. ASSUME Alive(id)
      PROVE  Max(D) \in D /\ \A x \in D : x <= Max(D)
  BY <1>1, <1>2, <1>3, <1>6, <1>7, BoundedSetHasMax
<1>8. Alive(id) => \E s \in Slot : Farthest(id, s)
  BY <1>2, <1>7 DEF Farthest
<1>9. ASSUME NEW s \in Slot, Farthest(id, s)
      PROVE  Left(id) = Distance(s)
  <2>1. Alive(id) /\ Distance(s) \in D
    BY <1>2, <1>6, <1>9 DEF Farthest
  <2>2. PICK r \in Slot : Points(r, id) /\ Max(D) = Distance(r)
    BY <1>2, <1>7, <2>1
  <2>3. Distance(r) <= Distance(s) /\ Distance(s) <= Distance(r)
    BY <1>7, <1>9, <2>1, <2>2 DEF Farthest
  <2>4. Distance(r) \in Nat /\ Distance(s) \in Nat
    BY <1>1, DistanceValue
  <2> QED
    BY <1>4, <2>1, <2>2, <2>3, <2>4
<1> QED
  BY <1>5, <1>8, <1>9

LEMMA LeftValueAfter == TypeOK' => LeftIsFarthest'
  BY LeftValue, PTL

(* What a step leaves where it is has as many ticks left as before. *)
LEMMA SameLeft ==
  ASSUME TypeOK, TypeOK', NEW id \in Id,
         \A s \in Slot : Points(s, id)' <=> Points(s, id),
         \A s \in Slot : Points(s, id) => Distance(s)' = Distance(s)
  PROVE  Left(id)' = Left(id) /\ (Alive(id)' <=> Alive(id))
<1>1. Alive(id)' <=> Alive(id)
  BY DEF Alive, Points
<1>2. LeftIsFarthest /\ LeftIsFarthest'
  BY LeftValue, LeftValueAfter
<1>3. CASE Alive(id)
  <2>1. PICK s \in Slot : Farthest(id, s)
    BY <1>2, <1>3 DEF LeftIsFarthest
  <2>2. Farthest(id, s)'
    BY <2>1 DEF Farthest
  <2>3. Left(id) = Distance(s)
    BY <1>2, <2>1 DEF LeftIsFarthest
  <2>4. Left(id)' = Distance(s)'
    BY <1>2, <2>2 DEF LeftIsFarthest
  <2> QED
    BY <1>1, <2>1, <2>3, <2>4 DEF Farthest
<1>4. CASE ~Alive(id)
  BY <1>1, <1>2, <1>4 DEF LeftIsFarthest
<1> QED
  BY <1>1, <1>3, <1>4

-----------------------------------------------------------------------------
(* The invariant and the refinement, timer by timer *)

MapById == \A id \in Id : id \in timerMap <=> Alive(id) \/ id = firing

LEMMA MapIsById == TypeOK => (MapMatchesWheel <=> MapById)
  BY DEF TypeOK, MapMatchesWheel, MapById

LEMMA MapIsByIdAfter == TypeOK' => (MapMatchesWheel' <=> MapById')
  BY MapIsById, PTL

StatusById ==
  \A id \in Id :
    Status(id) = IF id = firing THEN "firing"
                 ELSE IF ~Alive(id) THEN "none"
                 ELSE IF id \in canceled THEN "canceled" ELSE "armed"

LEMMA StatusValue == StatusById
  BY DEF StatusById, Status

LEMMA StatusValueAfter == StatusById'
  BY StatusValue, PTL

LEMMA PushPointers ==
  ASSUME TypeOK, NEW p \in Slot, NEW id \in Id, PushBack(p, id)
  PROVE  /\ wheel' \in [Slot -> Seq(Id)]
         /\ \A s \in Slot : \A x : Points(s, x)' <=> Points(s, x) \/ (s = p /\ x = id)
         /\ \A x : Alive(x)' <=> Alive(x) \/ x = id
<1>1. wheel' = [wheel EXCEPT ![p] = Append(@, id)] /\ wheel \in [Slot -> Seq(Id)]
  BY DEF PushBack, TypeOK
<1>2. /\ wheel[p] \in Seq(Id) /\ Append(wheel[p], id) \in Seq(Id)
      /\ \A x : x \in Range(Append(wheel[p], id)) <=> x \in Range(wheel[p]) \/ x = id
  BY <1>1, RangeOfAppend
<1>3. /\ wheel' \in [Slot -> Seq(Id)] /\ wheel'[p] = Append(wheel[p], id)
      /\ \A s \in Slot : s # p => wheel'[s] = wheel[s]
  BY <1>1, <1>2
<1>4. \A s \in Slot : \A x : Points(s, x)' <=> Points(s, x) \/ (s = p /\ x = id)
  BY <1>2, <1>3 DEF Points
<1>5. \A x : Alive(x)' <=> Alive(x) \/ x = id
  BY <1>4 DEF Alive, Points
<1> QED
  BY <1>3, <1>4, <1>5

LEMMA AddStep ==
  ASSUME IInv, NEW id \in Id, NEW d \in Delay, AddNewTimer(id, d)
  PROVE  IInv' /\ TS!Add(id, d)
<1>1. /\ InUserCode /\ (phase = "task" => d \in NestedDelay) /\ id \notin timerMap
      /\ timerMap' = timerMap \cup {id} /\ timeout' = [timeout EXCEPT ![id] = d]
      /\ UNCHANGED <<tick, canceled, seconds, times, phase, firing>>
      /\ PushBack((tick + d) % Capacity, id)
  BY DEF AddNewTimer, TimerAddInLoop, HasTimer
<1>2. TypeOK /\ MapById /\ FiringIsGone /\ CanceledExist /\ WithinWait /\ LoopIsDone
  BY MapIsById DEF IInv
<1>3. PICK p \in Slot : PushBack(p, id) /\ Distance(p) = TS!Wait(d)
  BY <1>1, <1>2, DelayAssumption, PushedToWait
<1>4. /\ wheel' \in [Slot -> Seq(Id)]
      /\ \A s \in Slot : \A x : Points(s, x)' <=> Points(s, x) \/ (s = p /\ x = id)
      /\ \A x : Alive(x)' <=> Alive(x) \/ x = id
  BY <1>2, <1>3, PushPointers
<1>5. \A s : Distance(s)' = Distance(s)
  BY <1>1 DEF Distance
<1>6. ~Alive(id) /\ id # firing /\ id \notin canceled
  BY <1>1, <1>2 DEF MapById, CanceledExist
<1>7. TypeOK'
  BY <1>1, <1>2, <1>4 DEF TypeOK
<1>8. MapById' /\ FiringIsGone' /\ CanceledExist' /\ LoopIsDone'
  BY <1>1, <1>2, <1>4, <1>6 DEF MapById, FiringIsGone, CanceledExist, LoopIsDone
<1>9. /\ timeout'[id] = d
      /\ \A x \in Id : x # id => timeout'[x] = timeout[x]
  BY <1>1, <1>2 DEF TypeOK
<1>10. Distance(p) \in Nat
  BY <1>2, DistanceValue, SlotIsNat DEF TypeOK
<1>11. \A s \in Slot : ~Points(s, id)
  BY <1>6 DEF Alive, Points
<1>12. WithinWait'
  <2>1. ASSUME NEW x \in Id, NEW s \in Slot, Points(s, x)'
        PROVE  Distance(s)' <= TS!Wait(timeout[x])'
    <3>1. CASE x = id
      BY <1>3, <1>4, <1>5, <1>9, <1>10, <1>11, <2>1, <3>1 DEF TS!Wait
    <3>2. CASE x # id
      BY <1>2, <1>4, <1>5, <1>9, <2>1, <3>2 DEF WithinWait, TS!Wait
    <3> QED
      BY <3>1, <3>2
  <2> QED
    BY <2>1 DEF WithinWait
<1>13. Left(id)' = TS!Wait(d)
  <2>1. Farthest(id, p)'
    BY <1>4, <1>10, <1>11, <1>5 DEF Farthest
  <2> QED
    BY <1>3, <1>5, <1>7, <2>1, LeftValueAfter DEF LeftIsFarthest
<1>14. \A x \in Id : x # id => Left(x)' = Left(x)
  BY <1>2, <1>4, <1>5, <1>7, SameLeft
<1>15. \A x \in Id : Status(x)' = IF x = id THEN "armed" ELSE Status(x)
  BY <1>1, <1>4, <1>6, StatusValue, StatusValueAfter DEF StatusById
<1>16. Status(id) = "none"
  BY <1>6, StatusValue DEF StatusById
<1>17. TS!Add(id, d)
  BY <1>1, <1>13, <1>14, <1>15, <1>16 DEF TS!Add
<1> QED
  BY <1>7, <1>8, <1>12, <1>17, MapIsByIdAfter DEF IInv

LEMMA RefreshStep ==
  ASSUME IInv, NEW id \in Id, TimerRefreshInLoop(id), Alive(id)
  PROVE  IInv' /\ TS!Refresh(id)
<1>1. /\ InUserCode /\ (phase = "task" => timeout[id] \in NestedDelay)
      /\ id \in timerMap /\ Alive(id)
      /\ UNCHANGED <<tick, timerMap, timeout, canceled, seconds, times, phase, firing>>
      /\ PushBack((timeout[id] + tick) % Capacity, id)
  BY DEF TimerRefreshInLoop, HasTimer
<1>2. TypeOK /\ MapById /\ FiringIsGone /\ CanceledExist /\ WithinWait /\ LoopIsDone
  BY MapIsById DEF IInv
<1>3. PICK p \in Slot : PushBack(p, id) /\ Distance(p) = TS!Wait(timeout[id])
  <2>1. timeout[id] \in Nat /\ tick \in Nat
    BY <1>2, DelayAssumption, SlotIsNat DEF TypeOK
  <2>2. timeout[id] + tick = tick + timeout[id]
    BY <2>1
  <2> QED
    BY <1>1, <1>2, <2>1, <2>2, PushedToWait
<1>4. /\ wheel' \in [Slot -> Seq(Id)]
      /\ \A s \in Slot : \A x : Points(s, x)' <=> Points(s, x) \/ (s = p /\ x = id)
      /\ \A x : Alive(x)' <=> Alive(x) \/ x = id
  BY <1>2, <1>3, PushPointers
<1>5. \A s : Distance(s)' = Distance(s)
  BY <1>1 DEF Distance
<1>6. id # firing
  BY <1>1, <1>2 DEF FiringIsGone, Alive, Points
<1>7. TypeOK'
  BY <1>1, <1>2, <1>4 DEF TypeOK
<1>8. MapById' /\ FiringIsGone' /\ CanceledExist' /\ LoopIsDone'
  BY <1>1, <1>2, <1>4, <1>6 DEF MapById, FiringIsGone, CanceledExist, LoopIsDone
<1>9. Distance(p) \in Nat
  BY <1>2, DistanceValue, SlotIsNat DEF TypeOK
<1>10. WithinWait'
  <2>1. ASSUME NEW x \in Id, NEW s \in Slot, Points(s, x)'
        PROVE  Distance(s) <= TS!Wait(timeout[x])
    BY <1>2, <1>3, <1>4, <1>9, <2>1 DEF WithinWait
  <2> QED
    BY <1>1, <1>5, <2>1 DEF WithinWait, TS!Wait
<1>11. Left(id)' = TS!Wait(timeout[id])
  <2>1. Farthest(id, p)'
    BY <1>2, <1>3, <1>4, <1>5, <1>9 DEF Farthest, WithinWait
  <2> QED
    BY <1>3, <1>5, <1>7, <2>1, LeftValueAfter DEF LeftIsFarthest
<1>12. \A x \in Id : x # id => Left(x)' = Left(x)
  BY <1>2, <1>4, <1>5, <1>7, SameLeft
<1>13. \A x \in Id : Status(x)' = Status(x)
  BY <1>1, <1>4, StatusValue, StatusValueAfter DEF StatusById
<1>14. Status(id) \in {"armed", "canceled"}
  BY <1>1, <1>6, StatusValue DEF StatusById
<1>15. TS!Refresh(id)
  BY <1>1, <1>11, <1>12, <1>13, <1>14 DEF TS!Refresh, TS!Pending
<1> QED
  BY <1>7, <1>8, <1>10, <1>15, MapIsByIdAfter DEF IInv

LEMMA CancelStep ==
  ASSUME IInv, NEW id \in Id, TimerCancelInLoop(id)
  PROVE  IInv' /\ TS!Cancel(id)
<1>1. /\ Alive(id) /\ canceled' = canceled \cup {id}
      /\ UNCHANGED <<tick, wheel, timerMap, timeout, seconds, times, phase, firing>>
  BY DEF TimerCancelInLoop
<1>2. TypeOK /\ MapById /\ FiringIsGone /\ CanceledExist /\ WithinWait /\ LoopIsDone
  BY MapIsById DEF IInv
<1>3. /\ \A s \in Slot : \A x : Points(s, x)' <=> Points(s, x)
      /\ \A x : Alive(x)' <=> Alive(x)
      /\ \A s : Distance(s)' = Distance(s)
  BY <1>1 DEF Points, Alive, Distance
<1>4. TypeOK'
  BY <1>1, <1>2 DEF TypeOK
<1>5. MapById' /\ FiringIsGone' /\ CanceledExist' /\ WithinWait' /\ LoopIsDone'
  BY <1>1, <1>2, <1>3
     DEF MapById, FiringIsGone, CanceledExist, WithinWait, LoopIsDone, TS!Wait
<1>6. \A x \in Id : Left(x)' = Left(x)
  BY <1>2, <1>3, <1>4, SameLeft
<1>7. id # firing
  BY <1>1, <1>2 DEF FiringIsGone, Alive, Points
<1>8. \A x \in Id : Status(x)' = IF x = id THEN "canceled" ELSE Status(x)
  BY <1>1, <1>3, <1>7, StatusValue, StatusValueAfter DEF StatusById
<1>9. Status(id) \in {"armed", "canceled"}
  BY <1>1, <1>7, StatusValue DEF StatusById
<1>10. TS!Cancel(id)
  BY <1>1, <1>6, <1>8, <1>9 DEF TS!Cancel, TS!Pending
<1> QED
  BY <1>4, <1>5, <1>10, MapIsByIdAfter DEF IInv

(* Steps that neither move the hand nor touch a pointer or a task. *)
LEMMA QuietStep ==
  ASSUME IInv, TypeOK',
         UNCHANGED <<tick, wheel, timerMap, timeout, canceled, firing>>,
         phase' \in {"task", "crashed"} <=> phase \in {"task", "crashed"},
         LoopIsDone',
         \A s \in Slot, id \in Id : Points(s, id) => Distance(s)' = Distance(s)
  PROVE  /\ IInv'
         /\ \A id \in Id : Left(id)' = Left(id) /\ Status(id)' = Status(id)
<1>1. TypeOK /\ MapById /\ FiringIsGone /\ CanceledExist /\ WithinWait
  BY MapIsById DEF IInv
<1>2. /\ \A s \in Slot : \A x : Points(s, x)' <=> Points(s, x)
      /\ \A x : Alive(x)' <=> Alive(x)
  BY DEF Points, Alive
<1>3. MapById' /\ FiringIsGone' /\ CanceledExist' /\ WithinWait'
  BY <1>1, <1>2 DEF MapById, FiringIsGone, CanceledExist, WithinWait, TS!Wait
<1>4. \A x \in Id : Left(x)' = Left(x)
  BY <1>1, <1>2, SameLeft
<1>5. \A x \in Id : Status(x)' = Status(x)
  BY <1>2, StatusValue, StatusValueAfter DEF StatusById
<1> QED
  BY <1>3, <1>4, <1>5, MapIsByIdAfter DEF IInv

(* A refresh finds no task for a timer whose function is running. *)
LEMMA CrashStep ==
  ASSUME IInv, NEW id \in Id, TimerRefreshInLoop(id), ~Alive(id)
  PROVE  IInv' /\ UNCHANGED TS!vars /\ id = firing
<1>1. /\ id \in timerMap /\ phase' = "crashed"
      /\ UNCHANGED <<tick, wheel, timerMap, timeout, canceled, seconds, times, firing>>
  BY DEF TimerRefreshInLoop, HasTimer
<1>2. TypeOK /\ MapById /\ FiringIsGone
  BY MapIsById DEF IInv
<1>3. id = firing
  BY <1>1, <1>2 DEF MapById
<1>4. phase = "task"
  BY <1>2, <1>3 DEF TimerRefreshInLoop, InUserCode, FiringIsGone
<1>5. TypeOK' /\ LoopIsDone'
  BY <1>1, <1>2 DEF TypeOK, LoopIsDone
<1>6. \A s : Distance(s)' = Distance(s)
  BY <1>1, <1>4 DEF Distance
<1>7. IInv' /\ \A x \in Id : Left(x)' = Left(x) /\ Status(x)' = Status(x)
  BY <1>1, <1>4, <1>5, <1>6, QuietStep
<1> QED
  BY <1>1, <1>3, <1>7 DEF TS!vars

LEMMA SecondStep ==
  ASSUME IInv, Second
  PROVE  IInv' /\ TS!Second
<1>1. /\ seconds' = seconds + 1 /\ seconds \in Nat /\ times \in Nat
      /\ UNCHANGED <<tick, wheel, timerMap, timeout, canceled, times, phase, firing>>
  BY DEF Second, IInv, TypeOK
<1>2. TypeOK' /\ LoopIsDone'
  BY <1>1 DEF IInv, TypeOK, LoopIsDone
<1>3. \A s : Distance(s)' = Distance(s)
  BY <1>1 DEF Distance
<1>4. IInv' /\ \A id \in Id : Left(id)' = Left(id) /\ Status(id)' = Status(id)
  BY <1>1, <1>2, <1>3, QuietStep
<1> QED
  BY <1>1, <1>4 DEF TS!Second

LEMMA OnTimerTaskStep ==
  ASSUME IInv, OnTimerTask \/ OnTimerTaskReturns
  PROVE  IInv' /\ UNCHANGED TS!vars
<1>1. /\ phase \in {"idle", "advance"} /\ phase' \in {"idle", "advance"}
      /\ seconds \in Nat /\ times \in Nat
      /\ UNCHANGED <<tick, wheel, timerMap, timeout, canceled, firing>>
  BY DEF OnTimerTask, OnTimerTaskReturns, IInv, TypeOK
<1>2. /\ seconds' + times' = seconds + times /\ seconds' \in Nat /\ times' \in Nat
      /\ LoopIsDone'
  BY <1>1 DEF OnTimerTask, OnTimerTaskReturns, IInv, LoopIsDone
<1>3. TypeOK'
  BY <1>1, <1>2 DEF IInv, TypeOK
<1>4. \A s : Distance(s)' = Distance(s)
  BY <1>1 DEF Distance
<1>5. IInv' /\ \A id \in Id : Left(id)' = Left(id) /\ Status(id)' = Status(id)
  BY <1>1, <1>2, <1>3, <1>4, QuietStep
<1> QED
  BY <1>1, <1>2, <1>5 DEF TS!vars

LEMMA EndClearStep ==
  ASSUME IInv, EndClear
  PROVE  IInv' /\ UNCHANGED TS!vars
<1>1. /\ phase = "clear" /\ phase' = "advance" /\ wheel[tick] = <<>>
      /\ UNCHANGED <<tick, wheel, timerMap, timeout, canceled, seconds, times, firing>>
  BY DEF EndClear
<1>2. TypeOK' /\ LoopIsDone'
  BY <1>1 DEF IInv, TypeOK, LoopIsDone
<1>3. \A id : ~Points(tick, id)
  BY <1>1, RangeOfEmpty DEF Points
<1>4. \A s \in Slot : s # tick => Distance(s)' = Distance(s)
  BY <1>1 DEF Distance
<1>5. IInv' /\ \A id \in Id : Left(id)' = Left(id) /\ Status(id)' = Status(id)
  BY <1>1, <1>2, <1>3, <1>4, QuietStep
<1> QED
  BY <1>1, <1>5 DEF TS!vars

(* The function that ran is done, and its id is free. *)
LEMMA TaskReturnsStep ==
  ASSUME IInv, TaskReturns
  PROVE  IInv' /\ \E id \in Id : TS!Fired(id)
<1>1. TypeOK /\ MapById /\ FiringIsGone /\ CanceledExist /\ WithinWait /\ LoopIsDone
  BY MapIsById DEF IInv
<1>2. PICK id \in Id : id = firing /\ phase = "task"
  BY <1>1 DEF TaskReturns, FiringIsGone
<1>3. /\ timerMap' = timerMap \ {id} /\ timeout' = [timeout EXCEPT ![id] = 0]
      /\ canceled' = canceled \ {id} /\ firing' = NoId /\ phase' = "clear"
      /\ UNCHANGED <<tick, wheel, seconds, times>>
  BY <1>2 DEF TaskReturns, RemoveTimer
<1>4. /\ \A s \in Slot : \A x : Points(s, x)' <=> Points(s, x)
      /\ \A x : Alive(x)' <=> Alive(x)
      /\ \A s : Distance(s)' = Distance(s)
  BY <1>2, <1>3 DEF Points, Alive, Distance
<1>5. TypeOK'
  BY <1>1, <1>3 DEF TypeOK
<1>6. /\ ~Alive(id) /\ \A s \in Slot : ~Points(s, id)
      /\ \A x \in Id : x # id => timeout'[x] = timeout[x]
  BY <1>1, <1>2, <1>3 DEF FiringIsGone, Alive, Points, TypeOK
<1>7. MapById' /\ CanceledExist' /\ LoopIsDone'
  BY <1>1, <1>2, <1>3, <1>4, <1>6, NoIdAssumption DEF MapById, CanceledExist, LoopIsDone
<1>8. FiringIsGone'
  <2>1. ASSUME NEW s \in Slot
        PROVE  ~Points(s, NoId)
    <3>1. wheel[s] \in Seq(Id)
      BY <1>1 DEF TypeOK
    <3>2. \A i \in DOMAIN wheel[s] : wheel[s][i] \in Id
      BY <3>1, LenProperties, ElementOfSeq
    <3> QED
      BY <3>2, NoIdAssumption DEF Points, Range
  <2> QED
    BY <1>3, <1>4, <2>1, NoIdAssumption DEF FiringIsGone
<1>9. WithinWait'
  BY <1>1, <1>4, <1>6 DEF WithinWait, TS!Wait
<1>10. \A x \in Id : Left(x)' = Left(x)
  BY <1>1, <1>4, <1>5, SameLeft
<1>11. \A x \in Id : Status(x)' = IF x = id THEN "none" ELSE Status(x)
  BY <1>2, <1>3, <1>4, <1>6, NoIdAssumption, StatusValue, StatusValueAfter DEF StatusById
<1>12. Status(id) = "firing"
  BY <1>2, StatusValue DEF StatusById
<1>13. TS!Fired(id)
  BY <1>3, <1>10, <1>11, <1>12 DEF TS!Fired, TS!Gone
<1> QED
  BY <1>5, <1>7, <1>8, <1>9, <1>13, MapIsByIdAfter DEF IInv

LEMMA WaitIsNat ==
  ASSUME TypeOK, NEW id \in Id
  PROVE  TS!Wait(timeout[id]) \in Nat
<1>1. timeout \in [Id -> Delay \cup {0}]
  BY DEF TypeOK
<1>2. Delay \cup {0} \subseteq Nat
  BY DelayAssumption
<1>3. timeout[id] \in Nat
  BY <1>1, <1>2
<1> QED
  BY <1>3, Rest, SlotIsNat DEF TS!Wait

DistanceById ==
  \A s \in Slot :
    /\ Distance(s) = IF s = tick THEN IF phase \in {"clear", "task", "crashed"} THEN 0 ELSE Capacity
                     ELSE IF s > tick THEN s - tick ELSE s + Capacity - tick
    /\ Distance(s) \in 0 .. Capacity

LEMMA DistanceValues == tick \in Slot => DistanceById
  BY DistanceValue DEF DistanceById

LEMMA DistanceValuesAfter == (tick \in Slot)' => DistanceById'
  BY DistanceValues, PTL

(* The hand moves one slot, and every pointer comes one tick closer. *)
LEMMA HandMoves ==
  ASSUME tick \in Slot, phase = "advance", phase' = "clear", tick' = (tick + 1) % Capacity
  PROVE  tick' \in Slot /\ \A s \in Slot : Distance(s)' = Distance(s) - 1 /\ Distance(s) \in 1 .. Capacity
<1>1. tick \in Nat /\ tick < Capacity /\ Capacity \in Nat \ {0} /\ Slot \subseteq Nat /\ \A s \in Slot : s < Capacity
  BY SlotIsNat
<1>2. tick' = IF tick + 1 = Capacity THEN 0 ELSE tick + 1
  <2>1. CASE tick + 1 = Capacity
    BY <1>1, <2>1
  <2>2. CASE tick + 1 # Capacity
    <3>1. tick + 1 \in Slot
      BY <1>1, <2>2 DEF Slot
    <3> QED
      BY <2>2, <3>1, SmallRest
  <2> QED
    BY <2>1, <2>2
<1>3. tick' \in Slot
  BY <1>1, <1>2 DEF Slot
<1>4. ASSUME NEW s \in Slot
      PROVE  Distance(s)' = Distance(s) - 1 /\ Distance(s) \in 1 .. Capacity
  <2>1. Distance(s) = IF s = tick THEN Capacity
                      ELSE IF s > tick THEN s - tick ELSE s + Capacity - tick
    BY DistanceValues DEF DistanceById
  <2>2. Distance(s)' = IF s = tick' THEN 0
                       ELSE IF s > tick' THEN s - tick' ELSE s + Capacity - tick'
    BY <1>3, DistanceValuesAfter DEF DistanceById
  <2>3. CASE tick + 1 = Capacity
    BY <1>1, <1>2, <2>1, <2>2, <2>3
  <2>4. CASE tick + 1 # Capacity
    BY <1>1, <1>2, <2>1, <2>2, <2>4
  <2> QED
    BY <2>3, <2>4
<1> QED
  BY <1>3, <1>4

LEMMA TickStep ==
  ASSUME IInv, RunOntimeTask
  PROVE  IInv' /\ TS!Tick
<1>1. /\ phase = "advance" /\ phase' = "clear" /\ times > 0 /\ times' = times - 1
      /\ tick' = (tick + 1) % Capacity
      /\ UNCHANGED <<wheel, timerMap, timeout, canceled, seconds, firing>>
  BY DEF RunOntimeTask
<1>2. TypeOK /\ MapById /\ FiringIsGone /\ CanceledExist /\ WithinWait /\ LoopIsDone
  BY MapIsById DEF IInv
<1>3. times \in Nat /\ seconds \in Nat /\ times - 1 \in Nat
  BY <1>1, <1>2 DEF TypeOK
<1>4. tick' \in Slot /\ \A s \in Slot : Distance(s)' = Distance(s) - 1 /\ Distance(s) \in 1 .. Capacity
  BY <1>1, <1>2, HandMoves DEF TypeOK
<1>5. /\ \A s \in Slot : \A x : Points(s, x)' <=> Points(s, x)
      /\ \A x : Alive(x)' <=> Alive(x)
  BY <1>1 DEF Points, Alive
<1>6. TypeOK'
  BY <1>1, <1>2, <1>3, <1>4 DEF TypeOK
<1>7. MapById' /\ FiringIsGone' /\ CanceledExist' /\ LoopIsDone'
  BY <1>1, <1>2, <1>5 DEF MapById, FiringIsGone, CanceledExist, LoopIsDone
<1>8. WithinWait'
  <2>1. ASSUME NEW id \in Id, NEW s \in Slot, Points(s, id)
        PROVE  Distance(s) - 1 <= TS!Wait(timeout[id])
    <3>1. Distance(s) <= TS!Wait(timeout[id]) /\ TS!Wait(timeout[id]) \in Nat
      BY <1>2, <2>1, WaitIsNat DEF WithinWait
    <3> QED
      BY <1>4, <3>1, SlotIsNat
  <2>2. \A id \in Id : TS!Wait(timeout[id])' = TS!Wait(timeout[id])
    BY <1>1 DEF TS!Wait
  <2> QED
    BY <1>4, <1>5, <2>1, <2>2 DEF WithinWait
<1>9. LeftIsFarthest /\ LeftIsFarthest'
  BY <1>2, <1>6, LeftValue, LeftValueAfter
<1>10. ASSUME NEW id \in Id
       PROVE  IF Alive(id) THEN Left(id) > 0 /\ Left(id)' = Left(id) - 1 ELSE Left(id)' = Left(id)
  <2>1. CASE Alive(id)
    <3>1. PICK s \in Slot : Farthest(id, s)
      BY <1>9, <2>1 DEF LeftIsFarthest
    <3>2. Farthest(id, s)'
      BY <1>4, <1>5, <3>1, SlotIsNat DEF Farthest
    <3>3. Left(id) = Distance(s) /\ Left(id)' = Distance(s)'
      BY <1>9, <3>1, <3>2 DEF LeftIsFarthest
    <3> QED
      BY <1>4, <2>1, <3>3, SlotIsNat
  <2>2. CASE ~Alive(id)
    BY <1>5, <1>9, <2>2 DEF LeftIsFarthest
  <2> QED
    BY <2>1, <2>2
<1>11. firing \notin Id
  BY <1>1, <1>2 DEF FiringIsGone
<1>12. \A id \in Id : Status(id)' = Status(id) /\ Status(id) # "firing"
                    /\ (Status(id) \in {"armed", "canceled"} <=> Alive(id))
  BY <1>1, <1>5, <1>11, StatusValue, StatusValueAfter DEF StatusById
<1>13. \A id \in Id : id \in TS!Pending <=> Alive(id)
  BY <1>12 DEF TS!Pending
<1>14. seconds' + times' = (seconds + times) - 1 /\ seconds + times > 0
  BY <1>1, <1>3
<1>15. TS!Tick
  <2>1. \A id \in TS!Pending : id \in Id
    BY DEF TS!Pending
  <2>2. \A id \in TS!Pending : [i \in Id |-> Left(i)][id] > 0
    BY <1>10, <1>13, <2>1
  <2>3. [i \in Id |-> Left(i)]' =
          [i \in Id |-> IF i \in TS!Pending THEN [j \in Id |-> Left(j)][i] - 1
                                             ELSE [j \in Id |-> Left(j)][i]]
    BY <1>10, <1>13
  <2>4. [i \in Id |-> Status(i)]' = [i \in Id |-> Status(i)]
    BY <1>12
  <2>5. \A id \in Id : [i \in Id |-> Status(i)][id] # "firing"
    BY <1>12
  <2> QED
    BY <1>1, <1>14, <2>2, <2>3, <2>4, <2>5 DEF TS!Tick
<1> QED
  BY <1>6, <1>7, <1>8, <1>15, MapIsByIdAfter DEF IInv

-----------------------------------------------------------------------------
(* list::clear *)

LEMMA DropEffect ==
  ASSUME IInv, NEW id, DropPointer(id), phase' \in {"clear", "task"}
  PROVE  /\ id \in Id /\ Alive(id) /\ id # firing /\ firing \notin Id
         /\ wheel' \in [Slot -> Seq(Id)]
         /\ \A s \in Slot : \A x : Points(s, x)' => Points(s, x)
         /\ \A s \in Slot : \A x : Points(s, x) => Points(s, x)' \/ (s = tick /\ x = id)
         /\ \A x : x # id => (Alive(x)' <=> Alive(x))
         /\ \A s \in Slot : Distance(s)' = Distance(s)
         /\ Distance(tick) = 0
         /\ \A s \in Slot : Distance(s) \in Nat
<1>1. /\ phase = "clear" /\ wheel[tick] # <<>> /\ id = Head(wheel[tick])
      /\ wheel' = [wheel EXCEPT ![tick] = Tail(@)]
      /\ UNCHANGED <<tick, seconds, times>>
  BY DEF DropPointer
<1>2. tick \in Slot /\ wheel \in [Slot -> Seq(Id)]
  BY DEF IInv, TypeOK
<1>3. /\ id \in Id /\ Tail(wheel[tick]) \in Seq(Id)
      /\ \A x : x \in Range(wheel[tick]) <=> x \in Range(Tail(wheel[tick])) \/ x = id
  BY <1>1, <1>2, RangeOfTail
<1>4. /\ wheel' \in [Slot -> Seq(Id)] /\ wheel'[tick] = Tail(wheel[tick])
      /\ \A s \in Slot : s # tick => wheel'[s] = wheel[s]
  BY <1>1, <1>2, <1>3
<1>5. /\ \A s \in Slot : \A x : Points(s, x)' => Points(s, x)
      /\ \A s \in Slot : \A x : Points(s, x) => Points(s, x)' \/ (s = tick /\ x = id)
      /\ Points(tick, id)
  BY <1>2, <1>3, <1>4 DEF Points
<1>6. Alive(id) /\ \A x : x # id => (Alive(x)' <=> Alive(x))
  BY <1>2, <1>5 DEF Alive, Points
<1>7. id # firing /\ firing \notin Id
  BY <1>1, <1>2, <1>5 DEF IInv, FiringIsGone
<1>8. /\ \A s \in Slot : Distance(s)' = Distance(s) /\ Distance(s) \in Nat
      /\ Distance(tick) = 0
  <2>1. \A s \in Slot : Distance(s)' = Distance(s)
    BY <1>1 DEF Distance
  <2>2. \A s \in Slot : Distance(s) \in Nat
    BY <1>2, DistanceValues, SlotIsNat DEF DistanceById
  <2>3. Distance(tick) = 0
    BY <1>1 DEF Distance
  <2> QED
    BY <2>1, <2>2, <2>3
<1> QED
  BY <1>3, <1>4, <1>5, <1>6, <1>7, <1>8

LEMMA DropLeft ==
  ASSUME IInv, TypeOK', NEW id \in Id, DropPointer(id), phase' \in {"clear", "task"}
  PROVE  /\ \A x \in Id : Left(x)' = Left(x)
         /\ ~Alive(id)' => Left(id) = 0
<1>1. /\ Alive(id)
      /\ \A s \in Slot : \A x : Points(s, x)' => Points(s, x)
      /\ \A s \in Slot : \A x : Points(s, x) => Points(s, x)' \/ (s = tick /\ x = id)
      /\ \A s \in Slot : Distance(s)' = Distance(s) /\ Distance(s) \in Nat
      /\ Distance(tick) = 0
  BY DropEffect
<1>2. LeftIsFarthest /\ LeftIsFarthest' /\ tick \in Slot
  BY LeftValue, LeftValueAfter DEF IInv, TypeOK
<1>3. CASE Alive(id)'
  <2>1. PICK s \in Slot : Farthest(id, s)'
    BY <1>2, <1>3 DEF LeftIsFarthest
  <2>2. Farthest(id, s)
    BY <1>1, <2>1 DEF Farthest
  <2> QED
    BY <1>1, <1>2, <1>3, <2>1, <2>2, SameLeft DEF IInv, LeftIsFarthest
<1>4. CASE ~Alive(id)'
  <2>1. \A s \in Slot : ~Points(s, id)'
    BY <1>4 DEF Alive, Points
  <2>2. PICK s \in Slot : Farthest(id, s)
    BY <1>1, <1>2 DEF LeftIsFarthest
  <2>3. s = tick
    BY <1>1, <2>1, <2>2 DEF Farthest
  <2>4. Left(id) = 0 /\ Left(id)' = 0
    BY <1>1, <1>2, <1>4, <2>2, <2>3 DEF LeftIsFarthest
  <2> QED
    BY <1>1, <2>4, SameLeft DEF IInv
<1> QED
  BY <1>3, <1>4

(* A pointer of a task that others still point to. *)
LEMMA DropSharedStep ==
  ASSUME IInv, NEW id \in Id, DropShared(id)
  PROVE  IInv' /\ UNCHANGED TS!vars
<1>1. /\ DropPointer(id) /\ Alive(id)' /\ phase = "clear" /\ phase' = "clear"
      /\ UNCHANGED <<tick, seconds, times, timerMap, timeout, canceled, phase, firing>>
  BY DEF DropShared, DropPointer
<1>2. TypeOK /\ MapById /\ FiringIsGone /\ CanceledExist /\ WithinWait /\ LoopIsDone
  BY MapIsById DEF IInv
<1>3. /\ Alive(id) /\ wheel' \in [Slot -> Seq(Id)]
      /\ \A s \in Slot : \A x : Points(s, x)' => Points(s, x)
      /\ \A x : x # id => (Alive(x)' <=> Alive(x))
      /\ \A s \in Slot : Distance(s)' = Distance(s)
  BY <1>1, DropEffect
<1>4. TypeOK'
  BY <1>1, <1>2, <1>3 DEF TypeOK
<1>5. \A x : Alive(x)' <=> Alive(x)
  BY <1>1, <1>3
<1>6. MapById' /\ CanceledExist' /\ LoopIsDone'
  BY <1>1, <1>2, <1>5 DEF MapById, CanceledExist, LoopIsDone
<1>7. FiringIsGone' /\ WithinWait'
  BY <1>1, <1>2, <1>3 DEF FiringIsGone, WithinWait, TS!Wait
<1>8. \A x \in Id : Left(x)' = Left(x)
  BY <1>1, <1>4, DropLeft
<1>9. \A x \in Id : Status(x)' = Status(x)
  BY <1>1, <1>5, StatusValue, StatusValueAfter DEF StatusById
<1>10. UNCHANGED TS!vars
  BY <1>1, <1>8, <1>9 DEF TS!vars
<1> QED
  BY <1>4, <1>6, <1>7, <1>10, MapIsByIdAfter DEF IInv

(* The last pointer of a canceled task: the task is gone, and so is its id. *)
LEMMA DropCanceledStep ==
  ASSUME IInv, NEW id \in Id, DropCanceled(id)
  PROVE  IInv' /\ TS!Drop(id)
<1>1. /\ DropPointer(id) /\ ~Alive(id)' /\ id \in canceled
      /\ phase = "clear" /\ phase' = "clear"
      /\ timerMap' = timerMap \ {id} /\ timeout' = [timeout EXCEPT ![id] = 0]
      /\ canceled' = canceled \ {id}
      /\ UNCHANGED <<tick, seconds, times, phase, firing>>
  BY DEF DropCanceled, DropPointer, RemoveTimer
<1>2. TypeOK /\ MapById /\ FiringIsGone /\ CanceledExist /\ WithinWait /\ LoopIsDone
  BY MapIsById DEF IInv
<1>3. /\ Alive(id) /\ id # firing /\ wheel' \in [Slot -> Seq(Id)]
      /\ \A s \in Slot : \A x : Points(s, x)' => Points(s, x)
      /\ \A x : x # id => (Alive(x)' <=> Alive(x))
      /\ \A s \in Slot : Distance(s)' = Distance(s)
  BY <1>1, DropEffect
<1>4. TypeOK'
  BY <1>1, <1>2, <1>3 DEF TypeOK
<1>5. MapById' /\ CanceledExist' /\ LoopIsDone'
  BY <1>1, <1>2, <1>3 DEF MapById, CanceledExist, LoopIsDone
<1>6. FiringIsGone'
  BY <1>1, <1>2, <1>3 DEF FiringIsGone
<1>7. WithinWait'
  <2>1. \A s \in Slot : ~Points(s, id)'
    BY <1>1 DEF Alive, Points
  <2>2. \A x \in Id : x # id => timeout'[x] = timeout[x]
    BY <1>1, <1>2 DEF TypeOK
  <2> QED
    BY <1>2, <1>3, <2>1, <2>2 DEF WithinWait, TS!Wait
<1>8. (\A x \in Id : Left(x)' = Left(x)) /\ Left(id) = 0
  BY <1>1, <1>4, DropLeft
<1>9. \A x \in Id : Status(x)' = IF x = id THEN "none" ELSE Status(x)
  BY <1>1, <1>3, StatusValue, StatusValueAfter DEF StatusById
<1>10. Status(id) = "canceled"
  BY <1>1, <1>3, StatusValue DEF StatusById
<1>11. TS!Drop(id)
  BY <1>1, <1>8, <1>9, <1>10 DEF TS!Drop, TS!Gone
<1> QED
  BY <1>4, <1>5, <1>6, <1>7, <1>11, MapIsByIdAfter DEF IInv

(* The last pointer of a task that is not canceled: its function starts. *)
LEMMA DropLastStep ==
  ASSUME IInv, NEW id \in Id, DropLast(id)
  PROVE  IInv' /\ TS!Fire(id)
<1>1. /\ DropPointer(id) /\ ~Alive(id)' /\ id \notin canceled
      /\ phase = "clear" /\ phase' = "task" /\ firing' = id
      /\ UNCHANGED <<tick, seconds, times, timerMap, timeout, canceled>>
  BY DEF DropLast, DropPointer
<1>2. TypeOK /\ MapById /\ FiringIsGone /\ CanceledExist /\ WithinWait /\ LoopIsDone
  BY MapIsById DEF IInv
<1>3. /\ Alive(id) /\ firing \notin Id /\ wheel' \in [Slot -> Seq(Id)]
      /\ \A s \in Slot : \A x : Points(s, x)' => Points(s, x)
      /\ \A x : x # id => (Alive(x)' <=> Alive(x))
      /\ \A s \in Slot : Distance(s)' = Distance(s)
  BY <1>1, DropEffect
<1>4. TypeOK'
  BY <1>1, <1>2, <1>3 DEF TypeOK
<1>5. MapById' /\ CanceledExist' /\ LoopIsDone'
  BY <1>1, <1>2, <1>3 DEF MapById, CanceledExist, LoopIsDone
<1>6. FiringIsGone'
  <2>1. \A s \in Slot : ~Points(s, id)'
    BY <1>1 DEF Alive, Points
  <2> QED
    BY <1>1, <2>1 DEF FiringIsGone, Points
<1>7. WithinWait'
  BY <1>1, <1>2, <1>3 DEF WithinWait, TS!Wait
<1>8. (\A x \in Id : Left(x)' = Left(x)) /\ Left(id) = 0
  BY <1>1, <1>4, DropLeft
<1>9. \A x \in Id : Status(x)' = IF x = id THEN "firing" ELSE Status(x)
  BY <1>1, <1>3, StatusValue, StatusValueAfter DEF StatusById
<1>10. Status(id) = "armed" /\ \A x \in Id : Status(x) # "firing"
  BY <1>1, <1>3, StatusValue DEF StatusById
<1>11. TS!Fire(id)
  BY <1>1, <1>8, <1>9, <1>10 DEF TS!Fire
<1> QED
  BY <1>4, <1>5, <1>6, <1>7, <1>11, MapIsByIdAfter DEF IInv

-----------------------------------------------------------------------------
(* The specification *)

LEMMA InitIInv == Init => IInv /\ TS!Init
<1> SUFFICES ASSUME Init
             PROVE  IInv /\ TS!Init
  OBVIOUS
<1>1. /\ tick = 0 /\ wheel = [s \in Slot |-> <<>>] /\ timerMap = {} /\ canceled = {}
      /\ timeout = [id \in Id |-> 0] /\ seconds = 0 /\ times = 0 /\ phase = "idle"
      /\ firing = NoId
  BY DEF Init
<1>2. TypeOK
  BY <1>1, EmptySeq, SlotIsNat DEF TypeOK
<1>3. \A s \in Slot : \A x : ~Points(s, x)
  BY <1>1, RangeOfEmpty DEF Points
<1>4. \A x : ~Alive(x)
  BY <1>3 DEF Alive, Points
<1>5. MapById /\ FiringIsGone /\ CanceledExist /\ WithinWait /\ LoopIsDone
  BY <1>1, <1>3, <1>4, NoIdAssumption
     DEF MapById, FiringIsGone, CanceledExist, WithinWait, LoopIsDone
<1>6. \A id \in Id : Left(id) = 0 /\ Status(id) = "none"
  BY <1>1, <1>2, <1>4, NoIdAssumption, LeftValue, StatusValue DEF LeftIsFarthest, StatusById
<1>7. TS!Init
  BY <1>1, <1>6 DEF TS!Init
<1> QED
  BY <1>2, <1>5, <1>7, MapIsById DEF IInv

LEMMA StepIInv == IInv /\ [Next]_vars => IInv' /\ [TS!Next]_(TS!vars)
<1> SUFFICES ASSUME IInv, [Next]_vars
             PROVE  IInv' /\ [TS!Next]_(TS!vars)
  OBVIOUS
<1>1. CASE \E id \in Id, d \in Delay : AddNewTimer(id, d)
  BY <1>1, AddStep DEF TS!Next
<1>2. CASE \E id \in Id : TimerRefreshInLoop(id)
  BY <1>2, RefreshStep, CrashStep DEF TS!Next
<1>3. CASE \E id \in Id : TimerCancelInLoop(id)
  BY <1>3, CancelStep DEF TS!Next
<1>4. CASE Second
  BY <1>4, SecondStep DEF TS!Next
<1>5. CASE OnTimerTask \/ OnTimerTaskReturns
  BY <1>5, OnTimerTaskStep
<1>6. CASE RunOntimeTask
  BY <1>6, TickStep DEF TS!Next
<1>7. CASE \E id \in Id : DropShared(id)
  BY <1>7, DropSharedStep
<1>8. CASE \E id \in Id : DropCanceled(id)
  BY <1>8, DropCanceledStep DEF TS!Next
<1>9. CASE \E id \in Id : DropLast(id)
  BY <1>9, DropLastStep DEF TS!Next
<1>10. CASE TaskReturns
  BY <1>10, TaskReturnsStep DEF TS!Next
<1>11. CASE EndClear
  BY <1>11, EndClearStep
<1>12. CASE UNCHANGED vars
  <2>1. UNCHANGED <<tick, wheel, timerMap, timeout, canceled, seconds, times, phase, firing>>
    BY <1>12 DEF vars
  <2>2. TypeOK' /\ LoopIsDone'
    BY <2>1 DEF IInv, TypeOK, LoopIsDone
  <2>3. \A s : Distance(s)' = Distance(s)
    BY <2>1 DEF Distance
  <2>4. IInv' /\ \A id \in Id : Left(id)' = Left(id) /\ Status(id)' = Status(id)
    BY <2>1, <2>2, <2>3, QuietStep
  <2> QED
    BY <2>1, <2>4 DEF TS!vars
<1> QED
  BY <1>1, <1>2, <1>3, <1>4, <1>5, <1>6, <1>7, <1>8, <1>9, <1>10, <1>11, <1>12
     DEF Next, LoopStep

(* The inductive invariant holds of every state of the wheel. *)
THEOREM Invariance == Spec => []IInv
<1>1. Init => IInv
  BY InitIInv
<1>2. IInv /\ [Next]_vars => IInv'
  BY StepIInv
<1> QED
  BY <1>1, <1>2, PTL DEF Spec

(* The variables of the wheel keep their types. *)
THEOREM TypeCorrect == Spec => []TypeOK
<1>1. IInv => TypeOK
  BY DEF IInv
<1> QED
  BY <1>1, Invariance, PTL

(* _TimerMap has exactly the ids of the tasks that a slot points to, and   *)
(* the one whose function is running, however many timers there are.       *)
THEOREM MapAndWheelAgree == Spec => []MapMatchesWheel
<1>1. IInv => MapMatchesWheel
  BY DEF IInv
<1> QED
  BY <1>1, Invariance, PTL

(* However timers are added, refreshed, canceled and fired, a refresh      *)
(* follows a null pointer only in the timer's own function.                *)
THEOREM RefreshIsSafe == Spec => RefreshFindsTask
<1> DEFINE Safe == \A id \in Id : TimerRefreshInLoop(id) /\ phase' = "crashed" => id = firing
<1>1. ASSUME IInv
      PROVE  [Safe]_vars
  <2> SUFFICES ASSUME NEW id \in Id, TimerRefreshInLoop(id), phase' = "crashed"
               PROVE  id = firing
    OBVIOUS
  <2>1. ~Alive(id)
    BY DEF TimerRefreshInLoop, InUserCode
  <2> QED
    BY <1>1, <2>1, CrashStep
<1> HIDE DEF Safe
<1>2. Spec => [][Safe]_vars
  BY <1>1, Invariance, PTL DEF Spec
<1> QED
  BY <1>2 DEF RefreshFindsTask, Safe

(* For every capacity and all delays, a function runs exactly at the tick  *)
(* that its delay and its last refresh determine, once, unless it was      *)
(* canceled, and every second is one tick.                                 *)
THEOREM Refinement == Spec => ImplementsTimerService
<1>1. Init => TS!Init
  BY InitIInv
<1>2. IInv /\ [Next]_vars => [TS!Next]_(TS!vars)
  BY StepIInv
<1> QED
  BY <1>1, <1>2, Invariance, PTL DEF Spec, ImplementsTimerService, TS!Spec

=============================================================================
