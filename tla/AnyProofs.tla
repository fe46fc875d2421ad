------------------------------ MODULE AnyProofs ------------------------------
(***************************************************************************)
(* Proofs about Any, for any objects, addresses, types and data: until a   *)
(* context is assigned, every Holder has one owner and an Any is a value.  *)
(***************************************************************************)
EXTENDS Any, TLAPS

(***************************************************************************)
(* The two properties rest on each other: that assigning an empty context  *)
(* an empty object is what it means needs ActsAsValue, and that nobody     *)
(* writes or deletes another object's value needs OwnedOnce.               *)
(***************************************************************************)
IInv == TypeOK /\ OwnedOnce /\ ActsAsValue

LEMMA ValueFacts ==
  /\ Null \notin Value /\ Free \notin Value /\ Null \notin Addr
  /\ Context \notin Obj /\ Context \in AnyObj
  BY AnyAssumption DEF Value, AnyObj

LEMMA InitIInv == Init => IInv
<1> SUFFICES ASSUME Init
             PROVE  IInv
  OBVIOUS
<1>1. TypeOK
  BY ValueFacts DEF Init, TypeOK
<1>2. Holding = {} /\ {p \in Addr : heap[p] # Free} = {}
  BY ValueFacts DEF Init, Holding
<1>3. OwnedOnce
  BY <1>2 DEF Init, OwnedOnce
<1>4. ActsAsValue
  BY ValueFacts DEF Init, ActsAsValue
<1> QED
  BY <1>1, <1>3, <1>4 DEF IInv

-----------------------------------------------------------------------------
LEMMA TypeStep ==
  ASSUME TypeOK, [Next]_vars
  PROVE  TypeOK'
<1> USE ValueFacts DEF TypeOK
<1>1. ASSUME NEW a \in Obj, Default(a)
      PROVE  TypeOK'
  BY <1>1 DEF Default, Begin, AnyObj
<1>2. ASSUME NEW a \in Obj, NEW v \in Value, Construct(a, v)
      PROVE  TypeOK'
  BY <1>2 DEF Construct, NewHolder, Begin, AnyObj
<1>3. ASSUME NEW a \in Obj, NEW b \in AnyObj, Copy(a, b)
      PROVE  TypeOK'
  <2>1. meant[b] \in Value \cup {Null} /\ a \in AnyObj
    BY DEF AnyObj
  <2>2. CASE content[b] = Null
    BY <1>3, <2>1, <2>2 DEF Copy, Begin
  <2>3. CASE content[b] # Null
    <3>1. PICK p \in Addr, v \in Value : NewHolder(p, v) /\ Begin(a, p, meant[b])
      BY <1>3, <2>3 DEF Copy
    <3> QED
      BY <2>1, <3>1 DEF NewHolder, Begin
  <2> QED
    BY <2>2, <2>3
<1>4. ASSUME NEW b \in Obj, SetContext(b) \/ Upgrade(b)
      PROVE  TypeOK'
  <2>1. PICK p \in Addr \cup {Null} : Assign(p, b)
    BY <1>4 DEF SetContext, Upgrade, AnyObj
  <2>2. meant[b] \in Value \cup {Null}
    BY DEF AnyObj
  <2> QED
    BY <2>1, <2>2 DEF Assign
<1>5. ASSUME NEW a \in AnyObj, Destroy(a)
      PROVE  TypeOK'
  BY <1>5 DEF Destroy
<1>6. ASSUME NEW a \in AnyObj, NEW t \in Type, NEW d \in Data, GetAndWrite(a, t, d)
      PROVE  TypeOK'
  <2>1. <<t, d>> \in Value
    BY DEF Value
  <2> QED
    BY <1>6, <2>1 DEF GetAndWrite
<1>7. CASE UNCHANGED vars
  BY <1>7 DEF vars
<1> QED
  BY <1>1, <1>2, <1>3, <1>4, <1>5, <1>6, <1>7 DEF Next

-----------------------------------------------------------------------------
(* What holds as long as no context has been assigned. *)
Owned ==
  /\ process # "crashed"
  /\ {p \in Addr : heap[p] # Free} = {content[a] : a \in Holding}
  /\ \A a, b \in Holding : content[a] = content[b] => a = b

Meant == \A a \in alive : IF content[a] = Null THEN meant[a] = Null ELSE heap[content[a]] = meant[a]

(* A Holder belongs to a live object, and holds what the object means. *)
LEMMA HeldValue ==
  ASSUME TypeOK, Owned, Meant, NEW a \in alive, content[a] # Null
  PROVE  content[a] \in Addr /\ heap[content[a]] \in Value /\ heap[content[a]] = meant[a]
  BY ValueFacts DEF TypeOK, Owned, Meant, Holding

(* An object begins to exist empty, or with a new Holder of its own. *)
LEMMA BeginStep ==
  ASSUME TypeOK, Owned, Meant, NEW a \in Obj, NEW p, NEW v,
         Begin(a, p, v),
         \/ p = Null /\ v = Null /\ UNCHANGED heap
         \/ v \in Value /\ NewHolder(p, v)
  PROVE  Owned' /\ Meant'
<1> USE ValueFacts DEF TypeOK, Owned, Meant, Holding, Begin, NewHolder, AnyObj
<1>1. CASE p = Null /\ v = Null /\ UNCHANGED heap
  BY <1>1
<1>2. CASE v \in Value /\ NewHolder(p, v)
  <2>1. \A b \in alive : b # a /\ content'[b] = content[b] /\ content[b] # p
    BY <1>2
  <2>2. Meant'
    BY <1>2, <2>1
  <2>3. Holding' = Holding \cup {a}
    BY <1>2, <2>1
  <2>4. Owned'
    BY <1>2, <2>1, <2>3
  <2> QED
    BY <2>2, <2>4
<1> QED
  BY <1>1, <1>2

LEMMA OwnedStep ==
  ASSUME IInv, [Next]_vars, ~assigned'
  PROVE  Owned' /\ Meant'
<1> USE ValueFacts
<1>1. TypeOK /\ ~assigned
  BY DEF IInv, TypeOK, Next, vars, Default, Construct, Copy, Begin, SetContext, Upgrade,
         Assign, Destroy, GetAndWrite
<1>2. Owned /\ Meant
  BY <1>1 DEF IInv, Owned, Meant, OwnedOnce, ActsAsValue
<1>3. ASSUME NEW a \in Obj, Default(a)
      PROVE  Owned' /\ Meant'
  BY <1>1, <1>2, <1>3, BeginStep DEF Default
<1>4. ASSUME NEW a \in Obj, NEW v \in Value, Construct(a, v)
      PROVE  Owned' /\ Meant'
  BY <1>1, <1>2, <1>4, BeginStep DEF Construct
<1>5. ASSUME NEW a \in Obj, NEW b \in AnyObj, Copy(a, b)
      PROVE  Owned' /\ Meant'
  <2>1. CASE content[b] = Null
    BY <1>1, <1>2, <1>5, <2>1, BeginStep DEF Copy, Meant
  <2>2. CASE content[b] # Null
    <3>1. PICK p \in Addr, v \in Value :
            heap[content[b]] \in {v, Free} /\ NewHolder(p, v) /\ Begin(a, p, meant[b])
      BY <1>5, <2>2 DEF Copy
    <3>2. meant[b] = v
      BY <1>1, <1>2, <1>5, <2>2, <3>1, HeldValue DEF Copy
    <3> QED
      BY <1>1, <1>2, <3>1, <3>2, BeginStep
  <2> QED
    BY <2>1, <2>2
<1>6. ASSUME NEW b \in Obj, SetContext(b) \/ Upgrade(b)
      PROVE  Owned' /\ Meant'
  <2>1. PICK p : Assign(p, b) /\ \/ p = content[b]
                                 \/ p \in Addr /\ heap[p] = Free
    BY <1>6 DEF SetContext, Upgrade
  <2>2. p = content[Context] /\ UNCHANGED <<content, heap, alive, process>>
    BY <1>1, <2>1 DEF Assign, TypeOK
  <2>3. content[Context] = Null /\ meant[b] = Null
    BY <1>1, <1>2, <2>1, <2>2, HeldValue DEF Assign, Owned, Meant, Holding
  <2>4. meant' = meant
    BY <1>1, <1>2, <2>1, <2>3 DEF Assign, Meant, TypeOK
  <2> QED
    BY <1>2, <2>2, <2>4 DEF Owned, Meant, Holding
<1>7. ASSUME NEW a \in AnyObj, Destroy(a)
      PROVE  Owned' /\ Meant'
  <2>1. \A b \in alive \ {a} : content[b] # Null => content[b] # content[a]
    BY <1>2, <1>7 DEF Owned, Holding, Destroy
  <2>2. process' = process
    BY <1>1, <1>2, <1>7, HeldValue DEF Destroy
  <2>3. Meant'
    BY <1>1, <1>2, <1>7, <2>1, HeldValue DEF Meant, Destroy, TypeOK
  <2>4. Holding' = Holding \ {a}
    BY <1>7 DEF Holding, Destroy
  <2>5. Owned'
    BY <1>1, <1>2, <1>7, <2>1, <2>2, <2>4 DEF Owned, Holding, Destroy, TypeOK
  <2> QED
    BY <2>3, <2>5
<1>8. ASSUME NEW a \in AnyObj, NEW t \in Type, NEW d \in Data, GetAndWrite(a, t, d)
      PROVE  Owned' /\ Meant'
  <2>1. /\ a \in alive /\ UNCHANGED <<alive, content>>
        /\ content[a] # Null => heap[content[a]] \in Value /\ content[a] \in Addr /\ a \in Holding
    BY <1>1, <1>2, <1>8, HeldValue DEF GetAndWrite, Holding
  <2>2. CASE UNCHANGED <<heap, meant>> /\ process' \in {process, "aborted"}
    BY <1>2, <2>1, <2>2 DEF Owned, Meant, Holding
  <2>3. CASE /\ content[a] # Null /\ heap' = [heap EXCEPT ![content[a]] = <<t, d>>]
             /\ meant' = [meant EXCEPT ![a] = <<t, d>>] /\ UNCHANGED process
    <3>1. <<t, d>> \in Value /\ UNCHANGED <<alive, content>>
      BY <1>8 DEF Value, GetAndWrite
    <3>2. \A p \in Addr : heap'[p] # Free <=> heap[p] # Free
      BY <1>1, <2>1, <2>3, <3>1 DEF TypeOK
    <3>3. Owned'
      BY <1>2, <2>3, <3>1, <3>2 DEF Owned, Holding
    <3>4. Meant'
      BY <1>1, <1>2, <2>1, <2>3, <3>1 DEF Owned, Meant, Holding, TypeOK
    <3> QED
      BY <3>3, <3>4
  <2>4. content[a] # Null => heap[content[a]] # Free
    BY <2>1, ValueFacts
  <2> QED
    BY <1>8, <2>2, <2>3, <2>4 DEF GetAndWrite
<1>9. CASE UNCHANGED vars
  BY <1>2, <1>9 DEF vars, Owned, Meant, Holding
<1> QED
  BY <1>3, <1>4, <1>5, <1>6, <1>7, <1>8, <1>9 DEF Next

LEMMA StepIInv == IInv /\ [Next]_vars => IInv'
  BY TypeStep, OwnedStep DEF IInv, OwnedOnce, ActsAsValue, Owned, Meant

THEOREM Invariance == Spec => []IInv
  BY InitIInv, StepIInv, PTL DEF Spec

-----------------------------------------------------------------------------
(* The type invariant of the Any objects and the heap. *)
THEOREM TypeCorrect == Spec => []TypeOK
  BY Invariance, PTL DEF IInv

(***************************************************************************)
(* Until a connection's context is assigned, the copy constructor and the  *)
(* destructor (Any::Any, Any::~Any) neither leak a Holder nor delete one   *)
(* twice.                                                                  *)
(***************************************************************************)
THEOREM HoldersAreOwnedOnce == Spec => []OwnedOnce
  BY Invariance, PTL DEF IInv

(***************************************************************************)
(* Until then an Any keeps its value, whatever happens to its copies.      *)
(***************************************************************************)
THEOREM AnyIsAValue == Spec => []ActsAsValue
  BY Invariance, PTL DEF IInv

=============================================================================
