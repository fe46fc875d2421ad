--------------------------------- MODULE Any ---------------------------------
(***************************************************************************)
(* Any (Server.hpp, and the same class in TestCode/CustomAny.cc): an object *)
(* that owns a Holder on the heap, and the context of a Connection, the    *)
(* one Any that is assigned to.  Any has a copy constructor and no         *)
(* assignment operator, so the compiler's is used, which copies _content.  *)
(***************************************************************************)
EXTENDS Naturals, FiniteSets

CONSTANTS
  Obj,        \* Any objects of the program
  Context,    \* _Context of a connection
  Type, Data, \* a value is some data of some type
  Addr,       \* addresses of Holders
  Null,       \* nullptr
  Free        \* what a deleted Holder contains

ASSUME AnyAssumption ==
  Context \notin Obj /\ Null \notin Addr /\ Null \notin Type \X Data /\ Free \notin Type \X Data

AnyObj == Obj \cup {Context}
Value == Type \X Data

VARIABLES
  process,    \* up, aborted in get, or crashed by what is undefined
  alive,      \* the Any objects that exist
  content,    \* _content
  heap,       \* the Holders
  meant,      \* history: the value each object should have
  assigned    \* history: the context got another object's _content

vars == <<process, alive, content, heap, meant, assigned>>

TypeOK ==
  /\ process \in {"up", "aborted", "crashed"}
  /\ alive \subseteq AnyObj
  /\ content \in [AnyObj -> Addr \cup {Null}]
  /\ heap \in [Addr -> Value \cup {Free}]
  /\ meant \in [AnyObj -> Value \cup {Null}]
  /\ assigned \in BOOLEAN

(* A connection starts with an empty context. *)
Init ==
  /\ process = "up" /\ alive = {Context}
  /\ content = [a \in AnyObj |-> Null] /\ meant = content
  /\ heap = [p \in Addr |-> Free]
  /\ assigned = FALSE

-----------------------------------------------------------------------------
(* The object a begins to exist with content p, meant to be the value v. *)
Begin(a, p, v) ==
  /\ process = "up" /\ a \in Obj \ alive
  /\ alive' = alive \cup {a}
  /\ content' = [content EXCEPT ![a] = p]
  /\ meant' = [meant EXCEPT ![a] = v]
  /\ UNCHANGED <<process, assigned>>

(* Mutant: the data does not get into the Holder. *)
NewHolderUnset(p, v) == p \in Addr /\ heap[p] = Free /\ heap' = [heap EXCEPT ![p] = Null]

(* The allocator returns any free address, those used before included. *)
NewHolder(p, v) == p \in Addr /\ heap[p] = Free /\ heap' = [heap EXCEPT ![p] = v]

Default(a) == Begin(a, Null, Null) /\ UNCHANGED heap

Construct(a, v) == \E p \in Addr : NewHolder(p, v) /\ Begin(a, p, v)

(* Mutant: copies the pointer. *)
CopyPointer(a, b) == b \in alive /\ Begin(a, content[b], meant[b]) /\ UNCHANGED heap

(* The copy constructor clones.  Of a deleted Holder it copies whatever is *)
(* in its memory.                                                          *)
Copy(a, b) ==
  /\ b \in alive
  /\ IF content[b] = Null
     THEN Begin(a, Null, meant[b]) /\ UNCHANGED heap
     ELSE \E p \in Addr, v \in Value :
            /\ heap[content[b]] \in {v, Free}
            /\ NewHolder(p, v) /\ Begin(a, p, meant[b])

(* Mutant: only the address is forgotten. *)
DestroyWithoutDelete(a) ==
  /\ process = "up" /\ a \in alive
  /\ alive' = alive \ {a}
  /\ UNCHANGED <<process, content, heap, meant, assigned>>

(* The destructor deletes; a second deletion goes unnoticed or not. *)
Destroy(a) ==
  /\ process = "up" /\ a \in alive
  /\ alive' = alive \ {a}
  /\ IF content[a] = Null \/ heap[content[a]] # Free
     THEN UNCHANGED process
     ELSE process' \in {"up", "crashed"}
  /\ heap' = [p \in Addr |-> IF p = content[a] THEN Free ELSE heap[p]]
  /\ UNCHANGED <<content, meant, assigned>>

(* The program gets the data as type t and changes it.  get asserts that   *)
(* the type is right; an empty Any's it asks through a null pointer.       *)
GetAndWrite(a, t, d) ==
  /\ process = "up" /\ a \in alive
  /\ LET Ends(how) == process' \in how /\ UNCHANGED <<heap, meant>>
         held == heap[content[a]]
     IN  \/ content[a] = Null /\ Ends({"aborted"})
         \/ content[a] # Null /\ held = Free /\ Ends({"up", "crashed"})
         \/ content[a] # Null /\ held \in Value /\ held[1] # t /\ Ends({"aborted"})
         \/ /\ content[a] # Null /\ held \in Value /\ held[1] = t
            /\ heap' = [heap EXCEPT ![content[a]] = <<t, d>>]
            /\ meant' = [meant EXCEPT ![a] = <<t, d>>]
            /\ UNCHANGED process
  /\ UNCHANGED <<alive, content, assigned>>

(* The context gets the pointer p and is meant to be what b is. *)
Assign(p, b) ==
  /\ process = "up" /\ {b, Context} \subseteq alive
  /\ content' = [content EXCEPT ![Context] = p]
  /\ meant' = [meant EXCEPT ![Context] = meant[b]]
  /\ assigned' = (assigned \/ p # content[Context])
  /\ UNCHANGED <<process, alive, heap>>

(* SetContext assigns the caller's object. *)
SetContext(b) == Assign(content[b], b)

(* Upgrade assigns the copy in a functor, which is destroyed when it has   *)
(* run: the address it had is free again.                                  *)
Upgrade(b) ==
  IF content[b] = Null
  THEN Assign(Null, b)
  ELSE \E p \in Addr : heap[p] = Free /\ Assign(p, b)

-----------------------------------------------------------------------------
Next ==
  \/ \E a \in Obj :
       \/ Default(a)
       \/ \E v \in Value : Construct(a, v)
       \/ \E b \in AnyObj : Copy(a, b)
  \/ \E b \in Obj : SetContext(b) \/ Upgrade(b)
  \/ \E a \in AnyObj :
       \/ Destroy(a)
       \/ \E t \in Type, d \in Data : GetAndWrite(a, t, d)

Spec == Init /\ [][Next]_vars

-----------------------------------------------------------------------------
Holding == {a \in alive : content[a] # Null}

(* Every Holder on the heap belongs to exactly one object that exists, so  *)
(* that none is leaked or deleted twice, in whatever order copies are made *)
(* and destroyed and addresses come back: until a context is assigned.     *)
OwnedOnce ==
  ~assigned =>
    /\ process # "crashed"
    /\ {p \in Addr : heap[p] # Free} = {content[a] : a \in Holding}
    /\ \A a, b \in Holding : content[a] = content[b] => a = b

(* An Any is a value: it is what it was constructed from, copied from or   *)
(* last written to, whatever happens to its copies and to the objects it   *)
(* was copied from: until a context is assigned.                           *)
ActsAsValue ==
  ~assigned =>
    \A a \in alive : IF content[a] = Null THEN meant[a] = Null ELSE heap[content[a]] = meant[a]

=============================================================================
