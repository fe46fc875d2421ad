----------------------------- MODULE SocketProofs -----------------------------
(***************************************************************************)
(* Proofs about Socket, for any number of sockets and any descriptors: a   *)
(* Socket closes its own descriptor only, and none is lost.                *)
(***************************************************************************)
EXTENDS Socket, TLAPS

(* A descriptor that the process holds outside of any Socket is open, and  *)
(* is held once.                                                           *)
HeldOutside ==
  /\ loose \cap Closed = {} /\ others \cap Closed = {}
  /\ loose \cap others = {}

(***************************************************************************)
(* HoldsItsOwn is not inductive alone: that what the kernel gives out next *)
(* is held by nobody, and that closing what is held outside of a Socket    *)
(* closes no Socket's descriptor, need the descriptors outside.            *)
(***************************************************************************)
IInv == TypeOK /\ HoldsItsOwn /\ HeldOutside /\ NothingLeaks

LEMMA InitIInv == Init => IInv
  BY FdAssumption
     DEF Init, IInv, TypeOK, HoldsItsOwn, HeldOutside, NothingLeaks, Having, Closed

-----------------------------------------------------------------------------
(* What the operations of one Socket do, in the terms the invariant is     *)
(* stated in: a Socket lets go of its descriptor, which is closed with it, *)
(* or gets a new one.                                                      *)

LEMMA ReleaseStep ==
  ASSUME IInv, NEW s \in exists, Destroy(s) \/ Close(s)
  PROVE  IInv'
<1> USE FdAssumption DEF IInv, TypeOK, HoldsItsOwn, HeldOutside, NothingLeaks, Having, Closed, CloseFiles
<1>1. CASE Destroy(s)
  BY <1>1 DEF Destroy
<1>2. CASE Close(s)
  BY <1>2 DEF Close
<1> QED
  BY <1>1, <1>2

LEMMA CreateStep ==
  ASSUME IInv, NEW s \in Sock, CreateThen(s, {"open", "listening", "connected"})
  PROVE  IInv'
<1> USE FdAssumption DEF IInv, TypeOK, HoldsItsOwn, HeldOutside, NothingLeaks, Having, Closed, IsLowest, CreateThen
<1> DEFINE Nothing == fd' = [fd EXCEPT ![s] = None] /\ UNCHANGED file
           New(f) == IsLowest(f) /\ fd' = [fd EXCEPT ![s] = f]
                       /\ \E to \in {"open", "listening", "connected"} : file' = [file EXCEPT ![f] = to]
<1>1. Nothing \/ \E f \in Fd : New(f)
  OBVIOUS
<1>2. TypeOK' /\ HeldOutside'
  BY <1>1
<1>3. HoldsItsOwn'
  <2>1. CASE Nothing
    BY <2>1
  <2>2. ASSUME NEW f \in Fd, New(f)
        PROVE  HoldsItsOwn'
    BY <2>2
  <2> QED
    BY <1>1, <2>1, <2>2
<1>4. NothingLeaks'
  <2> SUFFICES ASSUME ~recreated', NEW g \in Fd, file'[g] # "closed", g \notin loose \cup others
               PROVE  \E t \in exists : fd'[t] = g /\ fd'[t] # None
    OBVIOUS
  <2>1. fd[s] = None
    OBVIOUS
  <2>2. CASE file[g] = "closed"
    BY <1>1, <2>2
  <2>3. CASE file[g] # "closed"
    <3>1. PICK t \in exists : fd[t] = g
      BY <2>1, <2>3
    <3> QED
      BY <1>1, <2>1, <3>1
  <2> QED
    BY <2>2, <2>3
<1> QED
  BY <1>2, <1>3, <1>4

LEMMA StepIInv == IInv /\ [Next]_vars => IInv'
<1> SUFFICES ASSUME IInv, [Next]_vars
             PROVE  IInv'
  OBVIOUS
<1> USE FdAssumption DEF IInv, TypeOK, HoldsItsOwn, HeldOutside, NothingLeaks, Having, Closed
<1>1. ASSUME NEW s \in Sock, Construct(s)
      PROVE  IInv'
  BY <1>1 DEF Construct
<1>2. ASSUME NEW s \in Sock, Destroy(s) \/ Close(s)
      PROVE  IInv'
  BY <1>2, ReleaseStep DEF Destroy, Close
<1>3. ASSUME NEW s \in Sock, Create(s) \/ CreateServer(s) \/ CreateClient(s)
      PROVE  IInv'
  <2>1. CreateThen(s, {"open", "listening", "connected"})
    BY <1>3 DEF Create, CreateServer, CreateClient, CreateThen
  <2> QED
    BY <2>1, CreateStep
<1>4. ASSUME NEW s \in Sock, Listen(s) \/ Connect(s) \/ ConnectNonBlock(s)
      PROVE  IInv'
  <2>1. /\ fd[s] \in Fd /\ file[fd[s]] # "closed"
        /\ \E to \in {"listening", "connecting", "connected"} : file' = [file EXCEPT ![fd[s]] = to]
        /\ UNCHANGED <<exists, fd, loose, others, recreated>>
    BY <1>4 DEF Listen, Connect, ConnectNonBlock, Turn
  <2>2. TypeOK' /\ Closed' = Closed
    BY <2>1
  <2> HIDE DEF Closed
  <2> QED
    BY <2>1, <2>2
<1>5. ASSUME NEW s \in Sock, Accept(s)
      PROVE  IInv'
  <2>1. PICK f \in Fd : IsLowest(f) /\ file' = [file EXCEPT ![f] = "connected"]
                         /\ loose' = loose \cup {f}
    BY <1>5 DEF Accept
  <2>2. UNCHANGED <<exists, fd, others, recreated>>
    BY <1>5 DEF Accept
  <2>3. TypeOK' /\ HoldsItsOwn' /\ HeldOutside'
    BY <2>1, <2>2 DEF IsLowest
  <2>4. NothingLeaks'
    BY <2>1, <2>2
  <2> QED
    BY <2>3, <2>4
<1>6. ASSUME NEW f \in Fd, DropAccepted(f)
      PROVE  IInv'
  <2>1. TypeOK' /\ HoldsItsOwn' /\ HeldOutside'
    BY <1>6 DEF DropAccepted, CloseFiles
  <2>2. NothingLeaks'
    BY <1>6 DEF DropAccepted, CloseFiles
  <2> QED
    BY <2>1, <2>2
<1>7. ASSUME NEW f \in Fd, OpenOther(f)
      PROVE  IInv'
  BY <1>7 DEF OpenOther, IsLowest
<1>8. ASSUME NEW f \in Fd, CloseOther(f)
      PROVE  IInv'
  BY <1>8 DEF CloseOther, CloseFiles
<1>9. ASSUME NEW f \in Fd, NEW s \in Sock, ConstructFrom(s, f)
      PROVE  IInv'
  BY <1>9 DEF ConstructFrom
<1>10. CASE UNCHANGED vars
  BY <1>10 DEF vars
<1> QED
  BY <1>1, <1>2, <1>3, <1>4, <1>5, <1>6, <1>7, <1>8, <1>9, <1>10 DEF Next

THEOREM Invariance == Spec => []IInv
  BY InitIInv, StepIInv, PTL DEF Spec

-----------------------------------------------------------------------------
(* The type invariant of the Sockets and the process's descriptors. *)
THEOREM TypeCorrect == Spec => []TypeOK
  BY Invariance, PTL DEF IInv

(***************************************************************************)
(* Close and the destructor (Socket::Close, Socket::~Socket) close a       *)
(* descriptor that nobody else has been given in the meantime.             *)
(***************************************************************************)
THEOREM SocketsHoldTheirOwn == Spec => []HoldsItsOwn
  BY Invariance, PTL DEF IInv

(***************************************************************************)
(* Whichever system calls fail in the middle of CreateServer, CreateClient *)
(* or AcceptNonBlock, every open descriptor is in somebody's hands, unless *)
(* Create overwrote one.                                                   *)
(***************************************************************************)
THEOREM NoDescriptorLeaks == Spec => []NothingLeaks
  BY Invariance, PTL DEF IInv

=============================================================================
