-------------------------------- MODULE Socket --------------------------------
(***************************************************************************)
(* Socket (Server.hpp): objects that own a descriptor, among other parts   *)
(* of the process that open and close descriptors, the lowest closed one   *)
(* being the next to be opened.  System calls may fail at any point.       *)
(***************************************************************************)
EXTENDS Naturals

CONSTANTS
  Sock,       \* Socket objects
  Fd,         \* the descriptors a process may have
  None        \* the descriptor -1

ASSUME FdAssumption == Fd \subseteq Nat /\ None \notin Fd

VARIABLES
  exists,     \* the Sockets that are constructed
  fd,         \* _fd
  file,       \* what is behind each descriptor
  loose,      \* descriptors from Accept that no Socket has got yet
  others,     \* descriptors of other parts of the process
  recreated   \* history: Create was called on a Socket that had a descriptor

vars == <<exists, fd, file, loose, others, recreated>>

TypeOK ==
  /\ exists \subseteq Sock
  /\ fd \in [Sock -> Fd \cup {None}]
  /\ file \in [Fd -> {"closed", "open", "listening", "connecting", "connected"}]
  /\ loose \subseteq Fd /\ others \subseteq Fd
  /\ recreated \in BOOLEAN

Init ==
  /\ exists = {} /\ fd = [s \in Sock |-> None]
  /\ file = [f \in Fd |-> "closed"]
  /\ loose = {} /\ others = {} /\ recreated = FALSE

Closed == {f \in Fd : file[f] = "closed"}
IsLowest(f) == f \in Closed /\ \A g \in Closed : f <= g

(* close(2) of whatever is in F *)
CloseFiles(F) == file' = [f \in Fd |-> IF f \in F THEN "closed" ELSE file[f]]

Turn(f, from, to) == file[f] \in from /\ file' = [file EXCEPT ![f] = to]

-----------------------------------------------------------------------------
Construct(s) ==
  /\ s \notin exists
  /\ exists' = exists \cup {s} /\ fd' = [fd EXCEPT ![s] = None]
  /\ UNCHANGED <<file, loose, others, recreated>>

(* Socket(int), which a Connection calls with what the Acceptor accepted *)
ConstructFrom(s, f) ==
  /\ s \notin exists /\ f \in loose
  /\ exists' = exists \cup {s} /\ fd' = [fd EXCEPT ![s] = f]
  /\ loose' = loose \ {f}
  /\ UNCHANGED <<file, others, recreated>>

Destroy(s) ==
  /\ s \in exists
  /\ exists' = exists \ {s}
  /\ CloseFiles({fd[s]})
  /\ UNCHANGED <<fd, loose, others, recreated>>

(* Mutant: the object keeps the number of the descriptor it closed. *)
CloseKeeping(s) ==
  /\ s \in exists
  /\ CloseFiles({fd[s]})
  /\ UNCHANGED <<exists, fd, loose, others, recreated>>

Close(s) ==
  /\ s \in exists
  /\ CloseFiles({fd[s]})
  /\ fd' = [fd EXCEPT ![s] = None]
  /\ UNCHANGED <<exists, loose, others, recreated>>

(* Create forgets the descriptor the object had.  The options for the      *)
(* reuse of address and port are set before that, on the old descriptor.   *)
CreateThen(s, states) ==
  /\ s \in exists
  /\ recreated' = (recreated \/ fd[s] # None)
  /\ \/ /\ fd' = [fd EXCEPT ![s] = None]
        /\ UNCHANGED file
     \/ \E f \in Fd, to \in states :
          /\ IsLowest(f)
          /\ fd' = [fd EXCEPT ![s] = f]
          /\ file' = [file EXCEPT ![f] = to]
  /\ UNCHANGED <<exists, loose, others>>

Create(s) == CreateThen(s, {"open"})

(* SetNonBlock, Bind and Listen, or Connect, may fail and leave the        *)
(* descriptor as it is.                                                    *)
CreateServer(s) == CreateThen(s, {"open", "listening"})
CreateClient(s) == CreateThen(s, {"open", "connected"})

Listen(s) ==
  /\ s \in exists /\ fd[s] # None
  /\ Turn(fd[s], {"open"}, "listening")
  /\ UNCHANGED <<exists, fd, loose, others, recreated>>

Connect(s) ==
  /\ s \in exists /\ fd[s] # None
  /\ Turn(fd[s], {"open", "connecting"}, "connected")
  /\ UNCHANGED <<exists, fd, loose, others, recreated>>

(* EINPROGRESS *)
ConnectNonBlock(s) ==
  /\ s \in exists /\ fd[s] # None
  /\ Turn(fd[s], {"open"}, "connecting")
  /\ UNCHANGED <<exists, fd, loose, others, recreated>>

Accept(s) ==
  /\ s \in exists /\ fd[s] # None /\ file[fd[s]] = "listening"
  /\ \E f \in Fd :
       /\ IsLowest(f)
       /\ file' = [file EXCEPT ![f] = "connected"]
       /\ loose' = loose \cup {f}
  /\ UNCHANGED <<exists, fd, others, recreated>>

(* Mutant: -1 is handed on as if it were a descriptor. *)
HandOnMinusOne(f) ==
  /\ f \in loose
  /\ loose' = (loose \ {f}) \cup {None}
  /\ CloseFiles({f})
  /\ UNCHANGED <<exists, fd, others, recreated>>

(* Mutant: returns without closing. *)
ForgetAccepted(f) ==
  /\ f \in loose
  /\ loose' = loose \ {f}
  /\ UNCHANGED <<exists, fd, file, others, recreated>>

(* AcceptNonBlock cannot set what it accepted to non-blocking. *)
DropAccepted(f) ==
  /\ f \in loose
  /\ loose' = loose \ {f}
  /\ CloseFiles({f})
  /\ UNCHANGED <<exists, fd, others, recreated>>

(* Other threads open and close descriptors of their own. *)
OpenOther(f) ==
  /\ IsLowest(f)
  /\ file' = [file EXCEPT ![f] = "open"] /\ others' = others \cup {f}
  /\ UNCHANGED <<exists, fd, loose, recreated>>

CloseOther(f) ==
  /\ f \in others
  /\ CloseFiles({f}) /\ others' = others \ {f}
  /\ UNCHANGED <<exists, fd, loose, recreated>>

-----------------------------------------------------------------------------
Next ==
  \/ \E s \in Sock :
       \/ Construct(s) \/ Destroy(s) \/ Close(s)
       \/ Create(s) \/ CreateServer(s) \/ CreateClient(s)
       \/ Listen(s) \/ Connect(s) \/ ConnectNonBlock(s) \/ Accept(s)
  \/ \E f \in Fd :
       \/ DropAccepted(f) \/ OpenOther(f) \/ CloseOther(f)
       \/ \E s \in Sock : ConstructFrom(s, f)

Spec == Init /\ [][Next]_vars

-----------------------------------------------------------------------------
Having == {s \in exists : fd[s] # None}

(* What Close and the destructor close is the Socket's own: a number in    *)
(* _fd is that of an open descriptor, and of no other Socket's, however    *)
(* often the number has been closed and given out again in between.        *)
HoldsItsOwn ==
  /\ \A s \in Having : fd[s] \notin Closed \cup loose \cup others
  /\ \A s, t \in Having : fd[s] = fd[t] => s = t

(* Every open descriptor is in somebody's hands, also after system calls   *)
(* failed in the middle of an operation; unless Create is called on a      *)
(* Socket that has one already, as a caller does who tries CreateServer    *)
(* again after it has failed.                                              *)
NothingLeaks ==
  ~recreated => Fd \ Closed \subseteq {fd[s] : s \in Having} \cup loose \cup others

=============================================================================
