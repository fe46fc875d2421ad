---------------------------- MODULE ConnectionLife ----------------------------
(***************************************************************************)
(* What a connection is to its user: it is open, then closing, then        *)
(* closed, and then forgotten by the server, each once and never back, and *)
(* leaves the first of these only when the user has asked for it.  Data    *)
(* taken goes out first in first out while the connection is not closed;   *)
(* what has not gone out by then is dropped.  Whether a Send is taken is   *)
(* not promised: the code takes none before Shutdown, though EchoServer    *)
(* calls Send first and then Shutdown.  No pool, channel, descriptor or    *)
(* pointer is visible here.                                                *)
(***************************************************************************)
EXTENDS Naturals, Sequences

CONSTANTS Conn, Data

VARIABLES
  asked,      \* connections whose user called Shutdown or Release
  life,       \* where each connection is in its life
  pending,    \* data taken and not gone out
  delivered   \* data gone out

vars == <<asked, life, pending, delivered>>

Init ==
  /\ asked = {}
  /\ life = [c \in Conn |-> "none"]
  /\ pending = [c \in Conn |-> <<>>]
  /\ delivered = [c \in Conn |-> <<>>]

Move(c, from, to) ==
  /\ life[c] \in from
  /\ life' = [life EXCEPT ![c] = to]

Open(c) == Move(c, {"none"}, "open") /\ UNCHANGED <<asked, pending, delivered>>

(* Shutdown or Release is called, *)
Ask(c) ==
  /\ asked' = asked \cup {c}
  /\ UNCHANGED <<life, pending, delivered>>

(* and Shutdown takes effect, within the call or later. *)
ShutDown(c) ==
  /\ asked' = asked \cup {c}
  /\ Move(c, {"open"}, "closing")
  /\ UNCHANGED <<pending, delivered>>

Take(c, x) ==
  /\ life[c] \in {"open", "closing"}
  /\ pending' = [pending EXCEPT ![c] = Append(@, x)]
  /\ UNCHANGED <<asked, life, delivered>>

Deliver(c, n) ==
  /\ life[c] \in {"open", "closing"}
  /\ delivered' = [delivered EXCEPT ![c] = @ \o SubSeq(pending[c], 1, n)]
  /\ pending' = [pending EXCEPT ![c] = SubSeq(@, n + 1, Len(@))]
  /\ UNCHANGED <<asked, life>>

Close(c) ==
  /\ c \in asked
  /\ Move(c, {"open", "closing"}, "closed")
  /\ pending' = [pending EXCEPT ![c] = <<>>]
  /\ UNCHANGED <<asked, delivered>>

Forget(c) == Move(c, {"closed"}, "forgotten") /\ UNCHANGED <<asked, pending, delivered>>

Next ==
  \E c \in Conn :
    \/ Open(c) \/ Ask(c) \/ ShutDown(c) \/ Close(c) \/ Forget(c)
    \/ \E x \in Data : Take(c, x)
    \/ \E n \in 1 .. Len(pending[c]) : Deliver(c, n)

Spec == Init /\ [][Next]_vars

=============================================================================
