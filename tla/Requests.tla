------------------------------- MODULE Requests -------------------------------
(***************************************************************************)
(* Requests of clients on top of Connection: bytes arrive at the socket of *)
(* a connection, and Connection::HandleRead gives them to the message      *)
(* callback when the channel is dispatched with EPOLLIN.  epoll reports    *)
(* EPOLLIN for a descriptor whose interest includes it.                    *)
(***************************************************************************)
EXTENDS Connection

VARIABLES
  arrived,    \* connections on which a request waits in the socket
  handled     \* connections whose message callback was called

requestVars == <<vars, arrived, handled>>

RequestsInit == Init /\ arrived = {} /\ handled = {}

Arrive(c) ==
  /\ process = "up" /\ sock[c] # None
  /\ arrived' = arrived \cup {c}
  /\ UNCHANGED <<vars, handled>>

(* Handlers of the ready channels, HandleRead first where EPOLLIN is set *)
DispatchRequest(c) ==
  /\ Dispatch(c)
  /\ handled' = IF "IN" \in revents[c] THEN handled \cup {c} ELSE handled
  /\ UNCHANGED arrived

(* The other steps of Connection *)
OtherStep ==
  /\ Next /\ ~ \E c \in Conn : Dispatch(c)
  /\ UNCHANGED <<arrived, handled>>

RequestsNext ==
  \/ \E c \in Conn : Arrive(c) \/ DispatchRequest(c)
  \/ OtherStep

(* The loop keeps running. *)
RequestsSpec ==
  /\ RequestsInit
  /\ [][RequestsNext]_requestVars
  /\ WF_requestVars(LoopStep /\ RequestsNext)

(***************************************************************************)
(* "The server is designed to handle multiple client requests concurrently *)
(* using a single thread and a single event loop" (README.md:5): a request *)
(* that arrives on a connection gets to the message callback, unless the   *)
(* connection is released or the process ends.                             *)
(***************************************************************************)
RequestsHandled ==
  \A c \in Conn :
    c \in arrived ~> c \in handled \/ sock[c] = None \/ process # "up"

=============================================================================
