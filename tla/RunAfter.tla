------------------------------- MODULE RunAfter -------------------------------
(***************************************************************************)
(* The users of the timer wheel: TCPServer::RunAfter, and connections that *)
(* are to be released when they are inactive.  Both draw a new id and call *)
(* the public TimerAdd of the loop, on the loop's thread, which goes on to *)
(* TimerAddInLoop only for an id that already has a timer.  Id is a set of *)
(* positive numbers here, at most as many as are drawn.                    *)
(***************************************************************************)
EXTENDS TimerWheel

VARIABLES
  nextID,     \* _NextID
  accepted,   \* the ids that RunAfter drew
  enabled     \* the connections with _EnableInactiveRelease

serverVars == <<vars, nextID, accepted, enabled>>

ServerInit == Init /\ nextID = 0 /\ accepted = {} /\ enabled = {}

TimerAdd(id, d) ==
  \/ ~HasTimer(id) /\ UNCHANGED vars
  \/ HasTimer(id) /\ TimerAddInLoop(id, d)

(* TimerRefresh and TimerCancel return when there is no timer. *)
TimerRefresh(id) ==
  \/ ~HasTimer(id) /\ UNCHANGED vars
  \/ TimerRefreshInLoop(id)

TimerCancel(id) ==
  \/ ~HasTimer(id) /\ UNCHANGED vars
  \/ TimerCancelInLoop(id)

DrawID == InUserCode /\ nextID + 1 \in Id /\ nextID' = nextID + 1

RunAfterInLoop(d) ==
  /\ DrawID
  /\ accepted' = accepted \cup {nextID'}
  /\ TimerAdd(nextID', d)
  /\ UNCHANGED enabled

(* NewConnection of a server with SetEnableInactiveRelease, and the        *)
(* refresh in EstablishedInLoop, which comes when the timer was just added *)
NewConnection(d) ==
  /\ DrawID
  /\ enabled' = enabled \cup {nextID'}
  /\ TimerAdd(nextID', d)
  /\ UNCHANGED accepted

Connections == 1 .. nextID \ accepted

EnableInactiveReleaseInLoop(id, d) ==
  /\ InUserCode /\ id \in Connections
  /\ enabled' = enabled \cup {id}
  /\ IF HasTimer(id) THEN TimerRefresh(id) ELSE TimerAdd(id, d)
  /\ UNCHANGED <<nextID, accepted>>

CancelInactiveReleaseInLoop(id) ==
  /\ InUserCode /\ id \in Connections
  /\ enabled' = enabled \ {id}
  /\ TimerCancel(id)
  /\ UNCHANGED <<nextID, accepted>>

(* Any event of the connection refreshes its timer. *)
HandleEvent(id) ==
  /\ InUserCode /\ id \in enabled
  /\ TimerRefresh(id)
  /\ UNCHANGED <<nextID, accepted, enabled>>

WheelStep == (Second \/ LoopStep) /\ UNCHANGED <<nextID, accepted, enabled>>

ServerNext ==
  \/ WheelStep
  \/ \E d \in Delay : RunAfterInLoop(d) \/ NewConnection(d)
  \/ \E id \in Id :
       \/ CancelInactiveReleaseInLoop(id) \/ HandleEvent(id)
       \/ \E d \in Delay : EnableInactiveReleaseInLoop(id, d)

(* Seconds elapse and the loop runs. *)
ServerSpec ==
  /\ ServerInit
  /\ [][ServerNext]_serverVars
  /\ WF_serverVars(Second /\ WheelStep)
  /\ WF_serverVars(LoopStep /\ WheelStep)

(***************************************************************************)
(* "Execute the corresponding function when the corresponding timer        *)
(* element is reached" (README.md:31): a task given to RunAfter runs.      *)
(***************************************************************************)
AcceptedTaskRuns == \A id \in Id : id \in accepted ~> firing = id

=============================================================================
