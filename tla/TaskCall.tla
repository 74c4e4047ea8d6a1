------------------------------ MODULE TaskCall ------------------------------
(***************************************************************************)
(* What SendTask promises those who call it, without the connections,      *)
(* queues and goroutines behind it: a task goes out once or not at all, a  *)
(* call ends once, with a result only of its addressee, and with a failure *)
(* only if a connection of its addressee was lost or a task of its id will *)
(* never go out (pending.go, comments of SendTask, HandleResult and        *)
(* FailTask). Nobody is supposed to guess an id that no caller chose.      *)
(***************************************************************************)
CONSTANTS
  Calls,      \* invocations of SendTask
  ConnIds,    \* connection ids
  TaskIds,    \* task ids
  CallerIds,  \* those that a caller chose itself and may use again
  Timed,      \* calls whose task has a timeout
  None

VARIABLES
  addressee,  \* addressee[c]: connection id the task is for
  id,         \* id[c]: the task id
  message,    \* message[c]: "none", "queued", "sent", or "gone": it never will be
  verdict,    \* verdict[c]: how the call ended, or "none"; of a result, whose it is
  lost        \* connection ids that a connection of was lost

vars == <<addressee, id, message, verdict, lost>>

Init ==
  /\ addressee = [c \in Calls |-> None]
  /\ id = [c \in Calls |-> None]
  /\ message = [c \in Calls |-> "none"]
  /\ verdict = [c \in Calls |-> "none"]
  /\ lost = {}

\* A call ends with verdict v; what has not been queued by then never is.
End(c, v) ==
  /\ verdict[c] = "none"
  /\ verdict' = [verdict EXCEPT ![c] = v]
  /\ message' = [message EXCEPT ![c] = IF @ = "none" THEN "gone" ELSE @]
  /\ UNCHANGED <<addressee, id, lost>>

Address(c, to) ==
  /\ addressee[c] = None
  /\ addressee' = [addressee EXCEPT ![c] = to]
  /\ UNCHANGED <<id, message, verdict, lost>>

\* Nobody is connected under that id.
NotFound(c, to) ==
  /\ addressee[c] = None /\ verdict[c] = "none"
  /\ addressee' = [addressee EXCEPT ![c] = to]
  /\ verdict' = [verdict EXCEPT ![c] = "notFound"]
  /\ message' = [message EXCEPT ![c] = "gone"]
  /\ UNCHANGED <<id, lost>>

\* An id that no caller chose is new.
Identify(c, t) ==
  /\ addressee[c] # None /\ id[c] = None /\ verdict[c] = "none"
  /\ id' = [id EXCEPT ![c] = t]
  /\ t \in CallerIds \/ \A d \in Calls : id[d] # t
  /\ UNCHANGED <<addressee, message, verdict, lost>>

\* Only an id that a caller chose can be waiting already.
AlreadyPending(c) ==
  /\ id[c] = None
  /\ End(c, "alreadyPending")
  /\ \E d \in Calls : id[d] \in CallerIds

Queue(c) ==
  /\ id[c] # None /\ verdict[c] = "none"
  /\ message[c] = "none"
  /\ message' = [message EXCEPT ![c] = "queued"]
  /\ UNCHANGED <<addressee, id, verdict, lost>>

\* What is queued goes out, or never will, whether the call still waits or not.
Settle(c) ==
  /\ message[c] = "queued" /\ message'[c] \in {"sent", "gone"}
  /\ message' = [message EXCEPT ![c] = message'[c]]
  /\ UNCHANGED <<addressee, id, verdict, lost>>

Lose(to) ==
  /\ lost' = lost \cup {to}
  /\ UNCHANGED <<addressee, id, message, verdict>>

\* A result is its addressee's; and of a task that went out, unless a caller
\* chose the id: then the addressee may have known it without the task.
Result(c) ==
  /\ id[c] # None
  /\ End(c, addressee[c])
  /\ message[c] # "none"
  /\ id[c] \in CallerIds \/ message[c] = "sent"

\* ErrConnectionClosed.
Closed(c) ==
  /\ id[c] # None
  /\ End(c, "closed")
  /\ addressee[c] \in lost \/ \E d \in Calls : id[d] = id[c] /\ message'[d] = "gone"

\* STATUS_TIMEOUT.
TimedOut(c) == c \in Timed /\ End(c, "timeout") /\ message[c] # "none"

GivenUp(c) == id[c] # None /\ End(c, "ctxErr")

Next ==
  \/ \E c \in Calls, to \in ConnIds : Address(c, to) \/ NotFound(c, to)
  \/ \E c \in Calls, t \in TaskIds : Identify(c, t)
  \/ \E c \in Calls :
       \/ AlreadyPending(c) \/ Queue(c) \/ Settle(c)
       \/ Result(c) \/ Closed(c) \/ TimedOut(c) \/ GivenUp(c)
  \/ \E to \in ConnIds : Lose(to)

Spec == Init /\ [][Next]_vars

=============================================================================
