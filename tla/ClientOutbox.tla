---------------------------- MODULE ClientOutbox ----------------------------
(***************************************************************************)
(* akira-client's side of a connection: the reconnection loop Run, the     *)
(* sessions it opens, the goroutines that execute tasks, the outbox of     *)
(* results and submitLoop, its only consumer.                              *)
(*                                                                         *)
(* One action is one critical section of outbox.mu, one operation on the   *)
(* notify channel, or one step of the SubmitResult call. The network may   *)
(* lose the request or the answer of any call; a call the server refused   *)
(* for good is told apart from one that failed.                            *)
(***************************************************************************)
EXTENDS Naturals, Sequences

CONSTANT Tasks   \* tasks the server sends, each at most once

VARIABLES
  run,        \* Run: connecting, session, backoff, ended
  cancelled,  \* the context of Run is cancelled (the process is asked to stop)
  signed,     \* connID holds the connection_id of an ack
  task,       \* task[t]: none, running, waking (appended), pushed, dropped
  queue,      \* outbox.queue
  closed,     \* outbox.closed
  notify,     \* tokens in outbox.notify (capacity one)
  loop,       \* submitLoop's control state
  accepted,   \* results the server has received
  refused,    \* results the server refused for good
  logged      \* results the client logged as dropped

outboxVars == <<queue, closed, notify>>
vars == <<run, cancelled, signed, task, outboxVars, loop, accepted, refused, logged>>

RunStates  == {"connecting", "session", "backoff", "ended"}
TaskStates == {"none", "running", "waking", "pushed", "dropped"}
LoopStates == {"select", "peek", "submit", "answer", "pop", "retry", "return", "stopped"}

Queued == {queue[i] : i \in DOMAIN queue}

Init ==
  /\ run = "connecting"
  /\ cancelled = FALSE
  /\ signed = FALSE
  /\ task = [t \in Tasks |-> "none"]
  /\ queue = <<>>
  /\ closed = FALSE
  /\ notify = 0
  /\ loop = "select"
  /\ accepted = {}
  /\ refused = {}
  /\ logged = {}

-----------------------------------------------------------------------------
(* Run and runSession                                                      *)

\* The stream is open and its ack gave the connection id.
ConnectOk ==
  /\ run = "connecting"
  /\ run' = "session"
  /\ signed' = TRUE
  /\ UNCHANGED <<cancelled, task, outboxVars, loop, accepted, refused, logged>>

\* No stream, no ack, or the end of the stream: an error Run can repeat.
SessionFails ==
  /\ run \in {"connecting", "session"}
  /\ run' = "backoff"
  /\ UNCHANGED <<cancelled, signed, task, outboxVars, loop, accepted, refused,
                 logged>>

\* outbox.stop: the first call closes the queue and logs what is left in it.
Stop ==
  /\ closed' = TRUE
  /\ logged' = IF closed THEN logged ELSE logged \cup Queued
  /\ UNCHANGED <<queue, notify>>

\* Connect was answered with Unauthenticated or PermissionDenied.
ConnectRefused ==
  /\ run = "connecting"
  /\ ~cancelled
  /\ run' = "ended"
  /\ Stop
  /\ UNCHANGED <<cancelled, signed, task, loop, accepted, refused>>

\* The pause between two sessions is over: time.After, perhaps chosen over a
\* context that has ended too.
Backoff ==
  /\ run = "backoff"
  /\ run' = "connecting"
  /\ UNCHANGED <<cancelled, signed, task, outboxVars, loop, accepted, refused,
                 logged>>

\* case <-ctx.Done(): Run returns.
RunReturns ==
  /\ run = "backoff"
  /\ cancelled
  /\ run' = "ended"
  /\ UNCHANGED <<cancelled, signed, task, outboxVars, loop, accepted, refused,
                 logged>>

CancelRun ==
  /\ ~cancelled
  /\ cancelled' = TRUE
  /\ UNCHANGED <<run, signed, task, outboxVars, loop, accepted, refused, logged>>

\* stream.Recv returned a task: go runTask.
RecvTask(t) ==
  /\ run = "session"
  /\ task[t] = "none"
  /\ task' = [task EXCEPT ![t] = "running"]
  /\ UNCHANGED <<run, cancelled, signed, outboxVars, loop, accepted, refused,
                 logged>>

-----------------------------------------------------------------------------
(* outbox.push, run by the goroutine of the task                           *)

Push(t) ==
  /\ task[t] = "running"
  /\ ~closed
  /\ queue' = Append(queue, t)
  /\ task' = [task EXCEPT ![t] = "waking"]
  /\ UNCHANGED <<run, cancelled, signed, closed, notify, loop, accepted,
                 refused, logged>>

\* The outbox is closed: the result is dropped, with a log line.
PushDropped(t) ==
  /\ task[t] = "running"
  /\ closed
  /\ task' = [task EXCEPT ![t] = "dropped"]
  /\ logged' = logged \cup {t}
  /\ UNCHANGED <<run, cancelled, signed, outboxVars, loop, accepted, refused>>

\* Mutant of Wake: the token is added to those that are there.
WakeAdds(t) ==
  /\ task[t] = "waking"
  /\ notify' = notify + 1
  /\ task' = [task EXCEPT ![t] = "pushed"]
  /\ UNCHANGED <<run, cancelled, signed, queue, closed, loop, accepted,
                 refused, logged>>

\* outbox.wake, after the lock is released: a full channel is left as it is.
Wake(t) ==
  /\ task[t] = "waking"
  /\ notify' = 1
  /\ task' = [task EXCEPT ![t] = "pushed"]
  /\ UNCHANGED <<run, cancelled, signed, queue, closed, loop, accepted,
                 refused, logged>>

-----------------------------------------------------------------------------
(* submitLoop                                                              *)

\* case <-ob.notify
Notified ==
  /\ loop = "select"
  /\ notify > 0
  /\ notify' = notify - 1
  /\ loop' = "peek"
  /\ UNCHANGED <<run, cancelled, signed, task, queue, closed, accepted,
                 refused, logged>>

\* outbox.peek: the queue is drained, or its head is submitted.
Peek ==
  /\ loop = "peek"
  /\ loop' = IF queue = <<>> THEN "select" ELSE "submit"
  /\ UNCHANGED <<run, cancelled, signed, task, outboxVars, accepted, refused,
                 logged>>

\* The server takes the result.
RequestArrives ==
  /\ loop = "submit"
  /\ accepted' = accepted \cup {Head(queue)}
  /\ loop' = "answer"
  /\ UNCHANGED <<run, cancelled, signed, task, outboxVars, refused, logged>>

AnswerArrives ==
  /\ loop = "answer"
  /\ loop' = "pop"
  /\ UNCHANGED <<run, cancelled, signed, task, outboxVars, accepted, refused,
                 logged>>

\* The call fails, before or after the server took the result. With the
\* context over the loop returns, otherwise it will try again.
CallFails ==
  /\ loop \in {"submit", "answer"}
  /\ loop' = IF cancelled THEN "return" ELSE "retry"
  /\ UNCHANGED <<run, cancelled, signed, task, outboxVars, accepted, refused,
                 logged>>

\* A permanent error: no repetition will help, the result is given up.
CallRefused ==
  /\ loop = "submit"
  /\ ~cancelled
  /\ refused' = refused \cup {Head(queue)}
  /\ logged' = logged \cup {Head(queue)}
  /\ loop' = "pop"
  /\ UNCHANGED <<run, cancelled, signed, task, outboxVars, accepted>>

\* Mutant of Pop: after a result the loop goes back to its wait.
PopOnce ==
  /\ loop = "pop"
  /\ queue' = IF queue = <<>> THEN queue ELSE Tail(queue)
  /\ loop' = "select"
  /\ UNCHANGED <<run, cancelled, signed, task, closed, notify, accepted,
                 refused, logged>>

Pop ==
  /\ loop = "pop"
  /\ queue' = IF queue = <<>> THEN queue ELSE Tail(queue)
  /\ loop' = "peek"
  /\ UNCHANGED <<run, cancelled, signed, task, closed, notify, accepted,
                 refused, logged>>

\* Mutants of Retry: the result that failed is dropped; the loop waits for the
\* next push.
RetryDrops ==
  /\ loop = "retry"
  /\ loop' = "pop"
  /\ UNCHANGED <<run, cancelled, signed, task, outboxVars, accepted, refused,
                 logged>>

RetrySleeps ==
  /\ loop = "retry"
  /\ loop' = "select"
  /\ UNCHANGED <<run, cancelled, signed, task, outboxVars, accepted, refused,
                 logged>>

\* The pause before the next attempt is over.
Retry ==
  /\ loop = "retry"
  /\ loop' = "peek"
  /\ UNCHANGED <<run, cancelled, signed, task, outboxVars, accepted, refused,
                 logged>>

\* case <-ctx.Done(), in the wait for results or in the pause.
LoopCancelled ==
  /\ loop \in {"select", "retry"}
  /\ cancelled
  /\ loop' = "return"
  /\ UNCHANGED <<run, cancelled, signed, task, outboxVars, accepted, refused,
                 logged>>

\* Mutant of LoopReturns: the outbox stays open.
LoopReturnsOpen ==
  /\ loop = "return"
  /\ loop' = "stopped"
  /\ UNCHANGED <<run, cancelled, signed, task, outboxVars, accepted, refused,
                 logged>>

\* The deferred ob.stop().
LoopReturns ==
  /\ loop = "return"
  /\ loop' = "stopped"
  /\ Stop
  /\ UNCHANGED <<run, cancelled, signed, task, accepted, refused>>

-----------------------------------------------------------------------------
(* Specification                                                           *)

SubmitLoop ==
  \/ Notified
  \/ Peek
  \/ Pop
  \/ Retry
  \/ LoopCancelled
  \/ LoopReturns

Terminated ==
  /\ run = "ended"
  /\ loop = "stopped"
  /\ \A t \in Tasks : task[t] \in {"none", "pushed", "dropped"}
  /\ UNCHANGED vars

Next ==
  \/ ConnectOk
  \/ SessionFails
  \/ ConnectRefused
  \/ Backoff
  \/ RunReturns
  \/ CancelRun
  \/ \E t \in Tasks : RecvTask(t) \/ Push(t) \/ PushDropped(t) \/ Wake(t)
  \/ SubmitLoop
  \/ RequestArrives
  \/ AnswerArrives
  \/ CallFails
  \/ CallRefused
  \/ Terminated

Spec == Init /\ [][Next]_vars

\* Goroutines that can run do run; a call of SubmitResult that is repeated
\* forever gets through at last, with its answer. Sessions are under no
\* fairness: the outbox must not depend on them.
Fairness ==
  /\ \A t \in Tasks : WF_vars(Wake(t)) /\ WF_vars(Push(t) \/ PushDropped(t))
  /\ WF_vars(SubmitLoop)
  /\ SF_vars(RequestArrives)
  /\ SF_vars(AnswerArrives)

FairSpec == Spec /\ Fairness

-----------------------------------------------------------------------------
(* Properties                                                              *)

\* The queue holds tasks, control states are those of the code.
TypeOK ==
  /\ run \in RunStates
  /\ cancelled \in BOOLEAN
  /\ signed \in BOOLEAN
  /\ task \in [Tasks -> TaskStates]
  /\ queue \in Seq(Tasks)
  /\ closed \in BOOLEAN
  /\ notify \in 0..1
  /\ loop \in LoopStates
  /\ accepted \subseteq Tasks
  /\ refused \subseteq Tasks
  /\ logged \subseteq Tasks

\* submitLoop never sleeps on a queue with a result in it: there is a token
\* for it or a goroutine about to leave one. The append and the wake of push
\* are two steps and the channel holds one token only.
NoLostWakeup ==
  loop = "select" /\ queue # <<>> => notify > 0 \/ \E t \in Tasks : task[t] = "waking"

\* A result once pushed stays in the queue until the server has it or has
\* refused it for good, over lost calls, lost answers and lost sessions.
KeptUntilHandled ==
  \A t \in Tasks : task[t] \in {"waking", "pushed"} =>
    t \in Queued \cup accepted \cup refused

\* When the delivery has stopped, every result the server has not got was
\* logged as dropped: none is lost in silence, not even one pushed while the
\* loop was on its way out (outbox.push, stop).
NothingLostInSilence ==
  loop = "stopped" =>
    \A t \in Tasks : task[t] \in {"waking", "pushed", "dropped"} =>
      t \in accepted \cup logged

\* Results reach the server in the order they were pushed: only the head of
\* the queue can have been taken already (its answer was lost).
OnlyHeadAccepted ==
  \A i \in DOMAIN queue : i > 1 => queue[i] \notin accepted \cup refused

\* A result is never submitted without a connection id, which the server
\* would refuse for good (SubmitResult, InvalidArgument).
AlwaysSigned == loop \in {"submit", "answer"} => signed

\* Every result in the outbox is at last received or refused by the server,
\* unless the client is stopped.
EventuallyHandled ==
  \A t \in Tasks : task[t] \in {"running", "waking"} ~>
    (t \in accepted \cup refused \/ cancelled \/ closed)

=============================================================================
