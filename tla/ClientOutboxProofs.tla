------------------------- MODULE ClientOutboxProofs -------------------------
(* Theorems about ClientOutbox, for any set of tasks.                      *)
EXTENDS ClientOutbox, SequenceTheorems, TLAPS

-----------------------------------------------------------------------------
(* The inductive invariant                                                 *)

\* A task whose result was in the outbox at some time.
Delivered(t) == task[t] \in {"waking", "pushed"}

\* The queue holds results that were pushed, each once.
QueueShape ==
  /\ \A i \in 1..Len(queue) : Delivered(queue[i])
  /\ \A i, j \in 1..Len(queue) : queue[i] = queue[j] => i = j

\* What has left the outbox had been pushed.
PushedOnly == \A t \in accepted \cup refused : Delivered(t)

\* While submitLoop has a result in hand it is the head of the queue, and it
\* has a verdict by the time the queue is popped.
HeadInHand ==
  /\ loop \in {"submit", "answer", "pop"} => queue # <<>>
  /\ loop = "answer" => Head(queue) \in accepted
  /\ loop = "pop" => Head(queue) \in accepted \cup refused

\* KeptUntilHandled, with an index for the place in the queue.
Kept ==
  \A t \in Tasks : Delivered(t) =>
    t \in accepted \cup refused \/ \E i \in 1..Len(queue) : queue[i] = t

\* A result given up was logged, at once or when the outbox was closed.
Logged ==
  /\ refused \subseteq logged
  /\ \A t \in Tasks : task[t] = "dropped" => t \in logged
  /\ loop = "stopped" => closed
  /\ closed => \A t \in Tasks : Delivered(t) => t \in accepted \cup logged

\* Only the head can have a verdict.
HeadOnly == \A i \in 1..Len(queue) : i > 1 => queue[i] \notin accepted \cup refused

\* Tasks come from a session, which has an ack behind it.
Signed ==
  /\ run = "session" => signed
  /\ \A t \in Tasks : task[t] # "none" => signed

IInv ==
  /\ TypeOK
  /\ QueueShape
  /\ PushedOnly
  /\ HeadInHand
  /\ Kept
  /\ Logged
  /\ HeadOnly
  /\ Signed
  /\ NoLostWakeup

-----------------------------------------------------------------------------
(* Lemmas about queues                                                     *)

\* Appending a new element keeps the old ones in their places.
LEMMA AppendElements ==
  ASSUME NEW S, NEW q \in Seq(S), NEW e \in S
  PROVE  /\ Append(q, e) \in Seq(S)
         /\ Len(Append(q, e)) = Len(q) + 1
         /\ \A i \in 1..Len(q) : Append(q, e)[i] = q[i]
         /\ Append(q, e)[Len(q) + 1] = e
  BY AppendProperties

\* Removing the head moves every other element one place forward.
LEMMA TailElements ==
  ASSUME NEW S, NEW q \in Seq(S), q # <<>>
  PROVE  /\ Tail(q) \in Seq(S)
         /\ Len(q) \in Nat \ {0}
         /\ Len(Tail(q)) = Len(q) - 1
         /\ \A i \in 1..Len(Tail(q)) : Tail(q)[i] = q[i + 1]
         /\ Head(q) = q[1]
         /\ Head(q) \in S
  BY HeadTailProperties

\* The two ways to say that a result is in the queue.
LEMMA QueuedIndex ==
  ASSUME queue \in Seq(Tasks)
  PROVE  Queued = {queue[i] : i \in 1..Len(queue)}
  BY DEF Queued

-----------------------------------------------------------------------------
(* Initial states and steps                                                *)

LEMMA InitInvariant == Init => IInv
<1> SUFFICES ASSUME Init PROVE IInv
  OBVIOUS
<1>1. queue \in Seq(Tasks) /\ Len(queue) = 0
  BY DEF Init
<1>2. TypeOK
  <2>1. notify \in 0..1
    BY DEF Init
  <2>2. task \in [Tasks -> TaskStates]
    BY DEF Init, TaskStates
  <2> QED
    BY <1>1, <2>1, <2>2 DEF Init, TypeOK, RunStates, LoopStates
<1>3. QueueShape /\ HeadOnly
  BY <1>1 DEF QueueShape, HeadOnly
<1> QED
  BY <1>1, <1>2, <1>3 DEF Init, IInv, PushedOnly, HeadInHand, Kept, Logged,
      Signed, NoLostWakeup, Delivered

\* outbox.stop logs whatever the queue still holds.
LEMMA StopLogged ==
  ASSUME IInv, Stop, UNCHANGED <<task, accepted, refused>>
  PROVE  /\ logged' \subseteq Tasks
         /\ refused' \subseteq logged'
         /\ \A t \in Tasks : task'[t] = "dropped" => t \in logged'
         /\ closed'
         /\ \A t \in Tasks : Delivered(t)' => t \in accepted' \cup logged'
<1> USE DEF IInv, TypeOK, Logged, Kept, Delivered
<1>1. Queued = {queue[i] : i \in 1..Len(queue)}
  BY QueuedIndex
<1>2. Queued \subseteq Tasks
  BY <1>1
<1>3. CASE closed
  BY <1>3 DEF Stop
<1>4. CASE ~closed
  BY <1>1, <1>2, <1>4 DEF Stop
<1> QED
  BY <1>3, <1>4

\* Run, runSession and the start of runTask: the outbox is untouched, except
\* by the stop after a refusal.
LEMMA SessionStep ==
  ASSUME IInv,
         \/ ConnectOk
         \/ SessionFails
         \/ ConnectRefused
         \/ Backoff
         \/ RunReturns
         \/ CancelRun
         \/ \E t \in Tasks : RecvTask(t)
  PROVE  IInv'
<1> USE DEF IInv, TypeOK, RunStates, TaskStates, LoopStates, QueueShape, PushedOnly,
      HeadInHand, Kept, Logged, HeadOnly, Signed, NoLostWakeup, Delivered, outboxVars
<1>1. CASE ConnectOk
  BY <1>1 DEF ConnectOk
<1>2. CASE SessionFails
  BY <1>2 DEF SessionFails
<1>3. CASE ConnectRefused
  <2>1. Stop /\ UNCHANGED <<task, accepted, refused, loop, queue, notify, signed, cancelled>>
    BY <1>3 DEF ConnectRefused, Stop
  <2>2. run' = "ended"
    BY <1>3 DEF ConnectRefused
  <2> HIDE DEF Delivered, IInv, TypeOK, Logged, Kept
  <2>3. /\ logged' \subseteq Tasks
        /\ refused' \subseteq logged'
        /\ \A t \in Tasks : task'[t] = "dropped" => t \in logged'
        /\ closed'
        /\ \A t \in Tasks : Delivered(t)' => t \in accepted' \cup logged'
    BY <2>1, StopLogged
  <2>4. closed' = TRUE
    BY <2>1 DEF Stop
  <2> QED
    BY <2>1, <2>2, <2>3, <2>4 DEF Delivered, IInv, TypeOK, Logged, Kept
<1>4. CASE Backoff
  BY <1>4 DEF Backoff
<1>5. CASE RunReturns
  BY <1>5 DEF RunReturns
<1>6. CASE CancelRun
  BY <1>6 DEF CancelRun
<1>7. ASSUME NEW t \in Tasks, RecvTask(t) PROVE IInv'
  BY <1>7 DEF RecvTask
<1> QED
  BY <1>1, <1>2, <1>3, <1>4, <1>5, <1>6, <1>7

\* outbox.push.
LEMMA PushStep ==
  ASSUME IInv, NEW t \in Tasks, Push(t) \/ PushDropped(t) \/ Wake(t)
  PROVE  IInv'
<1> USE DEF IInv, TypeOK, RunStates, TaskStates, LoopStates, QueueShape, PushedOnly,
      HeadInHand, Kept, Logged, HeadOnly, Signed, NoLostWakeup, Delivered, outboxVars
<1>1. CASE Push(t)
  <2>1. /\ queue' \in Seq(Tasks)
        /\ Len(queue') = Len(queue) + 1
        /\ \A i \in 1..Len(queue) : queue'[i] = queue[i]
        /\ queue'[Len(queue) + 1] = t
    BY <1>1, AppendElements DEF Push
  <2>2. Len(queue) \in Nat
    OBVIOUS
  <2>3. task' = [task EXCEPT ![t] = "waking"] /\ task[t] = "running"
    BY <1>1 DEF Push
  <2>4. ~closed /\ UNCHANGED <<run, cancelled, signed, closed, notify, loop, accepted,
                               refused, logged>>
    BY <1>1 DEF Push
  <2>5. t \notin accepted \cup refused /\ \A i \in 1..Len(queue) : queue[i] # t
    BY <2>3
  <2>6. TypeOK'
    BY <2>1, <2>3, <2>4
  <2>7. QueueShape'
    <3>1. \A i \in 1..Len(queue) : Delivered(queue[i]) /\ queue[i] \in Tasks
      OBVIOUS
    <3>2. \A i, j \in 1..Len(queue) : queue[i] = queue[j] => i = j
      OBVIOUS
    <3>3. task \in [Tasks -> TaskStates]
      OBVIOUS
    <3> HIDE DEF IInv, TypeOK, Kept, Logged, HeadOnly, Signed, NoLostWakeup, HeadInHand,
          PushedOnly, TaskStates, QueueShape
    <3>4. \A i \in 1..Len(queue') : i \in 1..Len(queue) \/ i = Len(queue) + 1
      BY <2>1, <2>2
    <3>5. \A i \in 1..Len(queue') : task'[queue'[i]] \in {"waking", "pushed"}
      <4> SUFFICES ASSUME NEW i \in 1..Len(queue')
                   PROVE  task'[queue'[i]] \in {"waking", "pushed"}
        OBVIOUS
      <4>1. CASE i \in 1..Len(queue)
        BY <4>1, <2>1, <2>3, <2>5, <3>1, <3>3
      <4>2. CASE i = Len(queue) + 1
        BY <4>2, <2>1, <2>3, <3>3
      <4> QED
        BY <3>4, <4>1, <4>2
    <3>6. \A i, j \in 1..Len(queue') : queue'[i] = queue'[j] => i = j
      BY <2>1, <2>5, <3>2, <3>4
    <3> QED
      BY <3>5, <3>6 DEF QueueShape
  <2>8. HeadInHand'
    <3>1. Head(queue') = queue'[1]
      BY <2>1, <2>2, TailElements
    <3>2. queue # <<>> => Head(queue') = Head(queue)
      BY <2>1, <2>2, <3>1, TailElements
    <3>3. queue' # <<>>
      BY <2>1, <2>2
    <3> QED
      BY <2>4, <3>2, <3>3
  <2>9. Kept'
    <3> SUFFICES ASSUME NEW s \in Tasks, Delivered(s)', s \notin accepted' \cup refused'
                 PROVE  \E i \in 1..Len(queue') : queue'[i] = s
      OBVIOUS
    <3>1. CASE s = t
      BY <3>1, <2>1, <2>2
    <3>2. CASE s # t
      BY <3>2, <2>1, <2>2, <2>3, <2>4
    <3> QED
      BY <3>1, <3>2
  <2>10. HeadOnly'
    BY <2>1, <2>2, <2>4, <2>5
  <2> QED
    BY <2>3, <2>4, <2>6, <2>7, <2>8, <2>9, <2>10
<1>2. CASE PushDropped(t)
  BY <1>2 DEF PushDropped
<1>3. CASE Wake(t)
  BY <1>3 DEF Wake
<1> QED
  BY <1>1, <1>2, <1>3

\* submitLoop and the SubmitResult calls it makes.
LEMMA LoopStep ==
  ASSUME IInv,
         \/ SubmitLoop
         \/ RequestArrives
         \/ AnswerArrives
         \/ CallFails
         \/ CallRefused
  PROVE  IInv'
<1> USE DEF IInv, TypeOK, RunStates, TaskStates, LoopStates, QueueShape, PushedOnly,
      HeadInHand, Kept, Logged, HeadOnly, Signed, NoLostWakeup, Delivered, outboxVars
<1>1. CASE Notified
  BY <1>1 DEF Notified
<1>2. CASE Peek
  BY <1>2 DEF Peek
<1>3. CASE Pop
  <2>1. queue # <<>> /\ queue' = Tail(queue) /\ loop' = "peek" /\ loop = "pop"
    BY <1>3 DEF Pop
  <2>2. /\ queue' \in Seq(Tasks)
        /\ Len(queue) \in Nat \ {0}
        /\ Len(queue') = Len(queue) - 1
        /\ \A i \in 1..Len(queue') : queue'[i] = queue[i + 1]
        /\ queue[1] \in accepted \cup refused
    BY <2>1, TailElements
  <2>3. UNCHANGED <<run, cancelled, signed, task, closed, notify, accepted, refused, logged>>
    BY <1>3 DEF Pop
  <2>4. QueueShape'
    <3>1. \A i \in 1..Len(queue') : i + 1 \in 1..Len(queue)
      BY <2>2
    <3> QED
      BY <2>2, <2>3, <3>1
  <2>5. Kept'
    <3> SUFFICES ASSUME NEW s \in Tasks, Delivered(s)', s \notin accepted' \cup refused'
                 PROVE  \E i \in 1..Len(queue') : queue'[i] = s
      OBVIOUS
    <3>1. PICK i \in 1..Len(queue) : queue[i] = s
      BY <2>3
    <3>2. i # 1
      BY <3>1, <2>2, <2>3
    <3>3. i - 1 \in 1..Len(queue') /\ queue'[i - 1] = s
      BY <3>1, <3>2, <2>2
    <3> QED
      BY <3>3
  <2>6. HeadOnly'
    BY <2>2, <2>3
  <2> QED
    BY <2>1, <2>2, <2>3, <2>4, <2>5, <2>6
<1>4. CASE Retry
  BY <1>4 DEF Retry
<1>5. CASE LoopCancelled
  BY <1>5 DEF LoopCancelled
<1>6. CASE LoopReturns
  <2>1. /\ Stop
        /\ UNCHANGED <<run, cancelled, signed, task, accepted, refused, queue, notify>>
        /\ loop' = "stopped"
        /\ closed'
    BY <1>6 DEF LoopReturns, Stop
  <2> HIDE DEF Delivered, IInv, TypeOK, Logged, Kept
  <2>2. /\ logged' \subseteq Tasks
        /\ refused' \subseteq logged'
        /\ \A t \in Tasks : task'[t] = "dropped" => t \in logged'
        /\ \A t \in Tasks : Delivered(t)' => t \in accepted' \cup logged'
    BY <2>1, StopLogged
  <2>3. closed' = TRUE
    BY <2>1 DEF Stop
  <2> QED
    BY <2>1, <2>2, <2>3 DEF Delivered, IInv, TypeOK, Logged, Kept
<1>7. CASE RequestArrives
  <2>1. /\ Len(queue) \in Nat \ {0}
        /\ Head(queue) = queue[1]
        /\ Head(queue) \in Tasks
    BY <1>7, TailElements DEF RequestArrives
  <2> QED
    BY <1>7, <2>1 DEF RequestArrives
<1>8. CASE AnswerArrives
  BY <1>8 DEF AnswerArrives
<1>9. CASE CallFails
  BY <1>9 DEF CallFails
<1>10. CASE CallRefused
  <2>1. /\ Len(queue) \in Nat \ {0}
        /\ Head(queue) = queue[1]
        /\ Head(queue) \in Tasks
    BY <1>10, TailElements DEF CallRefused
  <2> QED
    BY <1>10, <2>1 DEF CallRefused
<1> QED
  BY <1>1, <1>2, <1>3, <1>4, <1>5, <1>6, <1>7, <1>8, <1>9, <1>10 DEF SubmitLoop

LEMMA NextInvariant ==
  ASSUME IInv, [Next]_vars
  PROVE  IInv'
<1>1. CASE UNCHANGED vars
  BY <1>1 DEF vars, outboxVars, IInv, TypeOK, QueueShape, PushedOnly, HeadInHand, Kept,
      Logged, HeadOnly, Signed, NoLostWakeup, Delivered
<1>2. CASE Terminated
  BY <1>1, <1>2 DEF Terminated
<1> QED
  BY <1>1, <1>2, SessionStep, PushStep, LoopStep DEF Next

LEMMA Invariance == Spec => []IInv
  BY InitInvariant, NextInvariant, PTL DEF Spec

-----------------------------------------------------------------------------
(* Theorems                                                                *)

\* The outbox only ever holds results of tasks and every control state is one
\* of the code's.
THEOREM OutboxTypeCorrect == Spec => []TypeOK
<1>1. IInv => TypeOK
  BY DEF IInv
<1> QED
  BY <1>1, Invariance, PTL

\* push appends and wakes in two steps, the channel holds one token, and yet
\* submitLoop never sleeps on a queue that is not empty without a token or a
\* goroutine that is about to leave one.
THEOREM NoLostWakeupAlways == Spec => []NoLostWakeup
<1>1. IInv => NoLostWakeup
  BY DEF IInv
<1> QED
  BY <1>1, Invariance, PTL

\* However calls, answers and sessions are lost, a pushed result is in the
\* queue, at the server, or refused for good.
THEOREM KeptUntilHandledAlways == Spec => []KeptUntilHandled
<1>1. IInv => KeptUntilHandled
  <2> SUFFICES ASSUME IInv, NEW t \in Tasks, Delivered(t), t \notin accepted \cup refused
               PROVE  t \in Queued
    BY DEF KeptUntilHandled, Delivered
  <2>1. PICK i \in 1..Len(queue) : queue[i] = t
    BY DEF IInv, Kept
  <2> QED
    BY <2>1, QueuedIndex DEF IInv, TypeOK
<1> QED
  BY <1>1, Invariance, PTL

\* Once the delivery has stopped every result is at the server or in the log.
THEOREM NothingLostInSilenceAlways == Spec => []NothingLostInSilence
<1>1. IInv => NothingLostInSilence
  BY DEF IInv, Logged, NothingLostInSilence, Delivered
<1> QED
  BY <1>1, Invariance, PTL

\* The server sees results in the order of the queue: nothing behind the head
\* has been submitted.
THEOREM OnlyHeadAcceptedAlways == Spec => []OnlyHeadAccepted
<1>1. IInv => OnlyHeadAccepted
  <2> SUFFICES ASSUME IInv, NEW i \in DOMAIN queue, i > 1
               PROVE  queue[i] \notin accepted \cup refused
    BY DEF OnlyHeadAccepted
  <2>1. i \in 1..Len(queue)
    BY DEF IInv, TypeOK
  <2> QED
    BY <2>1 DEF IInv, HeadOnly
<1> QED
  BY <1>1, Invariance, PTL

\* No result is submitted before the client has a connection id to sign it
\* with.
THEOREM AlwaysSignedAlways == Spec => []AlwaysSigned
<1>1. IInv => AlwaysSigned
  <2> SUFFICES ASSUME IInv, loop \in {"submit", "answer"} PROVE signed
    BY DEF AlwaysSigned
  <2>1. 1 \in 1..Len(queue) /\ queue[1] \in Tasks
    BY TailElements DEF IInv, TypeOK, HeadInHand
  <2>2. task[queue[1]] # "none"
    BY <2>1 DEF IInv, QueueShape, Delivered
  <2> QED
    BY <2>1, <2>2 DEF IInv, Signed
<1> QED
  BY <1>1, Invariance, PTL
=============================================================================
