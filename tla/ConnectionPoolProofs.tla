------------------------ MODULE ConnectionPoolProofs ------------------------
(***************************************************************************)
(* Theorems about ConnectionPool, for every number of connection ids,      *)
(* streams, calls and task ids, every queue capacity and every limit.      *)
(*                                                                         *)
(* What becomes of a call and of a registration: one verdict, no entry     *)
(* left, no ghost, the limit.  What becomes of a message: a result only of *)
(* the addressee, a failure of what was sent only after a loss, nothing    *)
(* sent that was queued when its connection closed; and that the pool with *)
(* its streams implements TaskCall.                                        *)
(***************************************************************************)
EXTENDS ConnectionPool, FiniteSetTheorems, TLAPS

-----------------------------------------------------------------------------
(* The inductive invariant, part 1: what local variables hold where        *)

\* An agent that closes has a connection to close, a writer past its receive
\* a message, a handler that started an id.
AgentShape ==
  /\ \A a \in Agents : apc[a] \in {"close", "drain", "failPending"} => job[a] \in Handlers
  /\ \A h \in Handlers : apc[h] \in {"check", "send"} => holding[h] \in Calls
  /\ \A h \in Handlers : apc[h] # "idle" => connId[h] \in ConnIds

\* A call has its task id exactly when it entered the registry.
CallShape ==
  /\ \A c \in Calls : cpc[c] \in {"post", "wait", "cleanup"} => tid[c] \in TaskIds
  /\ \A c \in Calls : cpc[c] \in {"idle", "enter"} => tid[c] = None
  /\ \A c \in Calls : cpc[c] \in {"enter", "post", "wait", "cleanup"} =>
       target[c] \in Handlers /\ owner[c] \in ConnIds

\* Every message that travels belongs to a call with a task id.
MessageShape ==
  /\ \A h \in Handlers : holding[h] # None => tid[holding[h]] \in TaskIds
  /\ \A h \in Handlers : \A c \in sent[h] : tid[c] \in TaskIds
  /\ \A h \in Handlers : \A i \in 1..Len(queue[h]) : tid[queue[h][i]] \in TaskIds
  /\ \A a \in Agents : \A i \in 1..Len(unsent[a]) : tid[unsent[a][i]] \in TaskIds

Shape == TypeOK /\ AgentShape /\ CallShape /\ MessageShape

LEMMA InitShape == Init => Shape
  BY PoolAssumption
  DEF Init, Shape, TypeOK, AgentShape, CallShape, MessageShape, Agents,
      AgentStates, CallStates, Outcomes

\* The steps of Close and of the failing of waits.
LEMMA ClosingShape ==
  ASSUME Shape, NEW a \in Agents, Closing(a)
  PROVE  Shape'
<1> USE PoolAssumption DEF Shape, TypeOK, AgentShape, CallShape, MessageShape,
      AgentStates, CallStates, Outcomes, Agents,
      poolVars, connVars, agentVars, callVars
<1>1. CASE CloseDone(a)
  BY <1>1 DEF CloseDone
<1>2. CASE Drain(a)
  BY <1>2 DEF Drain
<1>3. CASE Drained(a)
  <2>1. CASE a \in lost
    <3>1. unsent' = [unsent EXCEPT ![a] = <<>>]
      BY <1>3, <2>1 DEF Drained
    <3>2. \A i \in 1..Len(unsent'[a]) : FALSE
      BY <3>1
    <3>3. MessageShape'
      BY <1>3, <3>1, <3>2 DEF Drained
    <3>4. unsent' \in [Agents -> Seq(Calls)]
      BY <3>1, <<>> \in Seq(Calls)
    <3>5. TypeOK'
      BY <1>3, <2>1, <3>4 DEF Drained
    <3>6. AgentShape'
      <4>1. apc' = [apc EXCEPT ![a] = "failPending"]
            /\ UNCHANGED <<job, holding, connId>> /\ apc[a] = "drain"
        BY <1>3, <2>1 DEF Drained
      <4> QED
        BY <4>1
    <3>7. CallShape'
      BY <1>3 DEF Drained
    <3> QED
      BY <3>3, <3>5, <3>6, <3>7
  <2>2. CASE a \notin lost
    <3>1. apc' = [apc EXCEPT ![a] = "fail"] /\ UNCHANGED unsent
      BY <1>3, <2>2 DEF Drained
    <3> QED
      BY <1>3, <3>1 DEF Drained
  <2> QED
    BY <2>1, <2>2
<1>4. CASE FailTask(a)
  BY <1>4 DEF FailTask
<1>5. CASE FailPendingClient(a)
  BY <1>5 DEF FailPendingClient, EntriesOf
<1>6. ASSUME NEW c \in Calls, SignalVictim(a, c) PROVE Shape'
  BY <1>6 DEF SignalVictim
<1>7. CASE ClosingDone(a)
  BY <1>7 DEF ClosingDone
<1> QED
  BY <1>1, <1>2, <1>3, <1>4, <1>5, <1>6, <1>7 DEF Closing

\* The registration and writer steps of a Connect handler.
LEMMA HandlerShape ==
  ASSUME Shape, NEW h \in Handlers,
         \/ Handler(h) \/ Transport(h) \/ StreamDone(h)
         \/ \E id \in ConnIds : Register(h, id) \/ RegisterRefused(h, id)
  PROVE  Shape'
<1> USE PoolAssumption DEF Shape, TypeOK, AgentShape, CallShape, MessageShape,
      AgentStates, CallStates, Outcomes, Agents,
      poolVars, connVars, agentVars, callVars
<1>1. ASSUME NEW id \in ConnIds, Register(h, id) PROVE Shape'
  BY <1>1 DEF Register
<1>2. ASSUME NEW id \in ConnIds, RegisterRefused(h, id) PROVE Shape'
  BY <1>2 DEF RegisterRefused
<1>3. CASE AckSent(h)
  BY <1>3 DEF AckSent
<1>4. CASE AckFails(h)
  BY <1>4 DEF AckFails
<1>5. CASE Dequeue(h)
  BY <1>5 DEF Dequeue
<1>6. CASE WriterClosed(h)
  BY <1>6 DEF WriterClosed
<1>7. CASE StreamDone(h)
  BY <1>7 DEF StreamDone
<1>8. CASE CheckDone(h)
  <2>1. CASE h \in closed
    <3>0. /\ apc' = [apc EXCEPT ![h] = "unregister"] /\ holding' = [holding EXCEPT ![h] = None]
          /\ UNCHANGED <<poolVars, connVars, connId, sent, job, lost, unsent, victims, callVars,
                         carrying>>
      BY <1>8, <2>1 DEF CheckDone
    <3>1. TypeOK' /\ CallShape'
      BY <3>0
    <3>2. AgentShape'
      <4>1. apc' = [apc EXCEPT ![h] = "unregister"] /\ UNCHANGED <<job, connId>>
        BY <1>8, <2>1 DEF CheckDone
      <4>2. holding' = [holding EXCEPT ![h] = None]
        BY <1>8, <2>1 DEF CheckDone
      <4>3. \A a \in Agents : a # h => apc'[a] = apc[a]
        BY <4>1
      <4>4. apc'[h] = "unregister" /\ apc[h] = "check"
        BY <1>8, <4>1 DEF CheckDone
      <4>5. \A g \in Handlers : g # h => holding'[g] = holding[g]
        BY <4>2
      <4> QED
        BY <4>1, <4>3, <4>4, <4>5
    <3>3. MessageShape'
      <4>1. \A g \in Handlers : holding'[g] \in {holding[g], None}
        BY <1>8, <2>1 DEF CheckDone
      <4>2. UNCHANGED <<tid, sent, queue, unsent>>
        BY <1>8 DEF CheckDone
      <4> QED
        BY <4>1, <4>2
    <3> QED
      BY <3>1, <3>2, <3>3
  <2>2. CASE h \notin closed
    <3>1. apc' = [apc EXCEPT ![h] = "send"] /\ UNCHANGED holding
      BY <1>8, <2>2 DEF CheckDone
    <3> QED
      BY <1>8, <3>1 DEF CheckDone
  <2> QED
    BY <2>1, <2>2
<1>9. CASE Send(h)
  BY <1>9 DEF Send
<1>10. CASE SendFails(h)
  BY <1>10 DEF SendFails
<1>11. CASE UnregisterCurrent(h)
  BY <1>11 DEF UnregisterCurrent
<1>12. CASE UnregisterReplaced(h)
  BY <1>12 DEF UnregisterReplaced
<1>13. CASE UnregisterGone(h)
  BY <1>13 DEF UnregisterGone
<1> QED
  BY <1>1, <1>2, <1>3, <1>4, <1>5, <1>6, <1>7, <1>8, <1>9, <1>10, <1>11,
     <1>12, <1>13 DEF Handler, Transport

\* The critical sections of Disconnect.
LEMMA DisconnectShape ==
  ASSUME Shape, NEW a \in Admins, NEW id \in ConnIds,
         Disconnect(a, id) \/ DisconnectNothing(a, id)
  PROVE  Shape'
<1> USE PoolAssumption DEF Shape, TypeOK, AgentShape, CallShape, MessageShape,
      AgentStates, CallStates, Outcomes, Agents,
      poolVars, connVars, agentVars, callVars
<1>1. CASE Disconnect(a, id)
  BY <1>1 DEF Disconnect
<1>2. CASE DisconnectNothing(a, id)
  BY <1>2 DEF DisconnectNothing
<1> QED
  BY <1>1, <1>2

\* The steps of SendTask and of its contexts.
LEMMA CallStepShape ==
  ASSUME Shape, NEW c \in Calls,
         \/ Call(c) \/ Expire(c) \/ Cancel(c)
         \/ \E id \in ConnIds : SendTask(c, id)
  PROVE  Shape'
<1> USE PoolAssumption DEF Shape, TypeOK, AgentShape, CallShape, MessageShape,
      AgentStates, CallStates, Outcomes, Agents,
      poolVars, connVars, agentVars, callVars
<1>1. ASSUME NEW id \in ConnIds, SendTask(c, id) PROVE Shape'
  <2>1. CASE conns[id] = None
    <3>1. TypeOK'
      <4>1. /\ cpc' = [cpc EXCEPT ![c] = "done"]
            /\ outcome' = [outcome EXCEPT ![c] = "notFound"]
            /\ owner' = [owner EXCEPT ![c] = id]
            /\ target' = [target EXCEPT ![c] = conns[id]]
        BY <1>1, <2>1 DEF SendTask
      <4>2. /\ cpc' \in [Calls -> CallStates]
            /\ outcome' \in [Calls -> Outcomes \cup ConnIds]
            /\ owner' \in [Calls -> ConnIds \cup {None}]
            /\ target' \in [Calls -> Handlers \cup {None}]
        BY <4>1
      <4> QED
        BY <1>1, <4>2 DEF SendTask
    <3>2. AgentShape' /\ MessageShape'
      BY <1>1 DEF SendTask
    <3>3. CallShape'
      BY <1>1, <2>1 DEF SendTask
    <3> QED
      BY <3>1, <3>2, <3>3
  <2>2. CASE conns[id] # None
    <3>1. TypeOK'
      <4>1. /\ cpc' = [cpc EXCEPT ![c] = "enter"]
            /\ outcome' = outcome
            /\ owner' = [owner EXCEPT ![c] = id]
            /\ target' = [target EXCEPT ![c] = conns[id]]
        BY <1>1, <2>2 DEF SendTask
      <4>2. /\ cpc' \in [Calls -> CallStates]
            /\ outcome' \in [Calls -> Outcomes \cup ConnIds]
            /\ owner' \in [Calls -> ConnIds \cup {None}]
            /\ target' \in [Calls -> Handlers \cup {None}]
        BY <4>1
      <4> QED
        BY <1>1, <4>2 DEF SendTask
    <3>2. AgentShape' /\ MessageShape'
      BY <1>1 DEF SendTask
    <3>3. CallShape'
      BY <1>1, <2>2 DEF SendTask
    <3> QED
      BY <3>1, <3>2, <3>3
  <2> QED
    BY <2>1, <2>2
<1>2. ASSUME NEW t \in TaskIds, Enter(c, t) PROVE Shape'
  <2>1. \A d \in Calls : tid[d] \in TaskIds => tid'[d] \in TaskIds
    BY <1>2 DEF Enter
  <2>2. MessageShape'
    <3>1. UNCHANGED <<holding, sent, queue, unsent>>
      BY <1>2 DEF Enter
    <3> QED
      BY <2>1, <3>1
  <2>3. TypeOK' /\ AgentShape' /\ CallShape'
    BY <1>2 DEF Enter
  <2> QED
    BY <2>2, <2>3
<1>3. ASSUME NEW t \in TaskIds, EnterRefused(c, t) PROVE Shape'
  BY <1>3 DEF EnterRefused
<1>4. CASE PostQueued(c)
  <2>1. TypeOK' /\ AgentShape' /\ CallShape'
    BY <1>4 DEF PostQueued
  <2>2. ASSUME NEW h \in Handlers, NEW i \in 1..Len(queue'[h])
        PROVE  tid'[queue'[h][i]] \in TaskIds
    <3>1. CASE h = target[c] /\ i = Len(queue[h]) + 1
      BY <1>4, <3>1 DEF PostQueued
    <3>2. CASE ~(h = target[c] /\ i = Len(queue[h]) + 1)
      <4>1. i \in 1..Len(queue[h]) /\ queue'[h][i] = queue[h][i]
        BY <1>4, <2>2, <3>2 DEF PostQueued
      <4> QED
        BY <1>4, <4>1 DEF PostQueued
    <3> QED
      BY <3>1, <3>2
  <2> QED
    BY <1>4, <2>1, <2>2 DEF PostQueued
<1>5. CASE PostClosed(c)
  BY <1>5 DEF PostClosed, Leave
<1>6. CASE PostCtxDone(c)
  BY <1>6 DEF PostCtxDone, Leave
<1>7. CASE WaitResult(c)
  BY <1>7 DEF WaitResult, Leave
<1>8. CASE WaitError(c)
  BY <1>8 DEF WaitError, Leave
<1>9. CASE WaitCtxDone(c)
  BY <1>9 DEF WaitCtxDone, Leave
<1>10. CASE Cleanup(c)
  BY <1>10 DEF Cleanup
<1>11. CASE Expire(c)
  BY <1>11 DEF Expire
<1>12. CASE Cancel(c)
  BY <1>12 DEF Cancel
<1> QED
  BY <1>1, <1>2, <1>3, <1>4, <1>5, <1>6, <1>7, <1>8, <1>9, <1>10, <1>11,
     <1>12 DEF Call

\* The steps of SubmitResult.
LEMMA ResultShape ==
  ASSUME Shape,
         Delivery \/ \E t \in TaskIds, id \in ConnIds : HandleResult(t, id)
  PROVE  Shape'
<1> USE PoolAssumption DEF Shape, TypeOK, AgentShape, CallShape, MessageShape,
      AgentStates, CallStates, Outcomes, Agents,
      poolVars, connVars, agentVars, callVars
<1>1. ASSUME NEW t \in TaskIds, NEW id \in ConnIds, HandleResult(t, id)
      PROVE  Shape'
  BY <1>1 DEF HandleResult
<1>2. ASSUME NEW r \in carrying, DeliverResult(r) PROVE Shape'
  BY <1>2 DEF DeliverResult
<1> QED
  BY <1>1, <1>2 DEF Delivery

LEMMA NextShape == Shape /\ [Next]_vars => Shape'
<1> SUFFICES ASSUME Shape, [Next]_vars PROVE Shape'
  OBVIOUS
<1>1. CASE UNCHANGED vars
  BY <1>1 DEF Shape, TypeOK, AgentShape, CallShape, MessageShape, vars,
      poolVars, connVars, agentVars, callVars
<1>2. CASE Terminated
  BY <1>1, <1>2 DEF Terminated
<1>3. CASE Environment
  BY <1>3, HandlerShape, DisconnectShape, CallStepShape, ResultShape
  DEF Environment
<1> QED
  BY <1>1, <1>2, <1>3, ClosingShape, HandlerShape, CallStepShape, ResultShape
  DEF Next

\* The model is type correct in every reachable state.
THEOREM TypeCorrect == Spec => []TypeOK
<1>1. Shape => TypeOK
  BY DEF Shape
<1> QED
  BY InitShape, NextShape, <1>1, PTL DEF Spec

-----------------------------------------------------------------------------
(* The inductive invariant, part 2: one verdict for each call              *)

\* A call that has not entered the registry has no verdict anywhere.
Untouched ==
  \A c \in Calls : cpc[c] \in {"idle", "enter"} =>
    /\ ~Answering(c) /\ ~ErrReady(c) /\ ~ResReady(c)
    /\ \A a \in Agents : ~FailedBy(a, c)

Verdicts == NoLeakedEntry /\ Untouched /\ OneVerdict

Entered == {"post", "wait", "cleanup"}

LEMMA InitVerdicts == Init => Verdicts
  BY PoolAssumption
  DEF Init, Verdicts, NoLeakedEntry, Untouched, OneVerdict, Waiting, Answering,
      ErrReady, ResReady, FailedBy

\* A step that leaves the places of the verdicts alone keeps the invariant,
\* provided no call goes back before its entry or ends while registered.
LEMMA VerdictsFrame ==
  ASSUME Shape, Verdicts,
         UNCHANGED <<pending, tid, victims, carrying, errCh, resCh>>,
         \A c \in Calls : cpc'[c] \in {"idle", "enter"} => cpc[c] \in {"idle", "enter"},
         \A c \in Calls : cpc[c] \in Entered => cpc'[c] \in Entered
  PROVE  Verdicts'
<1>1. NoLeakedEntry'
  BY DEF Shape, TypeOK, Verdicts, NoLeakedEntry, Entered
<1>2. Untouched'
  BY DEF Verdicts, Untouched, Answering, ErrReady, ResReady, FailedBy
<1>3. OneVerdict'
  BY DEF Verdicts, OneVerdict, Waiting, Answering, ErrReady, ResReady, FailedBy
<1> QED
  BY <1>1, <1>2, <1>3 DEF Verdicts

\* A registered entry is found under one id only, that of its call.
LEMMA OneId ==
  ASSUME Shape, Verdicts, NEW t \in TaskIds, pending[t] # None
  PROVE  /\ pending[t] \in Calls
         /\ Waiting(pending[t])
         /\ \A s \in TaskIds : pending[s] = pending[t] => s = t
  BY DEF Shape, TypeOK, Verdicts, NoLeakedEntry, Waiting

LEMMA FailTaskVerdicts ==
  ASSUME Shape, Verdicts, NEW a \in Agents, FailTask(a)
  PROVE  Verdicts'
<1> DEFINE t == tid[Head(unsent[a])]
           v == pending[t]
<1>1. t \in TaskIds
  <2>1. unsent[a] \in Seq(Calls) /\ unsent[a] # <<>>
    BY DEF Shape, TypeOK, FailTask
  <2>2. 1 \in 1..Len(unsent[a]) /\ Head(unsent[a]) = unsent[a][1]
    BY <2>1
  <2> QED
    BY <2>2 DEF Shape, MessageShape
<1>2. /\ pending' = [pending EXCEPT ![t] = None]
      /\ victims' = [victims EXCEPT ![a] = {v} \ {None}]
      /\ UNCHANGED <<tid, carrying, errCh, resCh, cpc>>
  BY DEF FailTask, callVars
<1> HIDE DEF t
<1>3. /\ \A s \in TaskIds : pending'[s] = IF s = t THEN None ELSE pending[s]
      /\ \A b \in Agents : victims'[b] = IF b = a THEN {v} \ {None} ELSE victims[b]
  BY <1>1, <1>2 DEF Shape, TypeOK
<1>4. NoLeakedEntry'
  BY <1>1, <1>2, <1>3 DEF Verdicts, NoLeakedEntry
<1>5. v # None => v \in Calls /\ Waiting(v) /\ tid[v] = t /\ cpc[v] \in Entered
  BY <1>1, OneId DEF Verdicts, NoLeakedEntry, Entered
<1>6. \A c \in Calls : Waiting(c)' <=> Waiting(c) /\ c # v
  BY <1>1, <1>3, OneId, PoolAssumption DEF Waiting
<1>7. \A b \in Agents, c \in Calls :
        FailedBy(b, c)' <=> IF b = a THEN c = v ELSE FailedBy(b, c)
  BY <1>3, PoolAssumption DEF FailedBy
<1>8. \A c \in Calls : /\ Answering(c)' = Answering(c)
                       /\ ErrReady(c)' = ErrReady(c)
                       /\ ResReady(c)' = ResReady(c)
  BY <1>2 DEF Answering, ErrReady, ResReady
<1>9. Untouched'
  BY <1>2, <1>5, <1>7, <1>8, PoolAssumption DEF Verdicts, Untouched, Entered
<1>10. OneVerdict'
  BY <1>2, <1>5, <1>6, <1>7, <1>8, PoolAssumption DEF Verdicts, OneVerdict
<1> QED
  BY <1>4, <1>9, <1>10 DEF Verdicts

LEMMA FailPendingClientVerdicts ==
  ASSUME Shape, Verdicts, NEW a \in Agents, FailPendingClient(a)
  PROVE  Verdicts'
<1> DEFINE gone == EntriesOf(connId[job[a]])
<1>1. /\ pending' = [t \in TaskIds |-> IF pending[t] \in gone THEN None ELSE pending[t]]
      /\ victims' = [victims EXCEPT ![a] = gone]
      /\ UNCHANGED <<tid, carrying, errCh, resCh, cpc>>
  BY DEF FailPendingClient, callVars
<1>2. \A c \in gone : c \in Calls /\ Waiting(c)
  BY DEF EntriesOf, Waiting
<1> HIDE DEF gone
<1>3. /\ \A s \in TaskIds : pending'[s] = IF pending[s] \in gone THEN None ELSE pending[s]
      /\ \A b \in Agents : victims'[b] = IF b = a THEN gone ELSE victims[b]
  BY <1>1 DEF Shape, TypeOK
<1>4. NoLeakedEntry'
  BY <1>1, <1>3 DEF Verdicts, NoLeakedEntry
<1>5. \A c \in Calls : Waiting(c)' <=> Waiting(c) /\ c \notin gone
  BY <1>3, PoolAssumption DEF Waiting
<1>6. \A b \in Agents, c \in Calls :
        FailedBy(b, c)' <=> IF b = a THEN c \in gone ELSE FailedBy(b, c)
  BY <1>3 DEF FailedBy
<1>7. \A c \in Calls : /\ Answering(c)' = Answering(c)
                       /\ ErrReady(c)' = ErrReady(c)
                       /\ ResReady(c)' = ResReady(c)
  BY <1>1 DEF Answering, ErrReady, ResReady
<1>8. \A c \in Calls : Waiting(c) => cpc[c] \in Entered
  BY PoolAssumption DEF Waiting, Verdicts, NoLeakedEntry, Entered
<1>9. Untouched'
  BY <1>1, <1>2, <1>6, <1>7, <1>8 DEF Verdicts, Untouched, Entered
<1>10. OneVerdict'
  BY <1>1, <1>2, <1>5, <1>6, <1>7 DEF Verdicts, OneVerdict
<1> QED
  BY <1>4, <1>9, <1>10 DEF Verdicts

LEMMA SignalVictimVerdicts ==
  ASSUME Shape, Verdicts, NEW a \in Agents, NEW v \in Calls, SignalVictim(a, v)
  PROVE  Verdicts'
<1>1. /\ UNCHANGED <<pending, tid, carrying, resCh, cpc>>
      /\ \A c \in Calls : errCh'[c] = IF c = v THEN TRUE ELSE errCh[c]
      /\ \A b \in Agents : victims'[b] = IF b = a THEN victims[a] \ {v} ELSE victims[b]
      /\ v \in victims[a]
  BY DEF SignalVictim, poolVars, Shape, TypeOK
<1>2. NoLeakedEntry'
  BY <1>1 DEF Verdicts, NoLeakedEntry
<1>3. \A c \in Calls : ErrReady(c)' <=> c = v \/ ErrReady(c)
  BY <1>1 DEF ErrReady
<1>4. \A b \in Agents, c \in Calls :
        FailedBy(b, c)' <=> FailedBy(b, c) /\ ~(b = a /\ c = v)
  BY <1>1 DEF FailedBy
<1>5. \A c \in Calls : /\ Waiting(c)' = Waiting(c)
                       /\ Answering(c)' = Answering(c)
                       /\ ResReady(c)' = ResReady(c)
  BY <1>1 DEF Waiting, Answering, ResReady
<1>6. FailedBy(a, v)
  BY <1>1 DEF FailedBy
<1>7. Untouched'
  BY <1>1, <1>3, <1>4, <1>5, <1>6 DEF Verdicts, Untouched
<1>8. OneVerdict'
  BY <1>1, <1>3, <1>4, <1>5, <1>6 DEF Verdicts, OneVerdict
<1> QED
  BY <1>2, <1>7, <1>8 DEF Verdicts

LEMMA EnterVerdicts ==
  ASSUME Shape, Verdicts, NEW e \in Calls, NEW t \in TaskIds, Enter(e, t)
  PROVE  Verdicts'
<1>1. /\ UNCHANGED <<victims, carrying, errCh, resCh>>
      /\ \A s \in TaskIds : pending'[s] = IF s = t THEN e ELSE pending[s]
      /\ \A c \in Calls : tid'[c] = IF c = e THEN t ELSE tid[c]
      /\ \A c \in Calls : cpc'[c] = IF c = e THEN "post" ELSE cpc[c]
      /\ cpc[e] = "enter"
  BY DEF Enter, agentVars, Shape, TypeOK
<1>2. ~Waiting(e)
  BY <1>1, PoolAssumption DEF Waiting, Verdicts, NoLeakedEntry
<1>3. NoLeakedEntry'
  BY <1>1, <1>2, OneId DEF Verdicts, NoLeakedEntry, Waiting
<1>4. \A c \in Calls : Waiting(c)' <=> Waiting(c) \/ c = e
  <2>1. pending[t] = None
    BY DEF Enter
  <2> QED
    BY <1>1, <2>1, PoolAssumption DEF Waiting
<1>5. \A c \in Calls : /\ Answering(c)' = Answering(c)
                       /\ ErrReady(c)' = ErrReady(c)
                       /\ ResReady(c)' = ResReady(c)
                       /\ \A a \in Agents : FailedBy(a, c)' = FailedBy(a, c)
  BY <1>1 DEF Answering, ErrReady, ResReady, FailedBy
<1>6. Untouched'
  BY <1>1, <1>5 DEF Verdicts, Untouched
<1>7. OneVerdict'
  BY <1>1, <1>4, <1>5 DEF Verdicts, OneVerdict, Untouched
<1> QED
  BY <1>3, <1>6, <1>7 DEF Verdicts

\* The call takes what one of its channels holds.
LEMMA TakeVerdict ==
  ASSUME Shape, Verdicts, NEW e \in Calls, WaitResult(e) \/ WaitError(e)
  PROVE  Verdicts'
<1>1. /\ UNCHANGED <<pending, tid, victims, carrying>>
      /\ \A c \in Calls : cpc'[c] = IF c = e THEN "cleanup" ELSE cpc[c]
      /\ cpc[e] = "wait"
  BY DEF WaitResult, WaitError, Leave, poolVars, agentVars, Shape, TypeOK
<1>2. \A c \in Calls : /\ ErrReady(c)' => ErrReady(c)
                       /\ ResReady(c)' => ResReady(c)
  BY DEF WaitResult, WaitError, ErrReady, ResReady, Shape, TypeOK
<1>3. NoLeakedEntry'
  BY <1>1 DEF Verdicts, NoLeakedEntry, Shape, TypeOK
<1>4. \A c \in Calls : /\ Waiting(c)' = Waiting(c)
                       /\ Answering(c)' = Answering(c)
                       /\ \A a \in Agents : FailedBy(a, c)' = FailedBy(a, c)
  BY <1>1 DEF Waiting, Answering, FailedBy
<1>5. Untouched'
  BY <1>1, <1>2, <1>4 DEF Verdicts, Untouched
<1>6. OneVerdict'
  BY <1>1, <1>2, <1>4 DEF Verdicts, OneVerdict
<1> QED
  BY <1>3, <1>5, <1>6 DEF Verdicts

LEMMA CleanupVerdicts ==
  ASSUME Shape, Verdicts, NEW e \in Calls, Cleanup(e)
  PROVE  Verdicts'
<1>1. /\ UNCHANGED <<tid, victims, carrying, errCh, resCh>>
      /\ \A c \in Calls : cpc'[c] = IF c = e THEN "done" ELSE cpc[c]
      /\ cpc[e] = "cleanup"
      /\ \A s \in TaskIds :
           pending'[s] = IF s = tid[e] /\ pending[s] = e THEN None ELSE pending[s]
  BY DEF Cleanup, agentVars, Shape, TypeOK
<1>2. \A s \in TaskIds : pending'[s] # None => pending'[s] = pending[s] /\ pending[s] # e
  BY <1>1 DEF Verdicts, NoLeakedEntry
<1>3. NoLeakedEntry'
  BY <1>1, <1>2 DEF Verdicts, NoLeakedEntry, Shape, TypeOK
<1>4. \A c \in Calls : Waiting(c)' => Waiting(c)
  BY <1>2, PoolAssumption DEF Waiting
<1>5. \A c \in Calls : /\ Answering(c)' = Answering(c)
                       /\ ErrReady(c)' = ErrReady(c)
                       /\ ResReady(c)' = ResReady(c)
                       /\ \A a \in Agents : FailedBy(a, c)' = FailedBy(a, c)
  BY <1>1 DEF Answering, ErrReady, ResReady, FailedBy
<1>6. Untouched'
  BY <1>1, <1>5 DEF Verdicts, Untouched
<1>7. OneVerdict'
  BY <1>1, <1>4, <1>5 DEF Verdicts, OneVerdict
<1> QED
  BY <1>3, <1>6, <1>7 DEF Verdicts

LEMMA HandleResultVerdicts ==
  ASSUME Shape, Verdicts, NEW t \in TaskIds, NEW id \in ConnIds, HandleResult(t, id)
  PROVE  Verdicts'
<1> DEFINE d == pending[t]
           res == [entry |-> d, clientId |-> id]
<1>1. d # None
  BY DEF HandleResult
<1>2. /\ UNCHANGED <<tid, victims, errCh, resCh, cpc>>
      /\ carrying' = carrying \cup {res}
      /\ \A s \in TaskIds : pending'[s] = IF s = t THEN None ELSE pending[s]
  BY <1>1 DEF HandleResult, agentVars, callVars, Shape, TypeOK
<1>3. d \in Calls /\ Waiting(d) /\ tid[d] = t /\ cpc[d] \in Entered
  BY <1>1, OneId DEF Verdicts, NoLeakedEntry, Entered
<1>4. NoLeakedEntry'
  BY <1>2 DEF Verdicts, NoLeakedEntry
<1>5. \A c \in Calls : Waiting(c)' <=> Waiting(c) /\ c # d
  BY <1>1, <1>2, OneId, PoolAssumption DEF Waiting
<1>6. \A c \in Calls : Answering(c)' <=> Answering(c) \/ c = d
  <2>1. res.entry = d
    OBVIOUS
  <2> HIDE DEF res, d
  <2> QED
    BY <1>2, <2>1 DEF Answering
<1>7. \A c \in Calls : /\ ErrReady(c)' = ErrReady(c)
                       /\ ResReady(c)' = ResReady(c)
                       /\ \A a \in Agents : FailedBy(a, c)' = FailedBy(a, c)
  BY <1>2 DEF ErrReady, ResReady, FailedBy
<1>8. \A c \in Calls : \A r, s \in carrying' : r.entry = c /\ s.entry = c => r = s
  <2>1. \A r \in carrying : r.entry # d
    BY <1>3 DEF Verdicts, OneVerdict, Answering
  <2>2. \A c \in Calls : \A r, s \in carrying : r.entry = c /\ s.entry = c => r = s
    BY DEF Verdicts, OneVerdict
  <2>3. res.entry = d
    OBVIOUS
  <2> HIDE DEF res, d
  <2> QED
    BY <1>2, <2>1, <2>2, <2>3
<1>9. Untouched'
  BY <1>2, <1>3, <1>6, <1>7 DEF Verdicts, Untouched, Entered
<1>10. OneVerdict'
  BY <1>3, <1>5, <1>6, <1>7, <1>8 DEF Verdicts, OneVerdict
<1> QED
  BY <1>4, <1>9, <1>10 DEF Verdicts

LEMMA DeliverResultVerdicts ==
  ASSUME Shape, Verdicts, NEW r \in carrying, DeliverResult(r)
  PROVE  Verdicts'
<1> DEFINE e == r.entry
<1>1. e \in Calls /\ Answering(e)
  BY DEF Shape, TypeOK, Answering
<1>2. /\ UNCHANGED <<pending, tid, victims, errCh, cpc>>
      /\ carrying' = carrying \ {r}
      /\ \A c \in Calls : c # e => resCh'[c] = resCh[c]
  BY DEF DeliverResult, poolVars, agentVars, Shape, TypeOK
<1>3. NoLeakedEntry'
  BY <1>2 DEF Verdicts, NoLeakedEntry
<1>4. \A c \in Calls : ResReady(c)' => ResReady(c) \/ c = e
  BY <1>2 DEF ResReady
<1>5. \A c \in Calls : Answering(c)' => Answering(c) /\ c # e
  BY <1>2 DEF Answering, Verdicts, OneVerdict, Shape, TypeOK
<1>6. \A c \in Calls : /\ Waiting(c)' = Waiting(c)
                       /\ ErrReady(c)' = ErrReady(c)
                       /\ \A a \in Agents : FailedBy(a, c)' = FailedBy(a, c)
  BY <1>2 DEF Waiting, ErrReady, FailedBy
<1> HIDE DEF e
<1>7. Untouched'
  BY <1>1, <1>2, <1>4, <1>5, <1>6 DEF Verdicts, Untouched
<1>8. OneVerdict'
  <2>1. \A c \in Calls : \A s, u \in carrying' : s.entry = c /\ u.entry = c => s = u
    BY <1>2 DEF Verdicts, OneVerdict
  <2> QED
    BY <1>1, <1>4, <1>5, <1>6, <2>1 DEF Verdicts, OneVerdict
<1> QED
  BY <1>3, <1>7, <1>8 DEF Verdicts

\* Closing steps that take no entry out of the registry, and all steps of
\* the handlers, change no verdict.
LEMMA AgentFrame ==
  ASSUME Shape, Verdicts, NEW a \in Agents,
         \/ CloseDone(a) \/ Drain(a) \/ Drained(a) \/ ClosingDone(a)
         \/ Handler(a) \/ Transport(a) \/ StreamDone(a)
         \/ \E id \in ConnIds :
              \/ Register(a, id) \/ RegisterRefused(a, id)
              \/ Disconnect(a, id) \/ DisconnectNothing(a, id)
  PROVE  Verdicts'
<1>1. UNCHANGED <<pending, tid, victims, carrying, errCh, resCh, cpc>>
  BY DEF CloseDone, Drain, Drained, ClosingDone, Handler, Transport, AckSent, Dequeue,
         WriterClosed, CheckDone, Send, UnregisterCurrent, UnregisterReplaced,
         UnregisterGone, AckFails, StreamDone, SendFails, Register,
         RegisterRefused, Disconnect, DisconnectNothing, poolVars, callVars
<1> QED
  BY <1>1, VerdictsFrame DEF Shape, TypeOK, CallStates, Entered

LEMMA CallFrame ==
  ASSUME Shape, Verdicts, NEW c \in Calls,
         \/ PostQueued(c) \/ PostClosed(c) \/ PostCtxDone(c) \/ WaitCtxDone(c)
         \/ Expire(c) \/ Cancel(c)
         \/ \E t \in TaskIds : EnterRefused(c, t)
         \/ \E id \in ConnIds : SendTask(c, id)
  PROVE  Verdicts'
<1>1. UNCHANGED <<pending, tid, victims, carrying, errCh, resCh>>
  BY DEF PostQueued, PostClosed, PostCtxDone, WaitCtxDone, Expire, Cancel,
         EnterRefused, SendTask, poolVars, agentVars
<1>2. \E s \in CallStates :
        /\ cpc' = [cpc EXCEPT ![c] = s]
        /\ s \in {"idle", "enter"} => cpc[c] \in {"idle", "enter"}
        /\ cpc[c] \in Entered => s \in Entered
  <2>1. CASE PostQueued(c)
    BY <2>1 DEF PostQueued, CallStates, Entered
  <2>2. CASE PostClosed(c) \/ PostCtxDone(c) \/ WaitCtxDone(c)
    BY <2>2 DEF PostClosed, PostCtxDone, WaitCtxDone, Leave, CallStates, Entered
  <2>3. CASE Expire(c) \/ Cancel(c)
    <3>1. cpc' = cpc /\ cpc \in [Calls -> CallStates]
      BY <2>3 DEF Expire, Cancel, Shape, TypeOK
    <3>2. cpc' = [cpc EXCEPT ![c] = cpc[c]] /\ cpc[c] \in CallStates
      BY <3>1
    <3> QED
      BY <3>2
  <2>4. CASE \E t \in TaskIds : EnterRefused(c, t)
    BY <2>4 DEF EnterRefused, CallStates, Entered
  <2>5. CASE \E id \in ConnIds : SendTask(c, id)
    BY <2>5 DEF SendTask, CallStates, Entered
  <2> QED
    BY <2>1, <2>2, <2>3, <2>4, <2>5
<1>3. /\ \A d \in Calls : cpc'[d] \in {"idle", "enter"} => cpc[d] \in {"idle", "enter"}
      /\ \A d \in Calls : cpc[d] \in Entered => cpc'[d] \in Entered
  BY <1>2 DEF Shape, TypeOK
<1> QED
  BY <1>1, <1>3, VerdictsFrame

LEMMA NextVerdicts == Shape /\ Verdicts /\ [Next]_vars => Verdicts'
<1> SUFFICES ASSUME Shape, Verdicts, [Next]_vars PROVE Verdicts'
  OBVIOUS
<1>1. CASE UNCHANGED vars \/ Terminated
  <2>1. UNCHANGED <<pending, tid, victims, carrying, errCh, resCh, cpc>>
    BY <1>1 DEF Terminated, vars, poolVars, agentVars, callVars
  <2> QED
    BY <2>1, VerdictsFrame DEF Entered
<1>2. ASSUME NEW a \in Agents, Closing(a) PROVE Verdicts'
  BY <1>2, AgentFrame, FailTaskVerdicts, FailPendingClientVerdicts,
     SignalVictimVerdicts DEF Closing
<1>3. ASSUME NEW h \in Handlers, Handler(h) \/ Transport(h) PROVE Verdicts'
  BY <1>3, AgentFrame DEF Agents
<1>4. ASSUME NEW c \in Calls, Call(c) \/ Expire(c) PROVE Verdicts'
  BY <1>4, CallFrame, EnterVerdicts, TakeVerdict, CleanupVerdicts DEF Call
<1>5. CASE Delivery
  BY <1>5, DeliverResultVerdicts DEF Delivery
<1>6. CASE Environment
  BY <1>6, AgentFrame, CallFrame, HandleResultVerdicts DEF Environment, Agents
<1> QED
  BY <1>1, <1>2, <1>3, <1>4, <1>5, <1>6 DEF Next

\* Every reachable state satisfies the invariant of parts 1 and 2.
LEMMA VerdictsInvariant == Spec => [](Shape /\ Verdicts)
  BY InitShape, InitVerdicts, NextShape, NextVerdicts, PTL DEF Spec

\* No call ever has two verdicts, and no send on a channel of a call blocks.
THEOREM OneVerdictAlways == Spec => []OneVerdict
<1>1. Shape /\ Verdicts => OneVerdict
  BY DEF Verdicts
<1> QED
  BY <1>1, VerdictsInvariant, PTL

\* The registry of waiting tasks never leaks the entry of a finished call.
THEOREM NoLeakedEntryAlways == Spec => []NoLeakedEntry
<1>1. Shape /\ Verdicts => NoLeakedEntry
  BY DEF Verdicts
<1> QED
  BY <1>1, VerdictsInvariant, PTL

\* Entries leave the registry with a verdict or by the hand of their own call,
\* whatever ids the callers choose and repeat.
THEOREM EntryLeavesWithVerdictAlways == Spec => EntryLeavesWithVerdict
<1> DEFINE Left(t) ==
             \/ cpc[pending[t]] = "cleanup"
             \/ \E a \in Agents : pending[t] \in victims'[a]
             \/ \E r \in carrying' : r.entry = pending[t]
           P == \A t \in TaskIds :
             pending[t] # None /\ pending'[t] # pending[t] => Left(t)
<1>1. ASSUME Shape, Verdicts, [Next]_vars, NEW t \in TaskIds,
             pending[t] # None, pending'[t] # pending[t]
      PROVE  Left(t)
  <2>1. /\ pending \in [TaskIds -> Calls \cup {None}]
        /\ victims \in [Agents -> SUBSET Calls]
        /\ pending[t] \in Calls
        /\ tid[pending[t]] = t
    BY <1>1 DEF Shape, TypeOK, Verdicts, NoLeakedEntry
  <2>2. CASE UNCHANGED vars \/ Terminated \/ Delivery
    BY <1>1, <2>2 DEF Terminated, Delivery, DeliverResult, vars, poolVars
  <2>3. ASSUME NEW a \in Agents, Closing(a) PROVE Left(t)
    <3>1. CASE FailTask(a)
      <4>1. PICK s \in {tid[Head(unsent[a])]} :
              /\ pending' = [pending EXCEPT ![s] = None]
              /\ victims' = [victims EXCEPT ![a] = {pending[s]} \ {None}]
        BY <3>1 DEF FailTask
      <4>2. s = t
        BY <1>1, <2>1, <4>1
      <4> QED
        BY <1>1, <2>1, <4>1, <4>2
    <3>2. CASE FailPendingClient(a)
      BY <1>1, <2>1, <3>2 DEF FailPendingClient
    <3>3. CASE ~FailTask(a) /\ ~FailPendingClient(a)
      BY <1>1, <2>3, <3>3 DEF Closing, CloseDone, Drain, Drained, SignalVictim,
         ClosingDone, poolVars
    <3> QED
      BY <3>1, <3>2, <3>3
  <2>4. ASSUME NEW h \in Handlers, Handler(h) \/ Transport(h) PROVE FALSE
    BY <1>1, <2>4 DEF Handler, Transport, AckSent, AckFails, Dequeue, WriterClosed,
       CheckDone, Send, SendFails, UnregisterCurrent, UnregisterReplaced,
       UnregisterGone, poolVars
  <2>5. ASSUME NEW c \in Calls, Call(c) \/ Expire(c) PROVE Left(t)
    <3>1. CASE Cleanup(c)
      BY <1>1, <2>1, <3>1 DEF Cleanup
    <3>2. ASSUME NEW s \in TaskIds, Enter(c, s) PROVE FALSE
      BY <1>1, <2>1, <3>2 DEF Enter
    <3>3. CASE ~Cleanup(c) /\ ~\E s \in TaskIds : Enter(c, s)
      BY <1>1, <2>5, <3>3 DEF Call, EnterRefused, PostQueued, PostClosed, PostCtxDone,
         WaitResult, WaitError, WaitCtxDone, Expire, poolVars
    <3> QED
      BY <3>1, <3>2, <3>3
  <2>6. CASE Environment
    <3>1. ASSUME NEW s \in TaskIds, NEW id \in ConnIds, HandleResult(s, id) PROVE Left(t)
      <4>1. /\ pending' = [pending EXCEPT ![s] = None]
            /\ [entry |-> pending[s], clientId |-> id] \in carrying'
        BY <3>1 DEF HandleResult
      <4>2. s = t
        BY <1>1, <2>1, <4>1
      <4> QED
        BY <4>1, <4>2
    <3>2. CASE ~\E s \in TaskIds, id \in ConnIds : HandleResult(s, id)
      BY <1>1, <2>6, <3>2 DEF Environment, Register, RegisterRefused, StreamDone,
         Disconnect, DisconnectNothing, SendTask, Cancel, poolVars
    <3> QED
      BY <3>1, <3>2
  <2> QED
    BY <1>1, <2>2, <2>3, <2>4, <2>5, <2>6 DEF Next
<1>2. Shape /\ Verdicts /\ [Next]_vars => [P]_vars
  BY <1>1
<1> QED
  BY <1>2, VerdictsInvariant, PTL DEF Spec, EntryLeavesWithVerdict

-----------------------------------------------------------------------------
(* The inductive invariant, part 3: registrations                          *)

\* A connection that is being closed, or was, is registered nowhere and its
\* handler has started; a handler that lost its connection closes its own.
JobSound ==
  /\ \A a \in Agents : job[a] # None =>
       apc[job[a]] # "idle" /\ \A id \in ConnIds : conns[id] # job[a]
  /\ \A h \in Handlers : h \in lost => job[h] = h
  /\ \A h \in closed : apc[h] # "idle"

Registration == NoGhostRegistration /\ JobSound

LEMMA InitRegistration == Init => Registration
  BY DEF Init, Registration, NoGhostRegistration, JobSound

\* Nothing outside the agents touches registrations.
LEMMA RegistrationFrame ==
  ASSUME Registration, UNCHANGED <<conns, connId, closed, apc, job, lost>>
  PROVE  Registration'
  BY DEF Registration, NoGhostRegistration, JobSound

\* States of a handler whose connection may be registered.
Running == {"ack", "loop", "check", "send", "unregister"}

\* An agent that goes from one running state to another.
LEMMA RunningStep ==
  ASSUME Shape, Registration, NEW h \in Handlers, NEW s \in Running,
         apc[h] \in Running, apc' = [apc EXCEPT ![h] = s],
         UNCHANGED <<conns, connId, closed, job, lost>>
  PROVE  Registration'
<1>1. \A g \in Handlers : apc'[g] = IF g = h THEN s ELSE apc[g]
  BY DEF Shape, TypeOK, Agents
<1>2. NoGhostRegistration'
  BY <1>1 DEF Shape, TypeOK, Registration, NoGhostRegistration, Running
<1>3. JobSound'
  BY <1>1 DEF Shape, TypeOK, Registration, JobSound, Running
<1> QED
  BY <1>2, <1>3 DEF Registration

LEMMA RegisterRegistration ==
  ASSUME Shape, Registration, NEW h \in Handlers, NEW id \in ConnIds,
         Register(h, id)
  PROVE  Registration'
<1>1. /\ UNCHANGED <<closed, lost>>
      /\ \A i \in ConnIds : conns'[i] = IF i = id THEN h ELSE conns[i]
      /\ \A g \in Handlers : connId'[g] = IF g = h THEN id ELSE connId[g]
      /\ \A a \in Agents : job'[a] = IF a = h THEN conns[id] ELSE job[a]
      /\ \A a \in Agents : a # h => apc'[a] = apc[a]
      /\ apc'[h] = IF conns[id] = None THEN "ack" ELSE "close"
      /\ apc[h] = "idle"
  BY DEF Register, connVars, Shape, TypeOK, Agents
<1>2. /\ \A i \in ConnIds : conns[i] # h
      /\ \A a \in Agents : job[a] # h
      /\ h \notin lost
  BY <1>1, PoolAssumption DEF Registration, NoGhostRegistration, JobSound, Agents
<1>3. conns[id] # None => /\ conns[id] \in Handlers
                          /\ apc[conns[id]] # "idle"
                          /\ \A i \in ConnIds : conns[i] = conns[id] => i = id
  <2>1. \A i \in ConnIds : conns[i] # None =>
          connId[conns[i]] = i /\ apc[conns[i]] # "idle"
    BY DEF Registration, NoGhostRegistration
  <2> QED
    BY <2>1 DEF Shape, TypeOK
<1>4. h \notin closed
  BY <1>1 DEF Registration, JobSound
<1>5. /\ \A i \in ConnIds : conns[i] \in Handlers \cup {None}
      /\ \A a \in Agents : job[a] \in Handlers \cup {None}
      /\ h \in Agents /\ Handlers \subseteq Agents /\ None \notin Handlers
      /\ closed \subseteq Handlers
  BY PoolAssumption DEF Shape, TypeOK, Agents
<1>6. NoGhostRegistration'
  <2> SUFFICES ASSUME NEW i \in ConnIds, conns'[i] # None
               PROVE  LET g == conns'[i] IN
                        /\ connId'[g] = i
                        /\ g \notin closed'
                        /\ \/ apc'[g] \in {"ack", "loop", "check", "send", "unregister"}
                           \/ apc'[g] \in {"close", "drain", "fail"} /\ job'[g] # g
    BY DEF NoGhostRegistration
  <2>1. CASE i = id
    BY <1>1, <1>2, <1>4, <1>5, <2>1
  <2>2. CASE i # id
    <3>1. conns'[i] = conns[i] /\ conns[i] \in Handlers \ {h}
      BY <1>1, <1>2, <1>5, <2>2
    <3> QED
      BY <1>1, <1>5, <3>1 DEF Registration, NoGhostRegistration
  <2> QED
    BY <2>1, <2>2
<1>7. JobSound'
  <2>1. ASSUME NEW a \in Agents, job'[a] # None
        PROVE  apc'[job'[a]] # "idle" /\ \A i \in ConnIds : conns'[i] # job'[a]
    <3>1. CASE a = h
      BY <1>1, <1>2, <1>3, <1>5, <2>1, <3>1
    <3>2. CASE a # h
      BY <1>1, <1>2, <1>5, <2>1, <3>2 DEF Registration, JobSound
    <3> QED
      BY <3>1, <3>2
  <2>2. \A g \in Handlers : g \in lost' => job'[g] = g
    BY <1>1, <1>2, <1>5 DEF Registration, JobSound
  <2>3. \A g \in closed' : apc'[g] # "idle"
    BY <1>1, <1>4, <1>5 DEF Registration, JobSound
  <2> QED
    BY <2>1, <2>2, <2>3 DEF JobSound
<1> QED
  BY <1>6, <1>7 DEF Registration

\* The critical sections that take a registration out, or find it replaced.
LEMMA RemovalRegistration ==
  ASSUME Shape, Registration, NEW a \in Agents, NEW h \in Handlers,
         NEW id \in ConnIds,
         UNCHANGED <<closed, connId>>,
         \A i \in ConnIds : conns'[i] \in {conns[i], None} /\ conns'[i] # h,
         \A b \in Agents : job'[b] = IF b = a THEN h ELSE job[b],
         \A b \in Agents : apc'[b] = IF b = a THEN "close" ELSE apc[b],
         lost' \in {lost, lost \cup {a}},
         apc[h] # "idle", a \in Handlers => a = h
  PROVE  Registration'
<1>1. /\ \A i \in ConnIds : conns[i] \in Handlers \cup {None}
      /\ \A b \in Agents : job[b] \in Handlers \cup {None}
      /\ Handlers \subseteq Agents /\ None \notin Handlers
      /\ closed \subseteq Handlers
  BY PoolAssumption DEF Shape, TypeOK, Agents
<1>2. NoGhostRegistration'
  <2> SUFFICES ASSUME NEW i \in ConnIds, conns'[i] # None
               PROVE  LET g == conns'[i] IN
                        /\ connId'[g] = i
                        /\ g \notin closed'
                        /\ \/ apc'[g] \in {"ack", "loop", "check", "send", "unregister"}
                           \/ apc'[g] \in {"close", "drain", "fail"} /\ job'[g] # g
    BY DEF NoGhostRegistration
  <2>1. conns'[i] = conns[i] /\ conns[i] \in Handlers \ {h}
    BY <1>1
  <2>2. conns[i] # a
    BY <2>1
  <2> QED
    BY <1>1, <2>1, <2>2 DEF Registration, NoGhostRegistration
<1>3. JobSound'
  <2>1. ASSUME NEW b \in Agents, job'[b] # None
        PROVE  apc'[job'[b]] # "idle" /\ \A i \in ConnIds : conns'[i] # job'[b]
    <3>1. CASE b = a
      BY <1>1, <3>1
    <3>2. CASE b # a
      BY <1>1, <2>1, <3>2 DEF Registration, JobSound
    <3> QED
      BY <3>1, <3>2
  <2>2. \A g \in Handlers : g \in lost' => job'[g] = g
    BY <1>1 DEF Registration, JobSound
  <2>3. \A g \in closed' : apc'[g] # "idle"
    BY <1>1 DEF Registration, JobSound
  <2> QED
    BY <2>1, <2>2, <2>3 DEF JobSound
<1> QED
  BY <1>2, <1>3 DEF Registration

LEMMA UnregisterRegistration ==
  ASSUME Shape, Registration, NEW h \in Handlers,
         UnregisterCurrent(h) \/ UnregisterReplaced(h)
  PROVE  Registration'
<1>1. connId[h] \in ConnIds /\ apc[h] = "unregister" /\ h \in Agents
  BY DEF UnregisterCurrent, UnregisterReplaced, Shape, AgentShape, Agents
<1>2. \A i \in ConnIds : conns[i] = h => i = connId[h]
  BY PoolAssumption DEF Registration, NoGhostRegistration
<1>3. \A i \in ConnIds : conns'[i] \in {conns[i], None} /\ conns'[i] # h
  <2>1. CASE UnregisterCurrent(h)
    BY <1>1, <1>2, <2>1, PoolAssumption DEF UnregisterCurrent, Shape, TypeOK
  <2>2. CASE UnregisterReplaced(h)
    BY <1>1, <1>2, <2>2, PoolAssumption DEF UnregisterReplaced, poolVars
  <2> QED
    BY <2>1, <2>2
<1>4. /\ UNCHANGED <<closed, connId>>
      /\ lost' \in {lost, lost \cup {h}}
      /\ \A b \in Agents : job'[b] = IF b = h THEN h ELSE job[b]
      /\ \A b \in Agents : apc'[b] = IF b = h THEN "close" ELSE apc[b]
  BY DEF UnregisterCurrent, UnregisterReplaced, connVars, Shape, TypeOK
<1> QED
  BY <1>1, <1>3, <1>4, RemovalRegistration

LEMMA DisconnectRegistration ==
  ASSUME Shape, Registration, NEW a \in Admins, NEW id \in ConnIds,
         Disconnect(a, id)
  PROVE  Registration'
<1> DEFINE h == conns[id]
<1>1. a \in Agents /\ a \notin Handlers /\ h \in Handlers
  BY PoolAssumption DEF Disconnect, Shape, TypeOK, Agents
<1>2. /\ apc[h] # "idle"
      /\ \A i \in ConnIds : conns[i] = h => i = id
  <2>1. \A i \in ConnIds : conns[i] # None =>
          connId[conns[i]] = i /\ apc[conns[i]] # "idle"
    BY DEF Registration, NoGhostRegistration
  <2> QED
    BY <1>1, <2>1, PoolAssumption
<1>3. \A i \in ConnIds : conns'[i] \in {conns[i], None} /\ conns'[i] # h
  BY <1>1, <1>2, PoolAssumption DEF Disconnect, Shape, TypeOK
<1>4. /\ UNCHANGED <<closed, connId>>
      /\ lost' \in {lost, lost \cup {a}}
      /\ \A b \in Agents : job'[b] = IF b = a THEN h ELSE job[b]
      /\ \A b \in Agents : apc'[b] = IF b = a THEN "close" ELSE apc[b]
  BY <1>1 DEF Disconnect, connVars, Shape, TypeOK
<1> HIDE DEF h
<1> QED
  BY <1>1, <1>2, <1>3, <1>4, RemovalRegistration

\* An agent on its way through the closing of job[a], or out of the idle
\* state without a registration.
LEMMA ClosingRegistration ==
  ASSUME Shape, Registration, NEW a \in Agents,
         Closing(a)
  PROVE  Registration'
<1>1. /\ Handlers \subseteq Agents /\ None \notin Handlers /\ closed \subseteq Handlers
      /\ \A i \in ConnIds : conns[i] \in Handlers \cup {None}
      /\ \A b \in Agents : job[b] \in Handlers \cup {None}
  BY PoolAssumption DEF Shape, TypeOK, Agents
<1>2. CASE CloseDone(a)
  <2>1. /\ UNCHANGED <<conns, connId, job, lost>>
        /\ closed' = closed \cup {job[a]}
        /\ \A b \in Agents : apc'[b] = IF b = a THEN "drain" ELSE apc[b]
        /\ apc[a] = "close" /\ job[a] \in Handlers
    BY <1>2 DEF CloseDone, poolVars, Shape, TypeOK, AgentShape
  <2>2. job[a] # None /\ apc[job[a]] # "idle" /\ \A i \in ConnIds : conns[i] # job[a]
    BY <1>1, <2>1 DEF Registration, JobSound
  <2>3. NoGhostRegistration'
    BY <1>1, <2>1, <2>2 DEF Registration, NoGhostRegistration
  <2>4. JobSound'
    BY <1>1, <2>1, <2>2 DEF Registration, JobSound
  <2> QED
    BY <2>3, <2>4 DEF Registration
<1>3. ASSUME NEW s \in AgentStates \ {"idle"},
             UNCHANGED <<conns, connId, closed, job, lost>>,
             apc' = [apc EXCEPT ![a] = s],
             apc[a] \in {"drain", "failPending", "fail"},
             a \in Handlers /\ job[a] # a => s \in {"fail", "ack"}
      PROVE  Registration'
  <2>1. \A b \in Agents : apc'[b] = IF b = a THEN s ELSE apc[b]
    BY <1>3 DEF Shape, TypeOK
  <2>2. a \in Handlers /\ job[a] = a => \A i \in ConnIds : conns[i] # a
    BY <1>1 DEF Registration, JobSound
  <2>3. NoGhostRegistration'
    BY <1>1, <1>3, <2>1, <2>2 DEF Registration, NoGhostRegistration
  <2>4. JobSound'
    BY <1>1, <1>3, <2>1 DEF Registration, JobSound
  <2> QED
    BY <2>3, <2>4 DEF Registration
<1>4. CASE Drain(a) \/ FailTask(a) \/ \E c \in Calls : SignalVictim(a, c)
  <2>1. UNCHANGED <<conns, connId, closed, apc, job, lost>>
    BY <1>4 DEF Drain, FailTask, SignalVictim, poolVars, connVars
  <2> QED
    BY <2>1, RegistrationFrame
<1>5. CASE Drained(a)
  <2>1. UNCHANGED <<conns, connId, closed, job, lost>> /\ apc[a] = "drain"
    BY <1>5 DEF Drained, poolVars, connVars
  <2>2. CASE a \in lost
    <3>1. a \in Handlers => job[a] = a
      BY <2>2 DEF Registration, JobSound
    <3>2. apc' = [apc EXCEPT ![a] = "failPending"]
      BY <1>5, <2>2 DEF Drained
    <3> QED
      BY <1>3, <2>1, <3>1, <3>2 DEF AgentStates
  <2>3. CASE a \notin lost
    <3>1. apc' = [apc EXCEPT ![a] = "fail"]
      BY <1>5, <2>3 DEF Drained
    <3> QED
      BY <1>3, <2>1, <3>1 DEF AgentStates
  <2> QED
    BY <2>2, <2>3
<1>6. CASE FailPendingClient(a)
  <2>1. /\ UNCHANGED <<conns, connId, closed, job, lost>>
        /\ apc[a] = "failPending" /\ apc' = [apc EXCEPT ![a] = "fail"]
    BY <1>6 DEF FailPendingClient, connVars
  <2> QED
    BY <1>3, <2>1 DEF AgentStates
<1>7. CASE ClosingDone(a)
  <2>1. UNCHANGED <<conns, connId, closed, job, lost>> /\ apc[a] = "fail"
    BY <1>7 DEF ClosingDone, poolVars, connVars
  <2>2. CASE a \in Handlers /\ job[a] # a
    <3>1. apc' = [apc EXCEPT ![a] = "ack"]
      BY <1>7, <2>2 DEF ClosingDone
    <3> QED
      BY <1>3, <2>1, <3>1 DEF AgentStates
  <2>3. CASE ~(a \in Handlers /\ job[a] # a)
    <3>1. apc' = [apc EXCEPT ![a] = "done"]
      BY <1>7, <2>3 DEF ClosingDone
    <3> QED
      BY <1>3, <2>1, <2>3, <3>1 DEF AgentStates
  <2> QED
    BY <2>2, <2>3
<1> QED
  BY <1>2, <1>4, <1>5, <1>6, <1>7 DEF Closing

\* The ends of an agent that holds no registration.
LEMMA EndRegistration ==
  ASSUME Shape, Registration, NEW a \in Agents,
         \/ a \in Handlers /\ UnregisterGone(a)
         \/ a \in Handlers /\ \E id \in ConnIds : RegisterRefused(a, id)
         \/ a \in Admins /\ \E id \in ConnIds : DisconnectNothing(a, id)
  PROVE  Registration'
<1>1. /\ Handlers \subseteq Agents /\ None \notin Handlers /\ closed \subseteq Handlers
      /\ \A i \in ConnIds : conns[i] \in Handlers \cup {None}
      /\ \A b \in Agents : job[b] \in Handlers \cup {None}
  BY PoolAssumption DEF Shape, TypeOK, Agents
<1>2. /\ UNCHANGED <<conns, closed, job, lost>>
      /\ \A b \in Agents : b # a => apc'[b] = apc[b]
      /\ \A b \in Handlers : b # a => connId'[b] = connId[b]
      /\ apc'[a] \in {"done", "rejected"}
  BY DEF UnregisterGone, RegisterRefused, DisconnectNothing, poolVars, connVars,
         Shape, TypeOK
<1>3. \A i \in ConnIds : conns[i] # None => conns[i] # a
  <2>1. CASE a \in Handlers /\ UnregisterGone(a)
    BY <1>1, <2>1 DEF UnregisterGone, Registration, NoGhostRegistration
  <2>2. CASE a \in Handlers /\ \E id \in ConnIds : RegisterRefused(a, id)
    BY <1>1, <2>2 DEF RegisterRefused, Registration, NoGhostRegistration
  <2>3. CASE a \in Admins
    BY <1>1, <2>3, PoolAssumption
  <2> QED
    BY <2>1, <2>2, <2>3
<1>4. NoGhostRegistration'
  BY <1>1, <1>2, <1>3 DEF Registration, NoGhostRegistration
<1>5. JobSound'
  BY <1>1, <1>2 DEF Registration, JobSound
<1> QED
  BY <1>4, <1>5 DEF Registration

LEMMA WriterRegistration ==
  ASSUME Shape, Registration, NEW h \in Handlers,
         \/ AckSent(h) \/ AckFails(h) \/ Dequeue(h) \/ WriterClosed(h)
         \/ StreamDone(h) \/ CheckDone(h) \/ Send(h) \/ SendFails(h)
  PROVE  Registration'
<1>1. /\ UNCHANGED <<conns, connId, closed, job, lost>>
      /\ apc[h] \in Running
  BY DEF AckSent, AckFails, Dequeue, WriterClosed, StreamDone, CheckDone, Send,
         SendFails, poolVars, connVars, Running
<1>2. \E s \in Running : apc' = [apc EXCEPT ![h] = s]
  BY DEF AckSent, AckFails, Dequeue, WriterClosed, StreamDone, CheckDone, Send,
         SendFails, Running
<1> QED
  BY <1>1, <1>2, RunningStep

LEMMA NextRegistration == Shape /\ Registration /\ [Next]_vars => Registration'
<1> SUFFICES ASSUME Shape, Registration, [Next]_vars PROVE Registration'
  OBVIOUS
<1>1. CASE UNCHANGED vars \/ Terminated
  BY <1>1, RegistrationFrame DEF Terminated, vars, poolVars, connVars, agentVars
<1>2. ASSUME NEW a \in Agents, Closing(a) PROVE Registration'
  BY <1>2, ClosingRegistration
<1>3. ASSUME NEW h \in Handlers, Handler(h) \/ Transport(h) PROVE Registration'
  BY <1>3, WriterRegistration, UnregisterRegistration, EndRegistration
  DEF Handler, Transport, Agents
<1>4. CASE \/ \E c \in Calls : Call(c) \/ Expire(c) \/ Cancel(c)
           \/ \E c \in Calls, id \in ConnIds : SendTask(c, id)
           \/ \E t \in TaskIds, id \in ConnIds : HandleResult(t, id)
           \/ Delivery
  <2>1. UNCHANGED <<conns, connId, closed, apc, job, lost>>
    BY <1>4 DEF Call, Enter, EnterRefused, PostQueued, PostClosed, PostCtxDone,
       WaitResult, WaitError, WaitCtxDone, Cleanup, Expire, Cancel, SendTask,
       HandleResult, Delivery, DeliverResult, poolVars, connVars, agentVars
  <2> QED
    BY <2>1, RegistrationFrame
<1>5. CASE Environment
  <2>1. ASSUME NEW h \in Handlers, NEW id \in ConnIds,
               Register(h, id) \/ RegisterRefused(h, id)
        PROVE  Registration'
    BY <2>1, RegisterRegistration, EndRegistration DEF Agents
  <2>2. ASSUME NEW h \in Handlers, StreamDone(h) PROVE Registration'
    BY <2>2, WriterRegistration
  <2>3. ASSUME NEW a \in Admins, NEW id \in ConnIds,
               Disconnect(a, id) \/ DisconnectNothing(a, id)
        PROVE  Registration'
    BY <2>3, DisconnectRegistration, EndRegistration DEF Agents
  <2> QED
    BY <1>4, <1>5, <2>1, <2>2, <2>3 DEF Environment
<1> QED
  BY <1>1, <1>2, <1>3, <1>4, <1>5 DEF Next

\* No handler leaves its connection registered when it ends, and none is
\* registered after it was closed.
THEOREM NoGhostRegistrationAlways == Spec => []NoGhostRegistration
<1>1. Registration => NoGhostRegistration
  BY DEF Registration
<1> QED
  BY <1>1, InitShape, InitRegistration, NextShape, NextRegistration, PTL DEF Spec

-----------------------------------------------------------------------------
(* The limit                                                               *)

Registered(u) == {id \in ConnIds : UserOf[id] = u /\ conns[id] # None}

\* The registrations of a user are finitely many, even of infinitely many
\* ids, so counting them makes sense.
Limit ==
  MaxConnections > 0 =>
    \A u \in Users : /\ IsFiniteSet(Registered(u))
                     /\ Cardinality(Registered(u)) <= MaxConnections

LEMMA InitLimit == Init => Limit
<1> SUFFICES ASSUME Init PROVE Limit
  OBVIOUS
<1>1. \A u \in Users : Registered(u) = {}
  BY DEF Init, Registered
<1> QED
  BY <1>1, FS_EmptySet, PoolAssumption DEF Limit

\* Taking registrations away keeps the limit.
LEMMA FewerLimit ==
  ASSUME Limit, \A id \in ConnIds : conns'[id] \in {conns[id], None}
  PROVE  Limit'
<1> SUFFICES ASSUME MaxConnections > 0, NEW u \in Users
             PROVE  /\ IsFiniteSet(Registered(u)')
                    /\ Cardinality(Registered(u)') <= MaxConnections
  BY DEF Limit
<1>1. Registered(u)' \in SUBSET Registered(u)
  BY DEF Registered
<1>2. IsFiniteSet(Registered(u)) /\ Cardinality(Registered(u)) <= MaxConnections
  BY DEF Limit
<1>3. /\ IsFiniteSet(Registered(u)')
      /\ Cardinality(Registered(u)') <= Cardinality(Registered(u))
  BY <1>1, <1>2, FS_Subset
<1>4. Cardinality(Registered(u)) \in Nat /\ Cardinality(Registered(u)') \in Nat
  BY <1>2, <1>3, FS_CardinalityType
<1> QED
  BY <1>2, <1>3, <1>4, PoolAssumption

LEMMA RegisterLimit ==
  ASSUME Shape, Limit, NEW h \in Handlers, NEW id \in ConnIds, Register(h, id)
  PROVE  Limit'
<1> SUFFICES ASSUME MaxConnections > 0, NEW u \in Users
             PROVE  /\ IsFiniteSet(Registered(u)')
                    /\ Cardinality(Registered(u)') <= MaxConnections
  BY DEF Limit
<1>1. \A i \in ConnIds : conns'[i] = IF i = id THEN h ELSE conns[i]
  BY DEF Register, Shape, TypeOK
<1>2. IsFiniteSet(Registered(u)) /\ Cardinality(Registered(u)) <= MaxConnections
  BY DEF Limit
<1>3. CASE u # UserOf[id]
  <2>1. Registered(u)' = Registered(u)
    BY <1>1, <1>3 DEF Registered
  <2> QED
    BY <1>2, <2>1
<1>4. CASE u = UserOf[id]
  <2>1. OthersOf(id) \in SUBSET Registered(u)
    BY <1>4 DEF OthersOf, Registered
  <2>2. IsFiniteSet(OthersOf(id)) /\ Cardinality(OthersOf(id)) \in Nat
    BY <1>2, <2>1, FS_Subset, FS_CardinalityType
  <2>3. Cardinality(OthersOf(id)) < MaxConnections
    BY <2>2, PoolAssumption DEF Register, Full
  <2>4. Registered(u)' = OthersOf(id) \cup {id}
    BY <1>1, <1>4, PoolAssumption DEF Registered, OthersOf
  <2>5. /\ IsFiniteSet(OthersOf(id) \cup {id})
        /\ Cardinality(OthersOf(id) \cup {id}) = Cardinality(OthersOf(id)) + 1
    BY <2>2, FS_AddElement DEF OthersOf
  <2> QED
    BY <2>2, <2>3, <2>4, <2>5, PoolAssumption
<1> QED
  BY <1>3, <1>4

LEMMA NextLimit == Shape /\ Limit /\ [Next]_vars => Limit'
<1> SUFFICES ASSUME Shape, Limit, [Next]_vars PROVE Limit'
  OBVIOUS
<1>1. CASE \E h \in Handlers, id \in ConnIds : Register(h, id)
  BY <1>1, RegisterLimit
<1>2. CASE ~\E h \in Handlers, id \in ConnIds : Register(h, id)
  <2>1. \A id \in ConnIds : conns'[id] \in {conns[id], None}
    <3>1. CASE UNCHANGED vars \/ Terminated \/ Delivery
      BY <3>1 DEF Terminated, Delivery, DeliverResult, vars, poolVars
    <3>2. ASSUME NEW a \in Agents, Closing(a) PROVE UNCHANGED conns
      BY <3>2 DEF Closing, CloseDone, Drain, Drained, FailTask,
         FailPendingClient, SignalVictim, ClosingDone, poolVars
    <3>3. ASSUME NEW h \in Handlers, Handler(h) \/ Transport(h)
          PROVE  \A id \in ConnIds : conns'[id] \in {conns[id], None}
      BY <3>3 DEF Handler, Transport, AckSent, AckFails, Dequeue, WriterClosed,
         CheckDone, Send, SendFails, UnregisterCurrent, UnregisterReplaced, UnregisterGone, poolVars,
         Shape, TypeOK
    <3>4. ASSUME NEW c \in Calls, Call(c) \/ Expire(c) PROVE UNCHANGED conns
      BY <3>4 DEF Call, Enter, EnterRefused, PostQueued, PostClosed,
         PostCtxDone, WaitResult, WaitError, WaitCtxDone, Cleanup, Expire,
         poolVars
    <3>5. CASE Environment
      BY <1>2, <3>5 DEF Environment, RegisterRefused, StreamDone, Disconnect, DisconnectNothing, SendTask, HandleResult,
         Cancel, poolVars, Shape, TypeOK
    <3> QED
      BY <3>1, <3>2, <3>3, <3>4, <3>5 DEF Next
  <2> QED
    BY <2>1, FewerLimit
<1> QED
  BY <1>1, <1>2

LEMMA LimitInvariant == Spec => [](Shape /\ Limit)
  BY InitShape, InitLimit, NextShape, NextLimit, PTL DEF Spec

\* No user exceeds MAX_CONNECTIONS.
THEOREM ConnectionLimitAlways == Spec => []ConnectionLimit
<1>1. Limit => ConnectionLimit
  BY DEF Limit, ConnectionLimit, Registered
<1> QED
  BY <1>1, LimitInvariant, PTL

\* Under the limit, the old registration of an id leaves room for a new one:
\* the restoring branch of Register is never taken.
LEMMA OwnPlaceIsFree ==
  ASSUME Limit, NEW id \in ConnIds, conns[id] # None
  PROVE  ~Full(id)
<1> SUFFICES ASSUME MaxConnections > 0
             PROVE  ~(Cardinality(OthersOf(id)) >= MaxConnections)
  BY DEF Full
<1> DEFINE u == UserOf[id]
<1>1. u \in Users
  BY PoolAssumption
<1>2. IsFiniteSet(Registered(u)) /\ Cardinality(Registered(u)) <= MaxConnections
  BY <1>1 DEF Limit
<1>3. OthersOf(id) = Registered(u) \ {id} /\ id \in Registered(u)
  BY DEF OthersOf, Registered
<1>4. Cardinality(Registered(u) \ {id}) = Cardinality(Registered(u)) - 1
  BY <1>2, <1>3, FS_RemoveElement
<1>5. Cardinality(Registered(u)) \in Nat
  BY <1>2, FS_CardinalityType
<1> QED
  BY <1>2, <1>3, <1>4, <1>5, PoolAssumption

\* A client is never locked out by its own previous registration.
THEOREM ReconnectNotRefusedAlways == Spec => ReconnectNotRefused
<1> DEFINE P == \A h \in Handlers :
             apc[h] # "rejected" /\ apc'[h] = "rejected" => conns[connId'[h]] = None
<1>1. ASSUME Shape, Limit, [Next]_vars, NEW h \in Handlers,
             apc[h] # "rejected", apc'[h] = "rejected"
      PROVE  conns[connId'[h]] = None
  <2>1. \E id \in ConnIds : RegisterRefused(h, id)
    <3> SUFFICES ASSUME ~\E id \in ConnIds : RegisterRefused(h, id)
                 PROVE  apc'[h] \in {apc[h]} \cup (AgentStates \ {"rejected"})
      BY <1>1
    <3>1. apc \in [Agents -> AgentStates] /\ Handlers \subseteq Agents
      BY <1>1 DEF Shape, TypeOK, Agents
    <3>2. CASE \/ UNCHANGED vars \/ Terminated \/ Delivery
               \/ \E c \in Calls : Call(c) \/ Expire(c)
      <4>1. apc' = apc
        BY <3>2 DEF Terminated, Delivery, DeliverResult, vars, agentVars, Call,
           Enter, EnterRefused, PostQueued, PostClosed, PostCtxDone,
           WaitResult, WaitError, WaitCtxDone, Cleanup, Expire
      <4> QED
        BY <4>1
    <3>3. ASSUME NEW a \in Agents, Closing(a)
          PROVE  apc'[h] \in {apc[h]} \cup (AgentStates \ {"rejected"})
      BY <3>1, <3>3 DEF Closing, CloseDone, Drain, Drained, FailTask,
         FailPendingClient, SignalVictim, ClosingDone, AgentStates
    <3>4. ASSUME NEW g \in Handlers, Handler(g) \/ Transport(g)
          PROVE  apc'[h] \in {apc[h]} \cup (AgentStates \ {"rejected"})
      BY <3>1, <3>4 DEF Handler, Transport, AckSent, AckFails, Dequeue,
         WriterClosed, CheckDone, Send, SendFails, UnregisterCurrent, UnregisterReplaced, UnregisterGone, AgentStates
    <3>5. CASE Environment
      <4>1. ASSUME NEW g \in Handlers, NEW id \in ConnIds,
                   Register(g, id) \/ RegisterRefused(g, id)
            PROVE  apc'[h] \in {apc[h]} \cup (AgentStates \ {"rejected"})
        BY <3>1, <4>1 DEF Register, RegisterRefused, AgentStates
      <4>2. ASSUME NEW g \in Handlers, StreamDone(g)
            PROVE  apc'[h] \in {apc[h]} \cup (AgentStates \ {"rejected"})
        BY <3>1, <4>2 DEF StreamDone, AgentStates
      <4>3. ASSUME NEW a \in Admins, NEW id \in ConnIds,
                   Disconnect(a, id) \/ DisconnectNothing(a, id)
            PROVE  apc'[h] \in {apc[h]} \cup (AgentStates \ {"rejected"})
        BY <3>1, <4>3 DEF Disconnect, DisconnectNothing, AgentStates
      <4>4. CASE \/ \E c \in Calls, id \in ConnIds : SendTask(c, id)
                 \/ \E s \in TaskIds, id \in ConnIds : HandleResult(s, id)
                 \/ \E c \in Calls : Cancel(c)
        BY <4>4 DEF SendTask, HandleResult, Cancel, agentVars
      <4> QED
        BY <3>5, <4>1, <4>2, <4>3, <4>4 DEF Environment
    <3> QED
      BY <1>1, <3>2, <3>3, <3>4, <3>5 DEF Next
  <2>2. PICK id \in ConnIds : RegisterRefused(h, id)
    BY <2>1
  <2>3. connId'[h] = id
    BY <1>1, <2>2 DEF RegisterRefused, Shape, TypeOK
  <2> QED
    BY <1>1, <2>2, <2>3, OwnPlaceIsFree DEF RegisterRefused
<1>2. Shape /\ Limit /\ [Next]_vars => [P]_vars
  BY <1>1
<1> QED
  BY <1>2, LimitInvariant, PTL DEF Spec, ReconnectNotRefused

-----------------------------------------------------------------------------
(* The inductive invariant, part 4: where a message is                     *)

\* The message of c is with connection h: in its queue, in the hand of its
\* writer, or sent.
Carries(h, c) == c \in Range(queue[h]) \/ holding[h] = c \/ c \in sent[h]

\* States of a call that has posted its message, or never will.
Posted == {"wait", "cleanup", "done"}

Distinct(s) == \A i, j \in DOMAIN s : s[i] = s[j] => i = j

\* A call addresses the connection it looked up, of the id it was given.
Addressed ==
  \A c \in Calls : target[c] # None =>
    apc[target[c]] # "idle" /\ connId[target[c]] = owner[c]

\* A message is with the connection it was posted to, and in one place of it.
OnePlace ==
  /\ \A h \in Handlers, c \in Calls : Carries(h, c) => target[c] = h /\ cpc[c] \in Posted
  /\ \A h \in Handlers : \A c \in Range(queue[h]) : holding[h] # c /\ c \notin sent[h]
  /\ \A h \in Handlers : Distinct(queue[h]) /\ holding[h] \notin sent[h]

\* What Close drained is with no connection any more.
DrainedIsGone ==
  \A a \in Agents : \A c \in Range(unsent[a]) :
    cpc[c] \in Posted /\ \A h \in Handlers : ~Carries(h, c)

Places == Addressed /\ OnePlace /\ DrainedIsGone

-----------------------------------------------------------------------------
(* The inductive invariant, part 5: where a verdict comes from             *)

\* A generated id belongs to one call.
UniqueIds ==
  \A c, d \in Calls : tid[c] = tid[d] /\ tid[c] \in TaskIds \ CallerIds => c = d

\* A result on its way, or returned, is signed with the id of the addressee.
ResultsSigned ==
  /\ \A r \in carrying : r.clientId = owner[r.entry]
  /\ \A c \in Calls : ResReady(c) => resCh[c] = owner[c]
  /\ \A c \in Calls : outcome[c] \in ConnIds => outcome[c] = owner[c]

\* If its task has a generated id, the message was sent.
ResultsSent ==
  \A c \in Calls : Answering(c) \/ ResReady(c) \/ outcome[c] \in ConnIds =>
    tid[c] \in CallerIds \/ SentOn(c)

\* A connection that was registered under id has been lost.
Lost(id) == \E a \in lost : connId[job[a]] = id

\* Who lost a connection has only to close it; who fails all waits of an id
\* lost one.
LossIsFinal ==
  /\ \A a \in lost : /\ apc[a] \in {"close", "drain", "failPending", "fail", "done"}
                     /\ job[a] \in Handlers
  /\ \A a \in Agents : apc[a] = "failPending" => a \in lost

\* A call that has an outcome is on its way out.
Decided == \A c \in Calls : outcome[c] # "none" => cpc[c] \in {"cleanup", "done"}

\* The message of c left its queue, or never came to one, and was not sent.
Gone(c) == cpc[c] \in Posted /\ \A h \in Handlers : ~Carries(h, c)

Failing(c) == ErrReady(c) \/ outcome[c] = "closed" \/ \E a \in Agents : FailedBy(a, c)

\* A failure on its way, or returned, is one of a loss, or for a task of the same
\* id that was never sent and will not be.
FailuresLost ==
  \A c \in Calls : Failing(c) =>
    /\ tid[c] \in TaskIds
    /\ Lost(owner[c]) \/ \E d \in Calls : tid[d] = tid[c] /\ Gone(d)

Causes ==
  UniqueIds /\ ResultsSigned /\ ResultsSent /\ LossIsFinal /\ Decided /\ FailuresLost

-----------------------------------------------------------------------------
(* Lemmas on sequences without repetition                                  *)

LEMMA RangeAppend ==
  ASSUME NEW S, NEW s \in Seq(S), NEW x \in S
  PROVE  /\ Range(Append(s, x)) = Range(s) \cup {x}
         /\ Distinct(s) /\ x \notin Range(s) => Distinct(Append(s, x))
<1> DEFINE t == Append(s, x)
<1>1. /\ DOMAIN s = 1..Len(s) /\ DOMAIN t = 1..(Len(s) + 1) /\ Len(s) \in Nat
      /\ t[Len(s) + 1] = x
      /\ \A i \in 1..Len(s) : t[i] = s[i]
  OBVIOUS
<1> HIDE DEF t
<1>2. Range(t) = Range(s) \cup {x}
  BY <1>1 DEF Range
<1>3. Distinct(s) /\ x \notin Range(s) => Distinct(t)
  BY <1>1 DEF Range, Distinct
<1> QED BY <1>2, <1>3 DEF t

LEMMA RangeTail ==
  ASSUME NEW S, NEW s \in Seq(S), s # <<>>
  PROVE  /\ Head(s) \in Range(s) /\ Range(s) \subseteq S
         /\ Range(Tail(s)) \subseteq Range(s)
         /\ Distinct(s) => Distinct(Tail(s)) /\ Head(s) \notin Range(Tail(s))
<1> DEFINE t == Tail(s)
<1>1. /\ DOMAIN s = 1..Len(s) /\ DOMAIN t = 1..(Len(s) - 1) /\ Len(s) \in Nat \ {0}
      /\ Head(s) = s[1] /\ \A i \in 1..(Len(s) - 1) : t[i] = s[i + 1]
      /\ \A i \in 1..Len(s) : s[i] \in S
  OBVIOUS
<1> HIDE DEF t
<1>2. Head(s) \in Range(s) /\ Range(s) \subseteq S
  <2>1. 1 \in DOMAIN s /\ Head(s) = s[1]
    BY <1>1
  <2>2. \A i \in DOMAIN s : s[i] \in S
    BY <1>1
  <2>3. Head(s) \in Range(s)
    BY <2>1 DEF Range
  <2>4. Range(s) \subseteq S
    BY <2>2 DEF Range
  <2> QED BY <2>3, <2>4
<1>3. ASSUME Distinct(s)
      PROVE  Distinct(t) /\ Head(s) \notin Range(t)
  <2>1. \A i \in DOMAIN t : i + 1 \in DOMAIN s /\ i + 1 # 1 /\ t[i] = s[i + 1]
    BY <1>1
  <2>2. ASSUME NEW i \in DOMAIN t, NEW j \in DOMAIN t, t[i] = t[j]
        PROVE  i = j
    <3>1. i + 1 = j + 1
      BY <1>3, <2>1, <2>2 DEF Distinct
    <3> QED BY <1>1, <3>1
  <2>3. ASSUME NEW i \in DOMAIN t, t[i] = Head(s)
        PROVE  FALSE
    <3>1. s[i + 1] = s[1] /\ 1 \in DOMAIN s
      BY <1>1, <2>1, <2>3
    <3> QED BY <1>3, <2>1, <3>1 DEF Distinct
  <2> QED BY <2>2, <2>3 DEF Distinct, Range
<1>4. Range(t) \subseteq Range(s)
  <2>1. \A i \in 1..(Len(s) - 1) : i + 1 \in 1..Len(s) /\ t[i] = s[i + 1]
    BY <1>1
  <2> QED BY <1>1, <2>1 DEF Range
<1> QED BY <1>2, <1>3, <1>4 DEF t

LEMMA RangeSplit ==
  ASSUME NEW S, NEW s \in Seq(S), s # <<>>
  PROVE  Range(s) = Range(Tail(s)) \cup {Head(s)}
<1>1. Head(s) \in Range(s) /\ Range(Tail(s)) \subseteq Range(s)
  BY RangeTail
<1>2. ASSUME NEW i \in 1..Len(s)
      PROVE  s[i] \in Range(Tail(s)) \cup {Head(s)}
  <2>1. CASE i = 1
    BY <2>1
  <2>2. CASE i # 1
    <3>1. i - 1 \in DOMAIN Tail(s) /\ Tail(s)[i - 1] = s[i]
      BY <2>2
    <3> QED BY <3>1 DEF Range
  <2> QED BY <2>1, <2>2
<1>3. \A x \in Range(s) : \E i \in 1..Len(s) : x = s[i]
  BY DEF Range
<1> QED BY <1>1, <1>2, <1>3

LEMMA RangeEmpty == Range(<<>>) = {} /\ Distinct(<<>>)
  BY DEF Range, Distinct

-----------------------------------------------------------------------------
(* What no step takes back                                                 *)

Steady ==
  /\ \A c \in Calls : cpc[c] \in Posted => cpc'[c] \in Posted
  /\ \A c \in Calls : cpc[c] # "idle" => owner'[c] = owner[c] /\ target'[c] = target[c]
  /\ \A c \in Calls : tid[c] # None => tid'[c] = tid[c]
  /\ \A h \in Handlers : apc[h] # "idle" => apc'[h] # "idle" /\ connId'[h] = connId[h]
  /\ \A h \in Handlers : sent[h] \subseteq sent'[h]
  /\ closed \subseteq closed' /\ lost \subseteq lost'

LEMMA SteadyStep == Shape /\ [Next]_vars => Steady
<1> SUFFICES ASSUME Shape, [Next]_vars PROVE Steady
  OBVIOUS
<1> USE DEF Steady, Shape, TypeOK, Posted, Agents
<1>1. CASE UNCHANGED vars \/ Terminated
  BY <1>1 DEF Terminated, vars, connVars, agentVars, callVars
<1>2. ASSUME NEW a \in Agents, Closing(a)
      PROVE  Steady
  BY <1>2
  DEF Closing, CloseDone, Drain, Drained, FailTask, FailPendingClient, SignalVictim, ClosingDone,
      connVars, callVars
<1>3. ASSUME NEW h \in Handlers, Handler(h) \/ StreamDone(h)
      PROVE  Steady
  BY <1>3
  DEF Handler, Dequeue, WriterClosed, StreamDone, CheckDone, UnregisterCurrent, UnregisterReplaced,
      UnregisterGone, connVars, callVars
<1>7. ASSUME NEW h \in Handlers, AckSent(h) \/ AckFails(h) \/ SendFails(h)
      PROVE  Steady
  BY <1>7 DEF AckSent, AckFails, SendFails, connVars, callVars
<1>8. ASSUME NEW h \in Handlers, Send(h)
      PROVE  Steady
  BY <1>8 DEF Send, connVars, callVars
<1>4. ASSUME NEW c \in Calls, Call(c) \/ Expire(c) \/ Cancel(c)
      PROVE  Steady
  BY <1>4
  DEF CallShape, Call, Enter, EnterRefused, PostQueued, PostClosed, PostCtxDone, WaitResult, WaitError,
      WaitCtxDone, Cleanup, Expire, Cancel, Leave, connVars, agentVars
<1>5. CASE \/ Delivery
           \/ \E c \in Calls, id \in ConnIds : SendTask(c, id)
           \/ \E t \in TaskIds, id \in ConnIds : HandleResult(t, id)
  BY <1>5 DEF Delivery, DeliverResult, SendTask, HandleResult, connVars, agentVars, callVars
<1>6. CASE \/ \E h \in Handlers, id \in ConnIds : Register(h, id) \/ RegisterRefused(h, id)
           \/ \E a \in Admins, id \in ConnIds : Disconnect(a, id) \/ DisconnectNothing(a, id)
  BY <1>6, PoolAssumption
  DEF Register, RegisterRefused, Disconnect, DisconnectNothing, connVars, callVars
<1> QED BY <1>1, <1>2, <1>3, <1>4, <1>5, <1>6, <1>7, <1>8 DEF Next, Environment, Transport

-----------------------------------------------------------------------------
(* Where a message is                                                      *)

\* The steps that move messages.
LEMMA MessageMoves ==
  ASSUME [Next]_vars
  PROVE  \/ UNCHANGED <<queue, holding, sent, unsent>>
         \/ \E h \in Handlers : Dequeue(h) \/ CheckDone(h) \/ Send(h) \/ SendFails(h)
         \/ \E a \in Agents : Drain(a) \/ Drained(a) \/ FailTask(a)
         \/ \E c \in Calls : PostQueued(c)
<1>1. ASSUME NEW a \in Agents, Closing(a), ~Drain(a), ~Drained(a), ~FailTask(a)
      PROVE  UNCHANGED <<queue, holding, sent, unsent>>
  BY <1>1 DEF Closing, CloseDone, FailPendingClient, SignalVictim, ClosingDone, connVars
<1>2. ASSUME NEW h \in Handlers, Handler(h) \/ Transport(h) \/ StreamDone(h),
             ~Dequeue(h), ~CheckDone(h), ~Send(h), ~SendFails(h)
      PROVE  UNCHANGED <<queue, holding, sent, unsent>>
  BY <1>2
  DEF Handler, Transport, AckSent, AckFails, WriterClosed, StreamDone, UnregisterCurrent,
      UnregisterReplaced, UnregisterGone, connVars
<1>3. ASSUME NEW c \in Calls, Call(c) \/ Expire(c) \/ Cancel(c), ~PostQueued(c)
      PROVE  UNCHANGED <<queue, holding, sent, unsent>>
  BY <1>3
  DEF Call, Enter, EnterRefused, PostClosed, PostCtxDone, WaitResult, WaitError, WaitCtxDone,
      Cleanup, Expire, Cancel, connVars, agentVars
<1>4. CASE \/ Delivery \/ Terminated \/ UNCHANGED vars
           \/ \E c \in Calls, id \in ConnIds : SendTask(c, id)
           \/ \E t \in TaskIds, id \in ConnIds : HandleResult(t, id)
  BY <1>4
  DEF Delivery, DeliverResult, Terminated, SendTask, HandleResult, vars, connVars, agentVars
<1>5. CASE \/ \E h \in Handlers, id \in ConnIds : Register(h, id) \/ RegisterRefused(h, id)
           \/ \E a \in Admins, id \in ConnIds : Disconnect(a, id) \/ DisconnectNothing(a, id)
  BY <1>5 DEF Register, RegisterRefused, Disconnect, DisconnectNothing, connVars
<1> QED BY <1>1, <1>2, <1>3, <1>4, <1>5 DEF Next, Environment

\* Only posting brings a message to a connection.
LEMMA CarriesStep ==
  ASSUME Shape, [Next]_vars, NEW h \in Handlers, NEW c \in Calls, Carries(h, c)'
  PROVE  Carries(h, c) \/ (PostQueued(c) /\ target[c] = h)
<1> USE DEF Shape, TypeOK, Carries
<1>1. CASE UNCHANGED <<queue, holding, sent>>
  BY <1>1
<1>2. ASSUME NEW g \in Handlers, Dequeue(g)
      PROVE  Carries(h, c)
  BY <1>2, RangeTail DEF Dequeue
<1>3. ASSUME NEW a \in Agents, Drain(a)
      PROVE  Carries(h, c)
  BY <1>3, RangeTail DEF Drain
<1>4. ASSUME NEW g \in Handlers, CheckDone(g) \/ Send(g) \/ SendFails(g)
      PROVE  Carries(h, c)
  BY <1>4, PoolAssumption DEF CheckDone, Send, SendFails, connVars
<1>5. ASSUME NEW d \in Calls, PostQueued(d)
      PROVE  Carries(h, c) \/ (PostQueued(c) /\ target[c] = h)
  <2>1. /\ target[d] \in Handlers
        /\ queue' = [queue EXCEPT ![target[d]] = Append(queue[target[d]], d)]
        /\ UNCHANGED <<holding, sent>>
    BY <1>5 DEF PostQueued, CallShape, agentVars
  <2>2. Range(Append(queue[target[d]], d)) = Range(queue[target[d]]) \cup {d}
    BY <2>1, RangeAppend
  <2> QED BY <1>5, <2>1, <2>2
<1>6. ASSUME NEW a \in Agents, Drained(a) \/ FailTask(a)
      PROVE  Carries(h, c)
  BY <1>6 DEF Drained, FailTask, connVars
<1> QED BY <1>1, <1>2, <1>3, <1>4, <1>5, <1>6, MessageMoves

\* A looked-up connection is open to its id and stays so.
LEMMA AddressedStep ==
  Shape /\ Registration /\ Addressed /\ [Next]_vars => Addressed'
<1> SUFFICES ASSUME Shape, Registration, Addressed, [Next]_vars,
                    NEW c \in Calls, target'[c] # None
             PROVE  apc'[target'[c]] # "idle" /\ connId'[target'[c]] = owner'[c]
  BY DEF Addressed
<1>1. CASE target'[c] = target[c] /\ owner'[c] = owner[c]
  <2>1. target[c] \in Handlers /\ apc[target[c]] # "idle" /\ connId[target[c]] = owner[c]
    BY <1>1 DEF Addressed, Shape, TypeOK
  <2> QED BY <1>1, <2>1, SteadyStep DEF Steady
<1>2. ASSUME NEW id \in ConnIds, SendTask(c, id)
      PROVE  apc'[target'[c]] # "idle" /\ connId'[target'[c]] = owner'[c]
  <2>1. target'[c] = conns[id] /\ owner'[c] = id /\ apc' = apc /\ connId' = connId
    BY <1>2 DEF SendTask, agentVars, Shape, TypeOK
  <2> QED BY <2>1 DEF Registration, NoGhostRegistration
<1>3. CASE ~ \E id \in ConnIds : SendTask(c, id)
  <2>1. cpc[c] # "idle" \/ (target'[c] = target[c] /\ owner'[c] = owner[c])
    <3>1. ASSUME NEW a \in Agents, Closing(a)
          PROVE  UNCHANGED <<target, owner>>
      BY <3>1
      DEF Closing, CloseDone, Drain, Drained, FailTask, FailPendingClient, SignalVictim,
          ClosingDone, callVars
    <3>2. ASSUME NEW h \in Handlers, Handler(h) \/ Transport(h) \/ StreamDone(h)
          PROVE  UNCHANGED <<target, owner>>
      BY <3>2
      DEF Handler, Transport, AckSent, AckFails, Dequeue, WriterClosed, StreamDone, CheckDone, Send,
          SendFails, UnregisterCurrent, UnregisterReplaced, UnregisterGone, callVars
    <3>3. ASSUME NEW d \in Calls, Call(d) \/ Expire(d) \/ Cancel(d)
          PROVE  UNCHANGED <<target, owner>>
      BY <3>3
      DEF Call, Enter, EnterRefused, PostQueued, PostClosed, PostCtxDone, WaitResult, WaitError,
          WaitCtxDone, Cleanup, Expire, Cancel
    <3>4. CASE Delivery \/ Terminated \/ UNCHANGED vars
               \/ \E t \in TaskIds, id \in ConnIds : HandleResult(t, id)
      BY <3>4 DEF Delivery, DeliverResult, Terminated, HandleResult, vars, callVars
    <3>5. ASSUME NEW d \in Calls, NEW id \in ConnIds, SendTask(d, id)
          PROVE  target'[c] = target[c] /\ owner'[c] = owner[c]
      BY <1>3, <3>5 DEF SendTask, Shape, TypeOK
    <3>6. CASE \/ \E h \in Handlers, id \in ConnIds : Register(h, id) \/ RegisterRefused(h, id)
               \/ \E a \in Admins, id \in ConnIds : Disconnect(a, id) \/ DisconnectNothing(a, id)
      BY <3>6 DEF Register, RegisterRefused, Disconnect, DisconnectNothing, callVars
    <3> QED BY <3>1, <3>2, <3>3, <3>4, <3>5, <3>6 DEF Next, Environment
  <2> QED BY <1>1, <2>1, SteadyStep DEF Steady
<1> QED BY <1>2, <1>3

\* A message goes from the queue to the writer's hand and is sent, or drained,
\* and it is never in two of these places.
LEMMA OnePlaceStep ==
  Shape /\ OnePlace /\ [Next]_vars => OnePlace'
<1> SUFFICES ASSUME Shape, OnePlace, [Next]_vars PROVE OnePlace'
  OBVIOUS
<1>1. ASSUME NEW h \in Handlers, NEW c \in Calls, Carries(h, c)'
      PROVE  target'[c] = h /\ cpc'[c] \in Posted
  <2>1. CASE Carries(h, c)
    <3>1. target[c] = h /\ cpc[c] \in Posted
      BY <2>1 DEF OnePlace
    <3> QED BY <3>1, SteadyStep DEF Steady, Posted
  <2>2. CASE PostQueued(c) /\ target[c] = h
    BY <2>2 DEF PostQueued, Posted, Shape, TypeOK
  <2> QED BY <1>1, <2>1, <2>2, CarriesStep
<1>2. ASSUME NEW h \in Handlers
      PROVE  /\ Distinct(queue'[h]) /\ holding'[h] \notin sent'[h]
             /\ \A c \in Range(queue'[h]) : holding'[h] # c /\ c \notin sent'[h]
  <2> USE DEF OnePlace
  <2> DEFINE Goal == /\ Distinct(queue'[h]) /\ holding'[h] \notin sent'[h]
                     /\ \A c \in Range(queue'[h]) : holding'[h] # c /\ c \notin sent'[h]
  <2>1. queue \in [Handlers -> Seq(Calls)] /\ holding \in [Handlers -> Calls \cup {None}]
        /\ sent \in [Handlers -> SUBSET Calls]
    BY DEF Shape, TypeOK
  <2>2. CASE queue'[h] = queue[h] /\ holding'[h] \in {holding[h], None} /\ sent'[h] = sent[h]
    <3>1. Range(queue[h]) \subseteq Calls
      BY <2>1, RangeTail, RangeEmpty
    <3> QED BY <2>1, <2>2, <3>1, PoolAssumption
  <2>3. ASSUME NEW g \in Handlers, Dequeue(g)
        PROVE  Goal
    <3>1. CASE g = h
      <4>1. queue[h] # <<>> /\ queue'[h] = Tail(queue[h]) /\ holding'[h] = Head(queue[h])
            /\ sent' = sent
        BY <2>1, <2>3, <3>1 DEF Dequeue
      <4> QED BY <2>1, <4>1, RangeTail
    <3>2. CASE g # h
      BY <2>1, <2>2, <2>3, <3>2 DEF Dequeue
    <3> QED BY <3>1, <3>2
  <2>4. ASSUME NEW a \in Agents, Drain(a)
        PROVE  Goal
    <3>1. CASE job[a] = h
      <4>1. queue[h] # <<>> /\ queue'[h] = Tail(queue[h]) /\ holding' = holding /\ sent' = sent
        BY <2>1, <2>4, <3>1 DEF Drain
      <4> QED BY <2>1, <4>1, RangeTail
    <3>2. CASE job[a] # h
      BY <2>1, <2>2, <2>4, <3>2 DEF Drain
    <3> QED BY <3>1, <3>2
  <2>5. ASSUME NEW g \in Handlers, CheckDone(g) \/ SendFails(g)
        PROVE  Goal
    BY <2>1, <2>2, <2>5 DEF CheckDone, SendFails, connVars
  <2>6. ASSUME NEW g \in Handlers, Send(g)
        PROVE  Goal
    <3>1. CASE g = h
      <4>1. /\ queue'[h] = queue[h] /\ holding'[h] = None /\ sent'[h] = sent[h] \cup {holding[h]}
        BY <2>1, <2>6, <3>1 DEF Send, connVars
      <4>2. Range(queue[h]) \subseteq Calls /\ holding[h] \in Calls
        BY <2>1, <2>6, <3>1, RangeTail, RangeEmpty DEF Send, Shape, AgentShape
      <4> QED BY <2>1, <4>1, <4>2, PoolAssumption
    <3>2. CASE g # h
      BY <2>1, <2>2, <2>6, <3>2 DEF Send, connVars
    <3> QED BY <3>1, <3>2
  <2>7. ASSUME NEW d \in Calls, PostQueued(d)
        PROVE  Goal
    <3>1. cpc[d] = "post" /\ ~Carries(h, d)
      BY <2>7 DEF PostQueued, Posted
    <3>2. CASE target[d] = h
      <4>1. queue'[h] = Append(queue[h], d) /\ holding' = holding /\ sent' = sent
        BY <2>1, <2>7, <3>2 DEF PostQueued, agentVars
      <4>2. Distinct(queue'[h]) /\ Range(queue'[h]) = Range(queue[h]) \cup {d}
        BY <2>1, <3>1, <4>1, RangeAppend DEF Carries
      <4> QED BY <3>1, <4>1, <4>2 DEF Carries
    <3>3. CASE target[d] # h
      BY <2>1, <2>2, <2>7, <3>3 DEF PostQueued, agentVars
    <3> QED BY <3>2, <3>3
  <2>8. ASSUME NEW a \in Agents, Drained(a) \/ FailTask(a)
        PROVE  Goal
    BY <2>2, <2>8 DEF Drained, FailTask, connVars
  <2> QED BY <2>2, <2>3, <2>4, <2>5, <2>6, <2>7, <2>8, MessageMoves
<1> QED BY <1>1, <1>2 DEF OnePlace

LEMMA DrainedStep ==
  Shape /\ OnePlace /\ DrainedIsGone /\ [Next]_vars => DrainedIsGone'
<1> SUFFICES ASSUME Shape, OnePlace, DrainedIsGone, [Next]_vars,
                    NEW a \in Agents, NEW c \in Range(unsent'[a])
             PROVE  cpc'[c] \in Posted /\ \A h \in Handlers : ~Carries(h, c)'
  BY DEF DrainedIsGone
<1>1. /\ queue \in [Handlers -> Seq(Calls)] /\ unsent \in [Agents -> Seq(Calls)]
      /\ holding \in [Handlers -> Calls \cup {None}] /\ sent \in [Handlers -> SUBSET Calls]
  BY DEF Shape, TypeOK
\* It was drained before.
<1>2. CASE c \in Range(unsent[a])
  <2>1. c \in Calls /\ cpc[c] \in Posted /\ \A h \in Handlers : ~Carries(h, c)
    BY <1>1, <1>2, RangeTail, RangeEmpty DEF DrainedIsGone
  <2>2. ~PostQueued(c)
    BY <2>1 DEF PostQueued, Posted
  <2> QED BY <2>1, <2>2, CarriesStep, SteadyStep DEF Steady
\* It is the head of the queue.
<1>3. CASE c \notin Range(unsent[a])
  <2>1. Drain(a)
    <3>1. CASE UNCHANGED unsent
      BY <1>3, <3>1
    <3>2. ASSUME NEW b \in Agents, Drain(b)
          PROVE  Drain(a)
      BY <1>1, <1>3, <3>2 DEF Drain
    <3>3. ASSUME NEW b \in Agents, Drained(b) \/ FailTask(b)
          PROVE  FALSE
      <4>1. unsent'[a] \in {unsent[a], <<>>} \/ (unsent[a] # <<>> /\ unsent'[a] = Tail(unsent[a]))
        BY <1>1, <3>3 DEF Drained, FailTask
      <4> QED BY <1>1, <1>3, <4>1, RangeTail, RangeEmpty
    <3>4. CASE (\E h \in Handlers : Dequeue(h) \/ CheckDone(h) \/ Send(h) \/ SendFails(h))
               \/ \E d \in Calls : PostQueued(d)
      BY <3>1, <3>4 DEF Dequeue, CheckDone, Send, SendFails, PostQueued, agentVars
    <3> QED BY <3>1, <3>2, <3>3, <3>4, MessageMoves
  <2>2. PICK g \in Handlers :
        /\ queue[g] # <<>>
        /\ unsent'[a] = Append(unsent[a], Head(queue[g]))
        /\ queue'[g] = Tail(queue[g])
        /\ UNCHANGED <<holding, sent, cpc>>
        /\ \A h \in Handlers \ {g} : queue'[h] = queue[h]
    BY <1>1, <2>1 DEF Drain, Shape, AgentShape, callVars
  <2>3. Head(queue[g]) \in Range(queue[g]) /\ Range(queue[g]) \subseteq Calls
        /\ Head(queue[g]) \notin Range(Tail(queue[g]))
    BY <1>1, <2>2, RangeTail DEF OnePlace
  <2>4. c = Head(queue[g]) /\ c \in Calls /\ c \in Range(queue[g]) /\ c \notin Range(queue'[g])
    BY <1>1, <1>3, <2>2, <2>3, RangeAppend
  <2>5. Carries(g, c)
    BY <2>4 DEF Carries
  <2>6. target[c] = g /\ cpc'[c] \in Posted
    BY <2>2, <2>4, <2>5 DEF OnePlace
  <2>7. ~Carries(g, c)'
    BY <2>2, <2>4 DEF Carries, OnePlace
  <2>8. ASSUME NEW h \in Handlers \ {g}
        PROVE  ~Carries(h, c)'
    <3>1. ~Carries(h, c)
      BY <2>4, <2>6 DEF OnePlace
    <3> QED BY <2>2, <3>1 DEF Carries
  <2> QED BY <2>6, <2>7, <2>8
<1> QED BY <1>2, <1>3

LEMMA InitPlaces == Init => Places
  BY RangeEmpty, PoolAssumption
  DEF Init, Places, Addressed, OnePlace, DrainedIsGone, Carries

-----------------------------------------------------------------------------
(* Where a verdict comes from                                              *)

\* The steps that move verdicts.
LEMMA VerdictMoves ==
  ASSUME [Next]_vars
  PROVE  \/ UNCHANGED <<carrying, resCh, errCh, outcome, victims>>
         \/ \E a \in Agents : FailTask(a) \/ FailPendingClient(a)
         \/ \E a \in Agents, c \in Calls : SignalVictim(a, c)
         \/ \E c \in Calls, id \in ConnIds : SendTask(c, id)
         \/ \E t \in TaskIds, id \in ConnIds : HandleResult(t, id)
         \/ \E c \in Calls, t \in TaskIds : EnterRefused(c, t)
         \/ \E c \in Calls : \/ PostClosed(c) \/ PostCtxDone(c)
                             \/ WaitResult(c) \/ WaitError(c) \/ WaitCtxDone(c)
         \/ \E r \in carrying : DeliverResult(r)
<1>1. ASSUME NEW a \in Agents, Closing(a), ~FailTask(a), ~FailPendingClient(a),
             ~ \E c \in Calls : SignalVictim(a, c)
      PROVE  UNCHANGED <<carrying, resCh, errCh, outcome, victims>>
  BY <1>1 DEF Closing, CloseDone, Drain, Drained, ClosingDone, callVars
<1>2. ASSUME NEW h \in Handlers, Handler(h) \/ Transport(h) \/ StreamDone(h)
      PROVE  UNCHANGED <<carrying, resCh, errCh, outcome, victims>>
  BY <1>2
  DEF Handler, Transport, AckSent, AckFails, Dequeue, WriterClosed, StreamDone, CheckDone, Send,
      SendFails, UnregisterCurrent, UnregisterReplaced, UnregisterGone, callVars
<1>3. ASSUME NEW c \in Calls,
             \/ PostQueued(c) \/ Cleanup(c) \/ Expire(c) \/ Cancel(c)
             \/ \E t \in TaskIds : Enter(c, t)
      PROVE  UNCHANGED <<carrying, resCh, errCh, outcome, victims>>
  BY <1>3 DEF PostQueued, Cleanup, Expire, Cancel, Enter, agentVars
<1>4. CASE Terminated \/ UNCHANGED vars
  BY <1>4 DEF Terminated, vars, callVars, agentVars
<1>5. CASE \/ \E h \in Handlers, id \in ConnIds : Register(h, id) \/ RegisterRefused(h, id)
           \/ \E a \in Admins, id \in ConnIds : Disconnect(a, id) \/ DisconnectNothing(a, id)
  BY <1>5 DEF Register, RegisterRefused, Disconnect, DisconnectNothing, callVars
<1> QED BY <1>1, <1>2, <1>3, <1>4, <1>5 DEF Next, Environment, Delivery, Call

\* Only Enter gives a call its id, and a generated one is new.
LEMMA UniqueStep ==
  Shape /\ UniqueIds /\ [Next]_vars => UniqueIds'
<1> SUFFICES ASSUME Shape, UniqueIds, [Next]_vars PROVE UniqueIds'
  OBVIOUS
<1>1. ASSUME NEW c \in Calls, NEW t \in TaskIds, Enter(c, t)
      PROVE  UniqueIds'
  BY <1>1 DEF Enter, Fresh, UniqueIds, Shape, TypeOK
<1>2. CASE UNCHANGED tid
  BY <1>2 DEF UniqueIds
<1>3. ASSUME NEW a \in Agents, Closing(a)
      PROVE  UNCHANGED tid
  BY <1>3
  DEF Closing, CloseDone, Drain, Drained, FailTask, FailPendingClient, SignalVictim, ClosingDone,
      callVars
<1>4. ASSUME NEW h \in Handlers, Handler(h) \/ Transport(h) \/ StreamDone(h)
      PROVE  UNCHANGED tid
  BY <1>4
  DEF Handler, Transport, AckSent, AckFails, Dequeue, WriterClosed, StreamDone, CheckDone, Send,
      SendFails, UnregisterCurrent, UnregisterReplaced, UnregisterGone, callVars
<1>5. ASSUME NEW c \in Calls, Call(c) \/ Expire(c) \/ Cancel(c),
             ~ \E t \in TaskIds : Enter(c, t)
      PROVE  UNCHANGED tid
  BY <1>5
  DEF Call, EnterRefused, PostQueued, PostClosed, PostCtxDone, WaitResult, WaitError, WaitCtxDone,
      Cleanup, Expire, Cancel
<1>6. CASE \/ Delivery \/ Terminated \/ UNCHANGED vars
           \/ \E c \in Calls, id \in ConnIds : SendTask(c, id)
           \/ \E t \in TaskIds, id \in ConnIds : HandleResult(t, id)
  BY <1>2, <1>6 DEF Delivery, DeliverResult, Terminated, SendTask, HandleResult, vars, callVars
<1>7. CASE \/ \E h \in Handlers, id \in ConnIds : Register(h, id) \/ RegisterRefused(h, id)
           \/ \E a \in Admins, id \in ConnIds : Disconnect(a, id) \/ DisconnectNothing(a, id)
  BY <1>2, <1>7 DEF Register, RegisterRefused, Disconnect, DisconnectNothing, callVars
<1> QED BY <1>1, <1>2, <1>3, <1>4, <1>5, <1>6, <1>7 DEF Next, Environment

\* What is sent stays so, on the stream of the same id.
LEMMA SentStays ==
  ASSUME Shape, Places, [Next]_vars, NEW c \in Calls, SentOn(c)
  PROVE  SentOn(c)'
<1>1. PICK h \in Handlers : connId[h] = owner[c] /\ c \in sent[h]
  BY DEF SentOn
<1>2. target[c] = h /\ cpc[c] \in Posted /\ apc[h] # "idle"
  BY <1>1, PoolAssumption DEF Places, OnePlace, Addressed, Carries, Shape, TypeOK
<1>3. owner'[c] = owner[c] /\ connId'[h] = connId[h] /\ c \in sent'[h]
  BY <1>1, <1>2, SteadyStep DEF Steady, Posted
<1> QED BY <1>1, <1>3 DEF SentOn

\* Who answers a task signs as its addressee, and the signature goes with the
\* result.
LEMMA SignedStep ==
  ASSUME Shape, Verdicts, Decided, ResultsSigned, [Next]_vars
  PROVE  ResultsSigned'
<1>0. /\ resCh \in [Calls -> ConnIds \cup {None}] /\ outcome \in [Calls -> Outcomes \cup ConnIds]
      /\ carrying \subseteq [entry : Calls, clientId : ConnIds] /\ ConnIds \cap Outcomes = {}
      /\ pending \in [TaskIds -> Calls \cup {None}] /\ cpc \in [Calls -> CallStates]
  BY PoolAssumption DEF Shape, TypeOK
<1>1. \A c \in Calls : cpc[c] # "idle" => owner'[c] = owner[c]
  BY SteadyStep DEF Steady
<1>2. \A c \in Calls : Answering(c) \/ ResReady(c) \/ outcome[c] \in ConnIds =>
        cpc[c] # "idle"
  BY <1>0 DEF Verdicts, Untouched, Decided, Outcomes
<1>3. /\ \A r \in carrying : r.clientId = owner'[r.entry]
      /\ \A c \in Calls : ResReady(c) => resCh[c] = owner'[c]
      /\ \A c \in Calls : outcome[c] \in ConnIds => outcome[c] = owner'[c]
  BY <1>0, <1>1, <1>2 DEF ResultsSigned, Answering
<1>4. ASSUME NEW t \in TaskIds, NEW id \in ConnIds, HandleResult(t, id)
      PROVE  ResultsSigned'
  <2>1. PICK d \in Calls : d = pending[t] /\ owner'[d] = id
    BY <1>0, <1>4 DEF HandleResult, callVars
  <2>2. carrying' = carrying \cup {[entry |-> d, clientId |-> id]} /\ UNCHANGED <<resCh, outcome>>
    BY <1>4, <2>1 DEF HandleResult, callVars
  <2> QED BY <1>3, <2>1, <2>2 DEF ResultsSigned, ResReady
<1>5. ASSUME NEW r \in carrying, DeliverResult(r)
      PROVE  ResultsSigned'
  <2>1. /\ carrying' \subseteq carrying /\ UNCHANGED outcome
        /\ resCh' = [resCh EXCEPT ![r.entry] = r.clientId]
    BY <1>5 DEF DeliverResult
  <2> QED BY <1>0, <1>3, <2>1 DEF ResultsSigned, ResReady
<1>6. ASSUME NEW c \in Calls, WaitResult(c)
      PROVE  ResultsSigned'
  <2>1. /\ ResReady(c) /\ resCh' = [resCh EXCEPT ![c] = None]
        /\ outcome' = [outcome EXCEPT ![c] = resCh[c]] /\ UNCHANGED carrying
    BY <1>6 DEF WaitResult, Leave, ResReady
  <2> QED BY <1>0, <1>3, <2>1 DEF ResultsSigned, ResReady
<1>7. ASSUME UNCHANGED <<carrying, resCh>>,
             NEW c \in Calls, NEW o \in Outcomes, outcome' = [outcome EXCEPT ![c] = o]
      PROVE  ResultsSigned'
  BY <1>0, <1>3, <1>7 DEF ResultsSigned, ResReady
<1>8. CASE UNCHANGED <<carrying, resCh, outcome>>
  BY <1>3, <1>8 DEF ResultsSigned, ResReady
<1>9. CASE \E a \in Agents : \/ FailTask(a) \/ FailPendingClient(a)
                            \/ \E d \in Calls : SignalVictim(a, d)
  BY <1>8, <1>9 DEF FailTask, FailPendingClient, SignalVictim, callVars
<1>10. ASSUME NEW c \in Calls, NEW id \in ConnIds, SendTask(c, id)
       PROVE  ResultsSigned'
  BY <1>7, <1>8, <1>10 DEF SendTask, Outcomes
<1>11. ASSUME NEW c \in Calls,
              \/ PostClosed(c) \/ PostCtxDone(c) \/ WaitError(c) \/ WaitCtxDone(c)
              \/ \E t \in TaskIds : EnterRefused(c, t)
       PROVE  ResultsSigned'
  <2>1. PICK o \in Outcomes : outcome' = [outcome EXCEPT ![c] = o]
    BY <1>11
    DEF PostClosed, PostCtxDone, WaitError, WaitCtxDone, EnterRefused, Leave, Outcomes
  <2>2. UNCHANGED <<carrying, resCh>>
    BY <1>11 DEF PostClosed, PostCtxDone, WaitError, WaitCtxDone, EnterRefused
  <2> QED BY <1>7, <2>1, <2>2
<1> QED BY <1>4, <1>5, <1>6, <1>8, <1>9, <1>10, <1>11, VerdictMoves

\* A generated id is known only from its message.
LEMMA ResultsStep ==
  ASSUME Shape, Verdicts, Places, Decided, UniqueIds, ResultsSent, [Next]_vars
  PROVE  ResultsSent'
<1> SUFFICES ASSUME NEW c \in Calls, (Answering(c) \/ ResReady(c) \/ outcome[c] \in ConnIds)'
             PROVE  (tid[c] \in CallerIds \/ SentOn(c))'
  BY DEF ResultsSent
<1>0. /\ resCh \in [Calls -> ConnIds \cup {None}] /\ outcome \in [Calls -> Outcomes \cup ConnIds]
      /\ pending \in [TaskIds -> Calls \cup {None}] /\ ConnIds \cap Outcomes = {}
      /\ CallerIds \subseteq TaskIds /\ None \notin TaskIds
  BY PoolAssumption DEF Shape, TypeOK
\* Both alternatives last.
<1>1. ASSUME tid[c] \in CallerIds \/ SentOn(c)
      PROVE  (tid[c] \in CallerIds \/ SentOn(c))'
  BY <1>0, <1>1, SteadyStep, SentStays DEF Steady
<1>2. CASE Answering(c) \/ ResReady(c) \/ outcome[c] \in ConnIds
  BY <1>1, <1>2 DEF ResultsSent
<1>3. CASE ~(Answering(c) \/ ResReady(c) \/ outcome[c] \in ConnIds)
  <2>1. ASSUME NEW t \in TaskIds, NEW id \in ConnIds, HandleResult(t, id)
        PROVE  (tid[c] \in CallerIds \/ SentOn(c))'
    <3>1. pending[t] # None /\ c = pending[t] /\ Known(t)
      BY <1>3, <2>1 DEF HandleResult, Answering, ResReady, callVars
    <3>2. tid[c] = t
      BY <3>1 DEF Verdicts, NoLeakedEntry
    <3>3. CASE t \in CallerIds
      BY <1>1, <3>2, <3>3
    <3>4. CASE t \notin CallerIds
      <4>1. PICK d \in Calls, h \in Handlers : tid[d] = t /\ d \in sent[h]
        BY <3>1, <3>4 DEF Known
      <4>2. d = c
        BY <3>2, <3>4, <4>1 DEF UniqueIds
      <4>3. target[c] = h /\ connId[h] = owner[c]
        BY <4>1, <4>2, PoolAssumption DEF Places, OnePlace, Addressed, Carries, Shape, TypeOK
      <4> QED BY <1>1, <4>1, <4>2, <4>3 DEF SentOn
    <3> QED BY <3>3, <3>4
  <2>2. CASE UNCHANGED <<carrying, resCh, outcome>>
    BY <1>3, <2>2 DEF Answering, ResReady
  <2>3. ASSUME NEW r \in carrying, DeliverResult(r)
        PROVE  FALSE
    BY <1>0, <1>3, <2>3 DEF DeliverResult, Answering, ResReady
  <2>4. ASSUME NEW d \in Calls, WaitResult(d)
        PROVE  FALSE
    BY <1>0, <1>3, <2>4 DEF WaitResult, Leave, Answering, ResReady
  <2>5. ASSUME NEW d \in Calls,
               \/ PostClosed(d) \/ PostCtxDone(d) \/ WaitError(d) \/ WaitCtxDone(d)
               \/ \E t \in TaskIds : EnterRefused(d, t)
               \/ \E id \in ConnIds : SendTask(d, id)
        PROVE  FALSE
    <3>1. outcome' = outcome \/ \E o \in Outcomes : outcome' = [outcome EXCEPT ![d] = o]
      BY <2>5
      DEF PostClosed, PostCtxDone, WaitError, WaitCtxDone, EnterRefused, SendTask, Leave, Outcomes
    <3>2. UNCHANGED <<carrying, resCh>>
      BY <2>5 DEF PostClosed, PostCtxDone, WaitError, WaitCtxDone, EnterRefused, SendTask
    <3> QED BY <1>0, <1>3, <3>1, <3>2 DEF Answering, ResReady
  <2>6. CASE \E a \in Agents : \/ FailTask(a) \/ FailPendingClient(a)
                               \/ \E d \in Calls : SignalVictim(a, d)
    BY <2>2, <2>6 DEF FailTask, FailPendingClient, SignalVictim, callVars
  <2> QED BY <2>1, <2>2, <2>3, <2>4, <2>5, <2>6, VerdictMoves
<1> QED BY <1>2, <1>3

\* Who lost a connection closes it and ends.
LEMMA LossStep ==
  ASSUME Shape, Registration, LossIsFinal, [Next]_vars
  PROVE  /\ LossIsFinal'
         /\ \A a \in lost : job'[a] = job[a]
<1> DEFINE Goal == LossIsFinal' /\ \A a \in lost : job'[a] = job[a]
<1>0. /\ apc \in [Agents -> AgentStates] /\ job \in [Agents -> Handlers \cup {None}]
      /\ lost \subseteq Agents /\ Handlers \subseteq Agents /\ Admins \subseteq Agents
      /\ Handlers \cap Admins = {}
  BY PoolAssumption DEF Shape, TypeOK, Agents
\* An agent goes on; with nothing else changed it suffices to look at its state.
<1>1. ASSUME NEW a \in Agents, NEW s \in AgentStates,
             apc' = [apc EXCEPT ![a] = s], UNCHANGED <<job, lost>>,
             a \in lost => s \in {"close", "drain", "failPending", "fail", "done"},
             s = "failPending" => a \in lost
      PROVE  Goal
  BY <1>0, <1>1 DEF LossIsFinal
<1>2. CASE UNCHANGED <<apc, job, lost>>
  BY <1>2 DEF LossIsFinal
<1>3. ASSUME NEW a \in Agents, Closing(a)
      PROVE  Goal
  <2>1. CASE CloseDone(a)
    BY <1>1, <2>1 DEF CloseDone, AgentStates
  <2>2. CASE Drained(a)
    <3>1. CASE a \in lost
      BY <1>1, <2>2, <3>1 DEF Drained, AgentStates
    <3>2. CASE a \notin lost
      BY <1>1, <2>2, <3>2 DEF Drained, AgentStates
    <3> QED BY <3>1, <3>2
  <2>3. CASE FailPendingClient(a)
    BY <1>1, <2>3 DEF FailPendingClient, AgentStates
  <2>4. CASE ClosingDone(a)
    <3>1. CASE a \in Handlers /\ job[a] # a
      <4>1. a \notin lost
        BY <3>1 DEF Registration, JobSound
      <4> QED BY <1>1, <2>4, <3>1, <4>1 DEF ClosingDone, AgentStates
    <3>2. CASE ~(a \in Handlers /\ job[a] # a)
      <4>1. apc' = [apc EXCEPT ![a] = "done"] /\ UNCHANGED <<job, lost>>
        BY <2>4, <3>2 DEF ClosingDone
      <4> QED BY <1>1, <4>1 DEF AgentStates
    <3> QED BY <3>1, <3>2
  <2>5. CASE Drain(a) \/ FailTask(a) \/ \E c \in Calls : SignalVictim(a, c)
    BY <1>2, <2>5 DEF Drain, FailTask, SignalVictim
  <2> QED BY <1>3, <2>1, <2>2, <2>3, <2>4, <2>5 DEF Closing
\* A running handler has lost nothing.
<1>4. ASSUME NEW h \in Handlers, NEW s \in AgentStates \ {"failPending"},
             apc[h] \in {"idle", "ack", "loop", "check", "send", "unregister"},
             apc' = [apc EXCEPT ![h] = s], UNCHANGED <<job, lost>>
      PROVE  Goal
  <2>1. h \notin lost
    BY <1>4 DEF LossIsFinal
  <2> QED BY <1>0, <1>1, <1>4, <2>1
<1>5. ASSUME NEW h \in Handlers,
             \/ AckSent(h) \/ AckFails(h) \/ Dequeue(h) \/ WriterClosed(h) \/ StreamDone(h)
             \/ Send(h) \/ SendFails(h) \/ UnregisterGone(h)
             \/ \E id \in ConnIds : RegisterRefused(h, id)
      PROVE  Goal
  <2>1. /\ apc[h] \in {"idle", "ack", "loop", "check", "send", "unregister"}
        /\ UNCHANGED <<job, lost>>
    BY <1>5
    DEF AckSent, AckFails, Dequeue, WriterClosed, StreamDone, Send, SendFails, UnregisterGone,
        RegisterRefused
  <2>2. \E s \in AgentStates \ {"failPending"} : apc' = [apc EXCEPT ![h] = s]
    BY <1>5
    DEF AckSent, AckFails, Dequeue, WriterClosed, StreamDone, Send, SendFails, UnregisterGone,
        RegisterRefused, AgentStates
  <2> QED BY <1>4, <2>1, <2>2
<1>6. ASSUME NEW h \in Handlers, CheckDone(h)
      PROVE  Goal
  <2>1. CASE h \in closed
    BY <1>4, <1>6, <2>1 DEF CheckDone, AgentStates
  <2>2. CASE h \notin closed
    BY <1>4, <1>6, <2>2 DEF CheckDone, AgentStates
  <2> QED BY <2>1, <2>2
\* An agent takes its job; it had none that was final.
<1>7. ASSUME NEW a \in Agents, NEW h \in Handlers \cup {None}, NEW s \in {"close", "ack"},
             apc[a] \in {"idle", "unregister"},
             apc' = [apc EXCEPT ![a] = s], job' = [job EXCEPT ![a] = h],
             lost' = lost \/ (lost' = lost \cup {a} /\ s = "close" /\ h \in Handlers)
      PROVE  Goal
  <2>1. a \notin lost
    BY <1>7 DEF LossIsFinal
  <2> QED BY <1>0, <1>7, <2>1 DEF LossIsFinal
<1>8. ASSUME NEW h \in Handlers, UnregisterCurrent(h) \/ UnregisterReplaced(h)
      PROVE  Goal
  BY <1>0, <1>7, <1>8 DEF UnregisterCurrent, UnregisterReplaced
<1>9. ASSUME NEW h \in Handlers, NEW id \in ConnIds, Register(h, id)
      PROVE  Goal
  <2>1. conns[id] \in Handlers \cup {None}
    BY DEF Shape, TypeOK
  <2>2. CASE conns[id] = None
    BY <1>0, <1>7, <1>9, <2>1, <2>2 DEF Register
  <2>3. CASE conns[id] # None
    BY <1>0, <1>7, <1>9, <2>1, <2>3 DEF Register
  <2> QED BY <2>2, <2>3
<1>10. ASSUME NEW b \in Admins, NEW id \in ConnIds, Disconnect(b, id)
       PROVE  Goal
  <2>1. conns[id] \in Handlers /\ b \in Agents
    BY <1>10 DEF Disconnect, Shape, TypeOK, Agents
  <2> QED BY <1>7, <1>10, <2>1 DEF Disconnect
<1>11. ASSUME NEW b \in Admins, NEW id \in ConnIds, DisconnectNothing(b, id)
       PROVE  Goal
  <2>1. b \in Agents /\ apc' = [apc EXCEPT ![b] = "done"] /\ UNCHANGED <<job, lost>>
    BY <1>11 DEF DisconnectNothing, Agents
  <2> QED BY <1>1, <2>1 DEF AgentStates
<1>12. ASSUME NEW c \in Calls, Call(c) \/ Expire(c) \/ Cancel(c)
       PROVE  UNCHANGED <<apc, job, lost>>
  BY <1>12
  DEF Call, Enter, EnterRefused, PostQueued, PostClosed, PostCtxDone, WaitResult, WaitError,
      WaitCtxDone, Cleanup, Expire, Cancel, agentVars
<1>13. CASE \/ Delivery \/ Terminated \/ UNCHANGED vars
            \/ \E c \in Calls, id \in ConnIds : SendTask(c, id)
            \/ \E t \in TaskIds, id \in ConnIds : HandleResult(t, id)
  BY <1>2, <1>13
  DEF Delivery, DeliverResult, Terminated, SendTask, HandleResult, vars, agentVars
<1> QED
  BY <1>2, <1>3, <1>5, <1>6, <1>8, <1>9, <1>10, <1>11, <1>12, <1>13
  DEF Next, Environment, Handler, Transport

\* The outcome is set by the step that leaves the call.
LEMMA DecidedStep ==
  Shape /\ Decided /\ [Next]_vars => Decided'
<1> SUFFICES ASSUME Shape, Decided, [Next]_vars PROVE Decided'
  OBVIOUS
<1>0. /\ cpc \in [Calls -> CallStates] /\ outcome \in [Calls -> Outcomes \cup ConnIds]
      /\ resCh \in [Calls -> ConnIds \cup {None}]
  BY DEF Shape, TypeOK
<1>1. CASE UNCHANGED <<cpc, outcome>>
  BY <1>1 DEF Decided
\* A call that had no outcome goes on, or leaves with one.
<1>2. ASSUME NEW c \in Calls, NEW s \in CallStates, NEW o \in Outcomes \cup ConnIds,
             cpc' = [cpc EXCEPT ![c] = s], outcome' = [outcome EXCEPT ![c] = o],
             o = "none" \/ s \in {"cleanup", "done"}
      PROVE  Decided'
  BY <1>0, <1>2 DEF Decided
<1>3. ASSUME NEW c \in Calls, Call(c)
      PROVE  Decided'
  <2>1. CASE \E t \in TaskIds : Enter(c, t)
    <3>1. cpc' = [cpc EXCEPT ![c] = "post"] /\ outcome' = outcome /\ cpc[c] = "enter"
      BY <2>1 DEF Enter
    <3> QED BY <1>0, <3>1 DEF Decided
  <2>2. CASE PostQueued(c)
    <3>1. cpc' = [cpc EXCEPT ![c] = "wait"] /\ outcome' = outcome /\ cpc[c] = "post"
      BY <2>2 DEF PostQueued
    <3> QED BY <1>0, <3>1 DEF Decided
  <2>3. CASE Cleanup(c)
    <3>1. cpc' = [cpc EXCEPT ![c] = "done"] /\ outcome' = outcome
      BY <2>3 DEF Cleanup
    <3> QED BY <1>0, <3>1 DEF Decided
  <2>4. CASE \E t \in TaskIds : EnterRefused(c, t)
    BY <1>2, <2>4 DEF EnterRefused, CallStates, Outcomes
  <2>5. ASSUME NEW o \in Outcomes \cup ConnIds, Leave(c, o)
        PROVE  Decided'
    BY <1>2, <2>5 DEF Leave, CallStates
  <2>6. CASE PostClosed(c) \/ PostCtxDone(c) \/ WaitResult(c) \/ WaitError(c) \/ WaitCtxDone(c)
    BY <1>0, <2>5, <2>6 DEF PostClosed, PostCtxDone, WaitResult, WaitError, WaitCtxDone, Outcomes
  <2> QED BY <1>3, <2>1, <2>2, <2>3, <2>4, <2>6 DEF Call
<1>4. ASSUME NEW c \in Calls, NEW id \in ConnIds, SendTask(c, id)
      PROVE  Decided'
  <2>1. CASE conns[id] = None
    BY <1>2, <1>4, <2>1 DEF SendTask, CallStates, Outcomes
  <2>2. CASE conns[id] # None
    <3>1. cpc' = [cpc EXCEPT ![c] = "enter"] /\ outcome' = outcome /\ cpc[c] = "idle"
      BY <1>4, <2>2 DEF SendTask
    <3> QED BY <1>0, <3>1 DEF Decided
  <2> QED BY <2>1, <2>2
<1>5. ASSUME NEW a \in Agents, Closing(a)
      PROVE  Decided'
  BY <1>1, <1>5
  DEF Closing, CloseDone, Drain, Drained, FailTask, FailPendingClient, SignalVictim, ClosingDone,
      callVars
<1>6. ASSUME NEW h \in Handlers, Handler(h) \/ Transport(h) \/ StreamDone(h)
      PROVE  Decided'
  BY <1>1, <1>6
  DEF Handler, Transport, AckSent, AckFails, Dequeue, WriterClosed, StreamDone, CheckDone, Send,
      SendFails, UnregisterCurrent, UnregisterReplaced, UnregisterGone, callVars
<1>7. CASE \/ Delivery \/ Terminated \/ UNCHANGED vars
           \/ \E t \in TaskIds, id \in ConnIds : HandleResult(t, id)
           \/ \E c \in Calls : Expire(c) \/ Cancel(c)
  BY <1>1, <1>7
  DEF Delivery, DeliverResult, Terminated, HandleResult, Expire, Cancel, vars, callVars
<1>8. CASE \/ \E h \in Handlers, id \in ConnIds : Register(h, id) \/ RegisterRefused(h, id)
           \/ \E a \in Admins, id \in ConnIds : Disconnect(a, id) \/ DisconnectNothing(a, id)
  BY <1>1, <1>8 DEF Register, RegisterRefused, Disconnect, DisconnectNothing, callVars
<1> QED BY <1>3, <1>4, <1>5, <1>6, <1>7, <1>8 DEF Next, Environment

\* A loss is not forgotten.
LEMMA LossStays ==
  ASSUME Shape, Registration, LossIsFinal, [Next]_vars,
         NEW c \in Calls, cpc[c] # "idle", Lost(owner[c])
  PROVE  Lost(owner[c])'
<1>1. PICK a \in lost : connId[job[a]] = owner[c]
  BY DEF Lost
<1>2. a \in Agents /\ job[a] \in Handlers /\ job'[a] = job[a]
  BY LossStep DEF LossIsFinal, Shape, TypeOK
<1>3. apc[job[a]] # "idle"
  BY <1>2, PoolAssumption DEF Registration, JobSound
<1>4. a \in lost' /\ owner'[c] = owner[c] /\ connId'[job[a]] = connId[job[a]]
  BY <1>2, <1>3, SteadyStep DEF Steady
<1> QED BY <1>1, <1>2, <1>4 DEF Lost

LEMMA GoneStays ==
  ASSUME Shape, [Next]_vars, NEW c \in Calls, Gone(c)
  PROVE  Gone(c)'
<1>1. ~PostQueued(c)
  BY DEF Gone, PostQueued, Posted
<1> QED BY <1>1, CarriesStep, SteadyStep DEF Gone, Steady

LEMMA FailuresStep ==
  ASSUME Shape, Verdicts, Registration, Places, Causes, [Next]_vars
  PROVE  FailuresLost'
<1> DEFINE Cause(c) == Lost(owner[c]) \/ \E d \in Calls : tid[d] = tid[c] /\ Gone(d)
<1> SUFFICES ASSUME NEW c \in Calls, Failing(c)'
             PROVE  tid'[c] \in TaskIds /\ Cause(c)'
  BY DEF FailuresLost
<1>0. /\ errCh \in [Calls -> BOOLEAN] /\ outcome \in [Calls -> Outcomes \cup ConnIds]
      /\ resCh \in [Calls -> ConnIds \cup {None}] /\ "closed" \notin ConnIds
      /\ victims \in [Agents -> SUBSET Calls] /\ cpc \in [Calls -> CallStates]
      /\ tid \in [Calls -> TaskIds \cup {None}]
  BY PoolAssumption DEF Shape, TypeOK, Outcomes
\* A cause stays one.
<1>1. ASSUME tid[c] \in TaskIds, cpc[c] # "idle",
             Lost(owner[c]) \/ \E d \in Calls : tid[d] = tid[c] /\ Gone(d)
      PROVE  tid'[c] \in TaskIds /\ Cause(c)'
  <2>1. \A d \in Calls : tid[d] = tid[c] => tid'[d] = tid[d]
    BY <1>1, SteadyStep, PoolAssumption DEF Steady
  <2>2. CASE Lost(owner[c])
    BY <1>1, <2>1, <2>2, LossStays DEF Causes
  <2>3. CASE \E d \in Calls : tid[d] = tid[c] /\ Gone(d)
    BY <1>1, <2>1, <2>3, GoneStays
  <2> QED BY <1>1, <2>2, <2>3
<1> HIDE DEF Cause
<1>2. CASE Failing(c)
  <2>1. cpc[c] # "idle"
    BY <1>2 DEF Failing, Verdicts, Untouched, Causes, Decided
  <2> QED BY <1>1, <1>2, <2>1 DEF Causes, FailuresLost
<1>3. CASE ~Failing(c)
  <2>1. ASSUME NEW a \in Agents, FailTask(a)
        PROVE  tid'[c] \in TaskIds /\ Cause(c)'
    <3>1. PICK d \in Calls : d = Head(unsent[a]) /\ d \in Range(unsent[a])
      BY <2>1, RangeTail DEF FailTask, Shape, TypeOK
    <3>2. tid[d] \in TaskIds
      <4>1. unsent[a] \in Seq(Calls) /\ unsent[a] # <<>>
        BY <2>1 DEF FailTask, Shape, TypeOK
      <4>2. 1 \in 1..Len(unsent[a]) /\ Head(unsent[a]) = unsent[a][1]
        BY <4>1
      <4> QED BY <3>1, <4>2 DEF Shape, MessageShape
    <3>3. /\ victims' = [victims EXCEPT ![a] = {pending[tid[d]]} \ {None}]
          /\ UNCHANGED <<errCh, outcome>>
      BY <2>1, <3>1 DEF FailTask, callVars
    <3>4. c = pending[tid[d]] /\ c # None
      BY <1>0, <1>3, <3>3, PoolAssumption DEF Failing, ErrReady, FailedBy
    <3>5. tid[c] = tid[d] /\ cpc[c] # "idle"
      BY <3>2, <3>4 DEF Verdicts, NoLeakedEntry
    <3>6. Gone(d)
      BY <3>1 DEF Places, DrainedIsGone, Gone
    <3> QED BY <1>1, <3>2, <3>5, <3>6
  <2>2. ASSUME NEW a \in Agents, FailPendingClient(a)
        PROVE  tid'[c] \in TaskIds /\ Cause(c)'
    <3>1. /\ victims' = [victims EXCEPT ![a] = EntriesOf(connId[job[a]])]
          /\ UNCHANGED <<errCh, outcome>> /\ a \in lost
      BY <2>2 DEF FailPendingClient, callVars, Causes, LossIsFinal
    <3>2. c \in EntriesOf(connId[job[a]])
      BY <1>0, <1>3, <3>1 DEF Failing, ErrReady, FailedBy
    <3>3. Lost(owner[c]) /\ cpc[c] # "idle" /\ tid[c] \in TaskIds
      BY <3>1, <3>2, PoolAssumption DEF EntriesOf, Lost, Verdicts, NoLeakedEntry
    <3> QED BY <1>1, <3>3
  <2>3. ASSUME NEW d \in Calls, PostClosed(d)
        PROVE  tid'[c] \in TaskIds /\ Cause(c)'
    <3>1. c = d
      BY <1>0, <1>3, <2>3 DEF PostClosed, Leave, Failing, ErrReady, FailedBy, agentVars
    <3>2. cpc[c] = "post" /\ cpc'[c] = "cleanup" /\ UNCHANGED <<queue, holding, sent, tid>>
      BY <1>0, <2>3, <3>1 DEF PostClosed, Leave, connVars, agentVars
    <3>3. \A h \in Handlers : ~Carries(h, c)
      BY <3>2 DEF Places, OnePlace, Posted
    <3>4. Gone(c)'
      BY <3>2, <3>3 DEF Gone, Carries, Posted
    <3> QED BY <3>2, <3>4 DEF Cause, Shape, CallShape
  <2>4. ASSUME NEW a \in Agents, NEW d \in Calls, SignalVictim(a, d)
        PROVE  FALSE
    BY <1>0, <1>3, <2>4 DEF SignalVictim, Failing, ErrReady, FailedBy
  <2>5. ASSUME NEW d \in Calls, WaitError(d)
        PROVE  FALSE
    BY <1>0, <1>3, <2>5 DEF WaitError, Leave, Failing, ErrReady, FailedBy, agentVars
  <2>6. ASSUME NEW d \in Calls,
               \/ PostCtxDone(d) \/ WaitResult(d) \/ WaitCtxDone(d)
               \/ \E t \in TaskIds : EnterRefused(d, t)
               \/ \E id \in ConnIds : SendTask(d, id)
        PROVE  FALSE
    <3>1. UNCHANGED <<errCh, victims>>
      BY <2>6 DEF PostCtxDone, WaitResult, WaitCtxDone, EnterRefused, SendTask, agentVars
    <3>2. \/ outcome' = outcome
          \/ \E o \in (Outcomes \cup ConnIds) \ {"closed"} : outcome' = [outcome EXCEPT ![d] = o]
      <4>1. CASE WaitResult(d)
        BY <1>0, <4>1 DEF WaitResult, Leave
      <4>2. CASE ~WaitResult(d)
        BY <2>6, <4>2 DEF PostCtxDone, WaitCtxDone, EnterRefused, SendTask, Leave, Outcomes
      <4> QED BY <4>1, <4>2
    <3> QED BY <1>0, <1>3, <3>1, <3>2 DEF Failing, ErrReady, FailedBy
  <2>7. CASE UNCHANGED <<errCh, outcome, victims>>
    BY <1>3, <2>7 DEF Failing, ErrReady, FailedBy
  <2>8. ASSUME NEW r \in carrying, DeliverResult(r)
        PROVE  FALSE
    BY <1>3, <2>7, <2>8 DEF DeliverResult, agentVars, Failing, ErrReady, FailedBy
  <2>9. ASSUME NEW t \in TaskIds, NEW id \in ConnIds, HandleResult(t, id)
        PROVE  FALSE
    BY <1>3, <2>9 DEF HandleResult, agentVars, callVars, Failing, ErrReady, FailedBy
  <2> QED BY <2>1, <2>2, <2>3, <2>4, <2>5, <2>6, <2>7, <2>8, <2>9, VerdictMoves
<1> QED BY <1>2, <1>3

LEMMA InitCauses == Init => Causes
  BY PoolAssumption
  DEF Init, Causes, UniqueIds, ResultsSigned, ResultsSent, LossIsFinal, Decided, FailuresLost, Failing,
      Answering, ResReady, ErrReady, FailedBy, Outcomes

\* Every reachable state satisfies the invariant of all five parts.
Traced == Shape /\ Verdicts /\ Registration /\ Places /\ Causes

LEMMA InitTraced == Init => Traced
  BY InitShape, InitVerdicts, InitRegistration, InitPlaces, InitCauses DEF Traced

LEMMA NextTraced == Traced /\ [Next]_vars => Traced'
<1> SUFFICES ASSUME Traced, [Next]_vars PROVE Traced'
  OBVIOUS
<1>1. Shape' /\ Verdicts' /\ Registration'
  BY NextShape, NextVerdicts, NextRegistration DEF Traced
<1>2. Places'
  BY AddressedStep, OnePlaceStep, DrainedStep DEF Traced, Places
<1>3. UniqueIds' /\ LossIsFinal' /\ Decided'
  BY UniqueStep, LossStep, DecidedStep DEF Traced, Causes
<1>4. ResultsSigned' /\ ResultsSent'
  BY SignedStep, ResultsStep DEF Traced, Causes
<1>5. FailuresLost'
  BY FailuresStep DEF Traced
<1> QED BY <1>1, <1>2, <1>3, <1>4, <1>5 DEF Traced, Causes

LEMMA TracedInvariant == Spec => []Traced
  BY InitTraced, NextTraced, PTL DEF Spec

-----------------------------------------------------------------------------
(* Theorems                                                                *)

\* A call returns only results that its addressee signed, whoever submits what
\* and whenever, and however the callers reuse the ids they choose; and if its id
\* was generated, only after a stream of the addressee sent its message.
THEOREM ResultOnlyFromAddresseeAlways == Spec => []ResultOnlyFromAddressee
<1>1. Traced => ResultOnlyFromAddressee
  <2> SUFFICES ASSUME Traced, NEW c \in Calls, outcome[c] \in ConnIds
               PROVE  outcome[c] = owner[c] /\ (tid[c] \notin CallerIds => SentOn(c))
    BY DEF ResultOnlyFromAddressee, SentOn
  <2> QED BY DEF Traced, Causes, ResultsSigned, ResultsSent
<1> QED BY <1>1, TracedInvariant, PTL

\* A sent task with a generated id fails only if a connection of its id was
\* lost: one that was replaced fails none of what it had sent.
THEOREM SentOutlivesReplacementAlways == Spec => []SentOutlivesReplacement
<1>1. Traced => SentOutlivesReplacement
  BY DEF Traced, Causes, UniqueIds, FailuresLost, Failing, Gone, Lost, Carries, SentOutlivesReplacement
<1> QED BY <1>1, TracedInvariant, PTL

-----------------------------------------------------------------------------
(* What is queued at the close                                             *)

\* c is not sent on the closed connection h and its writer, should it hold c,
\* has still to look at Done.
Doomed(h, c) ==
  /\ h \in closed /\ c \notin sent[h] /\ cpc[c] \in Posted
  /\ holding[h] = c => apc[h] = "check"

\* The writer cannot be past its second look with what it takes after Close.
LEMMA DoomedStep ==
  ASSUME Shape, [Next]_vars, NEW h \in Handlers, NEW c \in Calls, Doomed(h, c)
  PROVE  Doomed(h, c)'
<1>0. /\ holding \in [Handlers -> Calls \cup {None}] /\ sent \in [Handlers -> SUBSET Calls]
      /\ apc \in [Agents -> AgentStates] /\ Handlers \subseteq Agents
  BY DEF Shape, TypeOK, Agents
<1>1. h \in closed' /\ cpc'[c] \in Posted
  BY SteadyStep DEF Doomed, Steady
<1>2. ASSUME NEW g \in Handlers, Dequeue(g)
      PROVE  Doomed(h, c)'
  BY <1>0, <1>1, <1>2 DEF Dequeue, Doomed
<1>3. ASSUME NEW g \in Handlers, CheckDone(g)
      PROVE  Doomed(h, c)'
  <2>1. CASE g \in closed
    BY <1>0, <1>1, <1>3, <2>1, PoolAssumption DEF CheckDone, Doomed
  <2>2. CASE g \notin closed
    BY <1>0, <1>1, <1>3, <2>2 DEF CheckDone, Doomed
  <2> QED BY <2>1, <2>2
<1>4. ASSUME NEW g \in Handlers, Send(g) \/ SendFails(g)
      PROVE  Doomed(h, c)'
  BY <1>0, <1>1, <1>4, PoolAssumption DEF Send, SendFails, Doomed
\* No other step touches a writer that is to check, or what it holds.
<1>5. ASSUME UNCHANGED <<holding, sent>>, apc[h] = "check" => apc'[h] = "check"
      PROVE  Doomed(h, c)'
  BY <1>1, <1>5 DEF Doomed
<1>6. ASSUME NEW a \in Agents, Closing(a)
      PROVE  UNCHANGED <<holding, sent>> /\ (apc[h] = "check" => apc'[h] = "check")
  BY <1>0, <1>6
  DEF Closing, CloseDone, Drain, Drained, FailTask, FailPendingClient, SignalVictim, ClosingDone
<1>7. ASSUME NEW g \in Handlers,
             \/ AckSent(g) \/ AckFails(g) \/ WriterClosed(g) \/ StreamDone(g)
             \/ UnregisterCurrent(g) \/ UnregisterReplaced(g) \/ UnregisterGone(g)
      PROVE  UNCHANGED <<holding, sent>> /\ (apc[h] = "check" => apc'[h] = "check")
  BY <1>0, <1>7
  DEF AckSent, AckFails, WriterClosed, StreamDone, UnregisterCurrent, UnregisterReplaced, UnregisterGone
<1>8. CASE \/ \E g \in Handlers, id \in ConnIds : Register(g, id) \/ RegisterRefused(g, id)
           \/ \E a \in Admins, id \in ConnIds : Disconnect(a, id) \/ DisconnectNothing(a, id)
  <2>1. UNCHANGED <<holding, sent>> /\ (apc[h] = "check" => apc'[h] = "check")
    BY <1>0, <1>8 DEF Register, RegisterRefused, Disconnect, DisconnectNothing, Agents
  <2> QED BY <1>5, <2>1
<1>9. ASSUME NEW d \in Calls, Call(d) \/ Expire(d) \/ Cancel(d)
      PROVE  UNCHANGED <<holding, sent, apc>>
  BY <1>9
  DEF Call, Enter, EnterRefused, PostQueued, PostClosed, PostCtxDone, WaitResult, WaitError,
      WaitCtxDone, Cleanup, Expire, Cancel, agentVars
<1>10. CASE \/ Delivery \/ Terminated \/ UNCHANGED vars
            \/ \E d \in Calls, id \in ConnIds : SendTask(d, id)
            \/ \E t \in TaskIds, id \in ConnIds : HandleResult(t, id)
  <2>1. UNCHANGED <<holding, sent, apc>>
    BY <1>10 DEF Delivery, DeliverResult, Terminated, SendTask, HandleResult, vars, agentVars
  <2> QED BY <1>5, <2>1
<1> QED
  BY <1>2, <1>3, <1>4, <1>5, <1>6, <1>7, <1>8, <1>9, <1>10
  DEF Next, Environment, Handler, Transport

\* What is still in the queue when its connection is closed is never sent, for
\* as many messages and connections as there may be.
THEOREM QueuedAtCloseNeverSentAlways == Spec => QueuedAtCloseNeverSent
<1> SUFFICES ASSUME NEW h \in Handlers, NEW c \in Calls
             PROVE  Spec => [](h \in closed /\ (\E i \in DOMAIN queue[h] : queue[h][i] = c)
                               => [](c \notin sent[h]))
  BY DEF QueuedAtCloseNeverSent
<1>1. Traced /\ h \in closed /\ (\E i \in DOMAIN queue[h] : queue[h][i] = c) => Doomed(h, c)
  <2> SUFFICES ASSUME Traced, h \in closed, \E i \in DOMAIN queue[h] : queue[h][i] = c
               PROVE  Doomed(h, c)
    OBVIOUS
  <2>1. c \in Range(queue[h])
    BY DEF Range
  <2> QED BY <2>1 DEF Traced, Places, OnePlace, Carries, Doomed
<1>2. Traced /\ Doomed(h, c) /\ [Next]_vars => Doomed(h, c)'
  BY DoomedStep DEF Traced
<1>3. Doomed(h, c) => c \notin sent[h]
  BY DEF Doomed
<1> QED BY <1>1, <1>2, <1>3, TracedInvariant, PTL DEF Spec

-----------------------------------------------------------------------------
(* The pool keeps what SendTask promises                                   *)

\* Who has not called yet addresses nobody, and only a task's own timer expires.
Beginnings ==
  /\ \A c \in Calls : cpc[c] = "idle" => owner[c] = None
  /\ \A c \in Calls : ctx[c] = "expired" => c \in Timed

\* A writer has a message in hand only between taking it and sending it.
FreeHands == \A h \in Handlers : holding[h] # None => apc[h] \in {"check", "send"}

LEMMA BeginningsStep ==
  Shape /\ Beginnings /\ [Next]_vars => Beginnings'
<1> SUFFICES ASSUME Shape, Beginnings, [Next]_vars PROVE Beginnings'
  OBVIOUS
<1>0. /\ cpc \in [Calls -> CallStates] /\ owner \in [Calls -> ConnIds \cup {None}]
      /\ ctx \in [Calls -> {"live", "expired", "cancelled"}]
  BY DEF Shape, TypeOK
<1>1. CASE UNCHANGED <<cpc, owner, ctx>>
  BY <1>1 DEF Beginnings
<1>2. ASSUME NEW c \in Calls, NEW s \in CallStates \ {"idle"},
             cpc' = [cpc EXCEPT ![c] = s], UNCHANGED <<owner, ctx>>
      PROVE  Beginnings'
  BY <1>0, <1>2 DEF Beginnings
<1>3. ASSUME NEW c \in Calls, Call(c)
      PROVE  Beginnings'
  <2>1. UNCHANGED <<owner, ctx>>
    BY <1>3
    DEF Call, Enter, EnterRefused, PostQueued, PostClosed, PostCtxDone, WaitResult, WaitError,
        WaitCtxDone, Cleanup
  <2>2. \E s \in CallStates \ {"idle"} : cpc' = [cpc EXCEPT ![c] = s]
    BY <1>3
    DEF Call, Enter, EnterRefused, PostQueued, PostClosed, PostCtxDone, WaitResult, WaitError,
        WaitCtxDone, Cleanup, Leave, CallStates
  <2> QED BY <1>2, <2>1, <2>2
<1>4. ASSUME NEW c \in Calls, NEW id \in ConnIds, SendTask(c, id)
      PROVE  Beginnings'
  BY <1>0, <1>4 DEF SendTask, Beginnings
<1>5. ASSUME NEW c \in Calls, Expire(c) \/ Cancel(c)
      PROVE  Beginnings'
  BY <1>0, <1>5 DEF Expire, Cancel, Beginnings
<1>6. ASSUME NEW a \in Agents, Closing(a)
      PROVE  UNCHANGED <<cpc, owner, ctx>>
  BY <1>6
  DEF Closing, CloseDone, Drain, Drained, FailTask, FailPendingClient, SignalVictim, ClosingDone,
      callVars
<1>7. ASSUME NEW h \in Handlers, Handler(h) \/ Transport(h) \/ StreamDone(h)
      PROVE  UNCHANGED <<cpc, owner, ctx>>
  BY <1>7
  DEF Handler, Transport, AckSent, AckFails, Dequeue, WriterClosed, StreamDone, CheckDone, Send,
      SendFails, UnregisterCurrent, UnregisterReplaced, UnregisterGone, callVars
<1>8. CASE \/ Delivery \/ Terminated \/ UNCHANGED vars
           \/ \E t \in TaskIds, id \in ConnIds : HandleResult(t, id)
           \/ \E h \in Handlers, id \in ConnIds : Register(h, id) \/ RegisterRefused(h, id)
           \/ \E a \in Admins, id \in ConnIds : Disconnect(a, id) \/ DisconnectNothing(a, id)
  BY <1>1, <1>8
  DEF Delivery, DeliverResult, Terminated, HandleResult, Register, RegisterRefused, Disconnect,
      DisconnectNothing, vars, callVars
<1> QED BY <1>1, <1>3, <1>4, <1>5, <1>6, <1>7, <1>8 DEF Next, Environment

LEMMA FreeHandsStep ==
  Shape /\ FreeHands /\ [Next]_vars => FreeHands'
<1> SUFFICES ASSUME Shape, FreeHands, [Next]_vars PROVE FreeHands'
  OBVIOUS
<1>0. /\ holding \in [Handlers -> Calls \cup {None}] /\ apc \in [Agents -> AgentStates]
      /\ Handlers \subseteq Agents
  BY DEF Shape, TypeOK, Agents
<1>1. CASE \E h \in Handlers : Dequeue(h) \/ CheckDone(h) \/ Send(h) \/ SendFails(h)
  BY <1>0, <1>1 DEF Dequeue, CheckDone, Send, SendFails, FreeHands
<1>2. ASSUME UNCHANGED holding,
             \A h \in Handlers : apc[h] \in {"check", "send"} => apc'[h] = apc[h]
      PROVE  FreeHands'
  BY <1>2 DEF FreeHands
<1>3. ASSUME NEW a \in Agents, Closing(a)
      PROVE  FreeHands'
  <2>1. /\ UNCHANGED holding /\ apc[a] \in {"close", "drain", "fail", "failPending"}
        /\ \E s \in AgentStates : apc' = [apc EXCEPT ![a] = s]
    BY <1>0, <1>3
    DEF Closing, CloseDone, Drain, Drained, FailTask, FailPendingClient, SignalVictim, ClosingDone,
        AgentStates
  <2> QED BY <1>0, <1>2, <2>1
<1>4. ASSUME NEW g \in Handlers, Handler(g) \/ Transport(g) \/ StreamDone(g)
      PROVE  FreeHands'
  <2>1. CASE \/ AckSent(g) \/ AckFails(g) \/ WriterClosed(g) \/ StreamDone(g)
             \/ UnregisterCurrent(g) \/ UnregisterReplaced(g) \/ UnregisterGone(g)
    <3>1. /\ UNCHANGED holding /\ apc[g] \in {"ack", "loop", "unregister"}
          /\ \E s \in AgentStates : apc' = [apc EXCEPT ![g] = s]
      BY <1>0, <2>1
      DEF AckSent, AckFails, WriterClosed, StreamDone, UnregisterCurrent, UnregisterReplaced,
          UnregisterGone, AgentStates
    <3> QED BY <1>0, <1>2, <3>1
  <2> QED BY <1>1, <1>4, <2>1 DEF Handler, Transport
<1>5. CASE \/ \E g \in Handlers, id \in ConnIds : Register(g, id) \/ RegisterRefused(g, id)
           \/ \E a \in Admins, id \in ConnIds : Disconnect(a, id) \/ DisconnectNothing(a, id)
  <2>1. UNCHANGED holding /\ \A h \in Handlers : apc[h] \in {"check", "send"} => apc'[h] = apc[h]
    BY <1>0, <1>5 DEF Register, RegisterRefused, Disconnect, DisconnectNothing, Agents
  <2> QED BY <1>2, <2>1
<1>6. ASSUME NEW d \in Calls, Call(d) \/ Expire(d) \/ Cancel(d)
      PROVE  UNCHANGED <<holding, apc>>
  BY <1>6
  DEF Call, Enter, EnterRefused, PostQueued, PostClosed, PostCtxDone, WaitResult, WaitError,
      WaitCtxDone, Cleanup, Expire, Cancel, agentVars
<1>7. CASE \/ Delivery \/ Terminated \/ UNCHANGED vars
           \/ \E d \in Calls, id \in ConnIds : SendTask(d, id)
           \/ \E t \in TaskIds, id \in ConnIds : HandleResult(t, id)
  <2>1. UNCHANGED <<holding, apc>>
    BY <1>7 DEF Delivery, DeliverResult, Terminated, SendTask, HandleResult, vars, agentVars
  <2> QED BY <1>2, <2>1
<1> QED BY <1>2, <1>3, <1>4, <1>5, <1>6, <1>7 DEF Next, Environment

Sound == Traced /\ Beginnings /\ FreeHands

LEMMA InitSound == Init => Sound
  BY InitTraced, PoolAssumption DEF Sound, Init, Beginnings, FreeHands

LEMMA NextSound == Sound /\ [Next]_vars => Sound'
  BY NextTraced, BeginningsStep, FreeHandsStep DEF Sound, Traced

\* The message of c is in the queue or with the writer of h.
Held(h, c) == c \in Range(queue[h]) \/ holding[h] = c

\* What the mapping says of a message, by the places it can be in.
MessageFacts ==
  \A c \in Calls :
    /\ SentOn(c) <=> \E h \in Handlers : c \in sent[h]
    /\ cpc[c] \notin Posted => MessageOf(c) = "none" /\ \A h \in Handlers : ~Carries(h, c)
    /\ cpc[c] \in Posted =>
         MessageOf(c) = IF \E h \in Handlers : Held(h, c) THEN "queued"
                        ELSE IF \E h \in Handlers : c \in sent[h] THEN "sent" ELSE "gone"

LEMMA MessageByPlace == Traced => MessageFacts
<1> SUFFICES ASSUME Traced, NEW c \in Calls
             PROVE  /\ SentOn(c) <=> \E h \in Handlers : c \in sent[h]
                    /\ cpc[c] \notin Posted =>
                         MessageOf(c) = "none" /\ \A h \in Handlers : ~Carries(h, c)
                    /\ cpc[c] \in Posted =>
                         MessageOf(c) = IF \E h \in Handlers : Held(h, c) THEN "queued"
                                        ELSE IF \E h \in Handlers : c \in sent[h] THEN "sent"
                                        ELSE "gone"
  BY DEF MessageFacts
<1>1. SentOn(c) <=> \E h \in Handlers : c \in sent[h]
  <2>1. ASSUME NEW h \in Handlers, c \in sent[h]
        PROVE  connId[h] = owner[c]
    <3>1. target[c] = h
      BY <2>1 DEF Traced, Places, OnePlace, Carries
    <3> QED BY <3>1, PoolAssumption DEF Traced, Places, Addressed
  <2> QED BY <2>1 DEF SentOn
<1>2. Travelling(c) <=> \E h \in Handlers : Held(h, c)
  BY DEF Travelling, Held, Range
<1>3. cpc[c] \in CallStates
  BY DEF Traced, Shape, TypeOK
<1>4. cpc[c] \notin Posted <=> cpc[c] \in {"idle", "enter", "post"}
  BY <1>3 DEF CallStates, Posted
<1>5. cpc[c] \notin Posted => \A h \in Handlers : ~Carries(h, c)
  BY DEF Traced, Places, OnePlace
<1> QED BY <1>1, <1>2, <1>4, <1>5 DEF MessageOf

LEMMA MessageByPlaceNext == Traced' => MessageFacts'
  BY MessageByPlace, PTL

\* The message of c is what it was.
SameMessage(c) ==
  /\ cpc'[c] \in Posted <=> cpc[c] \in Posted
  /\ \A h \in Handlers : Held(h, c)' <=> Held(h, c)
  /\ \A h \in Handlers : c \in sent'[h] <=> c \in sent[h]

LEMMA SameMessageOf ==
  ASSUME Traced, Traced', NEW c \in Calls, SameMessage(c)
  PROVE  MessageOf(c)' = MessageOf(c)
  BY MessageByPlace, MessageByPlaceNext DEF MessageFacts, SameMessage

LEMMA OtherMessages ==
  ASSUME Traced, Traced', NEW c \in Calls, \A d \in Calls \ {c} : SameMessage(d)
  PROVE  Messages' = [Messages EXCEPT ![c] = MessageOf(c)']
<1>1. \A d \in Calls \ {c} : MessageOf(d)' = MessageOf(d)
  BY SameMessageOf
<1> QED BY <1>1 DEF Messages

LEMMA SameMessages ==
  ASSUME Traced, Traced', \A c \in Calls : SameMessage(c)
  PROVE  Messages' = Messages
<1>1. \A c \in Calls : MessageOf(c)' = MessageOf(c)
  BY SameMessageOf
<1> QED BY <1>1 DEF Messages

\* Losses are not taken back, and only a loss adds one.
LEMMA SameLosses ==
  ASSUME Traced, [Next]_vars
  PROVE  /\ \A a \in lost : connId'[job'[a]] = connId[job[a]]
         /\ lost' = lost => LostIds' = LostIds
<1>1. \A a \in lost : job[a] \in Handlers /\ job'[a] = job[a] /\ a \in Agents
  BY LossStep DEF Traced, Causes, LossIsFinal, Shape, TypeOK
<1>2. \A a \in lost : apc[job[a]] # "idle"
  BY <1>1, PoolAssumption DEF Traced, Registration, JobSound
<1>3. \A a \in lost : connId'[job[a]] = connId[job[a]]
  BY <1>1, <1>2, SteadyStep DEF Steady, Traced
<1> QED BY <1>1, <1>3 DEF LostIds

\* A step that moves no message, ends no call, names none and loses nothing is
\* one the promise does not see.
LEMMA StutterRefines ==
  ASSUME Traced, Traced', [Next]_vars, \A c \in Calls : SameMessage(c),
         UNCHANGED <<owner, tid, outcome, lost>>
  PROVE  UNCHANGED Promise!vars
<1>1. Messages' = Messages /\ LostIds' = LostIds
  BY SameMessages, SameLosses
<1> QED BY <1>1 DEF Promise!vars

\* The steps of a message out of its queue.
LEMMA SettleRefines ==
  ASSUME Traced, Traced', [Next]_vars, NEW h \in Handlers, NEW c \in Calls, Held(h, c),
         \A g \in Handlers : ~Held(g, c)',
         \A d \in Calls \ {c} : SameMessage(d),
         UNCHANGED <<owner, tid, outcome, lost>>
  PROVE  Promise!Settle(c)
<1>1. cpc[c] \in Posted /\ cpc'[c] \in Posted
  BY SteadyStep DEF Held, Traced, Places, OnePlace, Carries, Steady
<1>2. MessageOf(c) = "queued" /\ MessageOf(c)' \in {"sent", "gone"}
  BY <1>1, MessageByPlace, MessageByPlaceNext DEF MessageFacts
<1>3. Messages[c] = "queued" /\ Messages'[c] = MessageOf(c)'
  BY <1>2 DEF Messages
<1>4. Messages' = [Messages EXCEPT ![c] = Messages'[c]] /\ LostIds' = LostIds
  BY <1>3, OtherMessages, SameLosses
<1> QED BY <1>2, <1>3, <1>4 DEF Promise!Settle

\* A call that ends: what it has not posted by then it never will.
LEMMA EndRefines ==
  ASSUME Traced, Traced', [Next]_vars, NEW c \in Calls, NEW v, NEW s \in Posted,
         outcome[c] = "none", outcome' = [outcome EXCEPT ![c] = v],
         cpc' = [cpc EXCEPT ![c] = s],
         UNCHANGED <<queue, holding, sent, owner, tid, lost>>
  PROVE  Promise!End(c, v)
<1>0. cpc \in [Calls -> CallStates]
  BY DEF Traced, Shape, TypeOK
<1>1. \A h \in Handlers, d \in Calls : (Held(h, d)' <=> Held(h, d)) /\ (d \in sent'[h] <=> d \in sent[h])
  BY DEF Held
<1>2. \A d \in Calls \ {c} : SameMessage(d)
  BY <1>0, <1>1 DEF SameMessage
<1>3. MessageOf(c)' = IF MessageOf(c) = "none" THEN "gone" ELSE MessageOf(c)
  <2>1. cpc'[c] \in Posted
    BY <1>0
  <2>2. CASE cpc[c] \in Posted
    <3>1. SameMessage(c)
      BY <1>1, <2>1, <2>2 DEF SameMessage
    <3> QED BY <2>2, <3>1, SameMessageOf, MessageByPlace DEF MessageFacts
  <2>3. CASE cpc[c] \notin Posted
    <3>1. \A h \in Handlers : ~Held(h, c)' /\ c \notin sent'[h]
      BY <1>1, <2>3, MessageByPlace DEF MessageFacts, Carries, Held
    <3> QED BY <2>1, <2>3, <3>1, MessageByPlace, MessageByPlaceNext DEF MessageFacts
  <2> QED BY <2>2, <2>3
<1>4. Messages' = [Messages EXCEPT ![c] = MessageOf(c)'] /\ Messages[c] = MessageOf(c)
  BY <1>2, OtherMessages DEF Messages
<1>5. LostIds' = LostIds
  BY SameLosses
<1> QED BY <1>3, <1>4, <1>5 DEF Promise!End

\* The writer: a message taken stays queued, one dropped or refused by the
\* stream is gone, one accepted is sent.
LEMMA WriterRefines ==
  ASSUME Sound, Sound', [Next]_vars, NEW h \in Handlers,
         Dequeue(h) \/ CheckDone(h) \/ Send(h) \/ SendFails(h)
  PROVE  (\E c \in Calls : Promise!Settle(c)) \/ UNCHANGED Promise!vars
<1>0. /\ queue \in [Handlers -> Seq(Calls)] /\ holding \in [Handlers -> Calls \cup {None}]
      /\ sent \in [Handlers -> SUBSET Calls] /\ None \notin Calls
      /\ Traced /\ Traced' /\ OnePlace
  BY PoolAssumption DEF Sound, Traced, Places, Shape, TypeOK
<1>1. UNCHANGED <<owner, tid, outcome, lost, cpc>>
  BY DEF Dequeue, CheckDone, Send, SendFails, callVars
<1>2. CASE Dequeue(h)
  <2>1. /\ queue[h] # <<>> /\ holding[h] = None /\ UNCHANGED sent
        /\ holding' = [holding EXCEPT ![h] = Head(queue[h])]
        /\ queue' = [queue EXCEPT ![h] = Tail(queue[h])]
    BY <1>0, <1>2 DEF Dequeue, Sound, FreeHands
  <2>2. Range(queue[h]) = Range(Tail(queue[h])) \cup {Head(queue[h])}
    BY <1>0, <2>1, RangeSplit
  <2>3. \A g \in Handlers, c \in Calls : Held(g, c)' <=> Held(g, c)
    BY <1>0, <2>1, <2>2 DEF Held
  <2>4. \A c \in Calls : SameMessage(c)
    BY <1>1, <2>1, <2>3 DEF SameMessage
  <2> QED BY <1>0, <1>1, <2>4, StutterRefines
<1>3. CASE (CheckDone(h) /\ h \in closed) \/ Send(h) \/ SendFails(h)
  <2>0. PICK c \in Calls : c = holding[h]
    BY <1>3 DEF CheckDone, Send, SendFails, Sound, Traced, Shape, AgentShape
  <2>1. /\ UNCHANGED queue /\ holding' = [holding EXCEPT ![h] = None]
        /\ UNCHANGED sent \/ sent' = [sent EXCEPT ![h] = sent[h] \cup {c}]
    BY <1>3, <2>0 DEF CheckDone, Send, SendFails, connVars
  <2>2. \A g \in Handlers, d \in Calls \ {c} :
          (Held(g, d)' <=> Held(g, d)) /\ (d \in sent'[g] <=> d \in sent[g])
    BY <1>0, <2>0, <2>1 DEF Held
  <2>3. \A d \in Calls \ {c} : SameMessage(d)
    BY <1>1, <2>2 DEF SameMessage
  <2>4. ASSUME NEW g \in Handlers
        PROVE  ~Held(g, c)'
    <3>1. c \notin Range(queue[g])
      <4>1. CASE g = h
        BY <1>0, <2>0, <4>1 DEF OnePlace
      <4>2. CASE g # h
        BY <1>0, <2>0, <4>2 DEF OnePlace, Carries
      <4> QED BY <4>1, <4>2
    <3>2. holding'[g] # c
      <4>1. CASE g = h
        BY <1>0, <2>0, <2>1, <4>1
      <4>2. CASE g # h
        BY <1>0, <2>0, <2>1, <4>2 DEF OnePlace, Carries
      <4> QED BY <4>1, <4>2
    <3> QED BY <2>1, <3>1, <3>2 DEF Held
  <2>5. Held(h, c)
    BY <2>0 DEF Held
  <2>6. Promise!Settle(c)
    BY <1>0, <1>1, <2>3, <2>4, <2>5, SettleRefines
  <2> QED BY <2>6
<1>4. CASE CheckDone(h) /\ h \notin closed
  <2>1. UNCHANGED <<queue, holding, sent>>
    BY <1>4 DEF CheckDone, connVars
  <2>2. \A c \in Calls : SameMessage(c)
    BY <1>1, <2>1 DEF SameMessage, Held
  <2> QED BY <1>0, <1>1, <2>2, StutterRefines
<1> QED BY <1>2, <1>3, <1>4

\* What Close drains is gone.
LEMMA DrainRefines ==
  ASSUME Sound, Sound', [Next]_vars, NEW a \in Agents, Drain(a)
  PROVE  \E c \in Calls : Promise!Settle(c)
<1>0. /\ queue \in [Handlers -> Seq(Calls)] /\ holding \in [Handlers -> Calls \cup {None}]
      /\ Traced /\ Traced' /\ OnePlace
  BY DEF Sound, Traced, Places, Shape, TypeOK
<1>1. PICK h \in Handlers : queue[h] # <<>> /\ queue' = [queue EXCEPT ![h] = Tail(queue[h])]
  BY DEF Drain, Sound, Traced, Shape, AgentShape
<1>2. UNCHANGED <<holding, sent, owner, tid, outcome, lost, cpc>>
  BY DEF Drain, callVars
<1>3. PICK c \in Calls : /\ Range(queue[h]) = Range(Tail(queue[h])) \cup {c}
                         /\ c \in Range(queue[h]) /\ c \notin Range(Tail(queue[h]))
  BY <1>0, <1>1, RangeTail, RangeSplit DEF OnePlace
<1>4. ASSUME NEW g \in Handlers
      PROVE  ~Held(g, c)'
  <2>1. CASE g = h
    BY <1>0, <1>1, <1>2, <1>3, <2>1 DEF Held, OnePlace
  <2>2. CASE g # h
    <3>1. ~Carries(g, c)
      BY <1>0, <1>3, <2>2 DEF OnePlace, Carries
    <3> QED BY <1>0, <1>1, <1>2, <2>2, <3>1 DEF Held, Carries
  <2> QED BY <2>1, <2>2
<1>5. \A g \in Handlers, d \in Calls \ {c} : Held(g, d)' <=> Held(g, d)
  BY <1>0, <1>1, <1>2, <1>3 DEF Held
<1>6. \A d \in Calls \ {c} : SameMessage(d)
  BY <1>2, <1>5 DEF SameMessage
<1>7. Held(h, c)
  BY <1>3 DEF Held
<1>8. Promise!Settle(c)
  BY <1>0, <1>2, <1>4, <1>6, <1>7, SettleRefines
<1> QED BY <1>8

\* Unregister of the registered connection, and Disconnect, lose a connection.
LEMMA LossRefines ==
  ASSUME Sound, Sound', [Next]_vars,
         \/ \E h \in Handlers : UnregisterCurrent(h)
         \/ \E a \in Admins, id \in ConnIds : Disconnect(a, id)
  PROVE  \E id \in ConnIds : Promise!Lose(id)
<1>0. /\ job \in [Agents -> Handlers \cup {None}] /\ Handlers \cup Admins = Agents
      /\ Traced /\ Traced'
  BY DEF Sound, Traced, Shape, TypeOK, Agents
<1>1. UNCHANGED <<queue, holding, sent, owner, tid, outcome, cpc, connId>>
  BY DEF UnregisterCurrent, Disconnect, connVars, callVars
<1>2. PICK a \in Agents, id \in ConnIds : lost' = lost \cup {a} /\ connId'[job'[a]] = id
  <2>1. ASSUME NEW h \in Handlers, UnregisterCurrent(h)
        PROVE  lost' = lost \cup {h} /\ connId'[job'[h]] = connId[h] /\ connId[h] \in ConnIds
    BY <1>0, <1>1, <2>1 DEF UnregisterCurrent, Traced, Shape, AgentShape
  <2>2. ASSUME NEW b \in Admins, NEW i \in ConnIds, Disconnect(b, i)
        PROVE  lost' = lost \cup {b} /\ connId'[job'[b]] = i
    BY <1>0, <1>1, <2>2 DEF Disconnect, Traced, Registration, NoGhostRegistration
  <2> QED BY <1>0, <2>1, <2>2
<1>3. \A b \in lost : connId'[job'[b]] = connId[job[b]]
  BY <1>0, SameLosses
<1>4. LostIds' = LostIds \cup {id}
  BY <1>2, <1>3 DEF LostIds
<1>5. Messages' = Messages
  <2>1. \A c \in Calls : SameMessage(c)
    BY <1>1 DEF SameMessage, Held
  <2> QED BY <1>0, <2>1, SameMessages
<1>6. Promise!Lose(id)
  BY <1>1, <1>4, <1>5 DEF Promise!Lose
<1> QED BY <1>6

\* SendTask addresses the connection, or finds none.
LEMMA SendTaskRefines ==
  ASSUME Sound, Sound', [Next]_vars, NEW c \in Calls, NEW id \in ConnIds, SendTask(c, id)
  PROVE  Promise!Address(c, id) \/ Promise!NotFound(c, id)
<1>0. /\ cpc \in [Calls -> CallStates] /\ Traced /\ Traced'
      /\ owner[c] = None /\ outcome[c] = "none" /\ cpc[c] = "idle"
  BY DEF SendTask, Sound, Traced, Shape, TypeOK, Beginnings, Causes, Decided
<1>1. /\ UNCHANGED <<queue, holding, sent, lost, tid>> /\ owner' = [owner EXCEPT ![c] = id]
      /\ cpc[c] \notin Posted
  BY <1>0 DEF SendTask, connVars, agentVars, Posted
<1>2. \A h \in Handlers, d \in Calls : (Held(h, d)' <=> Held(h, d)) /\ (d \in sent'[h] <=> d \in sent[h])
  BY <1>1 DEF Held
<1>3. LostIds' = LostIds
  BY <1>0, <1>1, SameLosses
<1>4. CASE conns[id] = None
  <2>1. cpc' = [cpc EXCEPT ![c] = "done"] /\ outcome' = [outcome EXCEPT ![c] = "notFound"]
    BY <1>4 DEF SendTask
  <2>2. \A d \in Calls \ {c} : SameMessage(d)
    BY <1>0, <1>2, <2>1 DEF SameMessage
  <2>3. MessageOf(c)' = "gone"
    <3>1. cpc'[c] \in Posted
      BY <1>0, <2>1 DEF Posted
    <3>2. \A h \in Handlers : ~Held(h, c)' /\ c \notin sent'[h]
      BY <1>0, <1>1, <1>2, MessageByPlace DEF MessageFacts, Carries, Held
    <3> QED BY <1>0, <3>1, <3>2, MessageByPlaceNext DEF MessageFacts
  <2>4. Messages' = [Messages EXCEPT ![c] = "gone"]
    BY <1>0, <2>2, <2>3, OtherMessages
  <2> QED BY <1>0, <1>1, <1>3, <2>1, <2>4 DEF Promise!NotFound
<1>5. CASE conns[id] # None
  <2>1. cpc' = [cpc EXCEPT ![c] = "enter"] /\ UNCHANGED outcome
    BY <1>5 DEF SendTask
  <2>2. cpc'[c] \notin Posted
    BY <1>0, <2>1 DEF Posted
  <2>3. \A d \in Calls : SameMessage(d)
    BY <1>0, <1>1, <1>2, <2>1, <2>2 DEF SameMessage
  <2>4. Messages' = Messages
    BY <1>0, <2>3, SameMessages
  <2> QED BY <1>0, <1>1, <1>3, <2>1, <2>4 DEF Promise!Address
<1> QED BY <1>4, <1>5

\* The second critical section gives the call its id, or refuses one that waits.
LEMMA EnterRefines ==
  ASSUME Sound, Sound', [Next]_vars, NEW c \in Calls, NEW t \in TaskIds,
         Enter(c, t) \/ EnterRefused(c, t)
  PROVE  Promise!Identify(c, t) \/ Promise!AlreadyPending(c)
<1>0. /\ cpc \in [Calls -> CallStates] /\ Traced /\ Traced' /\ cpc[c] = "enter"
      /\ owner[c] \in ConnIds /\ tid[c] = None /\ outcome[c] = "none"
      /\ None \notin ConnIds \cup Calls
  BY PoolAssumption
  DEF Enter, EnterRefused, Sound, Traced, Shape, TypeOK, CallShape, Causes, Decided
<1>1. UNCHANGED <<queue, holding, sent, lost, owner>>
  BY DEF Enter, EnterRefused, connVars, agentVars
<1>2. CASE Enter(c, t)
  <2>1. /\ tid' = [tid EXCEPT ![c] = t] /\ cpc' = [cpc EXCEPT ![c] = "post"]
        /\ UNCHANGED outcome
        /\ t \in CallerIds \/ \A d \in Calls : tid[d] # t
    BY <1>2 DEF Enter, Fresh
  <2>2. cpc'[c] \notin Posted /\ cpc[c] \notin Posted
    BY <1>0, <2>1 DEF Posted
  <2>3. \A d \in Calls : SameMessage(d)
    BY <1>0, <1>1, <2>1, <2>2 DEF SameMessage, Held
  <2>4. Messages' = Messages /\ LostIds' = LostIds
    BY <1>0, <1>1, <2>3, SameMessages, SameLosses
  <2> QED BY <1>0, <1>1, <2>1, <2>4 DEF Promise!Identify
<1>3. CASE EnterRefused(c, t)
  <2>1. /\ t \in CallerIds /\ pending[t] \in Calls /\ UNCHANGED tid
        /\ outcome' = [outcome EXCEPT ![c] = "alreadyPending"]
        /\ cpc' = [cpc EXCEPT ![c] = "done"]
    BY <1>0, <1>3 DEF EnterRefused, Traced, Shape, TypeOK
  <2>2. tid[pending[t]] = t
    BY <1>0, <2>1 DEF Traced, Verdicts, NoLeakedEntry
  <2>3. Promise!End(c, "alreadyPending")
    BY <1>0, <1>1, <2>1, EndRefines DEF Posted
  <2> QED BY <1>0, <2>1, <2>2, <2>3 DEF Promise!AlreadyPending
<1> QED BY <1>2, <1>3

\* Post queues the message, or ends the call.
LEMMA PostRefines ==
  ASSUME Sound, Sound', [Next]_vars, NEW c \in Calls,
         PostQueued(c) \/ PostClosed(c) \/ PostCtxDone(c)
  PROVE  Promise!Queue(c) \/ Promise!Closed(c) \/ Promise!GivenUp(c)
<1>0. /\ cpc \in [Calls -> CallStates] /\ Traced /\ Traced' /\ cpc[c] = "post"
      /\ queue \in [Handlers -> Seq(Calls)]
      /\ tid[c] # None /\ outcome[c] = "none" /\ cpc[c] \notin Posted
  BY PoolAssumption
  DEF PostQueued, PostClosed, PostCtxDone, Sound, Traced, Shape, TypeOK, CallShape, Causes, Decided,
      Posted
<1>1. UNCHANGED <<holding, sent, lost, owner, tid>>
  BY DEF PostQueued, PostClosed, PostCtxDone, agentVars
<1>2. CASE PostQueued(c)
  <2>1. cpc' = [cpc EXCEPT ![c] = "wait"] /\ UNCHANGED outcome
    BY <1>2 DEF PostQueued
  <2>2. PICK h \in Handlers : queue' = [queue EXCEPT ![h] = Append(queue[h], c)]
    BY <1>0, <1>2 DEF PostQueued, Traced, Shape, CallShape
  <2>3. Range(Append(queue[h], c)) = Range(queue[h]) \cup {c}
    BY <1>0, RangeAppend
  <2>4. Held(h, c)' /\ cpc'[c] \in Posted
    BY <1>0, <2>1, <2>2, <2>3 DEF Held, Posted
  <2>5. \A d \in Calls \ {c} : SameMessage(d)
    BY <1>0, <1>1, <2>1, <2>2, <2>3 DEF SameMessage, Held
  <2>6. MessageOf(c) = "none" /\ MessageOf(c)' = "queued"
    BY <1>0, <2>4, MessageByPlace, MessageByPlaceNext DEF MessageFacts
  <2>7. Messages' = [Messages EXCEPT ![c] = "queued"] /\ Messages[c] = "none" /\ Messages'[c] = "queued"
    BY <1>0, <2>5, <2>6, OtherMessages DEF Messages
  <2>8. LostIds' = LostIds
    BY <1>0, <1>1, SameLosses
  <2> QED BY <1>0, <1>1, <2>1, <2>7, <2>8 DEF Promise!Queue
<1>3. CASE PostClosed(c)
  <2>1. /\ outcome' = [outcome EXCEPT ![c] = "closed"] /\ cpc' = [cpc EXCEPT ![c] = "cleanup"]
        /\ UNCHANGED queue
    BY <1>3 DEF PostClosed, Leave, connVars
  <2>2. Promise!End(c, "closed")
    BY <1>0, <1>1, <2>1, EndRefines DEF Posted
  <2>3. MessageOf(c) = "none"
    BY <1>0, MessageByPlace DEF MessageFacts
  <2>4. Messages'[c] = "gone"
    BY <2>2, <2>3 DEF Promise!End, Messages
  <2> QED BY <1>0, <2>2, <2>4 DEF Promise!Closed
<1>4. CASE PostCtxDone(c)
  <2>1. /\ outcome' = [outcome EXCEPT ![c] = "ctxErr"] /\ cpc' = [cpc EXCEPT ![c] = "cleanup"]
        /\ UNCHANGED queue
    BY <1>4 DEF PostCtxDone, Leave, connVars
  <2>2. Promise!End(c, "ctxErr")
    BY <1>0, <1>1, <2>1, EndRefines DEF Posted
  <2> QED BY <1>0, <2>2 DEF Promise!GivenUp
<1> QED BY <1>2, <1>3, <1>4

\* The final select ends the call for the reason that the promise allows.
LEMMA WaitRefines ==
  ASSUME Sound, Sound', [Next]_vars, NEW c \in Calls,
         WaitResult(c) \/ WaitError(c) \/ WaitCtxDone(c)
  PROVE  Promise!Result(c) \/ Promise!Closed(c) \/ Promise!TimedOut(c) \/ Promise!GivenUp(c)
<1>0. /\ Traced /\ Traced' /\ cpc[c] = "wait" /\ cpc[c] \in Posted
      /\ owner[c] \in ConnIds \cup {None} /\ tid[c] # None /\ outcome[c] = "none"
  BY PoolAssumption
  DEF WaitResult, WaitError, WaitCtxDone, Sound, Traced, Shape, TypeOK, CallShape, Causes, Decided,
      Posted
<1>1. /\ UNCHANGED <<queue, holding, sent, lost, owner, tid>>
      /\ cpc' = [cpc EXCEPT ![c] = "cleanup"]
  BY DEF WaitResult, WaitError, WaitCtxDone, Leave, connVars, agentVars
<1>2. MessageOf(c) # "none" /\ Messages[c] = MessageOf(c)
  BY <1>0, MessageByPlace DEF MessageFacts, Messages
<1>3. CASE WaitResult(c)
  <2>1. ResReady(c) /\ resCh[c] = owner[c] /\ outcome' = [outcome EXCEPT ![c] = resCh[c]]
    BY <1>0, <1>3 DEF WaitResult, Leave, ResReady, Traced, Causes, ResultsSigned
  <2>2. Promise!End(c, owner[c])
    BY <1>0, <1>1, <2>1, EndRefines DEF Posted
  <2>3. tid[c] \in CallerIds \/ SentOn(c)
    BY <1>0, <2>1 DEF Traced, Causes, ResultsSent
  <2>4. ASSUME SentOn(c)
        PROVE  Messages[c] = "sent"
    <3>1. PICK h \in Handlers : c \in sent[h]
      BY <2>4 DEF SentOn
    <3>2. ASSUME NEW g \in Handlers, Held(g, c)
          PROVE  FALSE
      <4>1. g = h
        BY <1>0, <3>1, <3>2 DEF Traced, Places, OnePlace, Carries, Held
      <4> QED BY <1>0, <3>1, <3>2, <4>1 DEF Traced, Places, OnePlace, Held
    <3> QED BY <1>0, <1>2, <3>1, <3>2, MessageByPlace DEF MessageFacts
  <2> QED BY <1>0, <1>2, <2>2, <2>3, <2>4 DEF Promise!Result
<1>4. CASE WaitError(c)
  <2>1. Failing(c) /\ outcome' = [outcome EXCEPT ![c] = "closed"]
    BY <1>4 DEF WaitError, Leave, Failing, ErrReady
  <2>2. Promise!End(c, "closed")
    BY <1>0, <1>1, <2>1, EndRefines DEF Posted
  <2>3. CASE Lost(owner[c])
    <3>1. owner[c] \in LostIds
      BY <2>3 DEF Lost, LostIds
    <3> QED BY <1>0, <2>2, <3>1 DEF Promise!Closed
  <2>4. ASSUME NEW d \in Calls, tid[d] = tid[c], Gone(d)
        PROVE  Promise!Closed(c)
    <3>1. Gone(d)'
      BY <1>0, <2>4, GoneStays DEF Traced
    <3>2. cpc'[d] \in Posted /\ \A h \in Handlers : ~Held(h, d)' /\ d \notin sent'[h]
      BY <3>1 DEF Gone, Carries, Held
    <3>3. Messages'[d] = "gone"
      BY <1>0, <3>2, MessageByPlaceNext DEF MessageFacts, Messages
    <3> QED BY <1>0, <2>2, <2>4, <3>3 DEF Promise!Closed
  <2> QED BY <1>0, <2>1, <2>3, <2>4 DEF Traced, Causes, FailuresLost
<1>5. CASE WaitCtxDone(c)
  <2>1. CASE ctx[c] = "expired"
    <3>1. c \in Timed /\ outcome' = [outcome EXCEPT ![c] = "timeout"]
      BY <1>5, <2>1 DEF WaitCtxDone, Leave, Sound, Beginnings
    <3>2. Promise!End(c, "timeout")
      BY <1>0, <1>1, <3>1, EndRefines DEF Posted
    <3> QED BY <1>2, <3>1, <3>2 DEF Promise!TimedOut
  <2>2. CASE ctx[c] # "expired"
    <3>1. outcome' = [outcome EXCEPT ![c] = "ctxErr"]
      BY <1>5, <2>2 DEF WaitCtxDone, Leave
    <3>2. Promise!End(c, "ctxErr")
      BY <1>0, <1>1, <3>1, EndRefines DEF Posted
    <3> QED BY <1>0, <3>2 DEF Promise!GivenUp
  <2> QED BY <2>1, <2>2
<1> QED BY <1>3, <1>4, <1>5

\* Every other step is one the promise does not see.
LEMMA OtherStepsRefine ==
  ASSUME Sound, Sound', [Next]_vars,
         \/ UNCHANGED <<queue, holding, sent, owner, tid, outcome, lost, cpc>>
         \/ \E c \in Calls : Cleanup(c)
  PROVE  UNCHANGED Promise!vars
<1>1. UNCHANGED <<queue, holding, sent, owner, tid, outcome, lost>>
  BY DEF Cleanup, connVars, agentVars
<1>2. \A c \in Calls : cpc'[c] \in Posted <=> cpc[c] \in Posted
  BY DEF Cleanup, Posted, Sound, Traced, Shape, TypeOK
<1>3. \A c \in Calls : SameMessage(c)
  BY <1>1, <1>2 DEF SameMessage, Held
<1> QED BY <1>1, <1>3, StutterRefines DEF Sound

LEMMA InitRefines == Init => Promise!Init
<1> SUFFICES ASSUME Init PROVE Promise!Init
  OBVIOUS
<1>1. \A c \in Calls : MessageOf(c) = "none"
  BY DEF Init, MessageOf
<1>2. LostIds = {}
  BY DEF Init, LostIds
<1> QED BY <1>1, <1>2 DEF Init, Messages, Promise!Init

LEMMA NextRefines ==
  ASSUME Sound, Sound', [Next]_vars
  PROVE  [Promise!Next]_(Promise!vars)
<1> USE DEF Promise!Next
<1>1. ASSUME NEW a \in Agents, Closing(a)
      PROVE  [Promise!Next]_(Promise!vars)
  <2>1. CASE Drain(a)
    BY <2>1, DrainRefines
  <2>2. CASE ~Drain(a)
    <3>1. UNCHANGED <<queue, holding, sent, owner, tid, outcome, lost, cpc>>
      BY <1>1, <2>2
      DEF Closing, CloseDone, Drained, FailTask, FailPendingClient, SignalVictim, ClosingDone,
          connVars, callVars
    <3> QED BY <3>1, OtherStepsRefine
  <2> QED BY <2>1, <2>2
<1>2. ASSUME NEW h \in Handlers, Handler(h) \/ Transport(h) \/ StreamDone(h)
      PROVE  [Promise!Next]_(Promise!vars)
  <2>1. CASE Dequeue(h) \/ CheckDone(h) \/ Send(h) \/ SendFails(h)
    BY <2>1, WriterRefines
  <2>2. CASE UnregisterCurrent(h)
    BY <2>2, LossRefines
  <2>3. CASE \/ AckSent(h) \/ AckFails(h) \/ WriterClosed(h) \/ StreamDone(h)
             \/ UnregisterReplaced(h) \/ UnregisterGone(h)
    <3>1. UNCHANGED <<queue, holding, sent, owner, tid, outcome, lost, cpc>>
      BY <2>3
      DEF AckSent, AckFails, WriterClosed, StreamDone, UnregisterReplaced, UnregisterGone,
          connVars, callVars
    <3> QED BY <3>1, OtherStepsRefine
  <2> QED BY <1>2, <2>1, <2>2, <2>3 DEF Handler, Transport
<1>3. ASSUME NEW c \in Calls, Call(c)
      PROVE  [Promise!Next]_(Promise!vars)
  <2>1. ASSUME NEW t \in TaskIds, Enter(c, t) \/ EnterRefused(c, t)
        PROVE  [Promise!Next]_(Promise!vars)
    BY <2>1, EnterRefines
  <2>2. CASE PostQueued(c) \/ PostClosed(c) \/ PostCtxDone(c)
    BY <2>2, PostRefines
  <2>3. CASE WaitResult(c) \/ WaitError(c) \/ WaitCtxDone(c)
    BY <2>3, WaitRefines
  <2>4. CASE Cleanup(c)
    BY <2>4, OtherStepsRefine
  <2> QED BY <1>3, <2>1, <2>2, <2>3, <2>4 DEF Call
<1>4. ASSUME NEW c \in Calls, NEW id \in ConnIds, SendTask(c, id)
      PROVE  [Promise!Next]_(Promise!vars)
  BY <1>4, SendTaskRefines
<1>5. ASSUME NEW a \in Admins, NEW id \in ConnIds, Disconnect(a, id)
      PROVE  [Promise!Next]_(Promise!vars)
  BY <1>5, LossRefines
<1>6. CASE \/ \E c \in Calls : Expire(c) \/ Cancel(c)
           \/ \E t \in TaskIds, id \in ConnIds : HandleResult(t, id)
           \/ \E h \in Handlers, id \in ConnIds : Register(h, id) \/ RegisterRefused(h, id)
           \/ \E a \in Admins, id \in ConnIds : DisconnectNothing(a, id)
           \/ Delivery \/ Terminated \/ UNCHANGED vars
  <2>1. UNCHANGED <<queue, holding, sent, owner, tid, outcome, lost, cpc>>
    BY <1>6
    DEF Expire, Cancel, HandleResult, Register, RegisterRefused, DisconnectNothing, Delivery,
        DeliverResult, Terminated, vars, connVars, agentVars, callVars
  <2> QED BY <2>1, OtherStepsRefine
<1> QED BY <1>1, <1>2, <1>3, <1>4, <1>5, <1>6 DEF Next, Environment

\* Whatever streams, callers, clients and timers do, what a caller of SendTask
\* sees of the pool is what SendTask promises.
THEOREM PoolImplementsTaskCall == Spec => ImplementsTaskCall
<1>1. Sound /\ Sound' /\ [Next]_vars => [Promise!Next]_(Promise!vars)
  BY NextRefines
<1> QED
  BY <1>1, InitRefines, InitSound, NextSound, PTL DEF Spec, ImplementsTaskCall, Promise!Spec

=============================================================================
