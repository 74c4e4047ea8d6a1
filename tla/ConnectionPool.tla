--------------------------- MODULE ConnectionPool ---------------------------
(***************************************************************************)
(* The connection pool of akira-server with everything that runs over it:  *)
(* the Connect stream handlers (one goroutine per stream, its only         *)
(* writer), the SendTask callers that block for a result, Disconnect, and  *)
(* the SubmitResult calls of the clients.                                  *)
(*                                                                         *)
(* One action is one critical section of ConnectionPool.mu, one channel    *)
(* operation, or one stream.Send: goroutines interleave exactly there.     *)
(* A ClientConnection object is named by the handler that registered it,   *)
(* a queued message and a pendingEntry by the SendTask call that made it.  *)
(* conns[id] stands for the entries of both maps conns and infos: every    *)
(* critical section writes the two together.                               *)
(***************************************************************************)
EXTENDS Naturals, Sequences, FiniteSets

CONSTANTS
  Users,           \* user ids
  ConnIds,         \* connection ids, {user_id}:{client_id}
  UserOf,          \* UserOf[id]: the user_id part of a connection id
  Handlers,        \* Connect streams; also names their ClientConnection
  Admins,          \* callers of Disconnect
  Calls,           \* SendTask invocations
  TaskIds,         \* task ids
  CallerIds,       \* those a caller may supply itself (Task.Id # "")
  Timed,           \* calls whose task has TimeoutMs > 0
  QueueCap,        \* capacity of ClientConnection.out (16 in the code)
  MaxConnections,  \* MAX_CONNECTIONS per user, 0 = unlimited
  None             \* nil

\* How a call ends that returns no TaskResult of a client; "none": not yet.
Outcomes == {"none", "notFound", "alreadyPending", "closed", "timeout", "ctxErr"}

ASSUME PoolAssumption ==
  /\ UserOf \in [ConnIds -> Users]
  /\ CallerIds \subseteq TaskIds
  /\ Timed \subseteq Calls
  /\ QueueCap \in Nat \ {0}
  /\ MaxConnections \in Nat
  /\ Handlers \cap Admins = {}
  /\ None \notin ConnIds \cup Handlers \cup Calls \cup TaskIds
  /\ ConnIds \cap Outcomes = {}

Agents == Handlers \cup Admins   \* goroutines that close connections

VARIABLES
  \* ConnectionPool, guarded by mu
  conns,     \* conns[id]: registered connection, or None
  pending,   \* pending[t]: call whose pendingEntry is in the registry
  \* ClientConnection
  closed,    \* connections whose done channel is closed
  queue,     \* queue[h]: the out channel
  \* Connect handlers and Disconnect callers
  apc,       \* control state of the goroutine
  connId,    \* connId[h]: connection id the handler registers
  holding,   \* holding[h]: message the writer took from the queue
  sent,      \* sent[h]: messages stream.Send accepted
  job,       \* job[a]: connection the goroutine is closing
  lost,      \* agents whose job ends in failPendingClient
  unsent,    \* unsent[a]: messages drained by Close
  victims,   \* victims[a]: entries taken out of pending, not yet signalled
  \* SendTask
  cpc,       \* control state of the call
  owner,     \* owner[c]: connectionID argument
  target,    \* target[c]: connection read from the map
  tid,       \* tid[c]: task.Id
  ctx,       \* ctx[c]: live, expired (task timer) or cancelled (caller)
  resCh,     \* resCh[c]: client_id of the buffered result, or None
  errCh,     \* errCh[c]: whether an error is buffered
  outcome,   \* what the call returned: the client_id of a TaskResult, or one
             \* of Outcomes
  \* SubmitResult
  carrying   \* entries removed by HandleResult, result not yet in resCh

poolVars  == <<conns, pending>>
connVars  == <<closed, queue>>
agentVars == <<apc, connId, holding, sent, job, lost, unsent, victims>>
callVars  == <<cpc, owner, target, tid, ctx, resCh, errCh, outcome>>
vars      == <<poolVars, connVars, agentVars, callVars, carrying>>

AgentStates ==
  {"idle", "close", "drain", "fail", "failPending", "ack", "loop", "check",
   "send", "unregister", "rejected", "done"}

CallStates == {"idle", "enter", "post", "wait", "cleanup", "done"}

Init ==
  /\ conns = [id \in ConnIds |-> None]
  /\ pending = [t \in TaskIds |-> None]
  /\ closed = {}
  /\ queue = [h \in Handlers |-> <<>>]
  /\ apc = [a \in Agents |-> "idle"]
  /\ connId = [h \in Handlers |-> None]
  /\ holding = [h \in Handlers |-> None]
  /\ sent = [h \in Handlers |-> {}]
  /\ job = [a \in Agents |-> None]
  /\ lost = {}
  /\ unsent = [a \in Agents |-> <<>>]
  /\ victims = [a \in Agents |-> {}]
  /\ cpc = [c \in Calls |-> "idle"]
  /\ owner = [c \in Calls |-> None]
  /\ target = [c \in Calls |-> None]
  /\ tid = [c \in Calls |-> None]
  /\ ctx = [c \in Calls |-> "live"]
  /\ resCh = [c \in Calls |-> None]
  /\ errCh = [c \in Calls |-> FALSE]
  /\ outcome = [c \in Calls |-> "none"]
  /\ carrying = {}

-----------------------------------------------------------------------------
(* Connect: registration                                                   *)

\* Connections of a user other than the one being replaced (countByUser runs
\* after the old registration was taken out of the map).
OthersOf(id) ==
  {i \in ConnIds \ {id} : UserOf[i] = UserOf[id] /\ conns[i] # None}

\* Mutant of Full: off by one.
FullPastLimit(id) == MaxConnections > 0 /\ Cardinality(OthersOf(id)) > MaxConnections

Full(id) == MaxConnections > 0 /\ Cardinality(OthersOf(id)) >= MaxConnections

\* Register refuses: the replaced registration, if any, is put back.
RegisterRefused(h, id) ==
  /\ apc[h] = "idle"
  /\ Full(id)
  /\ apc' = [apc EXCEPT ![h] = "rejected"]
  /\ connId' = [connId EXCEPT ![h] = id]
  /\ UNCHANGED <<poolVars, connVars, holding, sent, job, lost, unsent,
                 victims, callVars, carrying>>

\* Register stores the new connection; a replaced one is closed after the
\* lock is released.
Register(h, id) ==
  /\ apc[h] = "idle"
  /\ ~Full(id)
  /\ conns' = [conns EXCEPT ![id] = h]
  /\ connId' = [connId EXCEPT ![h] = id]
  /\ job' = [job EXCEPT ![h] = conns[id]]
  /\ apc' = [apc EXCEPT ![h] = IF conns[id] = None THEN "ack" ELSE "close"]
  /\ UNCHANGED <<pending, connVars, holding, sent, lost, unsent, victims,
                 callVars, carrying>>

-----------------------------------------------------------------------------
(* Close and the failing of waits, run by Register, Unregister, Disconnect *)

\* closeOnce.Do(close(done))
CloseDone(a) ==
  /\ apc[a] = "close"
  /\ closed' = closed \cup {job[a]}
  /\ apc' = [apc EXCEPT ![a] = "drain"]
  /\ UNCHANGED <<poolVars, queue, connId, holding, sent, job, lost, unsent,
                 victims, callVars, carrying>>

\* One receive of the drain loop of Close.
Drain(a) ==
  /\ apc[a] = "drain"
  /\ queue[job[a]] # <<>>
  /\ unsent' = [unsent EXCEPT ![a] = Append(@, Head(queue[job[a]]))]
  /\ queue' = [queue EXCEPT ![job[a]] = Tail(@)]
  /\ UNCHANGED <<poolVars, closed, apc, connId, holding, sent, job, lost,
                 victims, callVars, carrying>>

\* Mutant of Drained: Register too ends in failPendingClient.
DrainedFailsAll(a) ==
  /\ apc[a] = "drain"
  /\ queue[job[a]] = <<>>
  /\ apc' = [apc EXCEPT ![a] = "failPending"]
  /\ unsent' = [unsent EXCEPT ![a] = <<>>]
  /\ UNCHANGED <<poolVars, connVars, connId, holding, sent, job, lost, victims,
                 callVars, carrying>>

\* Mutant of Drained: what Close returns is never passed to failUnsent.
DrainedForgets(a) ==
  /\ apc[a] = "drain"
  /\ queue[job[a]] = <<>>
  /\ apc' = [apc EXCEPT ![a] = IF a \in lost THEN "failPending" ELSE "fail"]
  /\ unsent' = [unsent EXCEPT ![a] = <<>>]
  /\ UNCHANGED <<poolVars, connVars, connId, holding, sent, job, lost, victims,
                 callVars, carrying>>

\* The drain loop found the queue empty and Close returns. Unregister of the
\* current connection and Disconnect ignore the drained messages.
Drained(a) ==
  /\ apc[a] = "drain"
  /\ queue[job[a]] = <<>>
  /\ IF a \in lost
       THEN /\ apc' = [apc EXCEPT ![a] = "failPending"]
            /\ unsent' = [unsent EXCEPT ![a] = <<>>]
       ELSE /\ apc' = [apc EXCEPT ![a] = "fail"]
            /\ UNCHANGED unsent
  /\ UNCHANGED <<poolVars, connVars, connId, holding, sent, job, lost,
                 victims, callVars, carrying>>

\* Mutant of FailTask: the entry is used without the test that it exists.
FailTaskUnchecked(a) ==
  /\ apc[a] = "fail"
  /\ victims[a] = {}
  /\ unsent[a] # <<>>
  /\ LET t == tid[Head(unsent[a])] IN
       /\ pending' = [pending EXCEPT ![t] = None]
       /\ victims' = [victims EXCEPT ![a] = {pending[t]}]
  /\ unsent' = [unsent EXCEPT ![a] = Tail(@)]
  /\ UNCHANGED <<conns, connVars, apc, connId, holding, sent, job, lost,
                 callVars, carrying>>

\* FailTask, critical section: the entry under the id of the next unsent
\* message leaves the registry.
FailTask(a) ==
  /\ apc[a] = "fail"
  /\ victims[a] = {}
  /\ unsent[a] # <<>>
  /\ LET t == tid[Head(unsent[a])] IN
       /\ pending' = [pending EXCEPT ![t] = None]
       /\ victims' = [victims EXCEPT ![a] = {pending[t]} \ {None}]
  /\ unsent' = [unsent EXCEPT ![a] = Tail(@)]
  /\ UNCHANGED <<conns, connVars, apc, connId, holding, sent, job, lost,
                 callVars, carrying>>

\* Entries waiting for a result of connection id.
EntriesOf(id) == {c \in Calls : owner[c] = id /\ \E t \in TaskIds : pending[t] = c}

\* Mutant of FailPendingClient: the entries are deleted and never signalled.
FailPendingClientSilent(a) ==
  /\ apc[a] = "failPending"
  /\ pending' = [t \in TaskIds |->
                   IF pending[t] \in EntriesOf(connId[job[a]]) THEN None ELSE pending[t]]
  /\ apc' = [apc EXCEPT ![a] = "fail"]
  /\ UNCHANGED <<conns, connVars, connId, holding, sent, job, lost, unsent,
                 victims, callVars, carrying>>

\* failPendingClient, critical section: every entry of the connection id
\* leaves the registry.
FailPendingClient(a) ==
  /\ apc[a] = "failPending"
  /\ LET gone == EntriesOf(connId[job[a]]) IN
       /\ victims' = [victims EXCEPT ![a] = gone]
       /\ pending' = [t \in TaskIds |->
                        IF pending[t] \in gone THEN None ELSE pending[t]]
  /\ apc' = [apc EXCEPT ![a] = "fail"]
  /\ UNCHANGED <<conns, connVars, connId, holding, sent, job, lost, unsent,
                 callVars, carrying>>

\* e.errCh <- ErrConnectionClosed, outside the lock (buffer of one).
SignalVictim(a, c) ==
  /\ apc[a] = "fail"
  /\ c \in victims[a]
  /\ ~errCh[c]
  /\ errCh' = [errCh EXCEPT ![c] = TRUE]
  /\ victims' = [victims EXCEPT ![a] = @ \ {c}]
  /\ UNCHANGED <<poolVars, connVars, apc, connId, holding, sent, job, lost,
                 unsent, cpc, owner, target, tid, ctx, resCh, outcome,
                 carrying>>

\* Register goes on to the ack; Unregister and Disconnect return.
ClosingDone(a) ==
  /\ apc[a] = "fail"
  /\ victims[a] = {}
  /\ unsent[a] = <<>>
  /\ apc' = [apc EXCEPT ![a] =
               IF a \in Handlers /\ job[a] # a THEN "ack" ELSE "done"]
  /\ UNCHANGED <<poolVars, connVars, connId, holding, sent, job, lost, unsent,
                 victims, callVars, carrying>>

-----------------------------------------------------------------------------
(* Connect: the only writer of the stream                                  *)

\* stream.Send(RegisterAck)
AckSent(h) ==
  /\ apc[h] = "ack"
  /\ apc' = [apc EXCEPT ![h] = "loop"]
  /\ UNCHANGED <<poolVars, connVars, connId, holding, sent, job, lost, unsent,
                 victims, callVars, carrying>>

\* Mutant of AckFails: Unregister is deferred only after the ack.
AckFailsBeforeDefer(h) ==
  /\ apc[h] = "ack"
  /\ apc' = [apc EXCEPT ![h] = "done"]
  /\ UNCHANGED <<poolVars, connVars, connId, holding, sent, job, lost, unsent,
                 victims, callVars, carrying>>

\* The ack cannot be sent: the handler returns through its deferred
\* Unregister.
AckFails(h) ==
  /\ apc[h] = "ack"
  /\ apc' = [apc EXCEPT ![h] = "unregister"]
  /\ UNCHANGED <<poolVars, connVars, connId, holding, sent, job, lost, unsent,
                 victims, callVars, carrying>>

\* Mutant of Dequeue: the message stays in the queue.
DequeuePeeks(h) ==
  /\ apc[h] = "loop"
  /\ queue[h] # <<>>
  /\ holding' = [holding EXCEPT ![h] = Head(queue[h])]
  /\ apc' = [apc EXCEPT ![h] = "check"]
  /\ UNCHANGED <<poolVars, connVars, connId, sent, job, lost, unsent, victims,
                 callVars, carrying>>

\* select: case msg := <-conn.Out(), possible after Close as well.
Dequeue(h) ==
  /\ apc[h] = "loop"
  /\ queue[h] # <<>>
  /\ holding' = [holding EXCEPT ![h] = Head(queue[h])]
  /\ queue' = [queue EXCEPT ![h] = Tail(@)]
  /\ apc' = [apc EXCEPT ![h] = "check"]
  /\ UNCHANGED <<poolVars, closed, connId, sent, job, lost, unsent, victims,
                 callVars, carrying>>

\* select: case <-conn.Done()
WriterClosed(h) ==
  /\ apc[h] = "loop"
  /\ h \in closed
  /\ apc' = [apc EXCEPT ![h] = "unregister"]
  /\ UNCHANGED <<poolVars, connVars, connId, holding, sent, job, lost, unsent,
                 victims, callVars, carrying>>

\* select: case <-stream.Context().Done(); the client or the network may end
\* the stream at any time.
StreamDone(h) ==
  /\ apc[h] = "loop"
  /\ apc' = [apc EXCEPT ![h] = "unregister"]
  /\ UNCHANGED <<poolVars, connVars, connId, holding, sent, job, lost, unsent,
                 victims, callVars, carrying>>

\* Mutant of CheckDone: no second look.
CheckNothing(h) ==
  /\ apc[h] = "check"
  /\ apc' = [apc EXCEPT ![h] = "send"]
  /\ UNCHANGED <<poolVars, connVars, connId, holding, sent, job, lost, unsent,
                 victims, callVars, carrying>>

\* The second look at Done: the message of a connection closed meanwhile is
\* dropped.
CheckDone(h) ==
  /\ apc[h] = "check"
  /\ IF h \in closed
       THEN /\ apc' = [apc EXCEPT ![h] = "unregister"]
            /\ holding' = [holding EXCEPT ![h] = None]
       ELSE /\ apc' = [apc EXCEPT ![h] = "send"]
            /\ UNCHANGED holding
  /\ UNCHANGED <<poolVars, connVars, connId, sent, job, lost, unsent, victims,
                 callVars, carrying>>

\* stream.Send(msg)
Send(h) ==
  /\ apc[h] = "send"
  /\ sent' = [sent EXCEPT ![h] = @ \cup {holding[h]}]
  /\ holding' = [holding EXCEPT ![h] = None]
  /\ apc' = [apc EXCEPT ![h] = "loop"]
  /\ UNCHANGED <<poolVars, connVars, connId, job, lost, unsent, victims,
                 callVars, carrying>>

SendFails(h) ==
  /\ apc[h] = "send"
  /\ holding' = [holding EXCEPT ![h] = None]
  /\ apc' = [apc EXCEPT ![h] = "unregister"]
  /\ UNCHANGED <<poolVars, connVars, connId, sent, job, lost, unsent, victims,
                 callVars, carrying>>

-----------------------------------------------------------------------------
(* The deferred Unregister and Disconnect: critical sections               *)

\* The handler's own connection is still the registered one.
UnregisterCurrent(h) ==
  /\ apc[h] = "unregister"
  /\ conns[connId[h]] = h
  /\ conns' = [conns EXCEPT ![connId[h]] = None]
  /\ job' = [job EXCEPT ![h] = h]
  /\ lost' = lost \cup {h}
  /\ apc' = [apc EXCEPT ![h] = "close"]
  /\ UNCHANGED <<pending, connVars, connId, holding, sent, unsent, victims,
                 callVars, carrying>>

\* A newer connection took its place: only its unsent tasks will be failed.
UnregisterReplaced(h) ==
  /\ apc[h] = "unregister"
  /\ conns[connId[h]] \notin {h, None}
  /\ job' = [job EXCEPT ![h] = h]
  /\ apc' = [apc EXCEPT ![h] = "close"]
  /\ UNCHANGED <<poolVars, connVars, connId, holding, sent, lost, unsent,
                 victims, callVars, carrying>>

\* Nothing is registered under the id: return.
UnregisterGone(h) ==
  /\ apc[h] = "unregister"
  /\ conns[connId[h]] = None
  /\ apc' = [apc EXCEPT ![h] = "done"]
  /\ UNCHANGED <<poolVars, connVars, connId, holding, sent, job, lost, unsent,
                 victims, callVars, carrying>>

Disconnect(a, id) ==
  /\ apc[a] = "idle"
  /\ conns[id] # None
  /\ conns' = [conns EXCEPT ![id] = None]
  /\ job' = [job EXCEPT ![a] = conns[id]]
  /\ lost' = lost \cup {a}
  /\ apc' = [apc EXCEPT ![a] = "close"]
  /\ UNCHANGED <<pending, connVars, connId, holding, sent, unsent, victims,
                 callVars, carrying>>

\* Disconnect of an id that is not registered returns false.
DisconnectNothing(a, id) ==
  /\ apc[a] = "idle"
  /\ conns[id] = None
  /\ apc' = [apc EXCEPT ![a] = "done"]
  /\ UNCHANGED <<poolVars, connVars, connId, holding, sent, job, lost, unsent,
                 victims, callVars, carrying>>

-----------------------------------------------------------------------------
(* SendTask                                                                *)

\* The connection is read under RLock and kept.
SendTask(c, id) ==
  /\ cpc[c] = "idle"
  /\ owner' = [owner EXCEPT ![c] = id]
  /\ target' = [target EXCEPT ![c] = conns[id]]
  /\ IF conns[id] = None
       THEN /\ outcome' = [outcome EXCEPT ![c] = "notFound"]
            /\ cpc' = [cpc EXCEPT ![c] = "done"]
       ELSE /\ cpc' = [cpc EXCEPT ![c] = "enter"]
            /\ UNCHANGED outcome
  /\ UNCHANGED <<poolVars, connVars, agentVars, tid, ctx, resCh, errCh,
                 carrying>>

\* An id chosen by NewID (128 random bits) repeats no other id.
Fresh(t) == t \notin CallerIds /\ \A c \in Calls : tid[c] # t

\* Second critical section: the entry goes into the registry.
Enter(c, t) ==
  /\ cpc[c] = "enter"
  /\ t \in CallerIds \/ Fresh(t)
  /\ pending[t] = None
  /\ tid' = [tid EXCEPT ![c] = t]
  /\ pending' = [pending EXCEPT ![t] = c]
  /\ cpc' = [cpc EXCEPT ![c] = "post"]
  /\ UNCHANGED <<conns, connVars, agentVars, owner, target, ctx, resCh, errCh,
                 outcome, carrying>>

\* The id is already waiting: ErrTaskAlreadyPending, before the defer.
EnterRefused(c, t) ==
  /\ cpc[c] = "enter"
  /\ t \in CallerIds
  /\ pending[t] # None
  /\ outcome' = [outcome EXCEPT ![c] = "alreadyPending"]
  /\ cpc' = [cpc EXCEPT ![c] = "done"]
  /\ UNCHANGED <<poolVars, connVars, agentVars, owner, target, tid, ctx,
                 resCh, errCh, carrying>>

\* Post: select among the cases that are ready, in no order.
PostQueued(c) ==
  /\ cpc[c] = "post"
  /\ Len(queue[target[c]]) < QueueCap
  /\ queue' = [queue EXCEPT ![target[c]] = Append(@, c)]
  /\ cpc' = [cpc EXCEPT ![c] = "wait"]
  /\ UNCHANGED <<poolVars, closed, agentVars, owner, target, tid, ctx, resCh,
                 errCh, outcome, carrying>>

\* The call leaves Post or the final select with result o; the deferred
\* cleanup is still to run.
Leave(c, o) ==
  /\ outcome' = [outcome EXCEPT ![c] = o]
  /\ cpc' = [cpc EXCEPT ![c] = "cleanup"]

PostClosed(c) ==
  /\ cpc[c] = "post"
  /\ target[c] \in closed
  /\ Leave(c, "closed")
  /\ UNCHANGED <<poolVars, connVars, agentVars, owner, target, tid, ctx,
                 resCh, errCh, carrying>>

\* Post returns ctx.Err() itself, whichever context ended.
PostCtxDone(c) ==
  /\ cpc[c] = "post"
  /\ ctx[c] # "live"
  /\ Leave(c, "ctxErr")
  /\ UNCHANGED <<poolVars, connVars, agentVars, owner, target, tid, ctx,
                 resCh, errCh, carrying>>

\* The final select, again in no order.
WaitResult(c) ==
  /\ cpc[c] = "wait"
  /\ resCh[c] # None
  /\ resCh' = [resCh EXCEPT ![c] = None]
  /\ Leave(c, resCh[c])
  /\ UNCHANGED <<poolVars, connVars, agentVars, owner, target, tid, ctx,
                 errCh, carrying>>

WaitError(c) ==
  /\ cpc[c] = "wait"
  /\ errCh[c]
  /\ errCh' = [errCh EXCEPT ![c] = FALSE]
  /\ Leave(c, "closed")
  /\ UNCHANGED <<poolVars, connVars, agentVars, owner, target, tid, ctx,
                 resCh, carrying>>

\* STATUS_TIMEOUT only when the task timer ended the wait and the caller's
\* context is alive.
WaitCtxDone(c) ==
  /\ cpc[c] = "wait"
  /\ ctx[c] # "live"
  /\ Leave(c, IF ctx[c] = "expired" THEN "timeout" ELSE "ctxErr")
  /\ UNCHANGED <<poolVars, connVars, agentVars, owner, target, tid, ctx,
                 resCh, errCh, carrying>>

\* Mutant of Cleanup: whatever is under the id is removed.
CleanupAnyEntry(c) ==
  /\ cpc[c] = "cleanup"
  /\ pending' = [pending EXCEPT ![tid[c]] = None]
  /\ cpc' = [cpc EXCEPT ![c] = "done"]
  /\ UNCHANGED <<conns, connVars, agentVars, owner, target, tid, ctx, resCh,
                 errCh, outcome, carrying>>

\* The deferred removal of the call's own entry.
Cleanup(c) ==
  /\ cpc[c] = "cleanup"
  /\ pending' = [pending EXCEPT ![tid[c]] = IF @ = c THEN None ELSE @]
  /\ cpc' = [cpc EXCEPT ![c] = "done"]
  /\ UNCHANGED <<conns, connVars, agentVars, owner, target, tid, ctx, resCh,
                 errCh, outcome, carrying>>

\* Mutant of Expire: the timer starts after Post.
ExpireAfterPost(c) ==
  /\ c \in Timed
  /\ cpc[c] = "wait"
  /\ ctx[c] = "live"
  /\ ctx' = [ctx EXCEPT ![c] = "expired"]
  /\ UNCHANGED <<poolVars, connVars, agentVars, cpc, owner, target, tid, resCh,
                 errCh, outcome, carrying>>

\* context.WithTimeout of a task with TimeoutMs > 0.
Expire(c) ==
  /\ c \in Timed
  /\ cpc[c] \in {"post", "wait"}
  /\ ctx[c] = "live"
  /\ ctx' = [ctx EXCEPT ![c] = "expired"]
  /\ UNCHANGED <<poolVars, connVars, agentVars, cpc, owner, target, tid, resCh,
                 errCh, outcome, carrying>>

\* The caller's own context is cancelled, or reaches its deadline.
Cancel(c) ==
  /\ cpc[c] \in {"enter", "post", "wait"}
  /\ ctx[c] # "cancelled"
  /\ ctx' = [ctx EXCEPT ![c] = "cancelled"]
  /\ UNCHANGED <<poolVars, connVars, agentVars, cpc, owner, target, tid, resCh,
                 errCh, outcome, carrying>>

-----------------------------------------------------------------------------
(* SubmitResult                                                            *)

\* An assumption on the clients: a generated id (NewID, 128 random bits) is not
\* guessed, so that only a client that received its message can name it. An id
\* that a caller chose may be known to anybody, before it is used as well.
Known(t) ==
  t \in CallerIds \/ \E c \in Calls, h \in Handlers : tid[c] = t /\ c \in sent[h]

\* Mutant of HandleResult: the entry stays in the registry.
HandleResultKeeps(t, id) ==
  /\ Known(t)
  /\ pending[t] # None
  /\ owner[pending[t]] = id
  /\ carrying' = carrying \cup {[entry |-> pending[t], clientId |-> id]}
  /\ UNCHANGED <<poolVars, connVars, agentVars, callVars>>

\* Mutant of HandleResult: a result is taken whoever signed it.
HandleResultAnyone(t, id) ==
  /\ Known(t)
  /\ pending[t] # None
  /\ carrying' = carrying \cup {[entry |-> pending[t], clientId |-> id]}
  /\ pending' = [pending EXCEPT ![t] = None]
  /\ UNCHANGED <<conns, connVars, agentVars, callVars>>

\* HandleResult, critical section: a result for task id t, signed with
\* connection id, connected or not. It need not answer a message that went out:
\* all the registry knows is who owns the entry. Results signed by others and
\* results nobody waits for are answered without a change of state.
HandleResult(t, id) ==
  /\ Known(t)
  /\ pending[t] # None
  /\ owner[pending[t]] = id
  /\ carrying' = carrying \cup {[entry |-> pending[t], clientId |-> id]}
  /\ pending' = [pending EXCEPT ![t] = None]
  /\ UNCHANGED <<conns, connVars, agentVars, callVars>>

\* e.resCh <- res, outside the lock (buffer of one).
DeliverResult(r) ==
  /\ r \in carrying
  /\ resCh[r.entry] = None
  /\ resCh' = [resCh EXCEPT ![r.entry] = r.clientId]
  /\ carrying' = carrying \ {r}
  /\ UNCHANGED <<poolVars, connVars, agentVars, cpc, owner, target, tid, ctx,
                 errCh, outcome>>

-----------------------------------------------------------------------------
(* Specification                                                           *)

Closing(a) ==
  \/ CloseDone(a)
  \/ Drain(a)
  \/ Drained(a)
  \/ FailTask(a)
  \/ FailPendingClient(a)
  \/ \E c \in Calls : SignalVictim(a, c)
  \/ ClosingDone(a)

Handler(h) ==
  \/ Dequeue(h)
  \/ WriterClosed(h)
  \/ CheckDone(h)
  \/ UnregisterCurrent(h)
  \/ UnregisterReplaced(h)
  \/ UnregisterGone(h)

Call(c) ==
  \/ \E t \in TaskIds : Enter(c, t) \/ EnterRefused(c, t)
  \/ PostQueued(c)
  \/ PostClosed(c)
  \/ PostCtxDone(c)
  \/ WaitResult(c)
  \/ WaitError(c)
  \/ WaitCtxDone(c)
  \/ Cleanup(c)

\* A Send on the stream returns, with or without an error.
Transport(h) ==
  \/ AckSent(h)
  \/ AckFails(h)
  \/ Send(h)
  \/ SendFails(h)

\* What the network, the clients and the callers may do and need not.
Environment ==
  \/ \E h \in Handlers, id \in ConnIds : Register(h, id) \/ RegisterRefused(h, id)
  \/ \E h \in Handlers : StreamDone(h)
  \/ \E a \in Admins, id \in ConnIds : Disconnect(a, id) \/ DisconnectNothing(a, id)
  \/ \E c \in Calls, id \in ConnIds : SendTask(c, id)
  \/ \E t \in TaskIds, id \in ConnIds : HandleResult(t, id)
  \/ \E c \in Calls : Cancel(c)

Delivery == \E r \in carrying : DeliverResult(r)

\* Every stream, call and Disconnect of the instance has come to an end.
Terminated ==
  /\ \A a \in Agents : apc[a] \in {"rejected", "done"}
  /\ \A c \in Calls : cpc[c] = "done"
  /\ carrying = {}
  /\ UNCHANGED vars

Next ==
  \/ Environment
  \/ \E a \in Agents : Closing(a)
  \/ \E h \in Handlers : Handler(h) \/ Transport(h)
  \/ \E c \in Calls : Call(c) \/ Expire(c)
  \/ Delivery
  \/ Terminated

Spec == Init /\ [][Next]_vars

\* Goroutines of the server that can run do run, and timers fire. No fairness
\* for the environment: streams need not end, clients need not answer, and a
\* Send may be blocked by the flow control of the stream.
Fairness ==
  /\ \A a \in Agents : WF_vars(Closing(a))
  /\ \A h \in Handlers : WF_vars(Handler(h))
  /\ \A c \in Calls : WF_vars(Call(c)) /\ WF_vars(Expire(c))
  /\ WF_vars(Delivery)

FairSpec == Spec /\ Fairness

\* The clients read their streams and keepalive ends the dead ones, so that
\* every Send returns (NewGRPCServer, 80 s at most).
KeepaliveSpec == FairSpec /\ \A h \in Handlers : WF_vars(Transport(h))

-----------------------------------------------------------------------------
(* Type invariant                                                          *)

\* The results and failures in transit name calls and connection ids, queues
\* hold calls, control states are those of the code.
TypeOK ==
  /\ conns \in [ConnIds -> Handlers \cup {None}]
  /\ pending \in [TaskIds -> Calls \cup {None}]
  /\ closed \subseteq Handlers
  /\ queue \in [Handlers -> Seq(Calls)]
  /\ apc \in [Agents -> AgentStates]
  /\ connId \in [Handlers -> ConnIds \cup {None}]
  /\ holding \in [Handlers -> Calls \cup {None}]
  /\ sent \in [Handlers -> SUBSET Calls]
  /\ job \in [Agents -> Handlers \cup {None}]
  /\ lost \subseteq Agents
  /\ unsent \in [Agents -> Seq(Calls)]
  /\ victims \in [Agents -> SUBSET Calls]
  /\ cpc \in [Calls -> CallStates]
  /\ owner \in [Calls -> ConnIds \cup {None}]
  /\ target \in [Calls -> Handlers \cup {None}]
  /\ tid \in [Calls -> TaskIds \cup {None}]
  /\ ctx \in [Calls -> {"live", "expired", "cancelled"}]
  /\ resCh \in [Calls -> ConnIds \cup {None}]
  /\ errCh \in [Calls -> BOOLEAN]
  /\ outcome \in [Calls -> Outcomes \cup ConnIds]
  /\ carrying \subseteq [entry : Calls, clientId : ConnIds]

-----------------------------------------------------------------------------
(* Safety                                                                  *)

\* The places where a verdict on call c can be: the registry, a goroutine
\* that took the entry out of it, or a channel of the entry.
Waiting(c)    == \E t \in TaskIds : pending[t] = c
FailedBy(a, c) == c \in victims[a]
Answering(c)  == \E r \in carrying : r.entry = c
ErrReady(c)   == errCh[c]
ResReady(c)   == resCh[c] # None

\* A call gets at most one verdict: HandleResult, FailTask and
\* failPendingClient take an entry out of the registry under the lock, so at
\* any time it is in one place only and the sends on its channels, made
\* outside the lock, never block (pending.go, HandleResult ff.).
OneVerdict ==
  \A c \in Calls :
    /\ Waiting(c) => ~Answering(c) /\ ~ErrReady(c) /\ ~ResReady(c)
    /\ Answering(c) => ~ErrReady(c) /\ ~ResReady(c)
    /\ ErrReady(c) => ~ResReady(c)
    /\ \A a \in Agents : FailedBy(a, c) =>
         /\ ~Waiting(c) /\ ~Answering(c) /\ ~ErrReady(c) /\ ~ResReady(c)
         /\ \A b \in Agents \ {a} : ~FailedBy(b, c)
    /\ \A r, s \in carrying : r.entry = c /\ s.entry = c => r = s

\* No user ever has more than MAX_CONNECTIONS registered connections, however
\* registrations, replacements and losses interleave (Register).
ConnectionLimit ==
  MaxConnections > 0 =>
    \A u \in Users :
      Cardinality({id \in ConnIds : UserOf[id] = u /\ conns[id] # None})
        <= MaxConnections

\* A registered connection is open, is registered under the id of its own
\* handler, and that handler still runs: no handler ends, or replaced
\* connection closes, leaving itself registered (Register, Unregister).
NoGhostRegistration ==
  \A id \in ConnIds : conns[id] # None =>
    LET h == conns[id] IN
      /\ connId[h] = id
      /\ h \notin closed
      /\ \/ apc[h] \in {"ack", "loop", "check", "send", "unregister"}
         \/ apc[h] \in {"close", "drain", "fail"} /\ job[h] # h

\* The registry of waiting tasks holds no entry of a call that returned, and
\* each entry under the call's own id: the deferred removal deletes the
\* call's own entry and no later attempt's (SendTask).
NoLeakedEntry ==
  \A t \in TaskIds : pending[t] # None =>
    /\ tid[pending[t]] = t
    /\ cpc[pending[t]] \in {"post", "wait", "cleanup"}

\* A call returns a result only if it is signed with the connection id the call
\* was addressed to, whatever clients submit and whenever; and if its task id was
\* generated (see Known), only after its message was sent on a stream of that id
\* (HandleResult, the owner of a pendingEntry).
ResultOnlyFromAddressee ==
  \A c \in Calls : outcome[c] \in ConnIds =>
    /\ outcome[c] = owner[c]
    /\ tid[c] \notin CallerIds =>
         \E h \in Handlers : connId[h] = owner[c] /\ c \in sent[h]

\* A task already sent, with a generated id, survives the replacement of its
\* connection: its call fails only if a connection of its id was lost, not
\* merely replaced (Register, Unregister: "sent tasks may still deliver their
\* result").
SentOutlivesReplacement ==
  \A c \in Calls :
    outcome[c] = "closed" /\ tid[c] \notin CallerIds /\ (\E h \in Handlers : c \in sent[h]) =>
      \E a \in lost : connId[job[a]] = owner[c]

-----------------------------------------------------------------------------
(* Action properties                                                       *)

\* A client that reconnects is never refused because of its own old
\* registration (Register: a replaced registration does not count).
ReconnectNotRefused ==
  [][\A h \in Handlers :
       apc[h] # "rejected" /\ apc'[h] = "rejected" => conns[connId'[h]] = None]_vars

\* An entry leaves the registry with a verdict for its call, or by the hand of
\* the call itself: no other call, not even one that had the same task id
\* before, removes it (SendTask, deferred removal; FailTask, HandleResult).
EntryLeavesWithVerdict ==
  [][\A t \in TaskIds :
       pending[t] # None /\ pending'[t] # pending[t] =>
         \/ cpc[pending[t]] = "cleanup"
         \/ \E a \in Agents : pending[t] \in victims'[a]
         \/ \E r \in carrying' : r.entry = pending[t]]_vars

\* A message still in the queue when its connection is closed is never sent:
\* the writer looks at Done once more after taking it (Connect).
QueuedAtCloseNeverSent ==
  \A h \in Handlers, c \in Calls :
    [](h \in closed /\ (\E i \in DOMAIN queue[h] : queue[h][i] = c)
         => [](c \notin sent[h]))

-----------------------------------------------------------------------------
(* Refinement                                                              *)

\* Where the message of a call is.
Travelling(c) == \E h \in Handlers : holding[h] = c \/ \E i \in DOMAIN queue[h] : queue[h][i] = c
SentOn(c)     == \E h \in Handlers : connId[h] = owner[c] /\ c \in sent[h]
MessageOf(c)  ==
  IF cpc[c] \in {"idle", "enter", "post"} THEN "none"
  ELSE IF Travelling(c) THEN "queued"
  ELSE IF SentOn(c) THEN "sent" ELSE "gone"

Messages == [c \in Calls |-> MessageOf(c)]
LostIds  == {connId[job[a]] : a \in lost}

Promise == INSTANCE TaskCall
  WITH addressee <- owner, id <- tid, message <- Messages, verdict <- outcome, lost <- LostIds

\* The pool keeps what SendTask promises: a task goes out once, to its addressee,
\* or not at all; a call ends once, with a result only of its addressee's
\* signature and, if its id was generated, of a task that went out, and with a
\* failure only after a loss, or if a task of its id will never go out, whatever
\* streams, callers and clients do meanwhile, but for guessing a generated id
\* (SendTask, HandleResult, FailTask, failPendingClient).
ImplementsTaskCall == Promise!Spec

-----------------------------------------------------------------------------
(* Liveness, under FairSpec                                                *)

\* A call with a task timeout returns, even if the queue is full and the
\* client never answers (SendTask: the timeout covers Post as well).
TimedCallReturns ==
  \A c \in Timed : cpc[c] # "idle" ~> cpc[c] = "done"

\* A call whose message Close drained from a queue returns, with or without
\* a timeout (failUnsent).
DrainedCallReturns ==
  \A c \in Calls :
    (\E a \in Agents, i \in 1..QueueCap : i \in DOMAIN unsent[a] /\ unsent[a][i] = c)
      ~> cpc[c] = "done"

\* A call that is in the registry when the loss of a connection of its id
\* comes to failPendingClient returns, with or without a timeout.
RegisteredCallReturnsOnLoss ==
  \A c \in Calls :
    (Waiting(c) /\ \E a \in lost :
        apc[a] = "failPending" /\ connId[job[a]] = owner[c])
      ~> cpc[c] = "done"

-----------------------------------------------------------------------------
(* What the comments of the code say and the code does not do              *)

\* pending.go, SendTask: "the loss of the client's connection ends the wait
\* with ErrConnectionClosed, whether or not the message went out". A call is
\* cut off when every connection its id ever had is closed.
CutOff(c) ==
  /\ cpc[c] = "wait"
  /\ \A h \in Handlers : connId[h] = owner[c] => h \in closed

LossEndsWait == \A c \in Calls : CutOff(c) ~> cpc[c] = "done"

\* server.go, Connect: a message found in hand after the close is not sent,
\* "the wait for the tasks will be ended by the pool".
DroppedMessageEndsWait ==
  \A c \in Calls :
    (\E h \in closed : apc[h] = "check" /\ holding[h] = c) ~> cpc[c] = "done"

=============================================================================
