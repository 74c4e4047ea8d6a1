# A verification of akira-mcp in TLA+

akira-mcp lets an MCP client (a language model's host) run shell and file tasks
on a user's machine. This directory holds a formal model of the program:
TLA+ modules translated from the code, TLC configurations that check them on
small instances, and TLAPS proofs for every value of the constants.

`PROJECT.json` maps every definition to the source lines it models and lists
runs, mutants, findings, hazards and theorems.

    tlc -workers 2 -config MCPool.cfg MCConnectionPool
    tlapm ConnectionPoolProofs.tla

## 1. The system

| Component | Source | State it keeps | Operations |
|---|---|---|---|
| Connection pool | `internal/akira-server/connection/pool`, `.../client` | maps of connections and infos, registry `pending` of waiting tasks (one RWMutex); per connection an `out` channel of 16, a `done` channel | Register, Unregister, Disconnect, SendTask, HandleResult, FailTask, reads |
| Connection server | `internal/akira-server/connection/server` | none of its own; one goroutine per stream is its only writer | Connect (stream), SubmitResult, Heartbeat |
| akira-client | `internal/akira-client/connection` | outbox of results, wake-up channel, connection id of the last ack | Run, runSession, runTask, push, submitLoop |
| Executor | `internal/akira-client/executor` | none of its own; the machine's files | exec, read, write, edit, glob, list |
| MCP tools | `internal/akira-server/mcp/tools.go` | none | a handler per tool: limits, dispatch → SendTask, the text of the answer |
| Token validation | `internal/akira-server/mcp/auth.go` | JWKS cache, time of the last forced refresh, a mutex | Validate, refreshKeySet |
| auth service | `internal/auth/httpapi` | signing key in memory | register, verify, resend, me, connect key, token grants, revoke, OAuth |
| Auth store | `internal/auth/store/{memory,postgres}` | users, verification codes, refresh tokens, OAuth clients and codes | atomic operations |
| Frontend | `internal/auth/httpapi/web/assets/app.js` | token pair in localStorage, one promise and its requests per tab | rotation, logout, authorized requests, routes |
| Command lines | `cmd/*` | – | wiring; bootstrap of a user at start |

How they interact: an MCP tool call validates its token and calls
`SendTask`, which queues a message on the client's connection and blocks. The
`Connect` goroutine of that connection takes it from the queue and sends it on
the gRPC stream. The client runs the task in a goroutine, pushes the result to
its outbox, and `submitLoop` delivers it with the unary `SubmitResult`, which
finds the waiting call in `pending`. A client that connects under an id that is
registered replaces the old connection. The client is admitted by the
`connect_key` of an account of the auth service. The validator fetches the auth
service's key set; the frontend holds the auth service's token pairs.

What is hard here, and cannot be reached by the tests beside the code: the pool
decides under a mutex and acts (closing, draining, sending on channels) after
unlocking it; Go's `select` picks among ready cases at random; a connection is
looked up and used later; results and failures are matched by ids; streams,
requests and answers are lost; HTTP handlers make several store calls with
other handlers in between; the key of the auth service lives as long as its
process, and its cached copy longer; tabs of a browser share a pair that can be
rotated once; tasks change the same files side by side. `PROJECT.json` lists each
such place under `hazards`.

## 2. Modules

| Module | What it is |
|---|---|
| `TaskCall` | Abstract: what SendTask promises a caller, without connections and queues |
| `ConnectionPool` | The pool, the Connect handlers, Close, SendTask, Disconnect and SubmitResult; implements `TaskCall` |
| `ConnectionPoolProofs` | Its inductive invariant and theorems: verdicts, registrations, the limit; where a message is and where the verdict on it comes from; the refinement of `TaskCall` |
| `ClientOutbox` | The client's Run loop, task goroutines, outbox and submitLoop over a lossy network |
| `ClientOutboxProofs` | Its inductive invariant and theorems |
| `ClientTools` | The six tools end to end: server handlers, executor, one file and a tree that others change |
| `ClientTextProofs` | Lemmas on its loops over texts of any length: lines of a read, replacements of an edit |
| `ClientToolsProofs` | Its inductive invariant and theorems: complete answers of walks, windows of reads, quiet writes |
| `GlobPatterns` | Brace expansion and matching of patterns, and what they mean (the reference) |
| `RefreshSessions` | Abstract: sessions that keep their user and stay over |
| `AuthTokens` | Password, refresh and code grants, revocation, OAuth clients and codes over the store; implements `RefreshSessions` |
| `AuthTokensProofs` | Its inductive invariant, theorems and the refinement |
| `AuthAccounts` | Registration, verification, resend, connect keys, the bootstrap of `cmd/auth` |
| `AuthAccountsProofs` | Its inductive invariant and theorems |
| `TokenValidator` | Validation of tokens with a cached key set, against restarts of the auth service |
| `TokenValidatorProofs` | Its inductive invariant and theorems |
| `FrontendSession` | The token pair of a browser, the tabs' requests, rotations, sign-ins and screens |
| `FrontendSessionProofs` | Its inductive invariant and theorems |
| `MC…` | Constants, cases and symmetry of the instances of each |

Operators introduced by a comment "Mutant of X" are plausible bugs of X; no
specification uses them. They show that a property would notice the bug.

### 2.1 ConnectionPool

Granularity: one action is one critical section of `ConnectionPool.mu`, one
channel operation or one `stream.Send`. Between any two of them every other
goroutine may run, which is what Go's scheduler allows.

| Code | Actions |
|---|---|
| `Register` | `Register`, `RegisterRefused`, then for a replaced connection `CloseDone`, `Drain`\*, `Drained`, `FailTask`/`SignalVictim`\*, `ClosingDone` |
| `Unregister` | `UnregisterCurrent`, `UnregisterReplaced`, `UnregisterGone` and the same closing steps, with `FailPendingClient` |
| `Disconnect` | `Disconnect`, `DisconnectNothing` and the closing steps |
| `Connect` | `AckSent`, `AckFails`, `Dequeue`, `CheckDone`, `Send`, `SendFails`, `WriterClosed`, `StreamDone` |
| `SendTask`, `Post` | `SendTask` (lookup), `Enter`/`EnterRefused`, `PostQueued`/`PostClosed`/`PostCtxDone`, `WaitResult`/`WaitError`/`WaitCtxDone`, `Cleanup`; `Expire` and `Cancel` are the contexts |
| `HandleResult`, `SubmitResult` | `HandleResult` (critical section), `DeliverResult` (channel send) |

A `ClientConnection` is named by the stream that registered it, a message and a
`pendingEntry` by the call that made it. `conns` stands for the maps `conns` and
`infos`, which every critical section writes together. `victims`, `unsent` and
`carrying` are the local variables of goroutines that work after the unlock.

Abstracted: payloads, timestamps, log lines, the fields of the messages that
SubmitResult validates, Heartbeat (no state), the read-only queries.
`Environment` is what networks, clients and callers may do and need not.

Clients may submit results under any task id and signature at any time, also for a message that is
still in the queue: `HandleResult` in the code looks at the registry and the owner of the entry, at
nothing else. The one assumption on clients is `Known`: an id that `NewID` generated, 128 random bits,
is not guessed, so that it is named only after its message went out. Ids that callers choose are known
to everybody. `outcome` of a call that returned a result is the `client_id` that signed it.

`TaskCall` knows no connections, queues or registry: a call has an addressee, an id, a
message and a verdict, and ids are lost. A message goes out once or never will (`Settle`); a call
ends once (`End`), with a result only of its addressee, and of a task that went out unless a
caller chose the id (`Result`), with a failure only after a loss under its addressee's id, or if a task of its id will never go out
(`Closed`), with `STATUS_TIMEOUT` only of its own timer and after queueing (`TimedOut`). In the
mapping a message is "queued" in a queue or in a writer's hand, "sent" on a stream of the call's
id, and "gone" nowhere (`MessageOf`); the ids lost are those of the connections that Unregister
or Disconnect took out of the map (`LostIds`). The mapping hides who takes an entry out of
`pending` and when, and the two drops of section 5: a message may go and its call wait on.

### 2.2 ClientOutbox

`run` is the control state of `Run` with `runSession`, `task[t]` that of the
goroutine of a task, `loop` that of `submitLoop`; `queue`, `closed`, `notify` are the
outbox. `RequestArrives` is the server handling a SubmitResult and `AnswerArrives`
the client learning it, so that an answer can be lost in between (`CallFails`)
and the retry deliver the result twice. `CallRefused` is `permanentSubmitError`.

### 2.3 AuthTokens and RefreshSessions

A request is an HTTP request and the goroutine that handles it. `GrantPassword`,
`GrantRefresh`, `HandleRevoke`, `HandleOAuthRegister`, `AuthorizeConfirm` and
`GrantAuthorizationCode` are its arrival, up to the first call of the store that matters.
Then each call of the store is one action:

| Store call | Actions |
|---|---|
| `SaveRefresh` (in `issuePair`) | `Issue` |
| `RotateRefresh` | `Rotate`, `RotateNotFound` |
| `RevokeRefresh` | `Revoke` |
| `SaveOAuthClient`, `SaveOAuthCode` | the same names |
| `ConsumeOAuthCode` | `Consume`, `ConsumeNotFound`, `ConsumeUnknown`; then `Match` or `Mismatch` compare what was taken |

A call is atomic in both stores: the in-memory one holds its lock, and Postgres
runs one statement, or a transaction whose first statement takes the row
(`DELETE … RETURNING`), so that a second one finds it gone. `CallReturns` says how a
call that took effect comes back: from Postgres also as an error, because the
connection or the request's context may end while the commit is under way.
`StoreFails` is a call without effect, `Lose` a lost answer, `Restart` a restart of the
service (`purgeExpired`, or an empty memory).

`chain` is history: the first token of the session a token belongs to. A token,
code or client id is 32 random bytes or more and is drawn once (`Fresh`). `Told` is
what answers have told the world: only that is presented later.

`RefreshSessions` knows no tokens. The mapping names a session by its first token;
it is over when no valid token of its chain is stored. `Issue` is `Login`, `Rotate` is
invisible, and whatever takes tokens away is `End` of the sessions they were the last of.

### 2.4 AuthAccounts

The same granularity. `Register`, `Resend`, `Verify` and `Regenerate` are the arrival
with the first store call of the handler; `MailSent` and `MailFails` are the mail,
`SaveEmailVerification`, `Complete…` and `SetConnectKey` the later calls. The branches of
`CompleteEmailVerification` are `CompleteNotFound`, `CompleteWrongCode`, `CompleteClash`
and `Complete`. Codes and keys may be drawn twice (they are short), which is what the
retry loops are for. `owner` is what `GetUserByConnectKey` finds: the index
`byKey` of the in-memory store, the column in Postgres.

`Start`, `BootCreate`, `BootEnsure`, `BootVerify` and `BootAssign` are `cmd/auth` before it
serves; `Crash` may come between any two of them and `Start` may leave the bootstrap
variables unset. A fatal error is `service' = "off"`.

### 2.5 TokenValidator

A request is an HTTP request to the MCP endpoint and its goroutine. `FirstParse` and
`SecondParse` are the two `jwt.Parse`, `RefreshSkipped` and `RefreshStarts` the lock of
`refreshMu` with the look at `lastRefresh`, `RefreshEnds` its unlock. `window` counts down
the interval (`Tick`); the time of the last forced fetch is kept a second time as
history (`since`), because `lastRefresh` is what could be wrong. The jwx cache is
external: it holds one set, fetches it now and then by itself (`CacheFetches`),
and may store an answer late (`CacheStores`), also one that nobody waits for any more
(`ClientGone`). `AuthStop` and `AuthStart` are restarts of the auth service, whose key dies
with the process.

### 2.6 FrontendSession

One action is one run of a JavaScript callback. `store` is the pair in localStorage,
`rotation[t]` the promise `refreshing` of a tab with its POST /token, `call[t]` the tab's
authorized requests (`request`), `signIn[t]` the answer to a form. A refusal stays true
once it is, so its answer and the callback that handles it are one action;
an answer that carries a new pair is on its way while others run. `hash` and
`screen` are what routing works with: a change of location.hash is handled by a later
callback, a hash that is set to what it is does nothing. A reload forgets the
callbacks of a tab and keeps the pair.

Abstracted: the service is what a tab sees of `AuthTokens`; the forms are one screen under
one hash; a tab has one sign-in and one call per kind under way; the expiry time in the
pair and the OAuth screen are left out.

### 2.7 ClientTools and GlobPatterns

A call goes through the handler and `dispatch` (`Call`), the task through the executor
(`ReadTask`, `WriteTask`, `EditTask`, `ExecTask`, `GlobTask`, `ListTask`), the answer through the
handler again (`Answer`). What lies between, the pool and the outbox, is a task that is
sent, run at most once, and answered or lost (`WaitLost`). Two tasks run side by
side: `os.WriteFile` is `OpenFile`, which empties the file, and `WriteFile`, which writes all or a
part over what is there by then; an edit reads in `EditTask` and writes later.
`filepath.WalkDir` is `Visit`, an entry at a time, while `Change` makes, removes, closes and
replaces entries. `ClientCrash` may come at any time; `GlobOverflows` is a crash the program
makes itself (section 5).

A text is a sequence of characters, so that windows, byte limits, edits and
their answers are computed, not assumed. A walk keeps the entries it has still to look at as a
set and takes the one that comes `Before` all others: the files of a directory by name, each
directory before what is in it. What a pattern expands to and matches are constants of
`ClientTools` (`Expansion`, `MatchesAny`), to which `MCClientTools` gives the operators of
`GlobPatterns`: those are recursive, which the prover does not take. `GlobPatterns` has
`expandBraces` (`Expand`) and `matchSegments` as they run, and next to them what a pattern means: it is written (`Written`)
from a syntax tree whose `Meaning` is defined by recursion on the tree.

Abstracted: a read of a file is atomic; names contain no newline, so that the footer of a listing,
for which the code counts the newlines of the text, counts entries; parent directories exist; no symbolic links,
no permissions but unreadable directories; a command is its output and exit code;
`path.Match` knows `*`, `?` and `\`.

## 3. Runs

| Run | Instance | Shows |
|---|---|---|
| `pool` | 1 user with limit 1, 2 ids, 2 streams, 2 calls, one generated and one caller-supplied task id, queue 1, one call cancelled at most, with the id its caller chose | `ConnectionPool` implements `TaskCall`: a task goes out once or never, a result only of the addressee, whoever signs what and when, failure only with cause; one verdict per call, limit, no ghost registration; a late verdict or cleanup of one attempt keeps the registry sound |
| `pool_live` | queue 1, a Send that may block for ever | a timed call returns |
| `pool_untimed` | 2 streams, a Disconnect, an untimed call | which losses end a wait; nothing queued at the close is sent |
| `outbox` | 3 tasks | no lost wake-up, nothing lost in silence, and every pushed result is delivered at last |
| `tokens` | 2 users, 2 clients, 3 tokens, 1 code, 4 requests, Postgres | one winner per token and code, only the confirmed client gets its user's tokens, no answered token vanishes by another's doing; `AuthTokens` implements `RefreshSessions` |
| `accounts` | 2 names and emails, 2 codes, 2 keys, 2 attempts; in memory with 4 requests, Postgres with the operator's bootstrap and 3 | attempts are bounded and one completes, only mailed codes are stored, a key finds its one owner, a service that comes up serves the operator's own account |
| `validator` | 2 requests, an interval of 2 ticks, 2 keys, 1 fault | forced fetches are an interval apart; an undisturbed refresh admits all who waited for it; if auth stays up its tokens are accepted again and again |
| `frontend` | 2 tabs, 2 pairs, 1 fault | the stored pair is good, none is presented twice by a tab, a quiet logout stays, the spinner gives way |
| `tools` | 2 calls in turn or side by side on 6 texts; walks of every small tree, with a change; some 1600 patterns, those of three nodes without a base to walk; 1 fault | a read shows its window under true numbers; a write or edit nobody overlapped leaves what it should; expansions are those of the reference; a listing lacks nothing it does not admit |
| `pool_loss_ends_wait`, `pool_dropped_message`, `accounts_verify` | smallest instance | the disagreements of section 5 |

Why the bounds are enough: the interesting races of the pool are between one
call, the loss of its connection and the replacing connection, so two streams
for one id and a second call to share the registry or the queue with reach each
of them; one Disconnect is in the untimed run. One cancelled call races with everything the
other does, and with its streams; it is one with a chosen id, which the other call may use again. A
cancellation that comes too late to be noticed is cut off, since the context is not read any more; `pool_live`
cancels freely. The limit needs a second id of the
same user, interchangeable with the first. A queue of one is full after one message, where the code's 16
needs seventeen.

For the auth service, a property concerns one token, code or key and the
requests that compete for it: two competitors, the one who created it and one
bystander are four requests; with the bootstrap user there from the start, three. The run of
`AuthTokens` is that of Postgres, which has every behaviour of the in-memory
store but its sweep and its empty start; the theorems hold for both. Two attempts per code and two per key stand for 5
and 8: the counter is compared at its limit all the same. Requests, tokens,
codes, clients, names and emails are interchangeable (symmetry).

For the validator, two requests are the one that fetches and the one that waits; two
keys, a restart. For the
frontend, two pairs are one that is signed in for and its rotation, or two sign-ins; the
theorems hold for any number of pairs, tabs and faults. For the tools, texts have up to
six characters with a byte limit of 3, a default of 2 lines and at most 2 results, so that
every limit is met, missed by one and exceeded; a pattern is expanded before the base is looked
at, so the longest are expanded and matched where there is none; of the names `a`, `ab`, `b`, one is the beginning
of another.

Fairness. `FairSpec` of the pool assumes that a goroutine that can run does run, and that
timers fire (`WF` on each goroutine's steps; Go's scheduler and runtime give
that). It assumes nothing of callers, clients and networks, nor that a `Send`
returns: flow control may block it. `KeepaliveSpec` adds that a `Send` returns,
with success or an error: akira-client always reads its stream, and the server's
keepalive (60 s and 20 s, `NewGRPCServer`) ends a dead one. `pool_untimed` and
two of the findings use it. For the outbox, `WF` on the goroutines and `SF` on
`RequestArrives` and `AnswerArrives`: a network that is tried again and again
delivers at last; without it nothing can be promised. For the validator, `WF` on the
goroutines, on time and on the fate of late answers; `SF` on the lock, since
`sync.Mutex` hands over to a waiter that starves; and `SF` on clients that come back with a token of
the current key, since the property is about what they get. For the frontend, `WF` on the
callbacks: a fetch ends, with an answer or an error. Nothing is assumed of the user.

`pool_untimed` does not check deadlock: a call without timeout on a silent connection
waits forever, as the code says. Nor do `frontend` and `tools`, whose bounded inputs come to an
end.

## 4. Proofs

`ConnectionPoolProofs` proves, for all sets of users, ids, streams, calls and
task ids and for every queue capacity and limit satisfying `PoolAssumption`:
TypeOK, OneVerdict, NoLeakedEntry, EntryLeavesWithVerdict, NoGhostRegistration,
ConnectionLimit, ReconnectNotRefused. The invariants are not inductive: what
makes `OneVerdict` true is where an entry can be relative to the control state of
its call, to the local variables of the goroutines that took it out of the
registry and to the queue. The inductive invariant relates these places; one step
per action shows it is kept. `ConnectionLimit` needs that `Full` is decided and
the entry written in the same critical section and facts on cardinalities.

It goes on to ResultOnlyFromAddressee, SentOutlivesReplacement,
QueuedAtCloseNeverSent, and that `Spec` implies `TaskCall!Spec` under the mapping. Two more parts
make the invariant inductive. A message is in one place of one connection, that of its call's
target (`OnePlace`), a target was registered under the call's id (`Addressed`), and what Close
drained is with no connection (`DrainedIsGone`). A result, on its way or returned, is
signed by the owner of the call (`ResultsSigned`), by the check of HandleResult; and its message
was sent if the id was generated (`ResultsSent`), since then only a client that got the message
knows the id (`Known`). A failure comes of a loss, which nobody takes back (`LossIsFinal`), or of a task of the same id that
was never sent and is with no connection (`FailuresLost`): drained, or refused by a connection
closed before it was posted. `ResultsSigned` and `FailuresLost` hold for ids that callers choose and
use again; a generated id belongs to one call (`UniqueIds`), whence the first two properties. For the third, a message
that is queued at the close is `Doomed`: its writer, should it take it, has still to look at Done.

For the refinement, `MessageFacts` says by the places a message can be in what the mapping makes of
it. `SettleRefines`, `EndRefines` and `StutterRefines` are the three kinds of steps; a lemma per
group of actions brings it to one of them, and the promise's reasons come from the invariant: a
result's from `ResultsSigned` and `ResultsSent`, a failure's from `FailuresLost`, a timeout's from the call having a
timer (`Beginnings`). That a message taken is with nobody else needs that a writer that takes one
has its hand free (`FreeHands`).

`ClientOutboxProofs` proves TypeOK, NoLostWakeup, KeptUntilHandled,
NothingLostInSilence, OnlyHeadAccepted and AlwaysSigned for any set of tasks. The
inductive invariant says which task goroutines stand between append and wake, and that
the head the loop holds is the head of the queue.

`AuthTokensProofs` proves, for any number of users, tokens, codes, clients and requests
and for both stores: TypeOK, OneTokenPerSession, OneWinner, GrantMatchesConfirm, and
that `Spec` implies `RefreshSessions!Spec` under the mapping. From `TokensAssumption`
(kinds of values are distinct) alone. The inductive invariant adds: what was never drawn
is not in the store (`FreshIsNew`) and what a request presents was drawn
(`ArgDrawn`), so that a spent token cannot be drawn again and reappear; what a
request has won is gone from the store (`WonIsGone`), from which one winner follows; a
chain begins with its own name (`ChainRoots`); codes, taken records and grants
come from a confirmation (`CodeOrigin`). Each part has a lemma with one step per
action. For the refinement, `MapFacts` says in terms of the store what the mapping
yields, without its CHOOSE; `EndStep`, `IssueRefines` and `RotateRefines` are the three kinds
of steps.

AnsweredTokenIsKept needs that a token leaves the store only by the call that answers for it:
who presents a token and has got past that call stays so (`SpentStays`), expiry is not
taken back (`ExpiredStays`), and a token is answered while it is stored (`AnswerStep`).

`AuthAccountsProofs` proves TypeOK, AttemptsBounded, StoredCodeWasMailed, KeyFindsOwner and
BootstrapServesOwn for any number of names, emails, codes, keys and requests, any limits, both
stores and every setup of the bootstrap, from `AccountsAssumption` and `SetupsAssumption` (kinds of
values are distinct, None is none of them). The inductive invariant adds: an active code was stored
by the request that drew it, once, for the user it is stored under, and mailed before if it is
a resend (`CodeOrigin`); every wrong entry and the one that completes are in its counter (`HitsCounted`; a right entry whose
drawn key is taken is not, as in the code), so the limit in `CompleteEmailVerification` bounds them all
and not only those since its last read; and what the
start has reached (`BootReached`) stays true, since no step takes a record, a mark or a key
away (`KeptStep`). A key is assigned to who gets it and taken from nobody
(`AssignKeepsKeys`).

`TokenValidatorProofs` proves TypeOK, FetchesSpaced and QuietRefreshAccepts for any number of
requests and keys and any interval. The inductive invariant adds: the code's clock agrees
with the history (`WindowMeasures`: while `lastRefresh` is young, the last fetch is); the fetch
of an undisturbed request has been answered with the running service's key
(`CleanFetch`); and an undisturbed request that comes too late to fetch finds that key in the
cache, or waits for the one who fetches it (`CleanRequest`).

`FrontendSessionProofs` proves TypeOK, StoredPairUsable, QuietLogoutStays and PresentedOnce for any
number of tabs, pairs and faults. A pair on its way to a tab is good and neither
stored nor presented yet (`ComingIsNew`), and on one way only (`ComingOnce`), so what is stored has
not been presented unless a rotation of it is under way (`PresentedWaits`), which is why
no tab can present it twice; what is stored or presented was issued (`Known`), so a new pair is
none of them; and a quiet logout leaves nothing on its way (`QuietIsQuiet`).

`ClientToolsProofs` proves TypeOK, AnswerComplete, ReadShowsWindow and QuietWriteExact for any number
of calls, any requests, texts, tree, names, depths and limits, and whatever patterns expand to and
match: from `PathsAssumption` (paths are finite in number and made of distinct names, and with a path
there are those above it), `CasesAssumption` and `LimitsAssumption`. AnswerComplete is about what the
executor does not keep: beyond the limit a walk only counts. So the inductive invariant says
there is a set of paths (`WalkOK`), as many as the total, whose first ones in order are
the entries kept (`Listing`). All of them come before what is still to be looked at, and what
lasted all the time is in the set or at or below an entry still to be looked at (`Ahead`). An
entry seen as a file when its parent was read may be a directory by now, but then nothing below it
lasted: whatever has something below it is a directory. `VisitFinds` is one step of that
argument, `ListingAnswers` its end.

For ReadShowsWindow and QuietWriteExact two invariants say what a task holds between its steps: the
result of a read, and the answer relayed from it, are those of the text the read found (`ReadInv`);
what a write or an edit is to write is a text, the replacement in the text it read if it is an edit
(`TextInv`), it is unchanged while the task is quiet, and the file it has emptied is
empty still (`QuietInv`), since another writer that opens it or writes ends the quiet. The rest is
about loops, and is in `ClientTextProofs`:

- `WindowShown`: `readTask` takes the text line by line, counts all of them and keeps what fits
  in the bytes an answer may have, and `readTool` splits what was kept at its newlines. The
  answer shows the lines asked for with their numbers, whole except perhaps the last. The argument: after n
  lines what is kept is one block of the text that begins at line `offset` and ends behind line n or
  where the bytes ran out (`WindowBegins`, `WindowStays`, `WindowGrows`); the lines of such a block
  are lines of the text, but for a last one cut short (`PieceLines`); and the k-th line is `LineText`,
  which is defined without the loop (`LineTextIs`).
- `EditIsReplaced`: the scan that finds the occurrences of the old text, and the copy between
  them, make the text that `EditOf` defines by recursion. The scan finds the least place not
  overlapped by the one before (`ScanFinds`, `FoundInOrder`), which is the place `EditOf` chooses,
  and the copies so far followed by `EditOf` of the rest stay the same text (`JoinStep`).

Both are inductions along a fold. The provers cannot instantiate the library's induction theorems,
which have operators as parameters, so `Induction` states it of a set of numbers, from the
least element of its complement (`WFMin`). A `FoldLeft` and a recursive function are each a CHOOSE, of
which nothing is known until such a function is shown to exist: `FoldExists`, `RestExists`.

NoLeakedEntry, ReconnectNotRefused, ResultOnlyFromAddressee, OnlyHeadAccepted, AlwaysSigned and OneTokenPerSession are
proved and no longer part of a run: for these the theorem is the check.

Only model-checked: everything about liveness (out of the prover's reach, as is ENABLED), that is
`TimedCallReturns`, `DrainedCallReturns`, `RegisteredCallReturnsOnLoss`, `EventuallyHandled`,
`CurrentTokenAccepted` and `SpinnerGoes`; and ExpandsAsMeant with all of `GlobPatterns`, whose
expansion and matching are RECURSIVE operators on nested patterns, in the code and in the reference, which
the prover cannot take. The theorems of `ClientTools` hold for any `Expansion` and `MatchesAny`.

## 5. Findings

1. `pool_loss_ends_wait`: a task posted to a connection that was closed and
   drained since `SendTask` looked it up is answered by nobody; without a
   timeout the call waits forever.
2. `pool_dropped_message`: a message in the writer's hand when its connection is
   replaced is dropped, and no branch of `Unregister` fails its call.
3. `accounts_verify`: when all eight drawn connect keys collide, the loop loses the
   error and `/verify` answers with tokens for an unverified user.

The models also have behaviours that a comment or a document describes otherwise
and for which no run is kept. The properties above are stated so that they say what
does hold.

- `failPendingClient` runs after the lock was released and matches by connection id, so
  it can fail tasks of the client's next connection.
- A task timer that fires during `Post` gives a context error instead of `STATUS_TIMEOUT`.
- A revocation with a token rotated before leaves its session alive; a rotation whose
  commit comes back as an error has spent the old token.
- Resend mails a code to an address verified since it looked; the in-memory store keeps the
  first key of a user verified twice.
- After a restart of the auth service its tokens are refused until the validator may fetch
  again, and tokens of the old key are accepted until then (docs/auth-flow.md:64 says that a restart
  makes them invalid).
- A rotation refused in one tab clears the pair that another tab has stored meanwhile
  (app.js:84-86: "the old pair is no longer valid").
- A dashboard drawn under "#/login" ("try again" on an error screen, app.js:675) keeps its spinner
  after a 401: the hash is set to what it is, and no route follows (app.js:657, 666).
- `{lo..hi}` wider than the integers passes the limit, since its size overflows, and ends the client
  with a panic; one that ends at the greatest integer never ends (executor.go:425-429). The comment at
  executor.go:374-375 promises an error.
- A directory that cannot be read fails the whole walk, not only when it is the base (comment at
  executor.go:219); list reads directories one level deeper than it shows.
- The footer of a read also appears when the window covers the whole file and is shorter than the
  limit, against the comment at tools.go:275.
- A command that exits with an error loses its stdout in the answer, against the tool's
  description (tools.go:48-49).
- An edit counts occurrences that do not overlap (`aa` occurs once in `aaa`), where
  connection.proto:112-114 asks for exactly one occurrence.

## 6. Not modelled, and what is left

Not modelled, because they are I/O, wording or generated: mail transport, rendering, install
script, shell commands' effects, cryptography, configuration, `connection.pb.go`, nginx. Reads without a
state (machines, `GET /me`, the key set, metadata, the login page) are left out. The OAuth screen of
the frontend, its resend cooldown, and the validation of message fields before any state is read
are data handling without control to check.

Left, in this order:

1. `PgTransactions`: the statements of the Postgres transactions with their row locks,
   shown to implement the atomic calls of `AuthTokens` and `AuthAccounts`.
2. The composition of `TaskCall` and `ClientOutbox`, so that a result is delivered end to end.
