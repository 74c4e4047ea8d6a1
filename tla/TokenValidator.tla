--------------------------- MODULE TokenValidator ---------------------------
(***************************************************************************)
(* akira-server's check of access tokens: TokenValidator, its cache of the *)
(* auth service's key set, and the forced refresh of that set, at most one *)
(* in refreshInterval, when a token names a key that is not in it.         *)
(*                                                                         *)
(* The auth service has one key, made at its start and lost at its stop;   *)
(* keys are numbered in the order they are made.  A token is the key that  *)
(* signed it (Foreign for any other signer) and whether its claims (iss,   *)
(* times, sub, typ) pass.  Time is what is left of the refresh interval.   *)
(*                                                                         *)
(* The cache (lestrrat-go/jwx) and HTTP are external: a fetch the cache    *)
(* makes by itself, or one whose request was given up, may be stored late. *)
(***************************************************************************)
EXTENDS Naturals

CONSTANTS
  Requests,         \* slots of the MCP endpoint: a request at a time in each
  RefreshInterval,  \* refreshInterval, in ticks
  MaxKey,           \* bound: keys the auth service makes
  MaxFaults         \* bound: fetches lost while the auth service is up

ASSUME IntervalAssumption == RefreshInterval \in Nat \ {0}
ASSUME BoundsAssumption == MaxKey \in Nat \ {0} /\ MaxFaults \in Nat

VARIABLES
  authKey,  \* the auth service's latest key
  authUp,   \* the auth service runs and answers
  cached,   \* the key in the cached set, NoKey while nothing is loaded
  late,     \* answers on their way to the cache that no request waits for
  window,   \* ticks for which lastRefresh is younger than refreshInterval
  holder,   \* the request that holds refreshMu, or Nobody
  pc,       \* pc[r]: the control state of Validate
  token,    \* token[r]: the token presented
  answer,   \* answer[r]: what the fetch of r was answered with
  faults,   \* counter for MaxFaults
  since,    \* history: ticks since the last forced fetch, up to the interval
  clean     \* history: requests whose refresh nothing has disturbed

authVars == <<authKey, authUp>>
cacheVars == <<cached, late>>
historyVars == <<since, clean>>
vars == <<authVars, cacheVars, window, holder, pc, token, answer, faults, historyVars>>

NoKey   == 0
Foreign == MaxKey + 1
Keys    == 1 .. MaxKey
Pending == "pending"
Failed  == "failed"
Nobody  == "nobody"
ASSUME NobodyAssumption == Nobody \notin Requests
NoToken == [kid |-> NoKey, sound |-> FALSE]
Idle    == {"idle", "accepted", "rejected"}
States  == {"first", "queued", "fetch", "second"} \cup Idle
Tokens  == [kid : Keys, sound : BOOLEAN] \cup {[kid |-> Foreign, sound |-> TRUE]}

TypeOK ==
  /\ authKey \in Keys /\ authUp \in BOOLEAN
  /\ cached \in {NoKey} \cup Keys /\ late \subseteq Keys
  /\ window \in 0 .. RefreshInterval
  /\ holder \in Requests \cup {Nobody}
  /\ pc \in [Requests -> States]
  /\ token \in [Requests -> Tokens \cup {NoToken}]
  /\ answer \in [Requests -> [what : {Pending, Failed, "key"}, key : Keys]]
  /\ faults \in 0 .. MaxFaults
  /\ since \in 0 .. RefreshInterval
  /\ clean \subseteq Requests
  /\ \A r \in Requests : (pc[r] = "fetch") = (holder = r)

NoAnswer == [what |-> Pending, key |-> 1]

Init ==
  /\ authKey = 1
  /\ authUp \in BOOLEAN
  /\ cached = NoKey
  /\ late = {}
  /\ window = 0
  /\ holder = Nobody
  /\ pc = [r \in Requests |-> "idle"]
  /\ token = [r \in Requests |-> NoToken]
  /\ answer = [r \in Requests |-> NoAnswer]
  /\ faults = 0
  /\ since = RefreshInterval
  /\ clean = {}

-----------------------------------------------------------------------------
(* The auth service                                                        *)

\* The auth service stops: its key is gone with the process.
AuthStop ==
  /\ authUp
  /\ authUp' = FALSE
  /\ clean' = {}
  /\ UNCHANGED <<authKey, cacheVars, window, holder, pc, token, answer, faults, since>>

\* NewManager: a key and a kid of its own for every run.
AuthStart ==
  /\ ~authUp
  /\ authKey < MaxKey
  /\ authUp' = TRUE
  /\ authKey' = authKey + 1
  /\ UNCHANGED <<cacheVars, window, holder, pc, token, answer, faults, historyVars>>

-----------------------------------------------------------------------------
(* Validate                                                                *)

\* The end of a request: a user id for the handler, or 401 and nothing kept.
Answer(r, known) ==
  LET ok == known /\ token[r].sound
  IN /\ pc' = [pc EXCEPT ![r] = IF ok THEN "accepted" ELSE "rejected"]
     /\ token' = [token EXCEPT ![r] = IF ok THEN @ ELSE NoToken]

\* A request that finds the interval over and nothing under way will get the
\* auth service's own key from its refresh, if nothing goes wrong.
Undisturbed(t) ==
  authUp /\ t.kid = authKey /\ window = 0 /\ holder = Nobody /\ late = {}

\* A request with token t arrives.
Present(r, t) ==
  /\ pc[r] \in Idle
  /\ t.kid \in Keys => t.kid <= authKey
  /\ pc' = [pc EXCEPT ![r] = "first"]
  /\ token' = [token EXCEPT ![r] = t]
  /\ clean' = IF Undisturbed(t) THEN clean \cup {r} ELSE clean \ {r}
  /\ UNCHANGED <<authVars, cacheVars, window, holder, answer, faults, since>>

\* No Authorization: Bearer header, or nothing in it.
PresentNothing(r) ==
  /\ pc[r] \in Idle
  /\ pc' = [pc EXCEPT ![r] = "rejected"]
  /\ token' = [token EXCEPT ![r] = NoToken]
  /\ clean' = clean \ {r}
  /\ UNCHANGED <<authVars, cacheVars, window, holder, answer, faults, since>>

\* Mutant of FirstParse: an unknown kid is an error like the others.
FirstParseGivesUp(r) ==
  /\ pc[r] = "first"
  /\ Answer(r, token[r].kid = cached)
  /\ UNCHANGED <<authVars, cacheVars, window, holder, answer, faults, historyVars>>

\* The first jwt.Parse: only an unknown kid ("in key set") is worth a refresh.
FirstParse(r) ==
  /\ pc[r] = "first"
  /\ IF token[r].kid = cached
       THEN Answer(r, TRUE)
       ELSE pc' = [pc EXCEPT ![r] = "queued"] /\ UNCHANGED token
  /\ UNCHANGED <<authVars, cacheVars, window, holder, answer, faults, historyVars>>

-----------------------------------------------------------------------------
(* refreshKeySet                                                           *)

\* Mutant of RefreshSkipped: lastRefresh is set before it is looked at.
RefreshSkippedRearms(r) ==
  /\ pc[r] = "queued"
  /\ holder = Nobody
  /\ window > 0
  /\ window' = RefreshInterval
  /\ pc' = [pc EXCEPT ![r] = "second"]
  /\ UNCHANGED <<authVars, cacheVars, holder, token, answer, faults, historyVars>>

\* refreshMu.Lock, within the interval: the set is taken as it is.
RefreshSkipped(r) ==
  /\ pc[r] = "queued"
  /\ holder = Nobody
  /\ window > 0
  /\ pc' = [pc EXCEPT ![r] = "second"]
  /\ UNCHANGED <<authVars, cacheVars, window, holder, token, answer, faults, historyVars>>

\* refreshMu.Lock, after the interval: lastRefresh is set before the fetch.
RefreshStarts(r) ==
  /\ pc[r] = "queued"
  /\ holder = Nobody
  /\ window = 0
  /\ window' = RefreshInterval
  /\ since' = 0
  /\ holder' = r
  /\ pc' = [pc EXCEPT ![r] = "fetch"]
  /\ answer' = [answer EXCEPT ![r] = NoAnswer]
  /\ UNCHANGED <<authVars, cacheVars, token, faults, clean>>

\* GET /jwks.json is answered with the key of this run of the auth service.
AuthAnswers(r) ==
  /\ pc[r] = "fetch"
  /\ answer[r].what = Pending
  /\ authUp
  /\ answer' = [answer EXCEPT ![r] = [what |-> "key", key |-> authKey]]
  /\ UNCHANGED <<authVars, cacheVars, window, holder, pc, token, faults, historyVars>>

\* The auth service is down, or the call is lost (a fault).
FetchFails(r) ==
  /\ pc[r] = "fetch"
  /\ answer[r].what = Pending
  /\ authUp => faults < MaxFaults
  /\ faults' = IF authUp THEN faults + 1 ELSE faults
  /\ answer' = [answer EXCEPT ![r].what = Failed]
  /\ clean' = {}
  /\ UNCHANGED <<authVars, cacheVars, window, holder, pc, token, since>>

\* Mutant of RefreshEnds: the mutex is released only if the set was fetched.
RefreshEndsLocked(r) ==
  /\ pc[r] = "fetch"
  /\ answer[r].what # Pending
  /\ cached' = IF answer[r].what = Failed THEN cached ELSE answer[r].key
  /\ holder' = IF answer[r].what = Failed THEN holder ELSE Nobody
  /\ pc' = [pc EXCEPT ![r] = "second"]
  /\ answer' = [answer EXCEPT ![r] = NoAnswer]
  /\ UNCHANGED <<authVars, late, window, token, faults, historyVars>>

\* Mutant of RefreshEnds: a failed fetch gives the interval back.
RefreshEndsForgiven(r) ==
  /\ pc[r] = "fetch"
  /\ answer[r].what # Pending
  /\ cached' = IF answer[r].what = Failed THEN cached ELSE answer[r].key
  /\ window' = IF answer[r].what = Failed THEN 0 ELSE window
  /\ holder' = Nobody
  /\ pc' = [pc EXCEPT ![r] = "second"]
  /\ answer' = [answer EXCEPT ![r] = NoAnswer]
  /\ UNCHANGED <<authVars, late, token, faults, historyVars>>

\* cache.Refresh returns, its error is ignored; the mutex is released.
RefreshEnds(r) ==
  /\ pc[r] = "fetch"
  /\ answer[r].what # Pending
  /\ cached' = IF answer[r].what = Failed THEN cached ELSE answer[r].key
  /\ holder' = Nobody
  /\ pc' = [pc EXCEPT ![r] = "second"]
  /\ answer' = [answer EXCEPT ![r] = NoAnswer]
  /\ UNCHANGED <<authVars, late, window, token, faults, historyVars>>

\* The client of the request has gone (a fault): its context ends the fetch,
\* whose answer the cache may store later or not at all.
ClientGone(r) ==
  /\ pc[r] = "fetch"
  /\ faults < MaxFaults
  /\ faults' = faults + 1
  /\ \/ late' = late
     \/ answer[r].what = "key" /\ late' = late \cup {answer[r].key}
     \/ answer[r].what = Pending /\ authUp /\ late' = late \cup {authKey}
  /\ holder' = Nobody
  /\ pc' = [pc EXCEPT ![r] = "second"]
  /\ answer' = [answer EXCEPT ![r] = NoAnswer]
  /\ clean' = {}
  /\ UNCHANGED <<authVars, cached, window, token, since>>

\* The second jwt.Parse, outside the mutex, with the set as it is by now.
SecondParse(r) ==
  /\ pc[r] = "second"
  /\ Answer(r, token[r].kid = cached)
  /\ UNCHANGED <<authVars, cacheVars, window, holder, answer, faults, historyVars>>

-----------------------------------------------------------------------------
(* The cache's own fetches, and time                                       *)

\* The first load of the set, and the cache's own refreshes.
CacheFetches ==
  /\ authUp
  /\ late' = late \cup {authKey}
  /\ clean' = {}
  /\ UNCHANGED <<authVars, cached, window, holder, pc, token, answer, faults, since>>

CacheStores(k) ==
  /\ k \in late
  /\ cached' = k
  /\ late' = late \ {k}
  /\ UNCHANGED <<authVars, window, holder, pc, token, answer, faults, historyVars>>

LateAnswerLost(k) ==
  /\ k \in late
  /\ late' = late \ {k}
  /\ UNCHANGED <<authVars, cached, window, holder, pc, token, answer, faults, historyVars>>

Less(n) == IF n = 0 THEN 0 ELSE n - 1

Tick ==
  /\ window > 0 \/ since < RefreshInterval
  /\ window' = Less(window)
  /\ since' = IF since < RefreshInterval THEN since + 1 ELSE since
  /\ UNCHANGED <<authVars, cacheVars, holder, pc, token, answer, faults, clean>>

-----------------------------------------------------------------------------

Refresh(r) ==
  \/ RefreshSkipped(r)
  \/ RefreshStarts(r)

Answered(r) ==
  \/ AuthAnswers(r)
  \/ FetchFails(r)

Next ==
  \/ AuthStop
  \/ AuthStart
  \/ \E r \in Requests :
       \/ \E t \in Tokens : Present(r, t)
       \/ PresentNothing(r)
       \/ FirstParse(r)
       \/ Refresh(r)
       \/ Answered(r)
       \/ RefreshEnds(r)
       \/ ClientGone(r)
       \/ SecondParse(r)
  \/ CacheFetches
  \/ \E k \in Keys : CacheStores(k) \/ LateAnswerLost(k)
  \/ Tick

Spec == Init /\ [][Next]_vars

CurrentToken == [kid |-> authKey, sound |-> TRUE]

\* Goroutines run, time passes, fetches end, mutex waiters are served in turn,
\* and every client comes back with a token of the auth service's own key.
Fairness ==
  /\ \A r \in Requests :
       /\ WF_vars(FirstParse(r)) /\ SF_vars(Refresh(r)) /\ WF_vars(Answered(r))
       /\ WF_vars(RefreshEnds(r)) /\ WF_vars(SecondParse(r))
       /\ SF_vars(Present(r, CurrentToken))
  /\ \A k \in Keys : WF_vars(CacheStores(k) \/ LateAnswerLost(k))
  /\ WF_vars(Tick)

FairSpec == Spec /\ Fairness

-----------------------------------------------------------------------------
(* Properties                                                              *)

\* The auth service gets at most one forced fetch in refreshInterval, whatever
\* tokens arrive, however fetches end and whoever waits for the mutex.
FetchesSpaced ==
  [][\A r \in Requests :
       pc[r] = "queued" /\ pc'[r] = "fetch" => since = RefreshInterval]_vars

\* A request whose token is of the running auth service, that came when the
\* interval was over and whose refresh nothing disturbed, is accepted, also
\* when it only waited for the mutex while another request fetched the set.
QuietRefreshAccepts ==
  [][\A r \in clean :
       pc[r] \notin Idle /\ pc'[r] = "rejected" => ~token[r].sound]_vars

\* If the auth service stays up, no request is refused its tokens for good:
\* neither a failed fetch that used up the interval nor a stream of tokens
\* with unknown keys keeps the set stale.
CurrentTokenAccepted ==
  \A r \in Requests :
    <>[]authUp => []<>(pc[r] = "accepted" /\ token[r].kid = authKey)

=============================================================================
