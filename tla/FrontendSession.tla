-------------------------- MODULE FrontendSession ---------------------------
(***************************************************************************)
(* The auth service's web frontend (assets/app.js): the token pair that    *)
(* all tabs of a browser share in localStorage, each tab's requests, the   *)
(* rotation of the pair after a 401, signing in and out, and the screens.  *)
(*                                                                         *)
(* One action is one run of a JavaScript callback.  The service (AuthTokens*)
(* has it in detail) is what a tab sees of it: a refresh token works once, *)
(* an access token until it expires, a call may fail before or after it    *)
(* took effect.  A refusal stays true once it is, so the answer to a call  *)
(* and the callback that gets it are one action, except for an answer that *)
(* carries a new pair: others may run while it is on its way.              *)
(* Pairs are numbered in the order they are issued.  A reload of a tab     *)
(* forgets all its callbacks, but not the pair.                            *)
(***************************************************************************)
EXTENDS Naturals

CONSTANTS
  Tabs,       \* tabs of one browser
  BusyTabs,   \* bound: the tabs in which the user makes new connect keys
  MaxPairs,   \* bound: pairs the service issues
  MaxFaults   \* bound: failed calls and reloads

ASSUME FrontendAssumption == BusyTabs \subseteq Tabs /\ MaxPairs \in Nat /\ MaxFaults \in Nat

VARIABLES
  store,    \* localStorage: the pair, or NoPair
  rotation, \* rotation[t]: the promise refreshing and its POST /token
  call,     \* call[t][s]: the authorised request of slot s
  signIn,   \* signIn[t]: the pair in the answer to a form, or NoPair
  hash,     \* hash[t]: location.hash: "" until the first change
  screen,   \* screen[t]: what is shown; routing while a hashchange is to come
  issued,   \* service: pairs issued so far
  live,     \* service: pairs whose refresh token is good
  fresh,    \* service: pairs whose access token is good
  faults,   \* counter for MaxFaults
  presented,\* history: presented[t]: pairs t rotated since it was loaded
  cut,      \* history: pairs whose rotation a reload cut off
  quiet     \* history: signed out with nothing under way that saves a pair

pageVars == <<hash, screen>>
serviceVars == <<issued, live, fresh>>
historyVars == <<presented, cut, quiet>>
vars == <<store, rotation, call, signIn, pageVars, serviceVars, faults, historyVars>>

NoPair == 0
Pairs  == 1 .. MaxPairs
MaybePairs == {NoPair} \cup Pairs
Slots  == {"me", "regenerate"}   \* GET /me, POST /connect-key/regenerate
Shown  == {"login", "loading", "account", "error"}

TypeOK ==
  /\ store \in MaybePairs
  /\ rotation \in [Tabs -> [state : {"none", "sent", "ok"}, pair : MaybePairs, got : MaybePairs]]
  /\ call \in [Tabs -> [Slots ->
       [state : {"none", "sent", "waiting", "retry"}, pair : MaybePairs, again : BOOLEAN]]]
  /\ signIn \in [Tabs -> MaybePairs]
  /\ hash \in [Tabs -> {"", "login", "dashboard"}]
  /\ screen \in [Tabs -> Shown \cup {"routing"}]
  /\ issued \in 0 .. MaxPairs
  /\ live \subseteq 1 .. issued /\ fresh \subseteq 1 .. issued
  /\ faults \in 0 .. MaxFaults
  /\ presented \in [Tabs -> SUBSET Pairs] /\ cut \subseteq Pairs
  /\ quiet \in BOOLEAN
  /\ \A t \in Tabs, s \in Slots :
       call[t][s].state = "waiting" => rotation[t].state # "none"

NoRotation == [state |-> "none", pair |-> NoPair, got |-> NoPair]
NoCall     == [state |-> "none", pair |-> NoPair, again |-> FALSE]

Init ==
  /\ store = NoPair
  /\ rotation = [t \in Tabs |-> NoRotation]
  /\ call = [t \in Tabs |-> [s \in Slots |-> NoCall]]
  /\ signIn = [t \in Tabs |-> NoPair]
  /\ hash = [t \in Tabs |-> ""]
  /\ screen = [t \in Tabs |-> "routing"]
  /\ issued = 0
  /\ live = {}
  /\ fresh = {}
  /\ faults = 0
  /\ presented = [t \in Tabs |-> {}]
  /\ cut = {}
  /\ quiet = FALSE

\* A call that fails without an answer of the service, or after a reload.
Fault == faults < MaxFaults /\ faults' = faults + 1

-----------------------------------------------------------------------------
(* Routing: a change of location.hash is handled by a later callback, which *)
(* draws the whole screen; a hash that is set to what it is does nothing.   *)
(* The forms (login, register, verify) are one screen under one hash.       *)

Show(t, what) == screen' = [screen EXCEPT ![t] = what] /\ UNCHANGED hash

\* A callback that draws while a route is pending: the route draws over it.
Draw(t, what) == IF screen[t] = "routing" THEN UNCHANGED pageVars ELSE Show(t, what)

GoTo(t, h) ==
  /\ hash' = [hash EXCEPT ![t] = h]
  /\ screen' = IF hash[t] = h THEN screen ELSE [screen EXCEPT ![t] = "routing"]

\* api(): the pair is read when the call is made.
Sent(again) == [state |-> "sent", pair |-> store, again |-> again]

\* Where route() leads: without a hash the pair decides.
Route(t) == IF hash[t] # "" THEN hash[t] ELSE IF store = NoPair THEN "login" ELSE "dashboard"

\* renderLogin, renderVerify: for a tab without a pair.
RouteToLogin(t) ==
  /\ screen[t] = "routing"
  /\ Route(t) = "login"
  /\ IF store # NoPair THEN GoTo(t, "dashboard") ELSE Show(t, "login")
  /\ UNCHANGED <<store, rotation, call, signIn, serviceVars, faults, historyVars>>

\* renderDashboard: the spinner, then GET /me.  (A slot holds one call.)
RenderDashboard(t) ==
  /\ call[t]["me"].state = "none"
  /\ IF store = NoPair
       THEN GoTo(t, "login") /\ UNCHANGED call
       ELSE /\ Show(t, "loading")
            /\ call' = [call EXCEPT ![t]["me"] = Sent(FALSE)]
  /\ UNCHANGED <<store, rotation, signIn, serviceVars, faults, historyVars>>

RouteToDashboard(t) ==
  /\ screen[t] = "routing"
  /\ Route(t) = "dashboard"
  /\ RenderDashboard(t)

\* The button of the error screen calls renderDashboard, whatever the hash is.
TryAgain(t) ==
  /\ screen[t] = "error"
  /\ RenderDashboard(t)

\* The brand in the top bar.
Navigate(t) ==
  /\ screen[t] \in Shown \ {"loading"}
  /\ GoTo(t, IF store # NoPair THEN "dashboard" ELSE "login")
  /\ UNCHANGED <<store, rotation, call, signIn, serviceVars, faults, historyVars>>

\* The button that makes a new connect key.
Regenerate(t) ==
  /\ t \in BusyTabs
  /\ screen[t] = "account"
  /\ call[t]["regenerate"].state = "none"
  /\ call' = [call EXCEPT ![t]["regenerate"] = Sent(FALSE)]
  /\ UNCHANGED <<store, rotation, signIn, pageVars, serviceVars, faults, historyVars>>

-----------------------------------------------------------------------------
(* request: an authorised call, and one more after a 401                   *)

Denied(t, s) == call[t][s].state = "sent" /\ call[t][s].pair \notin fresh

\* drawDashboard: whatever the tab shows by now.
CallWorks(t, s) ==
  /\ call[t][s].state = "sent"
  /\ call[t][s].pair \in fresh
  /\ call' = [call EXCEPT ![t][s] = NoCall]
  /\ Draw(t, "account")
  /\ UNCHANGED <<store, rotation, signIn, serviceVars, faults, historyVars>>

\* The catch of the caller: only GET /me changes the screen, and a 401 leads
\* to the login form.
Fails(t, s, denied) ==
  CASE s = "me" /\ denied  -> GoTo(t, "login")
    [] s = "me" /\ ~denied -> Draw(t, "error")
    [] OTHER               -> UNCHANGED pageVars

CallFails(t, s) ==
  /\ \/ Denied(t, s) /\ (call[t][s].again \/ store = NoPair) /\ UNCHANGED faults
        /\ Fails(t, s, TRUE)
     \/ call[t][s].state = "sent" /\ Fault /\ Fails(t, s, FALSE)
  /\ call' = [call EXCEPT ![t][s] = NoCall]
  /\ UNCHANGED <<store, rotation, signIn, serviceVars, historyVars>>

\* refreshTokens sends the stored pair's refresh token ...
StartRotation(t) ==
  /\ rotation' = [rotation EXCEPT ![t] =
                    [state |-> "sent", pair |-> store, got |-> NoPair]]
  /\ presented' = [presented EXCEPT ![t] = @ \cup {store}]

\* Mutant of CallRefreshes: refreshing is not looked at.
CallRefreshesAlways(t, s) ==
  /\ Denied(t, s)
  /\ ~call[t][s].again
  /\ store # NoPair
  /\ call' = [call EXCEPT ![t][s].state = "waiting"]
  /\ StartRotation(t)
  /\ UNCHANGED <<store, signIn, pageVars, serviceVars, faults, cut, quiet>>

\* ... at the first 401 of a tab; others wait for the same promise.
CallRefreshes(t, s) ==
  /\ Denied(t, s)
  /\ ~call[t][s].again
  /\ store # NoPair
  /\ call' = [call EXCEPT ![t][s].state = "waiting"]
  /\ IF rotation[t].state = "none"
       THEN StartRotation(t)
       ELSE UNCHANGED <<rotation, presented>>
  /\ UNCHANGED <<store, signIn, pageVars, serviceVars, faults, cut, quiet>>

\* The rotation is over: the call is made again, with the pair stored by now.
CallRetried(t, s) ==
  /\ call[t][s].state = "retry"
  /\ call' = [call EXCEPT ![t][s] = Sent(TRUE)]
  /\ UNCHANGED <<store, rotation, signIn, pageVars, serviceVars, faults, historyVars>>

-----------------------------------------------------------------------------
(* POST /token with the refresh token, and the end of refreshTokens        *)

\* The service consumes p, if it is good, and issues a pair.
Issue(p) ==
  /\ issued < MaxPairs
  /\ issued' = issued + 1
  /\ live' = (live \ {p}) \cup {issued'}
  /\ fresh' = fresh \cup {issued'}

RotationWorks(t) ==
  /\ rotation[t].state = "sent"
  /\ rotation[t].pair \in live
  /\ Issue(rotation[t].pair)
  /\ rotation' = [rotation EXCEPT ![t].state = "ok", ![t].got = issued']
  /\ UNCHANGED <<store, call, signIn, pageVars, faults, historyVars>>

Waiting(t, s) == call[t][s].state = "waiting"

RotationSaved(t) ==
  /\ rotation[t].state = "ok"
  /\ store' = rotation[t].got
  /\ rotation' = [rotation EXCEPT ![t] = NoRotation]
  /\ call' = [call EXCEPT ![t] = [s \in Slots |->
                IF Waiting(t, s) THEN [@[s] EXCEPT !.state = "retry"] ELSE @[s]]]
  /\ UNCHANGED <<signIn, pageVars, serviceVars, faults, historyVars>>

\* 401 invalid_grant (used or revoked), no answer, or 500 as the bound on
\* pairs makes it.
RotationError(t, denied) ==
  IF denied
    THEN rotation[t].state = "sent" /\ rotation[t].pair \notin live /\ UNCHANGED faults
    ELSE \/ rotation[t].state \in {"sent", "ok"} /\ Fault
         \/ /\ rotation[t].state = "sent"
            /\ rotation[t].pair \in live /\ issued = MaxPairs
            /\ UNCHANGED faults

\* The waiting calls fail the way the rotation did.
WaitersFail(t, denied) ==
  /\ call' = [call EXCEPT ![t] = [s \in Slots |->
                IF Waiting(t, s) THEN NoCall ELSE @[s]]]
  /\ IF Waiting(t, "me") THEN Fails(t, "me", denied) ELSE UNCHANGED pageVars

\* Mutant of RotationFails: the waiting calls are never told.
RotationFailsSilently(t) ==
  /\ \E denied \in BOOLEAN : RotationError(t, denied)
  /\ store' = NoPair
  /\ rotation' = [rotation EXCEPT ![t] = NoRotation]
  /\ UNCHANGED <<call, signIn, pageVars, serviceVars, historyVars>>

\* Mutant of RotationFails: the pair stays, to be tried again.
RotationFailsKeeps(t) ==
  /\ \E denied \in BOOLEAN : RotationError(t, denied) /\ WaitersFail(t, denied)
  /\ rotation' = [rotation EXCEPT ![t] = NoRotation]
  /\ UNCHANGED <<store, signIn, serviceVars, historyVars>>

\* The catch of refreshTokens clears whatever is stored.
RotationFails(t) ==
  /\ \E denied \in BOOLEAN : RotationError(t, denied) /\ WaitersFail(t, denied)
  /\ store' = NoPair
  /\ rotation' = [rotation EXCEPT ![t] = NoRotation]
  /\ UNCHANGED <<signIn, serviceVars, historyVars>>

-----------------------------------------------------------------------------
(* Signing in and out                                                      *)

\* The login form, or the sixth digit of the code, accepted by the service;
\* a refused form changes nothing.
SignIn(t) ==
  /\ screen[t] = "login"
  /\ signIn[t] = NoPair
  /\ Issue(NoPair)
  /\ signIn' = [signIn EXCEPT ![t] = issued']
  /\ quiet' = FALSE
  /\ UNCHANGED <<store, rotation, call, pageVars, faults, presented, cut>>

SignedIn(t) ==
  /\ signIn[t] # NoPair
  /\ store' = signIn[t]
  /\ signIn' = [signIn EXCEPT ![t] = NoPair]
  /\ GoTo(t, "dashboard")
  /\ UNCHANGED <<rotation, call, serviceVars, faults, historyVars>>

NothingSaves ==
  \A t \in Tabs : rotation[t].state = "none" /\ signIn[t] = NoPair

\* Mutant of Logout: the pair is revoked first and cleared with the answer,
\* which a lost call never gives.
LogoutRevokesFirst(t) ==
  /\ screen[t] = "account"
  /\ \/ live' = live \ {store} /\ store' = NoPair
     \/ UNCHANGED <<live, store>>
  /\ GoTo(t, "login")
  /\ quiet' = NothingSaves
  /\ UNCHANGED <<rotation, call, signIn, issued, fresh, faults, presented, cut>>

\* logoutFlow: the pair is cleared, then revoked.  POST /revoke comes in time,
\* or is lost or late, when a rotation of the pair may have come before it.
Logout(t) ==
  /\ screen[t] = "account"
  /\ store' = NoPair
  /\ live' \in {live, live \ {store}}
  /\ GoTo(t, "login")
  /\ quiet' = NothingSaves
  /\ UNCHANGED <<rotation, call, signIn, issued, fresh, faults, presented, cut>>

\* An access token expires, or the service restarts with a key of its own.
Expires(p) ==
  /\ p \in fresh
  /\ fresh' = fresh \ {p}
  /\ UNCHANGED <<store, rotation, call, signIn, pageVars, issued, live, faults,
                 historyVars>>

\* The page is loaded again (a fault): DOMContentLoaded routes by the pair; a
\* rotation under way may still reach the service.
Reload(t) ==
  /\ screen[t] \in Shown
  /\ Fault
  /\ \/ rotation[t].state = "sent" /\ rotation[t].pair \in live /\ Issue(rotation[t].pair)
     \/ UNCHANGED serviceVars
  /\ cut' = IF rotation[t].state # "none" THEN cut \cup {rotation[t].pair} ELSE cut
  /\ rotation' = [rotation EXCEPT ![t] = NoRotation]
  /\ call' = [call EXCEPT ![t] = [s \in Slots |-> NoCall]]
  /\ signIn' = [signIn EXCEPT ![t] = NoPair]
  /\ Show(t, "routing")
  /\ presented' = [presented EXCEPT ![t] = {}]
  /\ UNCHANGED <<store, quiet>>

-----------------------------------------------------------------------------

CallSteps(t, s) ==
  \/ CallWorks(t, s)
  \/ CallFails(t, s)
  \/ CallRefreshes(t, s)
  \/ CallRetried(t, s)

RotationSteps(t) ==
  \/ RotationWorks(t)
  \/ RotationSaved(t)
  \/ RotationFails(t)

RouteSteps(t) ==
  \/ RouteToLogin(t)
  \/ RouteToDashboard(t)

Next ==
  \/ \E t \in Tabs :
       \/ RouteSteps(t)
       \/ TryAgain(t)
       \/ Navigate(t)
       \/ Regenerate(t)
       \/ \E s \in Slots : CallSteps(t, s)
       \/ RotationSteps(t)
       \/ SignIn(t)
       \/ SignedIn(t)
       \/ Logout(t)
       \/ Reload(t)
  \/ \E p \in Pairs : Expires(p)

Spec == Init /\ [][Next]_vars

\* Callbacks run and calls end; the user and faults do as they like.
Fairness ==
  \A t \in Tabs :
    /\ WF_vars(RouteSteps(t)) /\ WF_vars(RotationSteps(t)) /\ WF_vars(SignedIn(t))
    /\ \A s \in Slots : WF_vars(CallSteps(t, s))

FairSpec == Spec /\ Fairness

-----------------------------------------------------------------------------
(* Properties                                                              *)

\* The stored pair is one the service still takes, unless a tab has presented
\* it and not handled the answer, or was reloaded while it waited for it.
StoredPairUsable ==
  store # NoPair =>
    \/ store \in live
    \/ \E t \in Tabs : rotation[t].state # "none" /\ rotation[t].pair = store
    \/ store \in cut

\* A tab never presents a refresh token twice, whatever its parallel requests,
\* the other tabs and the failures of calls do to the stored pair.
PresentedOnce ==
  [][\A t \in Tabs :
       rotation[t] # rotation'[t] /\ rotation'[t].state = "sent"
         => store \notin presented[t]]_vars

\* A user who signs out while no tab is about to save a pair stays signed out,
\* in all tabs, until somebody submits a form.
QuietLogoutStays == quiet => store = NoPair

\* The spinner does not stay: it gives way to the account, a form or an error,
\* and no redirection between them goes round for ever.  (A dashboard drawn
\* under the forms' hash is left out: there a 401 sets the hash to what it is.)
SpinnerGoes ==
  \A t \in Tabs :
    screen[t] = "loading" /\ hash[t] # "login" ~> screen[t] \in Shown \ {"loading"}

=============================================================================
