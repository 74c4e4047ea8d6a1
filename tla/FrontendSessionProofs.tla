------------------------ MODULE FrontendSessionProofs ------------------------
(***************************************************************************)
(* Proofs about FrontendSession, for any tabs, pairs and faults.           *)
(*                                                                         *)
(* A pair is issued once, comes to a tab once, in the answer to a rotation *)
(* or to a form, and is stored once; so the pair a tab is about to rotate  *)
(* is one it has not rotated before, and a pair that comes is still good.  *)
(***************************************************************************)
EXTENDS FrontendSession, TLAPS

Ways == {"rotation", "form"}

\* The new pair that is on its way to tab t, NoPair if none.
Coming(t, way) ==
  IF way = "form" THEN signIn[t]
  ELSE IF rotation[t].state = "ok" THEN rotation[t].got ELSE NoPair

\* The parts of TypeOK.
Rotations   == [state : {"none", "sent", "ok"}, pair : MaybePairs, got : MaybePairs]
CallRecords == [state : {"none", "sent", "waiting", "retry"}, pair : MaybePairs, again : BOOLEAN]

ServiceOK ==
  /\ issued \in 0 .. MaxPairs
  /\ live \subseteq 1 .. issued /\ fresh \subseteq 1 .. issued
  /\ faults \in 0 .. MaxFaults

PairOK ==
  /\ store \in MaybePairs
  /\ rotation \in [Tabs -> Rotations]
  /\ signIn \in [Tabs -> MaybePairs]
  /\ presented \in [Tabs -> SUBSET Pairs] /\ cut \subseteq Pairs
  /\ quiet \in BOOLEAN

CallOK ==
  /\ call \in [Tabs -> [Slots -> CallRecords]]
  /\ \A t \in Tabs, s \in Slots :
       call[t][s].state = "waiting" => rotation[t].state # "none"

PageOK ==
  /\ hash \in [Tabs -> {"", "login", "dashboard"}]
  /\ screen \in [Tabs -> Shown \cup {"routing"}]

\* What has been stored or presented was issued; the pair of a rotation was
\* presented.
Known ==
  /\ store <= issued
  /\ \A t \in Tabs :
       /\ presented[t] \subseteq 1 .. issued
       /\ rotation[t].state # "none" => rotation[t].pair \in presented[t]

\* A pair on its way is good, and nobody has stored or presented it yet.
ComingIsNew ==
  \A t \in Tabs, way \in Ways :
    Coming(t, way) # NoPair =>
      /\ Coming(t, way) \in live
      /\ Coming(t, way) # store
      /\ \A u \in Tabs : Coming(t, way) \notin presented[u]

\* Every pair is on at most one way.
ComingOnce ==
  \A t, u \in Tabs, way, by \in Ways :
    Coming(t, way) # NoPair /\ Coming(t, way) = Coming(u, by) => t = u /\ way = by

\* A tab that has presented the stored pair still waits for the answer.
PresentedWaits ==
  \A t \in Tabs :
    store \in presented[t] => rotation[t].state # "none" /\ rotation[t].pair = store

\* After a quiet logout nothing is under way that could save a pair.
QuietIsQuiet == quiet => store = NoPair /\ NothingSaves

IInv ==
  /\ TypeOK
  /\ Known
  /\ ComingIsNew
  /\ ComingOnce
  /\ PresentedWaits
  /\ StoredPairUsable
  /\ QuietIsQuiet

-----------------------------------------------------------------------------
(* Types                                                                   *)

LEMMA Parts == TypeOK <=> ServiceOK /\ PairOK /\ CallOK /\ PageOK
BY DEF TypeOK, ServiceOK, PairOK, CallOK, PageOK, Rotations, CallRecords

LEMMA SomePairs ==
  /\ NoPair \in MaybePairs /\ Pairs \subseteq MaybePairs /\ NoPair \notin Pairs
  /\ \A p \in MaybePairs : p # NoPair => p \in Pairs
BY FrontendAssumption DEF NoPair, Pairs, MaybePairs

LEMMA SomeRecords ==
  ASSUME PairOK
  PROVE  /\ NoRotation \in Rotations /\ NoCall \in CallRecords
         /\ \A again \in BOOLEAN : Sent(again) \in CallRecords
BY SomePairs DEF PairOK, Rotations, CallRecords, NoRotation, NoCall, Sent

LEMMA InitInvariant == Init => IInv
<1> SUFFICES ASSUME Init PROVE IInv
  OBVIOUS
<1>1. PairOK
  BY SomePairs DEF Init, PairOK, NoRotation, Rotations
<1>2. CallOK /\ PageOK
  BY <1>1, SomeRecords DEF Init, CallOK, PageOK, NoCall, Shown
<1>3. issued = 0 /\ live = {} /\ fresh = {} /\ faults = 0 /\ store = 0
  BY DEF Init, NoPair
<1>6. ServiceOK
  BY <1>3, FrontendAssumption DEF ServiceOK
<1>4. \A t \in Tabs : /\ signIn[t] = NoPair /\ rotation[t].state = "none" /\ presented[t] = {}
                     /\ \A way \in Ways : Coming(t, way) = NoPair
  BY DEF Init, NoRotation, Coming
<1>5. Known /\ ComingIsNew /\ ComingOnce /\ PresentedWaits
  BY <1>3, <1>4 DEF Known, ComingIsNew, ComingOnce, PresentedWaits
<1> QED
  BY <1>1, <1>2, <1>5, <1>6, Parts DEF Init, IInv, StoredPairUsable, QuietIsQuiet

\* The pair the service issues next is a new one.
LEMMA IssueTypes ==
  ASSUME ServiceOK, NEW p, Issue(p)
  PROVE  /\ issued' = issued + 1 /\ issued \in Nat /\ issued' \in Pairs /\ issued' # NoPair
         /\ issued' \in 0 .. MaxPairs
         /\ live' \subseteq 1 .. issued' /\ fresh' \subseteq 1 .. issued'
<1>1. /\ MaxPairs \in Nat /\ issued \in 0 .. MaxPairs /\ issued < MaxPairs
      /\ issued' = issued + 1
  BY FrontendAssumption DEF ServiceOK, Issue
<1>2. /\ live' = (live \ {p}) \cup {issued'} /\ fresh' = fresh \cup {issued'}
      /\ live \subseteq 1 .. issued /\ fresh \subseteq 1 .. issued
  BY DEF ServiceOK, Issue
<1>3. 1 .. issued \subseteq 1 .. issued' /\ issued' \in 1 .. issued'
  BY <1>1
<1>4. live' \subseteq 1 .. issued' /\ fresh' \subseteq 1 .. issued'
  BY <1>2, <1>3
<1>5. issued' \in Pairs /\ issued' # NoPair /\ issued' \in 0 .. MaxPairs /\ issued \in Nat
  BY <1>1 DEF Pairs, NoPair
<1> QED
  BY <1>1, <1>4, <1>5

\* Showing a screen or going to a route keeps the page's types.
LEMMA PageTypes ==
  ASSUME PageOK, NEW t \in Tabs, NEW what \in Shown \cup {"routing"}, NEW h \in {"login", "dashboard"},
         Show(t, what) \/ Draw(t, what) \/ GoTo(t, h) \/ UNCHANGED pageVars
  PROVE  PageOK'
<1>1. CASE Show(t, what)
  BY <1>1 DEF PageOK, Show
<1>2. CASE Draw(t, what)
  BY <1>2 DEF PageOK, Draw, Show, pageVars
<1>3. CASE GoTo(t, h)
  BY <1>3 DEF PageOK, GoTo
<1>4. CASE UNCHANGED pageVars
  BY <1>4 DEF PageOK, pageVars
<1> QED
  BY <1>1, <1>2, <1>3, <1>4

LEMMA ServiceStep == ServiceOK /\ [Next]_vars => ServiceOK'
<1> SUFFICES ASSUME ServiceOK, [Next]_vars PROVE ServiceOK'
  OBVIOUS
<1> USE FrontendAssumption DEF ServiceOK, serviceVars
<1>1. ASSUME NEW t \in Tabs, NEW s \in Slots, CallFails(t, s)
      PROVE  ServiceOK'
  <2>1. faults' = faults \/ (faults < MaxFaults /\ faults' = faults + 1)
    BY <1>1 DEF CallFails, Fault
  <2>2. UNCHANGED serviceVars
    BY <1>1 DEF CallFails
  <2> QED
    BY <2>1, <2>2
<1>2. ASSUME NEW t \in Tabs, RotationWorks(t)
      PROVE  ServiceOK'
  BY <1>2, IssueTypes DEF RotationWorks
<1>3. ASSUME NEW t \in Tabs, RotationFails(t)
      PROVE  ServiceOK'
  BY <1>3 DEF RotationFails, RotationError, Fault
<1>4. ASSUME NEW t \in Tabs, SignIn(t)
      PROVE  ServiceOK'
  BY <1>4, IssueTypes DEF SignIn
<1>5. ASSUME NEW t \in Tabs, Logout(t)
      PROVE  ServiceOK'
  BY <1>5 DEF Logout
<1>6. ASSUME NEW t \in Tabs, Reload(t)
      PROVE  ServiceOK'
  <2>1. faults' \in 0 .. MaxFaults
    BY <1>6 DEF Reload, Fault
  <2>2. Issue(rotation[t].pair) \/ UNCHANGED serviceVars
    BY <1>6 DEF Reload
  <2>3. CASE Issue(rotation[t].pair)
    BY <2>1, <2>3, IssueTypes
  <2>4. CASE UNCHANGED serviceVars
    BY <2>1, <2>4
  <2> QED
    BY <2>2, <2>3, <2>4
<1>7. ASSUME NEW p \in Pairs, Expires(p)
      PROVE  ServiceOK'
  BY <1>7 DEF Expires
<1>8. CASE UNCHANGED <<serviceVars, faults>>
  BY <1>8
<1> QED
  BY <1>1, <1>2, <1>3, <1>4, <1>5, <1>6, <1>7, <1>8
  DEF Next, RouteSteps, CallSteps, RotationSteps, vars, pageVars, serviceVars, historyVars,
      RouteToLogin, RouteToDashboard, TryAgain, Navigate, Regenerate, CallWorks, CallRefreshes, CallRetried, RotationSaved, SignedIn, RenderDashboard

LEMMA PairStep == ServiceOK /\ PairOK /\ Known /\ [Next]_vars => PairOK'
<1> SUFFICES ASSUME ServiceOK, PairOK, Known, [Next]_vars PROVE PairOK'
  OBVIOUS
<1> USE SomePairs, SomeRecords DEF PairOK, serviceVars, historyVars
<1>1. ASSUME NEW t \in Tabs, NEW s \in Slots, CallRefreshes(t, s)
      PROVE  PairOK'
  <2>1. rotation' \in [Tabs -> Rotations]
    BY <1>1 DEF CallRefreshes, StartRotation, Rotations
  <2>2. presented' \in [Tabs -> SUBSET Pairs]
    BY <1>1 DEF CallRefreshes, StartRotation
  <2> QED
    BY <1>1, <2>1, <2>2 DEF CallRefreshes
<1>2. ASSUME NEW t \in Tabs, RotationWorks(t)
      PROVE  PairOK'
  <2>1. issued' \in MaybePairs
    BY <1>2, IssueTypes DEF RotationWorks
  <2>2. [rotation[t] EXCEPT !.state = "ok", !.got = issued'] \in Rotations
    BY <2>1 DEF Rotations
  <2>3. rotation' = [rotation EXCEPT ![t] = [rotation[t] EXCEPT !.state = "ok", !.got = issued']]
    BY <1>2 DEF RotationWorks
  <2> QED
    BY <1>2, <2>2, <2>3 DEF RotationWorks
<1>3. ASSUME NEW t \in Tabs, RotationSaved(t)
      PROVE  PairOK'
  <2>1. rotation[t].got \in MaybePairs
    BY DEF Rotations
  <2> QED
    BY <1>3, <2>1 DEF RotationSaved
<1>4. ASSUME NEW t \in Tabs, RotationFails(t)
      PROVE  PairOK'
  BY <1>4 DEF RotationFails
<1>5. ASSUME NEW t \in Tabs, SignIn(t)
      PROVE  PairOK'
  BY <1>5, IssueTypes DEF SignIn
<1>6. ASSUME NEW t \in Tabs, SignedIn(t)
      PROVE  PairOK'
  BY <1>6 DEF SignedIn
<1>7. ASSUME NEW t \in Tabs, Logout(t)
      PROVE  PairOK'
  BY <1>7 DEF Logout, NothingSaves
<1>8. ASSUME NEW t \in Tabs, Reload(t)
      PROVE  PairOK'
  <2>1. rotation[t].state # "none" => rotation[t].pair \in Pairs
    BY DEF Known
  <2>2. cut' \subseteq Pairs
    BY <1>8, <2>1 DEF Reload
  <2>3. rotation' \in [Tabs -> Rotations] /\ signIn' \in [Tabs -> MaybePairs]
    BY <1>8 DEF Reload
  <2>4. presented' \in [Tabs -> SUBSET Pairs]
    BY <1>8 DEF Reload
  <2> QED
    BY <1>8, <2>2, <2>3, <2>4 DEF Reload
<1>9. CASE UNCHANGED <<store, rotation, signIn, historyVars>>
  BY <1>9
<1> QED
  BY <1>1, <1>2, <1>3, <1>4, <1>5, <1>6, <1>7, <1>8, <1>9
  DEF Next, RouteSteps, CallSteps, RotationSteps, vars, pageVars, serviceVars, historyVars,
      RouteToLogin, RouteToDashboard, TryAgain, Navigate, Regenerate, CallWorks, CallFails, CallRetried, Expires, RenderDashboard

\* A request is sent from slot s, and no rotation changes.
LEMMA CallSent ==
  ASSUME PairOK, CallOK, NEW t \in Tabs, NEW s \in Slots, UNCHANGED rotation,
         call' = [call EXCEPT ![t][s] = Sent(FALSE)]
  PROVE  CallOK'
<1>1. Sent(FALSE) \in CallRecords /\ Sent(FALSE).state # "waiting"
  BY SomeRecords DEF Sent
<1>2. call[t] \in [Slots -> CallRecords]
  BY DEF CallOK
<1>3. [call[t] EXCEPT ![s] = Sent(FALSE)] \in [Slots -> CallRecords]
  BY <1>1, <1>2
<1>4. call' = [call EXCEPT ![t] = [call[t] EXCEPT ![s] = Sent(FALSE)]]
  OBVIOUS
<1>5. call' \in [Tabs -> [Slots -> CallRecords]]
  BY <1>3, <1>4 DEF CallOK
<1>6. \A u \in Tabs, v \in Slots :
        call'[u][v] = IF u = t /\ v = s THEN Sent(FALSE) ELSE call[u][v]
  BY <1>2, <1>4 DEF CallOK
<1>7. \A u \in Tabs, v \in Slots : call'[u][v].state = "waiting" => rotation[u].state # "none"
  BY <1>1, <1>6 DEF CallOK
<1> QED
  BY <1>5, <1>7 DEF CallOK

LEMMA CallStep == PairOK /\ CallOK /\ [Next]_vars => CallOK'
<1> SUFFICES ASSUME PairOK, CallOK, [Next]_vars PROVE CallOK'
  OBVIOUS
<1> USE SomeRecords DEF PairOK, CallOK
<1>1. ASSUME NEW t \in Tabs, RouteToDashboard(t)
      PROVE  CallOK'
  <2>1. UNCHANGED rotation /\ "me" \in Slots
    BY <1>1 DEF RouteToDashboard, RenderDashboard, Slots
  <2>2. CASE UNCHANGED call
    BY <2>1, <2>2
  <2>3. CASE call' = [call EXCEPT ![t]["me"] = Sent(FALSE)]
    BY <2>1, <2>3, CallSent
  <2> QED
    BY <1>1, <2>2, <2>3 DEF RouteToDashboard, RenderDashboard
<1>2. ASSUME NEW t \in Tabs, TryAgain(t)
      PROVE  CallOK'
  <2>1. UNCHANGED rotation /\ "me" \in Slots
    BY <1>2 DEF TryAgain, RenderDashboard, Slots
  <2>2. CASE UNCHANGED call
    BY <2>1, <2>2
  <2>3. CASE call' = [call EXCEPT ![t]["me"] = Sent(FALSE)]
    BY <2>1, <2>3, CallSent
  <2> QED
    BY <1>2, <2>2, <2>3 DEF TryAgain, RenderDashboard
<1>3. ASSUME NEW t \in Tabs, Regenerate(t)
      PROVE  CallOK'
  BY <1>3 DEF Regenerate, Sent
<1>4. ASSUME NEW t \in Tabs, NEW s \in Slots, CallWorks(t, s)
      PROVE  CallOK'
  BY <1>4 DEF CallWorks, NoCall
<1>5. ASSUME NEW t \in Tabs, NEW s \in Slots, CallFails(t, s)
      PROVE  CallOK'
  BY <1>5 DEF CallFails, NoCall
<1>6. ASSUME NEW t \in Tabs, NEW s \in Slots, CallRefreshes(t, s)
      PROVE  CallOK'
  <2>1. [call[t][s] EXCEPT !.state = "waiting"] \in CallRecords
    BY DEF CallRecords
  <2>2. call' = [call EXCEPT ![t][s] = [call[t][s] EXCEPT !.state = "waiting"]]
    BY <1>6 DEF CallRefreshes
  <2>3. \A u \in Tabs : rotation[u].state # "none" => rotation'[u].state # "none"
    BY <1>6 DEF CallRefreshes, StartRotation
  <2>4. rotation'[t].state # "none"
    BY <1>6 DEF CallRefreshes, StartRotation
  <2> QED
    BY <2>1, <2>2, <2>3, <2>4
<1>7. ASSUME NEW t \in Tabs, NEW s \in Slots, CallRetried(t, s)
      PROVE  CallOK'
  BY <1>7 DEF CallRetried, Sent
<1>8. ASSUME NEW t \in Tabs, RotationWorks(t)
      PROVE  CallOK'
  BY <1>8 DEF RotationWorks, Rotations
<1>9. ASSUME NEW t \in Tabs, RotationSaved(t)
      PROVE  CallOK'
  <2> DEFINE After(s) == IF Waiting(t, s) THEN [call[t][s] EXCEPT !.state = "retry"] ELSE call[t][s]
  <2>1. \A s \in Slots : After(s) \in CallRecords /\ After(s).state # "waiting"
    <3>1. \A s \in Slots : call[t][s] \in CallRecords
      OBVIOUS
    <3>2. \A c \in CallRecords : [c EXCEPT !.state = "retry"] \in CallRecords
      BY DEF CallRecords
    <3>3. \A c \in CallRecords : [c EXCEPT !.state = "retry"].state # "waiting"
      BY DEF CallRecords
    <3> QED
      BY <3>1, <3>2, <3>3 DEF Waiting
  <2>2. call' = [call EXCEPT ![t] = [s \in Slots |-> After(s)]]
    BY <1>9 DEF RotationSaved
  <2>3. \A u \in Tabs \ {t} : rotation'[u] = rotation[u]
    BY <1>9 DEF RotationSaved
  <2> QED
    BY <2>1, <2>2, <2>3
<1>10. ASSUME NEW t \in Tabs, RotationFails(t)
      PROVE  CallOK'
  <2> DEFINE After(s) == IF Waiting(t, s) THEN NoCall ELSE call[t][s]
  <2>1. \A s \in Slots : After(s) \in CallRecords /\ After(s).state # "waiting"
    BY DEF Waiting, NoCall
  <2>2. call' = [call EXCEPT ![t] = [s \in Slots |-> After(s)]]
    BY <1>10 DEF RotationFails, WaitersFail
  <2>3. \A u \in Tabs \ {t} : rotation'[u] = rotation[u]
    BY <1>10 DEF RotationFails
  <2> QED
    BY <2>1, <2>2, <2>3
<1>11. ASSUME NEW t \in Tabs, Reload(t)
      PROVE  CallOK'
  BY <1>11 DEF Reload, NoCall
<1>12. CASE UNCHANGED <<call, rotation>>
  BY <1>12
<1> QED
  BY <1>1, <1>2, <1>3, <1>4, <1>5, <1>6, <1>7, <1>8, <1>9,
     <1>10, <1>11, <1>12
  DEF Next, RouteSteps, CallSteps, RotationSteps, vars, pageVars, serviceVars, historyVars,
      RouteToLogin, Navigate, SignIn, SignedIn, Logout, Expires

LEMMA PageStep == PageOK /\ [Next]_vars => PageOK'
<1> SUFFICES ASSUME PageOK, [Next]_vars PROVE PageOK'
  OBVIOUS
<1> USE PageTypes DEF Shown
<1>1. ASSUME NEW t \in Tabs, RouteToLogin(t)
      PROVE  PageOK'
  BY <1>1 DEF RouteToLogin
<1>2. ASSUME NEW t \in Tabs, RouteToDashboard(t)
      PROVE  PageOK'
  BY <1>2 DEF RouteToDashboard, RenderDashboard
<1>3. ASSUME NEW t \in Tabs, TryAgain(t)
      PROVE  PageOK'
  BY <1>3 DEF TryAgain, RenderDashboard
<1>4. ASSUME NEW t \in Tabs, Navigate(t)
      PROVE  PageOK'
  BY <1>4 DEF Navigate
<1>5. ASSUME NEW t \in Tabs, NEW s \in Slots, CallWorks(t, s)
      PROVE  PageOK'
  BY <1>5 DEF CallWorks
<1>6. ASSUME NEW t \in Tabs, NEW s \in Slots, CallFails(t, s)
      PROVE  PageOK'
  BY <1>6 DEF CallFails, Fails
<1>7. ASSUME NEW t \in Tabs, RotationFails(t)
      PROVE  PageOK'
  BY <1>7 DEF RotationFails, WaitersFail, Fails
<1>8. ASSUME NEW t \in Tabs, SignedIn(t)
      PROVE  PageOK'
  BY <1>8 DEF SignedIn
<1>9. ASSUME NEW t \in Tabs, Logout(t)
      PROVE  PageOK'
  BY <1>9 DEF Logout
<1>10. ASSUME NEW t \in Tabs, Reload(t)
      PROVE  PageOK'
  BY <1>10 DEF Reload
<1>11. CASE UNCHANGED pageVars
  BY <1>11 DEF PageOK, pageVars
<1> QED
  BY <1>1, <1>2, <1>3, <1>4, <1>5, <1>6, <1>7, <1>8, <1>9,
     <1>10, <1>11
  DEF Next, RouteSteps, CallSteps, RotationSteps, vars, pageVars, serviceVars, historyVars,
      Regenerate, CallRefreshes, CallRetried, RotationWorks, RotationSaved, SignIn, Expires, PageOK

LEMMA TypeStep == TypeOK /\ Known /\ [Next]_vars => TypeOK'
<1>1. TypeOK /\ Known /\ [Next]_vars => ServiceOK' /\ PairOK' /\ CallOK' /\ PageOK'
  BY ServiceStep, PairStep, CallStep, PageStep, Parts
<1>2. ServiceOK' /\ PairOK' /\ CallOK' /\ PageOK' => TypeOK'
  BY DEF TypeOK, ServiceOK, PairOK, CallOK, PageOK, Rotations, CallRecords
<1> QED
  BY <1>1, <1>2

-----------------------------------------------------------------------------
(* Pairs                                                                   *)

PairInv ==
  /\ Known
  /\ ComingIsNew
  /\ ComingOnce
  /\ PresentedWaits
  /\ StoredPairUsable
  /\ QuietIsQuiet

\* What the parts of the invariant say of numbers: issued pairs are 1 .. issued.
LEMMA Numbers ==
  ASSUME ServiceOK, PairOK, Known
  PROVE  /\ NoPair \notin live /\ live \subseteq 1 .. issued /\ issued \in Nat
         /\ store # NoPair => store \in 1 .. issued
         /\ \A t \in Tabs : NoPair \notin presented[t] /\ presented[t] \subseteq 1 .. issued
         /\ issued + 1 \notin 1 .. issued /\ issued + 1 # NoPair /\ issued + 1 # store
         /\ 1 .. issued \subseteq 1 .. issued + 1 /\ issued + 1 \in 1 .. issued + 1
<1>1. issued \in Nat /\ NoPair \notin 1 .. issued
  BY FrontendAssumption DEF ServiceOK, NoPair
<1>2. live \subseteq 1 .. issued /\ \A t \in Tabs : presented[t] \subseteq 1 .. issued
  BY DEF ServiceOK, Known
<1>3. store \in Nat /\ store <= issued
  BY FrontendAssumption DEF PairOK, Known, MaybePairs, Pairs, NoPair
<1>4. /\ store # NoPair => store \in 1 .. issued
      /\ issued + 1 \notin 1 .. issued /\ issued + 1 # NoPair /\ issued + 1 # store
      /\ 1 .. issued \subseteq 1 .. issued + 1 /\ issued + 1 \in 1 .. issued + 1
  BY <1>1, <1>3 DEF NoPair
<1> QED
  BY <1>1, <1>2, <1>4

LEMMA SameStep ==
  ASSUME PairInv, UNCHANGED <<store, rotation, signIn, issued, live, historyVars>>
  PROVE  PairInv'
<1>1. \A t \in Tabs, way \in Ways : Coming(t, way)' = Coming(t, way)
  BY DEF Coming
<1> QED
  BY <1>1 DEF PairInv, Known, ComingIsNew, ComingOnce, PresentedWaits, StoredPairUsable,
      QuietIsQuiet, NothingSaves, historyVars

LEMMA CallRefreshesStep ==
  ASSUME ServiceOK, PairOK, PairInv, NEW t \in Tabs, NEW s \in Slots, CallRefreshes(t, s)
  PROVE  PairInv'
<1>1. CASE rotation[t].state # "none"
  BY <1>1, SameStep DEF CallRefreshes, serviceVars, historyVars
<1>2. CASE rotation[t].state = "none"
  <2>1. /\ rotation' = [rotation EXCEPT ![t] = [state |-> "sent", pair |-> store, got |-> NoPair]]
        /\ presented' = [presented EXCEPT ![t] = @ \cup {store}]
        /\ store # NoPair
        /\ UNCHANGED <<store, signIn, issued, live, cut, quiet>>
    BY <1>2 DEF CallRefreshes, StartRotation, serviceVars
  <2>2. /\ rotation'[t].state = "sent" /\ rotation'[t].pair = store
        /\ \A u \in Tabs \ {t} : rotation'[u] = rotation[u] /\ presented'[u] = presented[u]
        /\ presented'[t] = presented[t] \cup {store}
    BY <2>1 DEF PairOK
  <2>3. \A u \in Tabs, way \in Ways : Coming(u, way)' = Coming(u, way)
    BY <1>2, <2>1, <2>2 DEF Coming
  <2>4. Known'
    BY <2>1, <2>2, Numbers DEF PairInv, Known
  <2>5. ComingIsNew' /\ ComingOnce'
    BY <2>1, <2>2, <2>3 DEF PairInv, ComingIsNew, ComingOnce
  <2>6. PresentedWaits' /\ StoredPairUsable' /\ QuietIsQuiet'
    BY <2>1, <2>2 DEF PairInv, PresentedWaits, StoredPairUsable, QuietIsQuiet
  <2> QED
    BY <2>4, <2>5, <2>6 DEF PairInv
<1> QED
  BY <1>1, <1>2

\* The service takes the pair that t presented: nobody else has it on its way.
LEMMA RotationWorksStep ==
  ASSUME ServiceOK, PairOK, PairInv, NEW t \in Tabs, RotationWorks(t)
  PROVE  PairInv'
<1> DEFINE p == rotation[t].pair
<1>1. /\ rotation[t].state = "sent" /\ p \in presented[t]
      /\ issued' = issued + 1
      /\ live' = (live \ {p}) \cup {issued + 1}
      /\ UNCHANGED <<store, signIn, presented, cut, quiet>>
  BY DEF RotationWorks, Issue, historyVars, PairInv, Known
<1>2. /\ rotation'[t].state = "ok" /\ rotation'[t].pair = p /\ rotation'[t].got = issued + 1
      /\ \A u \in Tabs \ {t} : rotation'[u] = rotation[u]
  BY <1>1 DEF RotationWorks, PairOK, Rotations
<1>3. \A u \in Tabs, way \in Ways :
        Coming(u, way)' = IF u = t /\ way = "rotation" THEN issued + 1 ELSE Coming(u, way)
  BY <1>1, <1>2 DEF Coming, Ways
<1>4. Known'
  <2>1. store <= issued' /\ 1 .. issued \subseteq 1 .. issued'
    BY <1>1, Numbers DEF PairInv, Known, PairOK, MaybePairs, Pairs, NoPair
  <2> QED
    BY <1>1, <1>2, <2>1 DEF PairInv, Known
<1>5. ComingIsNew'
  BY <1>1, <1>3, Numbers DEF PairInv, ComingIsNew
<1>6. ComingOnce'
  BY <1>3, Numbers DEF PairInv, ComingOnce, ComingIsNew
<1>7. PresentedWaits' /\ StoredPairUsable' /\ QuietIsQuiet'
  BY <1>1, <1>2 DEF PairInv, PresentedWaits, StoredPairUsable, QuietIsQuiet, NothingSaves
<1> QED
  BY <1>4, <1>5, <1>6, <1>7 DEF PairInv

\* The answer to a rotation or to a form is stored, and no longer on its way.
LEMMA StoreStep ==
  ASSUME ServiceOK, PairOK, PairInv, NEW t \in Tabs, NEW way \in Ways,
         store' = Coming(t, way), ~quiet, Coming(t, way)' = NoPair,
         \A u \in Tabs, by \in Ways : <<u, by>> # <<t, way>> => Coming(u, by)' = Coming(u, by),
         \A u \in Tabs : rotation'[u].state # "none" => rotation'[u] = rotation[u],
         UNCHANGED <<issued, live, presented, cut, quiet>>
  PROVE  PairInv'
<1>1. store' # NoPair => store' \in live /\ \A u \in Tabs : store' \notin presented[u]
  BY DEF PairInv, ComingIsNew
<1>2. store' <= issued
  <2>1. CASE store' = NoPair
    BY <2>1, Numbers DEF PairInv, NoPair
  <2>2. CASE store' # NoPair
    <3>1. store' \in 1 .. issued /\ issued \in Nat
      BY <1>1, <2>2, Numbers DEF PairInv
    <3> QED
      BY <3>1
  <2> QED
    BY <2>1, <2>2
<1>3. Known'
  BY <1>2 DEF PairInv, Known
<1>4. ComingIsNew'
  BY DEF PairInv, ComingIsNew, ComingOnce
<1>5. ComingOnce'
  BY DEF PairInv, ComingOnce
<1>6. PresentedWaits' /\ StoredPairUsable' /\ QuietIsQuiet'
  BY <1>1, Numbers DEF PairInv, PresentedWaits, StoredPairUsable, QuietIsQuiet
<1> QED
  BY <1>3, <1>4, <1>5, <1>6 DEF PairInv

LEMMA RotationSavedStep ==
  ASSUME ServiceOK, PairOK, PairInv, NEW t \in Tabs, RotationSaved(t)
  PROVE  PairInv'
<1>1. /\ rotation[t].state = "ok" /\ store' = rotation[t].got
      /\ UNCHANGED <<signIn, issued, live, presented, cut, quiet>>
  BY DEF RotationSaved, serviceVars, historyVars
<1>2. rotation'[t].state = "none" /\ \A u \in Tabs \ {t} : rotation'[u] = rotation[u]
  BY DEF RotationSaved, PairOK, NoRotation
<1>3. ~quiet
  BY <1>1 DEF PairInv, QuietIsQuiet, NothingSaves
<1>4. /\ "rotation" \in Ways /\ store' = Coming(t, "rotation") /\ Coming(t, "rotation")' = NoPair
      /\ \A u \in Tabs, by \in Ways :
           <<u, by>> # <<t, "rotation">> => Coming(u, by)' = Coming(u, by)
  BY <1>1, <1>2 DEF Coming, Ways
<1> QED
  BY <1>1, <1>2, <1>3, <1>4, StoreStep

LEMMA SignedInStep ==
  ASSUME ServiceOK, PairOK, PairInv, NEW t \in Tabs, SignedIn(t)
  PROVE  PairInv'
<1>1. /\ signIn[t] # NoPair /\ store' = signIn[t]
      /\ UNCHANGED <<rotation, issued, live, presented, cut, quiet>>
  BY DEF SignedIn, serviceVars, historyVars
<1>2. signIn'[t] = NoPair /\ \A u \in Tabs \ {t} : signIn'[u] = signIn[u]
  BY DEF SignedIn, PairOK
<1>3. ~quiet
  BY <1>1 DEF PairInv, QuietIsQuiet, NothingSaves
<1>4. /\ "form" \in Ways /\ store' = Coming(t, "form") /\ Coming(t, "form")' = NoPair
      /\ \A u \in Tabs, by \in Ways :
           <<u, by>> # <<t, "form">> => Coming(u, by)' = Coming(u, by)
  BY <1>1, <1>2 DEF Coming, Ways
<1> QED
  BY <1>1, <1>3, <1>4, StoreStep

LEMMA RotationFailsStep ==
  ASSUME ServiceOK, PairOK, PairInv, NEW t \in Tabs, RotationFails(t)
  PROVE  PairInv'
<1>1. /\ rotation[t].state # "none" /\ store' = NoPair
      /\ UNCHANGED <<signIn, issued, live, presented, cut, quiet>>
  BY DEF RotationFails, RotationError, serviceVars, historyVars
<1>2. rotation'[t].state = "none" /\ \A u \in Tabs \ {t} : rotation'[u] = rotation[u]
  BY DEF RotationFails, PairOK, NoRotation
<1>3. \A u \in Tabs, by \in Ways : Coming(u, by)' \in {Coming(u, by), NoPair}
  BY <1>1, <1>2 DEF Coming, Ways
<1>4. Known'
  BY <1>1, <1>2, Numbers DEF PairInv, Known, NoPair
<1>5. ComingIsNew' /\ ComingOnce'
  BY <1>1, <1>3 DEF PairInv, ComingIsNew, ComingOnce
<1>6. PresentedWaits' /\ StoredPairUsable' /\ QuietIsQuiet'
  BY <1>1, Numbers DEF PairInv, PresentedWaits, StoredPairUsable, QuietIsQuiet, NothingSaves
<1> QED
  BY <1>4, <1>5, <1>6 DEF PairInv

LEMMA SignInStep ==
  ASSUME ServiceOK, PairOK, PairInv, NEW t \in Tabs, SignIn(t)
  PROVE  PairInv'
<1>1. /\ issued' = issued + 1
      /\ live' = live \cup {issued + 1}
      /\ ~quiet'
      /\ UNCHANGED <<store, rotation, presented, cut>>
  BY Numbers DEF SignIn, Issue, PairInv
<1>2. signIn'[t] = issued + 1 /\ \A u \in Tabs \ {t} : signIn'[u] = signIn[u]
  BY <1>1 DEF SignIn, PairOK
<1>3. \A u \in Tabs, way \in Ways :
        Coming(u, way)' = IF u = t /\ way = "form" THEN issued + 1 ELSE Coming(u, way)
  BY <1>1, <1>2 DEF Coming, Ways
<1>4. Known'
  <2>1. store <= issued' /\ 1 .. issued \subseteq 1 .. issued'
    BY <1>1, Numbers DEF PairInv, Known, PairOK, MaybePairs, Pairs, NoPair
  <2> QED
    BY <1>1, <2>1 DEF PairInv, Known
<1>5. ComingIsNew'
  BY <1>1, <1>3, Numbers DEF PairInv, ComingIsNew
<1>6. ComingOnce'
  BY <1>3, Numbers DEF PairInv, ComingOnce, ComingIsNew
<1>7. PresentedWaits' /\ StoredPairUsable' /\ QuietIsQuiet'
  BY <1>1 DEF PairInv, PresentedWaits, StoredPairUsable, QuietIsQuiet
<1> QED
  BY <1>4, <1>5, <1>6, <1>7 DEF PairInv

LEMMA LogoutStep ==
  ASSUME ServiceOK, PairOK, PairInv, NEW t \in Tabs, Logout(t)
  PROVE  PairInv'
<1>1. /\ store' = NoPair
      /\ live' \in {live, live \ {store}}
      /\ quiet' = NothingSaves
      /\ UNCHANGED <<rotation, signIn, issued, presented, cut>>
  BY DEF Logout
<1>2. \A u \in Tabs, by \in Ways : Coming(u, by)' = Coming(u, by)
  BY <1>1 DEF Coming
<1>3. Known'
  BY <1>1, Numbers DEF PairInv, Known, NoPair
<1>4. ComingIsNew' /\ ComingOnce'
  BY <1>1, <1>2 DEF PairInv, ComingIsNew, ComingOnce
<1>5. PresentedWaits' /\ StoredPairUsable'
  BY <1>1, Numbers DEF PairInv, PresentedWaits, StoredPairUsable
<1>6. QuietIsQuiet'
  BY <1>1 DEF QuietIsQuiet, NothingSaves
<1> QED
  BY <1>3, <1>4, <1>5, <1>6 DEF PairInv

\* A pair that a rotation cut off had presented is remembered in cut.
LEMMA ReloadStep ==
  ASSUME ServiceOK, PairOK, PairInv, NEW t \in Tabs, Reload(t)
  PROVE  PairInv'
<1> DEFINE p == rotation[t].pair
<1>1. /\ \/ /\ rotation[t].state = "sent" /\ issued' = issued + 1
            /\ live' = (live \ {p}) \cup {issued + 1}
         \/ issued' = issued /\ live' = live
      /\ cut' = IF rotation[t].state # "none" THEN cut \cup {p} ELSE cut
      /\ UNCHANGED <<store, quiet>>
  BY DEF Reload, Issue, serviceVars
<1>2. /\ rotation'[t].state = "none" /\ signIn'[t] = NoPair /\ presented'[t] = {}
      /\ \A u \in Tabs \ {t} : /\ rotation'[u] = rotation[u] /\ signIn'[u] = signIn[u]
                               /\ presented'[u] = presented[u]
  BY DEF Reload, PairOK, NoRotation
<1>3. \A u \in Tabs, by \in Ways :
        Coming(u, by)' = IF u = t THEN NoPair ELSE Coming(u, by)
  BY <1>2 DEF Coming, Ways
<1>4. live \ {p} \subseteq live' /\ (rotation[t].state = "none" => live \subseteq live')
  BY <1>1
<1>5. rotation[t].state # "none" => p \in presented[t]
  BY DEF PairInv, Known
<1>6. Known'
  <2>1. store <= issued' /\ 1 .. issued \subseteq 1 .. issued'
    BY <1>1, Numbers DEF PairInv, Known, PairOK, MaybePairs, Pairs, NoPair
  <2> QED
    BY <1>1, <1>2, <2>1 DEF PairInv, Known
<1>7. ComingIsNew' /\ ComingOnce'
  BY <1>1, <1>2, <1>3, <1>4, <1>5 DEF PairInv, ComingIsNew, ComingOnce
<1>8. PresentedWaits' /\ QuietIsQuiet'
  BY <1>1, <1>2 DEF PairInv, PresentedWaits, QuietIsQuiet, NothingSaves
<1>9. StoredPairUsable'
  BY <1>1, <1>2, <1>4 DEF PairInv, StoredPairUsable
<1> QED
  BY <1>6, <1>7, <1>8, <1>9 DEF PairInv

LEMMA Invariant == Spec => []IInv
<1>1. IInv <=> TypeOK /\ PairInv
  BY DEF IInv, PairInv
<1>2. IInv /\ [Next]_vars => IInv'
  <2> SUFFICES ASSUME TypeOK, PairInv, [Next]_vars PROVE TypeOK' /\ PairInv'
    BY <1>1 DEF IInv, PairInv
  <2>1. TypeOK'
    BY TypeStep DEF PairInv
  <2>2. ServiceOK /\ PairOK
    BY Parts
  <2>3. CASE UNCHANGED <<store, rotation, signIn, issued, live, historyVars>>
    BY <2>1, <2>3, SameStep
  <2>4. ASSUME NEW t \in Tabs, NEW s \in Slots, CallRefreshes(t, s)
        PROVE  PairInv'
    BY <2>2, <2>4, CallRefreshesStep
  <2>5. ASSUME NEW t \in Tabs,
               \/ RotationWorks(t) \/ RotationSaved(t) \/ RotationFails(t)
               \/ SignIn(t) \/ SignedIn(t) \/ Logout(t) \/ Reload(t)
        PROVE  PairInv'
    BY <2>2, <2>5, RotationWorksStep, RotationSavedStep, RotationFailsStep, SignInStep,
       SignedInStep, LogoutStep, ReloadStep
  <2> QED
    BY <2>1, <2>3, <2>4, <2>5
    DEF Next, RouteSteps, CallSteps, RotationSteps, vars, serviceVars, RouteToLogin,
        RouteToDashboard, TryAgain, RenderDashboard, Navigate, Regenerate, CallWorks, CallFails,
        CallRetried, Expires
<1> QED
  BY InitInvariant, <1>2, PTL DEF Spec

-----------------------------------------------------------------------------
(* Theorems                                                                *)

\* Every variable keeps its type, and a request that waits for a rotation (the
\* promise refreshing) waits for one that is under way.
THEOREM FrontendTypeCorrect == Spec => []TypeOK
<1>1. IInv => TypeOK
  BY DEF IInv
<1> QED
  BY Invariant, <1>1, PTL

\* The stored pair can be used, whatever tabs, rotations, forms and reloads do
\* to it (saveTokens, clearTokens), but for the rotations named in the property.
THEOREM StoredPairUsableAlways == Spec => []StoredPairUsable
<1>1. IInv => StoredPairUsable
  BY DEF IInv
<1> QED
  BY Invariant, <1>1, PTL

\* A quiet logout (logoutFlow) lasts until somebody submits a form.
THEOREM QuietLogoutStaysAlways == Spec => []QuietLogoutStays
<1>1. IInv => QuietLogoutStays
  BY DEF IInv, QuietIsQuiet, QuietLogoutStays
<1> QED
  BY Invariant, <1>1, PTL

\* refreshTokens of one tab never sends the same refresh token twice, for any
\* number of tabs, requests and failures.
THEOREM PresentedOnceAlways == Spec => PresentedOnce
<1>1. ASSUME IInv, [Next]_vars, NEW t \in Tabs,
             rotation[t] # rotation'[t], rotation'[t].state = "sent"
      PROVE  store \notin presented[t]
  <2> USE <1>1
  <2>1. PairOK
    BY Parts DEF IInv
  <2>2. PICK u \in Tabs, s \in Slots : CallRefreshes(u, s)
    <3>1. ASSUME NEW u \in Tabs, rotation' = [rotation EXCEPT ![u] = NoRotation]
          PROVE  FALSE
      BY <2>1, <3>1 DEF PairOK, NoRotation
    <3>2. ASSUME NEW u \in Tabs, RotationWorks(u)
          PROVE  FALSE
      BY <2>1, <3>2 DEF PairOK, Rotations, RotationWorks
    <3> QED
      BY <3>1, <3>2
      DEF Next, RouteSteps, CallSteps, RotationSteps, vars, RouteToLogin, RouteToDashboard, TryAgain,
          RenderDashboard, Navigate, Regenerate, CallWorks, CallFails, CallRetried, RotationSaved,
          RotationFails, SignIn, SignedIn, Logout, Reload, Expires
  <2>3. t = u /\ rotation[t].state = "none"
    BY <2>1, <2>2 DEF PairOK, CallRefreshes, StartRotation
  <2> QED
    BY <2>3 DEF IInv, PresentedWaits
<1>2. IInv /\ [Next]_vars => [\A t \in Tabs :
         rotation[t] # rotation'[t] /\ rotation'[t].state = "sent"
           => store \notin presented[t]]_vars
  BY <1>1
<1> QED
  BY Invariant, <1>2, PTL DEF Spec, PresentedOnce

=============================================================================
