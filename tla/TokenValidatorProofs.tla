------------------------ MODULE TokenValidatorProofs ------------------------
(***************************************************************************)
(* Proofs about TokenValidator, for any number of requests, keys, faults   *)
(* and any refresh interval.                                               *)
(*                                                                         *)
(* That forced fetches are spaced needs only that the window and the time  *)
(* since the last fetch make up the interval.  That an undisturbed request *)
(* is accepted needs what "undisturbed" keeps true of the cache: nothing   *)
(* but the auth service's own key can get into it, and whoever finds the   *)
(* interval used up with nobody fetching finds that key there.             *)
(***************************************************************************)
EXTENDS TokenValidator, TLAPS

\* The window and the time since the last forced fetch make up the interval.
WindowMeasures == since + window = RefreshInterval

\* While a request is undisturbed, nothing but the running auth service's key
\* is on its way to the cache.
CleanFetch ==
  clean # {} =>
    /\ authUp
    /\ late = {}
    /\ \A q \in Requests :
         pc[q] = "fetch" =>
           /\ answer[q].what # Failed
           /\ answer[q].what = "key" => answer[q].key = authKey

\* An undisturbed request has that key, and so has the cache from the end of
\* the next refresh on.
CleanRequest ==
  \A r \in clean :
    pc[r] \notin Idle =>
      /\ token[r].kid = authKey
      /\ pc[r] = "second" => cached = authKey
      /\ pc[r] \in {"first", "queued"} /\ window > 0 /\ holder = Nobody => cached = authKey

IInv == TypeOK /\ WindowMeasures /\ CleanFetch /\ CleanRequest

-----------------------------------------------------------------------------
(* Types, and the interval                                                 *)

LEMMA InitInvariant == Init => IInv
<1> SUFFICES ASSUME Init PROVE IInv
  OBVIOUS
<1>1. TypeOK
  BY IntervalAssumption, BoundsAssumption, NobodyAssumption
  DEF Init, TypeOK, Keys, Tokens, NoToken, NoAnswer, States, Idle, Pending, Failed, Nobody, NoKey
<1> QED
  BY <1>1, IntervalAssumption DEF Init, IInv, WindowMeasures, CleanFetch, CleanRequest

LEMMA TypeStep == TypeOK /\ [Next]_vars => TypeOK'
<1> SUFFICES ASSUME TypeOK, [Next]_vars PROVE TypeOK'
  OBVIOUS
<1> USE IntervalAssumption, BoundsAssumption, NobodyAssumption
    DEF TypeOK, Keys, Tokens, NoToken, NoAnswer, States, Idle, Pending, Failed, Nobody, NoKey,
        authVars, cacheVars, historyVars
<1>1. ASSUME AuthStop
      PROVE  TypeOK'
  BY <1>1 DEF AuthStop
<1>2. ASSUME AuthStart
      PROVE  TypeOK'
  BY <1>2 DEF AuthStart
<1>3. ASSUME NEW r \in Requests, NEW t \in Tokens, Present(r, t)
      PROVE  TypeOK'
  BY <1>3 DEF Present
<1>4. ASSUME NEW r \in Requests, PresentNothing(r)
      PROVE  TypeOK'
  BY <1>4 DEF PresentNothing
<1>5. ASSUME NEW r \in Requests, FirstParse(r)
      PROVE  TypeOK'
  BY <1>5 DEF FirstParse, Answer
<1>6. ASSUME NEW r \in Requests, RefreshSkipped(r)
      PROVE  TypeOK'
  BY <1>6 DEF RefreshSkipped
<1>7. ASSUME NEW r \in Requests, RefreshStarts(r)
      PROVE  TypeOK'
  BY <1>7 DEF RefreshStarts
<1>8. ASSUME NEW r \in Requests, AuthAnswers(r)
      PROVE  TypeOK'
  BY <1>8 DEF AuthAnswers
<1>9. ASSUME NEW r \in Requests, FetchFails(r)
      PROVE  TypeOK'
  BY <1>9 DEF FetchFails
<1>10. ASSUME NEW r \in Requests, RefreshEnds(r)
      PROVE  TypeOK'
  BY <1>10 DEF RefreshEnds
<1>11. ASSUME NEW r \in Requests, ClientGone(r)
      PROVE  TypeOK'
  <2>1. late' \subseteq Keys
    <3>1. answer[r].key \in Keys /\ authKey \in Keys
      BY <1>11
    <3>2. late' = late \/ late' = late \cup {answer[r].key} \/ late' = late \cup {authKey}
      BY <1>11 DEF ClientGone
    <3> HIDE DEF Keys
    <3> QED
      BY <3>1, <3>2
  <2>2. authKey' \in Keys /\ authUp' \in BOOLEAN /\ cached' \in {NoKey} \cup Keys
        /\ window' \in 0 .. RefreshInterval /\ since' \in 0 .. RefreshInterval
        /\ faults' \in 0 .. MaxFaults /\ clean' \subseteq Requests
    BY <1>11 DEF ClientGone
  <2>3. /\ token' \in [Requests -> Tokens \cup {NoToken}]
        /\ answer' \in [Requests -> [what : {Pending, Failed, "key"}, key : Keys]]
    BY <1>11 DEF ClientGone
  <2>4. /\ holder' \in Requests \cup {Nobody}
        /\ pc' \in [Requests -> States]
        /\ \A q \in Requests : (pc'[q] = "fetch") = (holder' = q)
    BY <1>11 DEF ClientGone
  <2> QED
    BY <2>1, <2>2, <2>3, <2>4
<1>12. ASSUME NEW r \in Requests, SecondParse(r)
      PROVE  TypeOK'
  BY <1>12 DEF SecondParse, Answer
<1>13. ASSUME CacheFetches
      PROVE  TypeOK'
  BY <1>13 DEF CacheFetches
<1>14. ASSUME NEW k \in Keys, CacheStores(k)
      PROVE  TypeOK'
  BY <1>14 DEF CacheStores
<1>15. ASSUME NEW k \in Keys, LateAnswerLost(k)
      PROVE  TypeOK'
  BY <1>15 DEF LateAnswerLost
<1>16. ASSUME Tick
      PROVE  TypeOK'
  BY <1>16 DEF Tick, Less
<1>17. CASE UNCHANGED vars
  BY <1>17 DEF vars
<1> QED
  BY <1>1, <1>2, <1>3, <1>4, <1>5, <1>6, <1>7, <1>8,
     <1>9, <1>10, <1>11, <1>12, <1>13, <1>14, <1>15, <1>16, <1>17 DEF Next, Refresh, Answered

\* Only a forced fetch and the passing of time move either of them.
LEMMA WindowStep == TypeOK /\ WindowMeasures /\ [Next]_vars => WindowMeasures'
<1> SUFFICES ASSUME TypeOK, WindowMeasures, [Next]_vars PROVE WindowMeasures'
  OBVIOUS
<1> USE IntervalAssumption DEF TypeOK, WindowMeasures
<1>1. ASSUME NEW r \in Requests, RefreshStarts(r)
      PROVE  WindowMeasures'
  BY <1>1 DEF RefreshStarts
<1>2. CASE Tick
  BY <1>2 DEF Tick, Less
<1>3. CASE UNCHANGED <<window, since>>
  BY <1>3
<1> QED
  BY <1>1, <1>2, <1>3
  DEF Next, Refresh, Answered, vars, historyVars, AuthStop, AuthStart, Present, PresentNothing,
      FirstParse, RefreshSkipped, AuthAnswers, FetchFails, RefreshEnds, ClientGone, SecondParse,
      CacheFetches, CacheStores, LateAnswerLost

-----------------------------------------------------------------------------
(* Undisturbed requests                                                    *)

\* A disturbance leaves no request undisturbed; a request that becomes so finds
\* nobody fetching; and the auth service that is up answers with its own key.
LEMMA CleanFetchStep == TypeOK /\ CleanFetch /\ [Next]_vars => CleanFetch'
<1> SUFFICES ASSUME TypeOK, CleanFetch, [Next]_vars PROVE CleanFetch'
  OBVIOUS
<1> USE NobodyAssumption
    DEF TypeOK, CleanFetch, NoAnswer, Pending, Failed, authVars, cacheVars, historyVars
<1>1. ASSUME AuthStop
      PROVE  CleanFetch'
  BY <1>1 DEF AuthStop
<1>2. ASSUME AuthStart
      PROVE  CleanFetch'
  BY <1>2 DEF AuthStart
<1>3. ASSUME NEW r \in Requests, NEW t \in Tokens, Present(r, t)
      PROVE  CleanFetch'
  BY <1>3 DEF Present, Undisturbed
<1>4. ASSUME NEW r \in Requests, PresentNothing(r)
      PROVE  CleanFetch'
  BY <1>4 DEF PresentNothing
<1>5. ASSUME NEW r \in Requests, FirstParse(r)
      PROVE  CleanFetch'
  BY <1>5 DEF FirstParse, Answer
<1>6. ASSUME NEW r \in Requests, RefreshSkipped(r)
      PROVE  CleanFetch'
  BY <1>6 DEF RefreshSkipped
<1>7. ASSUME NEW r \in Requests, RefreshStarts(r)
      PROVE  CleanFetch'
  BY <1>7 DEF RefreshStarts
<1>8. ASSUME NEW r \in Requests, AuthAnswers(r)
      PROVE  CleanFetch'
  BY <1>8 DEF AuthAnswers
<1>9. ASSUME NEW r \in Requests, FetchFails(r)
      PROVE  CleanFetch'
  BY <1>9 DEF FetchFails
<1>10. ASSUME NEW r \in Requests, RefreshEnds(r)
      PROVE  CleanFetch'
  BY <1>10 DEF RefreshEnds
<1>11. ASSUME NEW r \in Requests, ClientGone(r)
      PROVE  CleanFetch'
  BY <1>11 DEF ClientGone
<1>12. ASSUME NEW r \in Requests, SecondParse(r)
      PROVE  CleanFetch'
  BY <1>12 DEF SecondParse, Answer
<1>13. ASSUME CacheFetches
      PROVE  CleanFetch'
  BY <1>13 DEF CacheFetches
<1>14. ASSUME NEW k \in Keys, CacheStores(k)
      PROVE  CleanFetch'
  BY <1>14 DEF CacheStores
<1>15. ASSUME NEW k \in Keys, LateAnswerLost(k)
      PROVE  CleanFetch'
  BY <1>15 DEF LateAnswerLost
<1>16. ASSUME Tick
      PROVE  CleanFetch'
  BY <1>16 DEF Tick
<1>17. CASE UNCHANGED vars
  BY <1>17 DEF vars
<1> QED
  BY <1>1, <1>2, <1>3, <1>4, <1>5, <1>6, <1>7, <1>8,
     <1>9, <1>10, <1>11, <1>12, <1>13, <1>14, <1>15, <1>16, <1>17 DEF Next, Refresh, Answered

\* The cache can only get the key that these requests wait for.
LEMMA CleanRequestStep == TypeOK /\ CleanFetch /\ CleanRequest /\ [Next]_vars => CleanRequest'
<1> SUFFICES ASSUME TypeOK, CleanFetch, CleanRequest, [Next]_vars PROVE CleanRequest'
  OBVIOUS
<1> USE NobodyAssumption
    DEF TypeOK, CleanFetch, CleanRequest, NoAnswer, Pending, Failed, Idle, authVars, cacheVars, historyVars
<1>1. ASSUME AuthStop
      PROVE  CleanRequest'
  BY <1>1 DEF AuthStop
<1>2. ASSUME AuthStart
      PROVE  CleanRequest'
  BY <1>2 DEF AuthStart
<1>3. ASSUME NEW r \in Requests, NEW t \in Tokens, Present(r, t)
      PROVE  CleanRequest'
  BY <1>3 DEF Present, Undisturbed
<1>4. ASSUME NEW r \in Requests, PresentNothing(r)
      PROVE  CleanRequest'
  BY <1>4 DEF PresentNothing
<1>5. ASSUME NEW r \in Requests, FirstParse(r)
      PROVE  CleanRequest'
  BY <1>5 DEF FirstParse, Answer
<1>6. ASSUME NEW r \in Requests, RefreshSkipped(r)
      PROVE  CleanRequest'
  BY <1>6 DEF RefreshSkipped
<1>7. ASSUME NEW r \in Requests, RefreshStarts(r)
      PROVE  CleanRequest'
  BY <1>7 DEF RefreshStarts
<1>8. ASSUME NEW r \in Requests, AuthAnswers(r)
      PROVE  CleanRequest'
  BY <1>8 DEF AuthAnswers
<1>9. ASSUME NEW r \in Requests, FetchFails(r)
      PROVE  CleanRequest'
  BY <1>9 DEF FetchFails
<1>10. ASSUME NEW r \in Requests, RefreshEnds(r)
      PROVE  CleanRequest'
  BY <1>10 DEF RefreshEnds
<1>11. ASSUME NEW r \in Requests, ClientGone(r)
      PROVE  CleanRequest'
  BY <1>11 DEF ClientGone
<1>12. ASSUME NEW r \in Requests, SecondParse(r)
      PROVE  CleanRequest'
  BY <1>12 DEF SecondParse, Answer
<1>13. ASSUME CacheFetches
      PROVE  CleanRequest'
  BY <1>13 DEF CacheFetches
<1>14. ASSUME NEW k \in Keys, CacheStores(k)
      PROVE  CleanRequest'
  BY <1>14 DEF CacheStores
<1>15. ASSUME NEW k \in Keys, LateAnswerLost(k)
      PROVE  CleanRequest'
  BY <1>15 DEF LateAnswerLost
<1>16. ASSUME Tick
      PROVE  CleanRequest'
  BY <1>16 DEF Tick, Less
<1>17. CASE UNCHANGED vars
  BY <1>17 DEF vars
<1> QED
  BY <1>1, <1>2, <1>3, <1>4, <1>5, <1>6, <1>7, <1>8,
     <1>9, <1>10, <1>11, <1>12, <1>13, <1>14, <1>15, <1>16, <1>17 DEF Next, Refresh, Answered

LEMMA Invariant == Spec => []IInv
<1>1. IInv /\ [Next]_vars => IInv'
  BY TypeStep, WindowStep, CleanFetchStep, CleanRequestStep DEF IInv
<1> QED
  BY InitInvariant, <1>1, PTL DEF Spec

-----------------------------------------------------------------------------
(* Theorems                                                                *)

\* Every variable keeps its type, and refreshMu is held by the one request that
\* fetches (Validate, refreshKeySet).
THEOREM ValidatorTypeCorrect == Spec => []TypeOK
<1>1. IInv => TypeOK
  BY DEF IInv
<1> QED
  BY Invariant, <1>1, PTL

\* refreshKeySet asks the auth service at most once in refreshInterval, for any
\* interval, any number of requests and whatever tokens they present.
THEOREM FetchesSpacedAlways == Spec => FetchesSpaced
<1>1. ASSUME IInv, [Next]_vars, NEW r \in Requests, pc[r] = "queued", pc'[r] = "fetch"
      PROVE  since = RefreshInterval
  <2>1. PICK q \in Requests : RefreshStarts(q)
    BY <1>1
    DEF IInv, TypeOK, Next, Refresh, Answered, vars, authVars, cacheVars, historyVars, AuthStop,
        AuthStart, Present, PresentNothing, FirstParse, RefreshSkipped, AuthAnswers, FetchFails,
        RefreshEnds, ClientGone, SecondParse, Answer, CacheFetches, CacheStores, LateAnswerLost, Tick
  <2> QED
    BY <1>1, <2>1, IntervalAssumption DEF IInv, TypeOK, WindowMeasures, RefreshStarts
<1>2. IInv /\ [Next]_vars => [\A r \in Requests :
         pc[r] = "queued" /\ pc'[r] = "fetch" => since = RefreshInterval]_vars
  BY <1>1
<1> QED
  BY Invariant, <1>2, PTL DEF Spec, FetchesSpaced

\* Validate accepts an undisturbed request with a sound token of the running
\* auth service, whether it fetched the key set itself, waited for refreshMu
\* while another did, or came too late to wait.
THEOREM QuietRefreshAcceptsAlways == Spec => QuietRefreshAccepts
<1>1. ASSUME IInv, [Next]_vars, NEW r \in clean, pc[r] \notin Idle, pc'[r] = "rejected"
      PROVE  ~token[r].sound
  <2> USE <1>1 DEF IInv, TypeOK, Idle
  <2>1. r \in Requests
    OBVIOUS
  <2>2. FirstParse(r) \/ SecondParse(r)
    BY <2>1
    DEF Next, Refresh, Answered, vars, authVars, cacheVars, historyVars, AuthStop, AuthStart, Present,
        PresentNothing, FirstParse, RefreshSkipped, RefreshStarts, AuthAnswers, FetchFails,
        RefreshEnds, ClientGone, SecondParse, Answer, CacheFetches, CacheStores, LateAnswerLost, Tick
  <2>3. CASE FirstParse(r)
    BY <2>1, <2>3 DEF FirstParse, Answer
  <2>4. CASE SecondParse(r)
    BY <2>1, <2>4 DEF CleanRequest, SecondParse, Answer
  <2> QED
    BY <2>2, <2>3, <2>4
<1>2. IInv /\ [Next]_vars => [\A r \in clean :
         pc[r] \notin Idle /\ pc'[r] = "rejected" => ~token[r].sound]_vars
  BY <1>1
<1> QED
  BY Invariant, <1>2, PTL DEF Spec, QuietRefreshAccepts

=============================================================================
