--------------------------- MODULE RefreshSessions ---------------------------
(***************************************************************************)
(* What the refresh tokens of the auth service promise, without tokens:    *)
(* a session begins with a login of one user, belongs to that user, and    *)
(* once it is over it is over for good (store.go, RefreshStore).           *)
(***************************************************************************)
CONSTANTS Sessions, Users

VARIABLE session   \* session[s]: "none", the user, or "over"

Init == session = [s \in Sessions |-> "none"]

Login(s, u) ==
  /\ session[s] = "none"
  /\ session' = [session EXCEPT ![s] = u]

\* Revocation or expiry; several sessions may end at once.
End(S) ==
  /\ \A s \in S : session[s] \in Users
  /\ session' = [s \in Sessions |-> IF s \in S THEN "over" ELSE session[s]]

Next ==
  \/ \E s \in Sessions, u \in Users : Login(s, u)
  \/ \E S \in SUBSET Sessions : End(S)

Spec == Init /\ [][Next]_session

=============================================================================
