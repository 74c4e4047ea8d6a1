-------------------------- MODULE MCConnectionPool --------------------------
(* Finite instances of ConnectionPool for TLC.                             *)
EXTENDS ConnectionPool, TLC

CONSTANTS h1, h2, c1, c2, t1, t2, a1, u1, ida, idb

UserOfOne == [id \in {ida} |-> u1]
UserOfTwo == [id \in {ida, idb} |-> u1]

\* Streams and calls are interchangeable, and so are the ids of one user.
Symmetry == Permutations(Handlers) \cup Permutations(Calls) \cup Permutations(ConnIds)

\* A bound: callers cancel at most one of the calls, one whose task id they chose
\* and may use again. Cancelling a call that returns otherwise changes nothing
\* more: its context is not read after it left the final select.
FewCancelled ==
  LET cancelled == {c \in Calls : ctx[c] = "cancelled"} IN
    /\ Cardinality(cancelled) <= 1
    /\ \A c \in cancelled :
         /\ tid[c] \in CallerIds
         /\ cpc[c] \in {"cleanup", "done"} => outcome[c] = "ctxErr"
=============================================================================
