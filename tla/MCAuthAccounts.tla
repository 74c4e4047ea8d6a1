--------------------------- MODULE MCAuthAccounts ---------------------------
EXTENDS AuthAccounts, TLC

CONSTANTS a1, a2, e1, e2, c1, c2, k1, k2, r1, r2, r3, r4

\* auth-dev with all the requests; Postgres, with the operator's
\* user and less of them.  All values but keys (few, drawn late) are interchanged.
MCSetups ==
  [memory : {TRUE}, name : {None}, email : {None}, requests : {Requests}]
    \cup [memory : {FALSE}, name : Names, email : Emails,
          requests : {R \in SUBSET Requests : Cardinality(R) = 3}]

WithoutOperator == [memory : {FALSE}, name : {None}, email : {None}, requests : {Requests}]

Symmetry ==
  Permutations(Requests) \cup Permutations(Codes)
    \cup Permutations(Names) \cup Permutations(Emails)

=============================================================================
