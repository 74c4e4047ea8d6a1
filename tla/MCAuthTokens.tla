---------------------------- MODULE MCAuthTokens ----------------------------
EXTENDS AuthTokens, TLC

CONSTANTS u1, u2, k1, k2, uri1, v1, t1, t2, t3, d1, r1, r2, r3, r4

\* Users, requests, tokens, codes, clients, URIs and verifiers are interchangeable.
Symmetry ==
  Permutations(Users) \cup Permutations(Requests) \cup Permutations(Tokens) \cup Permutations(Codes)
    \cup Permutations(Clients) \cup Permutations(Uris) \cup Permutations(Verifiers)

=============================================================================
