SPECIFICATION Spec
CONSTANTS
  None = None
  u1 = u1
  u2 = u2
  k1 = k1
  k2 = k2
  uri1 = uri1
  v1 = v1
  t1 = t1
  t2 = t2
  t3 = t3
  d1 = d1
  r1 = r1
  r2 = r2
  r3 = r3
  r4 = r4
  Users = {u1, u2}
  Clients = {k1, k2}
  Uris = {uri1}
  Verifiers = {v1}
  Tokens = {t1, t2, t3}
  Codes = {d1}
  Requests = {r1, r2, r3, r4}
  Memory = FALSE
SYMMETRY Symmetry
INVARIANTS
  TypeOK
  OneWinner
  AnsweredTokenIsKept
  GrantMatchesConfirm
PROPERTIES
  ImplementsSessions
