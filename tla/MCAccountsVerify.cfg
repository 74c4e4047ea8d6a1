SPECIFICATION Spec
CONSTANTS
  None = None
  a1 = a1
  a2 = a2
  e1 = e1
  e2 = e2
  c1 = c1
  c2 = c2
  k1 = k1
  k2 = k2
  r1 = r1
  r2 = r2
  r3 = r3
  r4 = r4
  Names = {a1, a2}
  Emails = {e1, e2}
  Codes = {c1}
  Keys = {k1}
  Requests = {r1, r2, r3, r4}
  MaxAttempts = 1
  KeyAttempts = 2
  Setups <- WithoutOperator
SYMMETRY Symmetry
INVARIANTS
  VerifyAnswerIsTrue
