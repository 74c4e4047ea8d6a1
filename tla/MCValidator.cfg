SPECIFICATION FairSpec
CONSTANTS
  q1 = q1
  q2 = q2
  Requests = {q1, q2}
  RefreshInterval = 2
  MaxKey = 2
  MaxFaults = 1
INVARIANTS
  TypeOK
PROPERTIES
  FetchesSpaced
  QuietRefreshAccepts
  CurrentTokenAccepted
