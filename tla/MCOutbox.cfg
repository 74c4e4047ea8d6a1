SPECIFICATION FairSpec
CONSTANTS
  k1 = k1
  k2 = k2
  k3 = k3
  Tasks = {k1, k2, k3}
INVARIANTS
  TypeOK
  NoLostWakeup
  KeptUntilHandled
  NothingLostInSilence
PROPERTIES
  EventuallyHandled
