SPECIFICATION FairSpec
CONSTANTS
  b1 = b1
  b2 = b2
  Tabs = {b1, b2}
  BusyTabs = {b1}
  MaxPairs = 2
  MaxFaults = 1
INVARIANTS
  TypeOK
  StoredPairUsable
  QuietLogoutStays
PROPERTIES
  PresentedOnce
  SpinnerGoes
CHECK_DEADLOCK FALSE
