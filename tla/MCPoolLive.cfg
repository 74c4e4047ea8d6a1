SPECIFICATION FairSpec
CONSTANTS
  None = None
  h1 = h1
  h2 = h2
  c1 = c1
  c2 = c2
  t1 = t1
  t2 = t2
  a1 = a1
  u1 = u1
  ida = ida
  idb = idb
  Users = {u1}
  ConnIds = {ida}
  UserOf <- UserOfOne
  Handlers = {h1}
  Admins = {}
  Calls = {c1, c2}
  TaskIds = {t1, t2}
  CallerIds = {}
  Timed = {c1, c2}
  QueueCap = 1
  MaxConnections = 0
PROPERTIES
  TimedCallReturns
