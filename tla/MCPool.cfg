SPECIFICATION Spec
CONSTANTS
  None = None
  h1 = h1
  h2 = h2
  c1 = c1
  c2 = c2
  t1 = t1
  t2 = t2
  a1 = a1
  u1 = u1
  ida = ida
  idb = idb
  Users = {u1}
  ConnIds = {ida, idb}
  UserOf <- UserOfTwo
  Handlers = {h1, h2}
  Admins = {}
  Calls = {c1, c2}
  TaskIds = {t1, t2}
  CallerIds = {t1}
  Timed = {}
  QueueCap = 1
  MaxConnections = 1
SYMMETRY Symmetry
CONSTRAINT FewCancelled
INVARIANTS
  TypeOK
  OneVerdict
  SentOutlivesReplacement
  ConnectionLimit
  NoGhostRegistration
PROPERTIES
  ImplementsTaskCall
  EntryLeavesWithVerdict
