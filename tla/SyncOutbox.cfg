SPECIFICATION Spec
CONSTANTS
  d1 = d1
  d2 = d2
  x1 = x1
  x2 = x2
  t1 = t1
  t2 = t2
  NoTrace = NoTrace
  PushTrace = PushTrace
  Device = {d1}
  Entity = {x1, x2}
  Table = {t1, t2}
  ReadOnly = {t2}
  TableOf <- TwoTables
  Parents <- NoParents
  BatchMax = 2
  RoundMax = 2
  MaxEvents = 1
  MaxWebWrites = 2
  DirectPulls = TRUE
  LateCommits = TRUE
  LaggingReads = TRUE
INVARIANTS
  SyncedReachedCloud
PROPERTIES
  UnsentRowKept
CONSTRAINT TwoWrites
