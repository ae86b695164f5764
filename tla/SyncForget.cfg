SPECIFICATION Spec
CONSTANTS
  d1 = d1
  d2 = d2
  x1 = x1
  x2 = x2
  t1 = t1
  t2 = t2
  NoTrace = NoTrace
  PushTrace = PushTrace
  Device = {d1}
  Entity = {x1}
  Table = {t1}
  ReadOnly = {}
  TableOf <- OneRow
  Parents <- NoParents
  BatchMax = 2
  RoundMax = 2
  MaxEvents = 2
  MaxWebWrites = 1
  DirectPulls = FALSE
  LateCommits = FALSE
  LaggingReads = FALSE
PROPERTIES
  ForgottenRowIsLocal
