SPECIFICATION LiveSpec
CONSTANTS
  d1 = d1
  x1 = x1
  x2 = x2
  t1 = t1
  NoTrace = NoTrace
  PushTrace = PushTrace
  Device = {d1}
  Entity = {x1, x2}
  Table = {t1}
  ReadOnly = {}
  TableOf <- TwoRows
  Parents <- PhotoOfTicket
  BatchMax = 2
  RoundMax = 2
  MaxEvents = 2
  MaxWebWrites = 1
  DirectPulls = TRUE
  LateCommits = FALSE
  LaggingReads = FALSE
  MaxFaults = 2

  
PROPERTIES
  AppliedOnce
  QuarantineHolds
  EventSettles
  DeviceCatchesUp
CONSTRAINTS
  TwoWrites
  OneBeside
