SPECIFICATION Spec
CONSTANTS
  w1 = w1
  p1 = p1
  t1 = t1
  None = None
  WebDesk = {w1}
  Device = {p1}
  Ticket = {t1}
  Paths = {"WHITE_LABEL"}
  LegalSteps <- HalalOnly
  Plans <- TwoPlans
  Methods = {"CARRIER"}
  MaxMou = 2
  MaxBatches = 2
  MaxOrders = 1
  MaxEta = 0
  MaxShipments = 2
  MaxRevisions = 0
  MaxSchedules = 2
  MaxLost = 0
INVARIANTS
  StartedComplete
  OnePerOrder
  GoodsLeaveSettled
  HandedOverWhenCompleted
PROPERTIES
  FinishedStagesKept
CONSTRAINT Followed
