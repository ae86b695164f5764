SPECIFICATION Spec
CONSTANTS
  w1 = w1
  k1 = k1
  t1 = t1
  c1 = c1
  None = None
  Ticket = {t1}
  Client = {c1}
  ClientOf <- OfClient
  Cashier = {k1}
  CashDevice = {}
  Billed = {"DP_PRODUCTION_LEGAL", "SETTLEMENT", "STORAGE_FEE"}
  Subtotals = {2}
  Amounts = {5}
  Rated = {FALSE}
  Parts = {}
  OptionAtStart <- TwoParts
  Editable = {"TAX"}
  OptionEdits <- NoEdit
  MaxInvoices = 4
  MaxFunds = 1
  FactsAtStart <- NothingElse
  MaxCashLost = 0
  WebDesk = {w1}
  Device = {}
  Paths = {"WHITE_LABEL"}
  LegalSteps <- HalalOnly
  Plans <- OnePlan
  Methods = {"CARRIER"}
  MaxMou = 1
  MaxBatches = 1
  MaxOrders = 1
  MaxEta = 1
  MaxShipments = 1
  MaxRevisions = 1
  MaxSchedules = 1
  MaxLost = 1
INVARIANTS
  NothingLeavesUnpaid
PROPERTIES
  FinanceKeepsItsPromise
  ProductionKeepsItsPromise
