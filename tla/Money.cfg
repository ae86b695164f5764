SPECIFICATION Spec
CONSTANTS
  w1 = w1
  w2 = w2
  p1 = p1
  p2 = p2
  t1 = t1
  c1 = c1
  c2 = c2
  None = None
  WebDesk = {w1}
  Device = {p1}
  Ticket = {t1}
  Client = {c1, c2}
  ClientOf <- OfFirstClient
  Billed = {"SETTLEMENT", "STORAGE_FEE"}
  Subtotals = {6}
  Rated = {TRUE}
  Amounts = {4, 7}
  Parts = {1}
  OptionAtStart <- HalfOff
  Editable = {"INSTALLMENT_PLAN"}
  OptionEdits <- PlanEdits
  MaxInvoices = 3
  MaxFunds = 1
  FactsAtStart <- InProduction
  MaxLost = 1
INVARIANTS
  NeverOverpaid
  StoppedRowsHoldNoMoney
  OneLiveInvoice
PROPERTIES
  ClearedStaysCleared
