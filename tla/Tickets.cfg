SPECIFICATION Spec
CONSTANTS
  w1 = w1
  p1 = p1
  None = None
  Browser = {w1}
  Offline = {"CLIENT_REVISE"}
  Device = {p1}
  Wishes <- DummyPaidFor
  Quotas = {0, 1}
  MaxRejections = 1
  Kinds = {"SAMPLE", "DUMMY"}
  MaxTickets = 1
  MaxRevisions = 1
  MaxPrices = 2
  MaxDesigns = 1
  MaxTerms = 1
  MaxLinks = 2

  
  
PROPERTIES
  LinkAnswersWhatWasSent
CONSTRAINTS Unraced Apart
