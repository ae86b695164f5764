SPECIFICATION LiveSpec
CONSTANTS
  s1 = s1
  s2 = s2
  cs = cs
  Sender = {s1, s2}
  RowCount = 2
  Division = {cs}
  DivisionOf <- AllCs
  DigestRow = {2}
  MaxAttempts = 2
  RetryDelay <- OneDelay
  ClaimLease = 1
  DueLimit = 1
  SlowSenders = FALSE
  MaxCrashes = 1
  MaxEdits = 1
  MaxRetries = 1
INVARIANTS
  OneWinner
  SentOnce
PROPERTIES
  PromiseKept
  EveryRowSettles
CONSTRAINT OneFault
