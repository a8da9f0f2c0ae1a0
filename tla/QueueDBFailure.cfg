SPECIFICATION Spec
CONSTANTS
  m1 = m1  m2 = m2  m3 = m3  d1 = d1  d2 = d2
  Messages = {m1, m2}
  NoMsg = NoMsg
  Dests = {d1, d2}
  DestOf <- MCDestOf
  Handlers = {h1, h2}
  Workers = {w1, w2}
  Capacity = 1
  MaxPerHour = 1
  MaxRetries = 1
  ScanLimit = 1
  Exchangers = 2
  Outcomes <- DeployedOutcomes
  Backlog = {}
  DBMayFail = TRUE
  MaxCrashes = 1
  MaxCopies = 2
  MaxAccepts = 4
CHECK_DEADLOCK FALSE
SYMMETRY Goroutines
INVARIANTS SingleHolder AtMostOnce StartWaitsOnlyOnOverflow
PROPERTIES ImplementsLedger
