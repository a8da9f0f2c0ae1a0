SPECIFICATION Spec
CONSTANTS
  m1 = m1  m2 = m2  m3 = m3  d1 = d1  d2 = d2
  Messages = {m1, m2}
  NoMsg = NoMsg
  Dests = {d1, d2}
  DestOf <- MCDestOf
  Handlers = {h1}
  Workers = {w1, w2}
  Capacity = 2
  MaxPerHour = 1
  MaxRetries = 1
  ScanLimit = 1
  Exchangers = 2
  Outcomes <- ContractOutcomes
  Backlog = {m1}
  DBMayFail = FALSE
  MaxCrashes = 0
  MaxCopies = 2
  MaxAccepts = 2
CHECK_DEADLOCK FALSE
SYMMETRY Goroutines
INVARIANTS TypeOK NoMessageLost BounceTrail CounterOvershoot HourlyBounded
