SPECIFICATION FairSpec
CONSTANTS
  m1 = m1  m2 = m2  m3 = m3  d1 = d1  d2 = d2
  Messages = {m1, m2}
  NoMsg = NoMsg
  Dests = {d1, d2}
  DestOf <- MCDestOf
  Handlers = {h1}
  Workers = {w1, w2}
  Capacity = 2
  MaxPerHour = 1
  MaxRetries = 1
  ScanLimit = 1
  Exchangers = 1
  Outcomes <- DeployedOutcomes
  Backlog = {m1}
  DBMayFail = FALSE
  MaxCrashes = 1
  MaxCopies = 2
  MaxAccepts = 4
CHECK_DEADLOCK FALSE
INVARIANTS NoMessageLost HistoryAgrees
PROPERTIES EventuallySettled
