SPECIFICATION AccessSpec
CONSTANTS
  Users = {u1, u2}
  Keys = {k1, k2}
  Rows = {r1}
  Callers = {c1, c2}
  Clients = {x1}
  None = None
  MaxRcpt = 1
  MaxMessages = 1
  MaxBusy = 2
  DBMayFail = TRUE
  States = {y1, y2}
  Sessions = {s1, s2}
  Tokens = {t1}
  Requests = {q1, q2, q3}
  TTL = 2
  Timeout = 1
SYMMETRY Same
INVARIANTS TypeOK MailIsItsTenants EnrolledOnce EnabledAgrees LoginTypeOK StateSpentOnce
PROPERTIES OutStaysOut ImplementsTenancy StaleHitsAreBounded ImplementsOneTimeLogin
