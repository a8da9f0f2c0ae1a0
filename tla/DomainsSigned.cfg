SPECIFICATION Spec
CONSTANTS
  MaxRows = 1
  Clients = {c1}
  Mails = {e1}
  DBMayFail = FALSE
INVARIANTS SignedByItsDomain
