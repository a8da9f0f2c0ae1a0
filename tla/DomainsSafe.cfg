SPECIFICATION Spec
CONSTANTS
  MaxRows = 2
  Clients = {c1, c2}
  Mails = {e1}
  DBMayFail = TRUE
SYMMETRY Requests
INVARIANTS TypeOK VerifiedWasProven
PROPERTIES ImplementsDomainName
