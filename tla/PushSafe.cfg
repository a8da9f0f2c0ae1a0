SPECIFICATION Spec
CONSTANTS
  Users = {u1, u2}
  Endpoints = {e1}
  Channels = {"in_app", "web"}
  ChannelOf <- MCChannelOf
  Nobody = Nobody
  Clients = {c1, c2}
  Notes = {n1}
  MaxRows = 2
  MaxChanges = 3
  DBMayFail = TRUE
SYMMETRY Names
INVARIANTS TypeOK RegistrationKept OnlyTheUserTurnsOff
PROPERTIES ImplementsPushDelivery
