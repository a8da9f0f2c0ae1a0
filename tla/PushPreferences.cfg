SPECIFICATION Spec
CONSTANTS
  Users = {u1}
  Endpoints = {e1}
  Channels = {"in_app", "web"}
  ChannelOf <- MCChannelOf
  Nobody = Nobody
  Clients = {c1}
  Notes = {n1}
  MaxRows = 1
  MaxChanges = 1
  DBMayFail = FALSE
INVARIANTS PreferencesRespected
