SPECIFICATION Spec
CONSTANTS
  Notes = {n1}
  Streams = {s1}
  Publishers = {p1}
  InApp = {TRUE}
  Buffer = 1
  DBMayFail = FALSE
INVARIANTS NoPanic
