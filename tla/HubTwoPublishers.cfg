SPECIFICATION FairSpec
CONSTANTS
  Notes = {n1}
  Streams = {s1}
  Publishers = {p1, p2}
  InApp = {TRUE, FALSE}
  Buffer = 2
  DBMayFail = TRUE
INVARIANTS TypeOK SubscribersAreOpen AnsweredReachesStreams NotifiedOnce
           QuietCountIsRight
PROPERTIES PublishersFinish
