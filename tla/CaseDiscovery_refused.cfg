SPECIFICATION FairDiscovery
CONSTANTS
  Tickets = {t1, t2}
  Workers = {w1, w2}
  Commands = {c1, c2}
  PageSize = 1
  Overlap = 1
  QueryAccepted = FALSE
  MaxDay = 2
  MaxChanges = 1
  MaxTroubles = 1
  Nothing = Nothing
CHECK_DEADLOCK FALSE
PROPERTIES
  EveryChangeRequested
