SPECIFICATION FairSpec
CONSTANTS
  Workers = {w1, w2}
  Purgers = {p1, p2}
  RetryLimit = 1
  MaxClaims = 3
  MaxFaults = 2
  None = None
CHECK_DEADLOCK FALSE
INVARIANTS
  TypeOK
  OutputsAccountedFor
PROPERTIES
  ExpiredOutputLeaves
