SPECIFICATION FairSpec
CONSTANTS
  Requests = {r1, r2}
  Workers = {w1, w2}
  RetryLimit = 2
  MaxVersion = 2
  MaxFaults = 2
  None = None
CHECK_DEADLOCK FALSE
INVARIANTS
  TypeOK
  OneJobPerSnapshot
PROPERTIES
  CapturedForGood
  EveryRequestSubmitted
