SPECIFICATION FairSpec
CONSTANTS
  Schedules = {k, c}
  Pinned = {c}
  Runs = {r1, r2, r3}
  CaseRuns = {r3}
  MaxTime = 2
  MaxTransitions = 2
  MaxFaults = 1
  None = None
CHECK_DEADLOCK FALSE
INVARIANTS
  TypeOK
  OneCommandPerOccurrence
  NothingSkipped
PROPERTIES
  EveryOccurrenceRuns
