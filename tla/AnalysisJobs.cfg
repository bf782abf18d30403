SPECIFICATION FairSpec
CONSTANTS
  Jobs = {j1, j2}
  Requested = {j1}
  Commands = {c1, c2, c3}
  Workers = {w1, w2}
  MaxAttempts = 3
  RetryLimit = 1
  MaxFaults = 2
  MaxTroubles = 3
  NoJob = NoJob
  NoCommand = NoCommand
  NoAttempt = NoAttempt
INVARIANTS
  TypeOK
  OneActiveAttempt
  DecidedByOneAttempt
  DeadLetterRetryable
  QueuedHasCommand
PROPERTIES
  FencedConsumerIsInert
  ImplementsLifecycle
  EveryJobSettles
