SPECIFICATION Spec
CONSTANTS
  Intents = {i1}
  Executors = {x1, x2}
  RetryLimit = 1
  Bounds <- FaultsOrLookups
  MaxLate = 1
  NoIntent = NoIntent
SYMMETRY Symmetry
INVARIANTS
  TypeOK
  OneWriterPerIntent
  PublishedOnce
  NothingWithoutApproval
PROPERTIES
  NoneForgotten
