SPECIFICATION FairSpec
CONSTANTS
  Envelopes = {e1, e2, e3}
  Digests = {e3}
  Relays = {r1, r2}
  Limit = 2
  MaxFaults = 1
  Nobody = Nobody
CHECK_DEADLOCK FALSE
INVARIANTS
  TypeOK
  NothingLost
PROPERTIES
  OnlyHolderAcknowledges
  ImplementsDelivery
  EveryEnvelopeQueuedUnlessRefused
