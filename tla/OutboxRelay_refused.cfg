SPECIFICATION FairSpec
CONSTANTS
  Envelopes = {webhookTrigger, analysisExecute}
  Digests = {webhookTrigger}
  Relays = {r1}
  Limit = 2
  MaxFaults = 0
  Nobody = Nobody
CHECK_DEADLOCK FALSE
PROPERTIES
  EveryEnvelopeQueued
