CONSTANTS
  r1 = r1
  r2 = r2
  a1 = a1
  NoActor = NoActor
  Actors = {a1}
  Requests = {r1, r2}
  Tagged = {r1}
  Keyless = {r2}
  Serials = {1, 2}
  MaxAttempts = 2
  BaseDelay = 1
  MaxDelay = 1
  MaxElapsed = 2
  SendTimeout = 1
  RetryAfters = {1}
  MaxGeneration = 2
  MaxTime = 2
SPECIFICATION TFairSpec
INVARIANT SendsWhenAllowed CredentialsMatchRequest
PROPERTY RequestsRespectSession RequestEnds
CHECK_DEADLOCK FALSE
