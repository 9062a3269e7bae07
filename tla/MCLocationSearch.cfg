CONSTANTS
  q1 = q1
  q2 = q2
  q3 = q3
  q4 = q4
  blank = blank
  k1 = k1
  k2 = k2
  k3 = k3
  l1 = l1
  NoKey = NoKey
  NoText = NoText
  Queries = {q1, q2, q3, q4, blank}
  Keys = {k1, k2, k3}
  KeyOf <- Spellings
  Labels = {l1}
  TTL = 2
  Capacity = 2
  RetryAfters = {2}
  MaxTime = 3
SPECIFICATION Spec
INVARIANT CandidateFitsForm ProviderLeftAlone KeepsMostRecent
PROPERTY HitsAreRecent
CHECK_DEADLOCK FALSE
