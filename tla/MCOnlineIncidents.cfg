CONSTANTS
  i1 = i1  i2 = i2  i3 = i3  r1 = r1  t1 = t1  k1 = k1  x1 = x1  x2 = x2
  Incidents = {i1, i2, i3}
  First = {i1}
  FirstStatuses = {"in_progress", "resolved"}
  Actors = {r1, t1, k1}
  Role <- MCRole
  Accounts = {r1, t1, k1}
  NoActor = NoActor
  Reporter = r1
  FirstAssignee = t1
  NoIncident = NoIncident
  MaxCalls = 2
  TextOf <- MCTextOf
  NoText = NoText
  Requested = {"create", "resolve", "close", "reopen"}
  MaxVersion = 2
  MaxAttempts = 2
SPECIFICATION Spec
SYMMETRY Symmetric
INVARIANT AnswersAreTrue
PROPERTY CallsAnswered
CHECK_DEADLOCK FALSE
