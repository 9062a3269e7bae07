CONSTANTS
  t1 = t1
  t2 = t2
  c1 = c1
  Incidents = {i1}
  Actors = {t1, t2}
  Role <- MCRole
  Reporter <- MCReporter
  FirstAssignee = t1
  OpIds = {o1, o2}
  NoActor = NoActor
  NoId = NoId
  NoOp = NoOp
  NoIncident = NoIncident
  OtherEntry = OtherEntry
  Recordable = {"add_evidence"}
  External = {"assign", "resolve", "close", "reopen"}
  Workflows = {"cache", "record", "sync", "start"}
  MalformedBodies = FALSE
  MaxVersion = 4
  MaxGeneration = 2
SPECIFICATION Spec
SYMMETRY Symmetric
INVARIANT PendingBelongToOwner CopiesCoherent
