CONSTANTS
  t1 = t1
  t2 = t2
  c1 = c1
  Incidents = {i1}
  Actors = {t1}
  Role <- MCRole
  Reporter <- MCReporter
  FirstAssignee = t1
  OpIds = {o1}
  NoActor = NoActor
  NoId = NoId
  NoOp = NoOp
  NoIncident = NoIncident
  OtherEntry = OtherEntry
  Recordable = {"comment"}
  External = {"prioritize"}
  Workflows = {"cache", "record", "sync"}
  MalformedBodies = FALSE
  MaxVersion = 3
  MaxGeneration = 1
SPECIFICATION Spec
SYMMETRY Symmetric
INVARIANT UntouchedNeverConflicts
