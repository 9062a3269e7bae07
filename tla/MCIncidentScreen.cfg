CONSTANTS
  i1 = i1
  i2 = i2
  NoIncident = NoIncident
  Incidents = {i1, i2}
  MaxGeneration = 2
  Tasks = {"sync", "record", "inspect", "keep", "reformulate"}
  FirstCopies <- OneConflict
  MaxIds = 4
  MaxCalls = 2
  FirstKept = {{}}
SPECIFICATION Spec
SYMMETRY Symmetric
INVARIANT ShownIsCurrent WaitsMatchCalls ConfirmedUnlessKept
PROPERTY NoBlindRepeat AnswersKeepSelection
CHECK_DEADLOCK FALSE
