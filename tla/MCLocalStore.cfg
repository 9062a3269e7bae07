CONSTANTS
  i1 = i1
  o1 = o1
  f1 = f1
  o2 = o2
  NoOp = NoOp
  Incidents = {i1}
  OpIds = {o1, o2}
  Files = {f1, f2, f3}
  FirstDbs <- AllDbs
  MaxPhotos = 2
  MaxTasks = 4
SPECIFICATION FairSpec
INVARIANT NothingDangles
PROPERTY AtomicSpec TasksSettle
CHECK_DEADLOCK FALSE
