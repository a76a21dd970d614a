SPECIFICATION Spec
CONSTANTS
  t1 = t1
  t2 = t2
  Threads = {t1, t2}
  Scripts <- UseScripts
  Batch = 3
  Faults = {"rotation", "stream"}
CHECK_DEADLOCK FALSE
INVARIANTS NothingLost
PROPERTIES DestructorReturns LogsReachStorage FlushCovers LoneReadReturns
