SPECIFICATION Spec
CONSTANTS
  t1 = t1
  t2 = t2
  Threads = {t1, t2}
  Scripts <- RaceScripts
  Batch = 3
  Faults = {}
CHECK_DEADLOCK FALSE
PROPERTIES ReadReturns
