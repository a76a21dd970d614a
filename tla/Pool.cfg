SPECIFICATION Spec
CONSTANTS
  c1 = c1
  c2 = c2
  Workers = {w1, w2}
  Tasks = {t1, t2}
  High = {t2}
  Controls = {c1, c2}
  Scripts <- LifeScript
  NoWorker = NoWorker
CHECK_DEADLOCK FALSE
INVARIANTS OnePlace 
PROPERTIES  ControlReturns
