SPECIFICATION Spec
CONSTANTS
  t1 = t1
  t2 = t2
  w1 = w1
  w2 = w2
  absent = absent
  noWorker = noWorker
  noThread = noThread
  Threads = {t1, t2}
  Workers = {w1}
  NoWorker = noWorker
  NoThread = noThread
  Absent = absent
  MaxTasks = 2
  MaxSteps = 2
  MaxCrashes = 0
CHECK_DEADLOCK FALSE
SYMMETRY Symmetric
INVARIANTS HoldsAccounted
PROPERTIES ImplementsLifecycle
