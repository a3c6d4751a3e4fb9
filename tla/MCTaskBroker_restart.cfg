SPECIFICATION CrashSpec
CONSTANTS
  t1 = t1
  t2 = t2
  w1 = w1
  w2 = w2
  absent = absent
  noWorker = noWorker
  noThread = noThread
  Threads = {t1}
  Workers = {w1}
  NoWorker = noWorker
  NoThread = noThread
  Absent = absent
  MaxTasks = 2
  MaxSteps = 3
  MaxCrashes = 2
CHECK_DEADLOCK FALSE
INVARIANTS ContextBeforeAdvance
