SPECIFICATION Spec
CONSTANTS
  u1 = u1
  w1 = w1
  d1 = d1
  a = a
  b = b
  t1 = t1
  t2 = t2
  Users = {u1}
  Workers = {w1}
  Devs = {d1}
  NoParty = NoParty
  LoadUser = u1
  Tasks = {a, b}
  NoTask = NoTask
  Threads = {t1, t2}
  Cost = 20
  TaskPrices = {40}
  PassPrice = 20
  Amounts = {40}
  MaxOps = 2
CONSTRAINTS MCOneDeveloped MCSetInTime MCStale
SYMMETRY MCSymmetry
INVARIANTS
  TypeOK
  BooksBalance
  PendingIsOwed
  PotsMatchSnapshots
  SpendIsCharged
CHECK_DEADLOCK FALSE
