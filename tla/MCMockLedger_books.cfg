SPECIFICATION BooksSpec
CONSTANTS
  u1 = u1
  u2 = u2
  w = w
  Nobody = Nobody
  Users = {u1, u2}
  Workers = {w}
  Seeds = {1000}
  Budgets = {1000}
  Costs = {505, 2000}
  Stake = 1000
  Slash = 1000
  StrikeLimit = 2
  Ratings = {1, 5}
  FullRep = 2
  AuditFrom = 1
  HistoryLimit = 1
  MaxIds = 3
  MaxOps = 6
  MaxRecords = 1
  MaxCrashes = 1
CHECK_DEADLOCK FALSE
SYMMETRY Symmetric
INVARIANTS AcknowledgedIsSaved RestartMintsOnlySlashes IndexedIsStored
PROPERTIES WealthMoves
