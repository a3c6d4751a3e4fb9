SPECIFICATION Spec
CONSTANTS
  r1 = r1
  r2 = r2
  u1 = u1
  d1 = d1
  d2 = d2
  shipped = shipped
  uploaded = uploaded
  Static = {shipped}
  Uploads = {uploaded}
  NotLoaded = NotLoaded
  NoOne = NoOne
  Requests = {r1, r2}
  Users = {u1}
  Developers = {d1, d2}
  Budgets = {2}
  Amounts = {1, 2}
  Scores = {15}
  MaxLoads = 1
  MaxTasks = 1
  MaxOps = 3
SYMMETRY MCSymmetry
CONSTRAINT MCApart
CHECK_DEADLOCK FALSE
INVARIANTS VaultsHoldPayments AnsweredTasksHaveVaults OneKeyPerTask WalletMatchesHistory UploadsServed
