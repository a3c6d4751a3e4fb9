SPECIFICATION Spec
CONSTANTS
  user = user
  worker = worker
  dev = dev
  g1 = g1
  g2 = g2
  none = none
  t1 = t1
  t2 = t2
  s1 = s1
  Accounts = {user, worker, dev, g1, g2}
  NoAddr = none
  Users = {user}
  Workers = {worker}
  Developers = {dev, worker}
  Gateways = {g2}
  FirstGateway = g1
  Tasks = {t1, t2}
  Skills = {s1}
  Nonces = {1}
  DepositAmounts <- Deposit46
  TaskAmounts <- Amount23
  MAX_TIMEOUT = 0
  MaxTime = 1
  MaxHeld = 46
SYMMETRY Symmetric
INVARIANTS TypeOK PendingMatchesClaims ShortfallIsFromRefunds EscrowLeavesOnce
PROPERTIES ImplementsPromise
