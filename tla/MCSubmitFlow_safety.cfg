SPECIFICATION Spec
CONSTANTS
  a = a
  b = b
  w1 = w1
  w2 = w2
  r1 = r1
  r2 = r2
  noTask = noTask
  noWorker = noWorker
  NoTask = noTask
  NoWorker = noWorker
  Workers = {w1, w2}
  MaxSteps = 2
  Tasks = {a, b}
  Pipelines = {a}
  Watermarked = {b}
  VaultFunded = {}
  Requests = {r1, r2}
  Results = {"good", "poor"}
  Keeps = {TRUE, FALSE}
  MaxAttempts = 2
  MaxCrashes = 1
CHECK_DEADLOCK FALSE
CONSTRAINT MCTokens
SYMMETRY Symmetric
INVARIANTS SinglePaidToClaimant ChargedOnce SuccessIsPaid
PROPERTIES ImplementsLifecycle
