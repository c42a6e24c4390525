CONSTANTS
  Workers = {w1}
  Retries = {}
  Cancels = {c1, c2}
  Export = export
  NamedRun = TRUE
  NoRun = none
  CancelTag = cancelTag
  NoWorker = nobody
  Deliveries = 1
  MaxAttempts = 1
  Faults = {"redis", "clients", "dispatch", "crash"}
SPECIFICATION Spec
SYMMETRY Symmetric
INVARIANT FinishedMeansStored
PROPERTY KeepsLedger
CHECK_DEADLOCK FALSE
