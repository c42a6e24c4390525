CONSTANTS
  Workers = {w1, w2}
  Retries = {r1}
  Cancels = {}
  Export = export
  NamedRun = FALSE
  NoRun = none
  CancelTag = cancelTag
  NoWorker = nobody
  Deliveries = 2
  MaxAttempts = 2
  Faults = {"timeout", "clients", "dispatch", "crash"}
SPECIFICATION Spec
CONSTRAINT RetriedOnce
SYMMETRY Symmetric
INVARIANT TypeOK
INVARIANT UploadExclusive
CHECK_DEADLOCK FALSE
