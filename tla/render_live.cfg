CONSTANTS
  Workers = {w1, w2}
  Retries = {}
  Cancels = {}
  Export = export
  NamedRun = TRUE
  NoRun = none
  CancelTag = cancelTag
  NoWorker = nobody
  Deliveries = 2
  MaxAttempts = 1
  Faults = {"timeout", "clients", "render", "storage", "dispatch"}
SPECIFICATION FairSpec
INVARIANT QuietMeansTold
INVARIANT LockNeverStranded
PROPERTY EventuallyTold
PROPERTY EventuallyQuiet
CHECK_DEADLOCK FALSE
