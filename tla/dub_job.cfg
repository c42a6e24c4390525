CONSTANTS
  Workers = {w1}
  Inline = api
  NoWorker = nobody
  Cancels = {c1, c2}
  Segments = 1
  Deliveries = 1
  Faults = {"crash", "timeout", "redis", "dispatch", "provider", "storage", "credits"}
SPECIFICATION Spec
SYMMETRY Symmetric
INVARIANT TypeOK
INVARIANT PriceKept
INVARIANT ReadyIsComplete
PROPERTY KeepsLedger
CHECK_DEADLOCK FALSE
