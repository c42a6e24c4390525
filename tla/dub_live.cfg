CONSTANTS
  Workers = {w1, w2}
  Inline = api
  NoWorker = nobody
  Cancels = {c1}
  Segments = 1
  Deliveries = 2
  Faults = {"timeout", "provider", "storage"}
SPECIFICATION FairSpec
PROPERTY EventuallyFinal
CHECK_DEADLOCK FALSE
