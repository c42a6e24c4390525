SPECIFICATION FairSpec
CONSTANTS
  Files = {f1}
  Youtube = {y1}
  Direct = {d1}
  Restorable = {y1}
  None = None
  Hangs = {"policy", "bind", "cache", "whisper"}
  MaxSteps = 2
  MaxAnalyses = 1
INVARIANTS TypeOK ReadyHasMedia SourceIsLatest
PROPERTIES ClipsOfRun FileSettles
CHECK_DEADLOCK FALSE
