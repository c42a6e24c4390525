SPECIFICATION FairSpec
CONSTANTS
  Files = {f1}
  Links = {y1}
  None = None
  Realtime = TRUE
  MaxExports = 2
  MaxOpened = 1
  MaxPolls = 2
INVARIANTS TypeOK ActiveIsWatched DoneMeansFinished
PROPERTIES ExportEnds
CHECK_DEADLOCK FALSE
