SPECIFICATION FairSpec
CONSTANTS
  Files = {f1}
  Youtube = {y1}
  Direct = {}
  Restorable = {}
  None = None
  Hangs = {}
  MaxSteps = 1
  MaxAnalyses = 1
PROPERTIES YoutubeSettles
CHECK_DEADLOCK FALSE
