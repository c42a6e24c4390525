SPECIFICATION Spec
CONSTANTS
  Duration = 1000
  Margin = 100
  Least = 10
  Slack = 1
  UndoDepth = 2
  AiDepth = 2
  Times = {400, 600}
  Steps = {1}
  Tools = {"split", "delete", "rippleTrim", "slip", "rippleDelete", "silences"}
  Direct = {"surface", "select"}
  MaxBatch = 2
  MaxEdits = 2
  MaxPresses = 2
INVARIANTS TypeOK UniqueIds HistoryBounded OneLine
PROPERTIES KeepsRest
CHECK_DEADLOCK FALSE
