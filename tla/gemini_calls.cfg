CONSTANTS
  Callers = {c1, c2}
  DayCap = 2
  HourCap = 1
  HourLength = 1
  DayLength = 3
  MaxTries = 2
  HardDelay = 1
  BaseDelay = 1
  MaxDelay = 2
  MaxFailures = 2
  MaxTime = 3
  MaxFaults = 1
SPECIFICATION Spec
SYMMETRY Symmetric
INVARIANT TypeOK
INVARIANT CapsHold
INVARIANT SlotsAccounted
PROPERTY HardOutlivesSuccess
CHECK_DEADLOCK FALSE
