CONSTANTS
  Requests = {e1, e2}
  Nobody = nobody
  MaxSteps = 3
  MaxRevision = 4
SPECIFICATION Spec
SYMMETRY Symmetric
INVARIANT TypeOK
INVARIANT AppliedOnBase
INVARIANT OutcomeTrue
INVARIANT OutcomeExact
CHECK_DEADLOCK FALSE
