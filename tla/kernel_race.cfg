CONSTANTS
  Handlers = {h1, h2}
  Edits = {e1, e2}
  Notes = {n1}
  Undos = {u1}
  Redos = {r1}
  Reverts = {v1}
  Start = start
  NoManifest = none
  NoCommand = nothing
  RingSize = 2
  MaxSnaps = 2
  MaxRevision = 4
SPECIFICATION Spec
CONSTRAINT OneOther
SYMMETRY Symmetric
INVARIANT TypeOK
INVARIANT LogChained
INVARIANT AcksTrue
INVARIANT AppliedOncePerWindow
PROPERTY IsHistory
CHECK_DEADLOCK FALSE
