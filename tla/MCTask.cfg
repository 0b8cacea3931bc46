SPECIFICATION Spec
CONSTANTS
  Objects = {o1, o2}
  Tasks = {k1, k2}
  None = None
INVARIANTS
  TypeOK
  OneOwner
  RunsOwnRoutine
  JoinForCause
PROPERTIES
  JoinReturns
CHECK_DEADLOCK FALSE
