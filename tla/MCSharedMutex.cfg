SPECIFICATION MCSpec
CONSTANTS
  Tasks = {t1, t2, t3}
  NoTask = NoTask
  MaxReaders = 2
  MaxCalls = 2
CHECK_DEADLOCK FALSE
INVARIANTS
  TypeOK
  ReadersXorWriter
  SlotAccounting
PROPERTIES
  FailsForCause
  ImplementsRWLock
  EveryCallReturns
