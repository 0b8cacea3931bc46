SPECIFICATION MCSpec
CONSTANTS
  Tasks = {t1, t2, t3}
  MaxWaiters = 2
  MaxThrows = 2
INVARIANTS
  OFTypeOK
  OneRunner
  LosersCovered
PROPERTIES
  ReturnsForCause
  EveryCallReturns
