SPECIFICATION Spec
CONSTANTS
  Waiters = {w1, w2}
  Notifiers = {n1}
  Sems = {s1, s2}
  None = None
  MaxWaiters = 2
  Many = 4
  MaxFlips = 3
INVARIANTS
  TypeOK
  NoLostWakeup
PROPERTIES
  WaitReturns
CHECK_DEADLOCK FALSE
