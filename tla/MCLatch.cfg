SPECIFICATION LiveSpec
CONSTANTS
  Tasks = {t1, t2}
  Isrs = {i1}
  Expected = 3
  Updates <- MCUpdates
INVARIANTS
  TypeOK
  OneBaton
  NeverRefused
PROPERTIES
  WaitersReturn
  ImplementsStdLatch
