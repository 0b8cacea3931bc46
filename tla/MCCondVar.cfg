SPECIFICATION LiveSpec
CONSTANTS
  Consumers = {c1, c2}
  Producers = {p1}
  NoTask = NoTask
  MaxWaiters = 2
  MaxItems = 2
INVARIANTS
  TypeOK
  CountAccurate
  LockedWhenTested
  NotificationsCovered
PROPERTIES
  NotificationsSeen
