SPECIFICATION Spec
CONSTANTS
  Classes = {"queue", "mailbox", "binary", "counting", "stream", "batching", "message", "set", "group"}
  Objects = {o1, o2}
  Handles = {h1, h2}
  Tasks = {t1, t2}
  i1 = i1
  i2 = i2
  i3 = i3
  i4 = i4
  Items = {i1, i2, i3, i4}
  Big = {i4}
  Bits = {b1, b2}
  Capacity = 2
  Trigger = 1
  None = None
INVARIANTS
  TypeOK
  SoleOwner
  Conserved
  NoEventLost
SYMMETRY Symmetric
CHECK_DEADLOCK FALSE
