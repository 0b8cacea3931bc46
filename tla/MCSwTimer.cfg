SPECIFICATION Spec
CONSTANTS
  Objects = {o1, o2, o3}
  Callbacks = {c1, c2}
  Timers = {k1, k2, k3}
  None = None
INVARIANTS
  TypeOK
  FiresOwnCallback
  OneOwner
