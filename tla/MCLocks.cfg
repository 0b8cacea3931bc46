SPECIFICATION Spec
CONSTANTS
  Tasks = {t1, t2}
  Plain = {p}
  Recursive = {r}
  Shared = {s}
  Locks = {l1, l2}
  None = None
  MaxDepth = 2
  MaxHeld = 1
  MaxTwice = 1
  Modulus = 4
INVARIANTS
  TypeOK
  Balanced
  NeverFalselyLocked
  CountExact
SYMMETRY Symmetric
CHECK_DEADLOCK FALSE
