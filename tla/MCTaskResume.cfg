SPECIFICATION Spec
CONSTANTS
  Objects = {o1}
  Tasks = {k1}
  None = None
PROPERTIES
  ResumeStarts
CHECK_DEADLOCK FALSE
