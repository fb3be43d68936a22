CONSTANTS
  p = p
  q = q
  Processes = {p, q}
  Positions = {0, 1}
  Length = 1
  OldSize = 1
  MaxSize = 3
  Faults = FALSE
SPECIFICATION Spec
PROPERTY AppendsAdd
CHECK_DEADLOCK FALSE
