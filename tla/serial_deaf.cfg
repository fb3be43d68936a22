CONSTANTS
  p1 = p1
  p2 = p2
  Ports = {p1, p2}
  Flags = {"inp"}
  MaxPipe = 1
  Deletes = FALSE
SPECIFICATION Spec
PROPERTY UpdatesHeard
CHECK_DEADLOCK FALSE
