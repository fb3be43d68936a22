CONSTANTS
  t1 = t1
  t2 = t2
  Threads = {t1, t2}
  Heaps = {"pager"}
  Limit = 1
  Modes = {"inf"}
  MaxGets = 2
  Spurious = FALSE
SPECIFICATION Spec
INVARIANT ReturnEndsGet
CHECK_DEADLOCK FALSE
