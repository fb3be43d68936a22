CONSTANTS
  t1 = t1
  t2 = t2
  t3 = t3
  t4 = t4
  Threads = {t1, t2, t3, t4}
  MaxDepth = 2
  Modes = {"inf", "timed", "try"}
  Spurious = TRUE
SPECIFICATION Spec
SYMMETRY Symmetry
INVARIANTS TypeOK Accounting NoStrandedWriter
PROPERTIES WritersFirst ImplementsSharedLock
