CONSTANTS
  t1 = t1
  t2 = t2
  t3 = t3
  Threads = {t1, t2, t3}
  MaxDepth = 1
  Modes = {"inf", "timed"}
  Spurious = FALSE
SPECIFICATION Spec
INVARIANTS NoStrandedReader
