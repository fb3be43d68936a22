CONSTANTS
  t1 = t1
  t2 = t2
  t3 = t3
  Threads = {t1, t2, t3}
  MaxDepth = 2
  Modes = {"inf", "try"}
  Spurious = FALSE
  MaxCalls = 2
SPECIFICATION LiveSpec
INVARIANTS NoStrandedReader
PROPERTIES EveryCallReturns
CHECK_DEADLOCK FALSE
