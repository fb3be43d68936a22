CONSTANTS
  t1 = t1
  t2 = t2
  AccessThreads = {}
  Threads = {t1, t2}
  Locks = {"lock"}
  None = None
  MaxNest = 2
  Word = 16
  FreshModify = TRUE
  Spurious = FALSE
  AccessCalls = 0
  LockCalls = 3
  AllCalls = 6
SPECIFICATION Spec
INVARIANTS AssertsHold
CHECK_DEADLOCK FALSE
