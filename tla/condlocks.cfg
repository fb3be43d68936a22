CONSTANTS
  t1 = t1
  t2 = t2
  t3 = t3
  t4 = t4
  AccessThreads = {t1, t2, t3, t4}
  Threads = {t1, t2, t3}
  Locks = {"access", "lock"}
  None = None
  MaxNest = 2
  Word = 16
  FreshModify = FALSE
  Spurious = TRUE
  AccessCalls = 2
  LockCalls = 3
  AllCalls = 7
SPECIFICATION Spec
INVARIANTS TypeOK NobodyStranded AssertsHold
PROPERTIES ImplementsSharedLock EveryCallReturns
CHECK_DEADLOCK FALSE
