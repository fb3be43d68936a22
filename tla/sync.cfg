CONSTANTS
  t1 = t1
  t2 = t2
  t3 = t3
  t4 = t4
  w = w
  p1 = p1
  p2 = p2
  p3 = p3
  Threads = {t1, t2, t3, t4}
  Lockers = {t1, t2, t3}
  Waiters = {w}
  Limits = {1, 2}
  Starts = {0, 1}
  Modes = {"inf", "timed"}
  EventModes = {"inf", "timed", "past"}
  GetModes = {"inf", "timed", "try"}
  Spurious = TRUE
  MaxUsed = 3
  Start = 2
  MaxCount = 4
  MaxDepth = 2
  MaxLockers = 4
  MaxSignals = 5
  Pointers = {p1, p2, p3}
  Buckets = {1, 2}
  Hash <- TwoLists
  Kinds = {"read", "write"}
  Timed = TRUE
  MaxHeld = 2
  Heaps = {"array", "pager"}
  Limit = 2
  MaxGets = 5
SPECIFICATION Spec
SYMMETRY Symmetry
INVARIANTS
  TypeOK NoWastedSlot BarrierRounds CountIsDepth SignalUsedOnce
  PointerExclusion OnePlaceEach
PROPERTIES AdmitsRightly
CHECK_DEADLOCK FALSE
