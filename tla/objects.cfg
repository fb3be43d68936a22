CONSTANTS
  Workers = {t1, t2}
  None = None
  v1 = v1
  v2 = v2
  p1 = p1
  p2 = p2
  Kinds = {"joinable", "common", "detached"}
  MaxStarts = 3
  Producers = {t1, t2}
  Consumers = {t3, t4}
  Capacity = 2
  Modes = {"inf", "timed", "try"}
  MaxPosts = 5
  Spurious = TRUE
  Posters = {t1, t2}
  MaxItems = 3
  MaxRuns = 2
  Ports = {p1, p2}
  Flags = {"inp"}
  MaxPipe = 1
  Deletes = TRUE
  Objects = {1, 2}
  Later = {2}
  MaxSlips = 1
  Users = {t1, t2, t3}
  Types = {"queue", "stack", "fallback"}
  Slots = 3
  MaxPushes = 3
  MapKeys = {1, 2, 3}
  MapValues = {v1, v2}
  MapPaths = 2
  MaxEntries = 3
  HashTables = {v1, v2}
  HashObjects = {1, 2, 3}
  HashSize = 2
  Processes = {p1, p2}
  Positions = {0, 1}
  Length = 1
  OldSize = 0
  MaxSize = 2
  Faults = TRUE
SPECIFICATION Spec
SYMMETRY Symmetry
INVARIANTS
  ThreadObjectSafe HandedOverInOrder ServiceWatchesAll CountsRefs RefsSafe
  ArrayIsSequence MapHoldsItsEntries TableHoldsItsObjects RecordsApart
CHECK_DEADLOCK FALSE
