CONSTANTS
  a = a
  b = b
  None = None
  ListObjects = {1, 2, 3, 4}
  ListRoots = {a, b}
  IndexObjects = {1, 2, 3, 4}
  IndexNames = {1, 2, 3}
  IndexMax = 2
  Events = {a, b}
  Sec = 2
  Delays = {1, 3}
  MaxTime = 6
  PageSizes = {7, 8}
  Header = 2
  Word = 2
  NodeSize = 2
  Lengths = {1, 5, 6}
  MaxNodes = 3
  MaxPages = 4
  BufferSize = 10
  MaxDepth = 2
  Classes = {"date", "time", "datetime"}
  Dates <- SomeDates
  Clocks <- SomeClocks
  Today <- SomeDay
  Days <- SomeDays
  Seconds <- SomeSeconds
  MaxMoves = 3
  Strings = {"s1", "s2", "m"}
  Memstrings = {"m"}
  MemSize = 1
  Characters = {"a", " "}
  Texts <- SomeTexts
  Offsets = {0, 1}
  MaxLen = 2
  StreamKinds = {"tcp", "pipe", "file"}
  StreamSizes = {1, 2}
  MaxBytes = 3
SPECIFICATION Spec
SYMMETRY Symmetry
INVARIANTS
  ListsAreSequences EventsOnTime BlocksApart XmlCallbacksRight CalendarRight
  BuffersRight StreamInOrder TextReadBack GraphReadBack
PROPERTIES ChangesExactly
CHECK_DEADLOCK FALSE
