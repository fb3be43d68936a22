CONSTANTS
  p1 = p1
  p2 = p2
  c1 = c1
  Producers = {p1, p2}
  Consumers = {c1}
  Size = 1
  Modes = {"inf", "timed", "try"}
  MaxPosts = 5
  Spurious = FALSE
SPECIFICATION Spec
INVARIANT BufferMovesOn
CHECK_DEADLOCK FALSE
