SPECIFICATION Spec
CONSTANTS
  c1 = c1
  c2 = c2
  Cpu = {c1}
  TEXT_LEN = 4
  Orig <- LongText
  Jumps <- LongJumps
  Faulting = {}
  Rom = {}
  MAX_BP = 2
  DebugAssertions = TRUE
INVARIANTS
  ReplantedAfterStep
CHECK_DEADLOCK FALSE
