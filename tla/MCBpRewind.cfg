SPECIFICATION Spec
CONSTANTS
  c1 = c1
  c2 = c2
  Cpu = {c1}
  TEXT_LEN = 4
  Orig <- LongText
  Jumps <- LongJumps
  Faulting = {2}
  Rom = {}
  MAX_BP = 2
  DebugAssertions = TRUE
INVARIANTS
  RewindOnlyOnInt3
CHECK_DEADLOCK FALSE
