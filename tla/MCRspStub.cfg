SPECIFICATION StubSpec
CONSTANTS
  c1 = c1
  Cpu = {c1}
  TEXT_LEN = 4
  Orig <- StubText
  Jumps <- StubJumps
  Faulting = {1}
  Rom = {3}
  MAX_BP = 2
  DebugAssertions = TRUE
  Plans <- MCPlans
  Readable = {0}
  Window = {2}
  Mapped = {0}
  Noise = {3, 35}
  INBUF_LEN = 5
  MAX_TRIES = 3
  MAX_LINE = 6
  MAX_LATE = 1
  MAX_FAULTS = 1
INVARIANTS
  TextIntegrity
  NothingMisread
  Agreement
PROPERTIES
  Transparent
  GetsThrough
  Invited
CHECK_DEADLOCK FALSE
