SPECIFICATION Spec
CONSTANTS
  c1 = c1
  c2 = c2
  Cpu = {c1, c2}
  TEXT_LEN = 2
  Orig <- LoopText
  Jumps <- LoopJumps
  Faulting = {1}
  Rom = {}
  MAX_BP = 2
  DebugAssertions = TRUE
INVARIANTS
  TextIntegrity
  SingleSession
  DisarmedIsOwned
SYMMETRY Symmetry
CHECK_DEADLOCK FALSE
