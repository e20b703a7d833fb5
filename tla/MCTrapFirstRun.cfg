SPECIFICATION Spec
CONSTANTS
  Task <- MCTask
  MAX_DEPTH = 2
  DebugAssertions = TRUE
INVARIANTS FirstRunLayout
CHECK_DEADLOCK FALSE
