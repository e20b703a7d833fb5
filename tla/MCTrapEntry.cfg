SPECIFICATION Spec
CONSTANTS
  Task <- MCTask
  MAX_DEPTH = 2
  DebugAssertions = TRUE
INVARIANTS SwitchKeeps FramesApart
PROPERTIES Resumes
CHECK_DEADLOCK FALSE
