SPECIFICATION FairSpec
CONSTANTS
  DEFAULT_SLICE = 5
  U32_MAX = 99
  MAX_TASKS = 6
INVARIANTS
  SchedInv
PROPERTIES
  LiveTasksStay
  EveryTaskRuns
  ExitYields
  ImplementsFairRing
CHECK_DEADLOCK FALSE
