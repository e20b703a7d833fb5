CONSTANTS
  BSP = "bsp"
  AP = {"ap1", "ap2", "ap3"}
  Machines <- MCMachines
  QUEUE_CAPACITY = 1
SPECIFICATION LSpec
INVARIANTS AllFound ApicAgrees OneByOneInTime OwnStack OwnGdt NeverFull
PROPERTIES AllUp
CHECK_DEADLOCK FALSE
