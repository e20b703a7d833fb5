SPECIFICATION BootSpec
CONSTANTS
  PAGE = 2
  TOP = 32
  NPAGES = 16
  LOW = 3
  Firmware <- MCFirmware
  AP_PAGES <- MCApPages
  TRAMP_PAGE = 2
  HEAP_PAGES = 2
  HEAP_GUARD = 2
  K_SIZE = 3
  Segments <- MCSegments
  PG_2M = 5
  PG_1G = 10
  HHDM_BASE = 40
  VTOP = 56
  FB_LEN = 3
  MAX_RESV = 6
  MAX_USABLE = 8
INVARIANTS UsableIsFree
CHECK_DEADLOCK FALSE
