CONSTANTS
  PAGE = 2
  TOP = 26
  Thread = {t1, t2}
  KHEAP_PAGES = 2
  GROW = 1
  VMAP_PAGES = {1, 2}
  MMIO_PAGES = {1}
  IDENT = {0, 1}
  BOOT_IDENT = {0}
  Sizes = {2}
  FAN = 2
  WINDOW = 2
  Pools0 <- MCPools0
SPECIFICATION Spec
INVARIANTS FramesAccounted HeapBacked PanicOnlyWhenDry CycleNeedsVmap
CHECK_DEADLOCK FALSE
SYMMETRY Threads
