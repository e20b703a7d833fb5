CONSTANTS
  Thread = {t1, t2, t3}
  OPS = {"alloc", "full", "dealloc", "vmap", "ident", "low32", "print", "spawn", "exit",
         "reap", "server", "closure"}
SPECIFICATION Spec
INVARIANTS NotPreempted NoSelfDeadlock HangOnlyOn
CHECK_DEADLOCK FALSE
SYMMETRY Threads
