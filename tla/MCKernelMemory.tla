---------------------------- MODULE MCKernelMemory ----------------------------
(* KernelMemory for TLC: two threads, a heap window of two pages, pools of *)
(* 10 frames with one of them reserved, and a low page.                 *)
EXTENDS KernelMemory, TLC

Threads == Permutations(Thread)

MCPools0 ==
  [frame  |-> [next |-> 0, end |-> 8],
   low32  |-> [next |-> 24, end |-> 26],
   usable |-> << [next |-> 16, end |-> 24], [next |-> 10, end |-> 14] >>,
   resv   |-> << [start |-> 2, end |-> 4] >>]
=============================================================================
