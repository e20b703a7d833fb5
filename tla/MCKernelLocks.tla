---------------------------- MODULE MCKernelLocks ----------------------------
(* KernelLocks for TLC: the threads are interchangeable.                   *)
EXTENDS KernelLocks, TLC

Threads == Permutations(Thread)
=============================================================================
