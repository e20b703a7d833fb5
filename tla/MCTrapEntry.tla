----------------------------- MODULE MCTrapEntry -----------------------------
(* TrapEntry for TLC: two threads beside the boot context. *)
EXTENDS TrapEntry

MCTask == {"t1", "t2"}
=============================================================================
