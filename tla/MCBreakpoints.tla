---------------------------- MODULE MCBreakpoints ----------------------------
(* Instances of Breakpoints for TLC. *)
EXTENDS Breakpoints, TLC

CONSTANTS c1, c2

\* A loop of two bytes, the first an INT3 of the program itself.
LoopText  == 0 :> 204 @@ 1 :> 195
LoopJumps == {<<1, 0>>}

\* Four bytes, the first the INT3 of debug::setup; the last jumps to the first.
LongText  == 0 :> 204 @@ 1 :> 85 @@ 2 :> 93 @@ 3 :> 195
LongJumps == {<<3, 0>>}

Symmetry == Permutations(Cpu)
=============================================================================
