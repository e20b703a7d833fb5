-------------------------------- MODULE MinMax --------------------------------
(***************************************************************************)
(* The least and the greatest element of a set of numbers, alone: a proof  *)
(* carries every definition in scope with it, and the modules that are     *)
(* proved about use nothing else of the library's modules on sets.         *)
(***************************************************************************)
EXTENDS Integers

Min(S) == CHOOSE x \in S : \A y \in S : x <= y
Max(S) == CHOOSE x \in S : \A y \in S : y <= x
=============================================================================
