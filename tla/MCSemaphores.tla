---------------------------- MODULE MCSemaphores ----------------------------
(***************************************************************************)
(* Semaphores for TLC: environments and names are only compared with each  *)
(* other, and only safety is checked.                                      *)
(***************************************************************************)
EXTENDS Semaphores

Symmetry == Permutations(Env) \cup Permutations(Name)
=============================================================================
