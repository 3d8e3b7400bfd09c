--------------------------- MODULE MCSharedMemory ---------------------------
(***************************************************************************)
(* SharedMemory for TLC: nothing distinguishes one program, name or frame  *)
(* from another, and only invariants are checked.                          *)
(***************************************************************************)
EXTENDS SharedMemory

Symmetry == Permutations(Env) \cup Permutations(Name) \cup Permutations(Frame)
=============================================================================
