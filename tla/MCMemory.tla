------------------------------ MODULE MCMemory ------------------------------
(***************************************************************************)
(* The allocator for TLC: a memory of five chunks for two tasks and        *)
(* requests of one, two and three chunks, so that the memory is exhausted  *)
(* and fragmented; a UINT has eight bits.                                  *)
(***************************************************************************)
EXTENDS Memory, TLC

(* Nothing reads TotalBlocks, which only counts down in the long run. *)
View == <<list, AllocatedMemory, held, pc, arg>>

TaskSymmetry == Permutations(Task)
=============================================================================
