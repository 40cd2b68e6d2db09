--------------------------- MODULE MCSharedMemory ----------------------------
(***************************************************************************)
(* The processes are interchangeable.                                      *)
(***************************************************************************)
EXTENDS SharedMemory, TLC

Symmetry == Permutations(Processes)
=============================================================================
