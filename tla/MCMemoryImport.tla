--------------------------- MODULE MCMemoryImport ---------------------------
(***************************************************************************)
(* MemoryImport with interchangeable threads.                              *)
(***************************************************************************)
EXTENDS MemoryImport, TLC

ThreadSymmetry == Permutations(Threads)

=============================================================================
