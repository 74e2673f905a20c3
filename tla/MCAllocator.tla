----------------------------- MODULE MCAllocator -----------------------------
(* Model-checking instance of Allocator.                                     *)
EXTENDS AllocatorRefinement, FiniteSetsExt, TLC

HeapSymmetry == Permutations(Node) \cup Permutations(Buffer)
             \cup Permutations(Allocator)
=============================================================================
