----------------------------- MODULE MCDmaHeap ------------------------------
(***************************************************************************)
(* Instances of DmaHeapAllocator for TLC.                                  *)
(***************************************************************************)
EXTENDS DmaHeapAllocator, TLC

AllFlags == SUBSET Flags

Symmetric == Permutations(Handles) \cup Permutations(Allocators)
               \cup Permutations(Buffers) \cup Permutations(Addrs)
               \cup Permutations(Values)
=============================================================================
