----------------------------- MODULE MCAligned ------------------------------
(***************************************************************************)
(* Instances of AlignedAllocators for TLC.                                 *)
(***************************************************************************)
EXTENDS AlignedAllocators, TLC

AllRights  == SUBSET ReadWrite
SomeRights == (SUBSET ReadWrite) \ {{}}

Symmetric == Permutations(Allocators) \cup Permutations(Buffers)
               \cup Permutations(Handles)
=============================================================================
