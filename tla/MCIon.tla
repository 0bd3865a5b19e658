------------------------------- MODULE MCIon --------------------------------
(***************************************************************************)
(* Instances of IonAllocator for TLC.                                      *)
(***************************************************************************)
EXTENDS IonAllocator, TLC

\* No flags at all, one right, all rights, and a manual session.
SomeFlags == {{}, {"READ"}, {"WRITE"}, {"READ", "MANUAL_SYNC"}}

\* Up to two DMA heaps among up to three, or none at all.
SmallHeapLists ==
  {<<>>, <<"SYSTEM">>, <<"DMA">>, <<"SYSTEM", "DMA">>, <<"DMA", "DMA">>,
   <<"DMA", "SYSTEM", "DMA">>}

OneDmaHeap    == {<<"SYSTEM", "DMA">>}
NoDmaHeap     == {<<"SYSTEM">>}
ThreeDmaHeaps == {<<"DMA", "DMA", "DMA">>}

Current == {FALSE}
Either  == {FALSE, TRUE}

Symmetric == Permutations(Threads) \cup Permutations(Buffers)
               \cup Permutations(Handles) \cup Permutations(Allocators)
=============================================================================
