# Verification of libimxdmabuffer

TLA+ models, model-checking runs and machine-checked proofs for libimxdmabuffer, a library that
allocates physically contiguous DMA memory on i.MX machines through one of six kernel or vendor
interfaces, maps it for the CPU, and keeps the CPU cache coherent with devices.

## The system

All allocators stand behind one interface (`imxdmabuffer.h`): an allocator structure of function
pointers, and buffers that point to their allocator. The functions in `imxdmabuffer.c` check their
arguments and call through the pointers. The library has no threads, locks or persistent state;
what makes it hard is reference counting, sync sessions, failure paths, and one unprotected static.

| component | state it keeps | operations | what is hard | what makes it correct |
|---|---|---|---|---|
| interface and dispatch, `imxdmabuffer.c/.h` | none | allocate, deallocate, map, unmap, start/stop sync session, getters | which call sequences are allowed | every allocator offers the same contract |
| dma-heap, `imxdmabuffer_dma_heap_allocator.c` | heap descriptor, own or borrowed, cached or not; per buffer a DMA-BUF, mapping, flags, reference count, sync flag | all | sessions around redundant maps, failed maps, deallocation while mapped; sharing of descriptors | neither CPU nor device sees stale data; counts, mappings and descriptors balance |
| ION, `imxdmabuffer_ion_allocator.c` | device descriptor; per buffer as dma-heap, without sync; a static mask of heaps per process | all; heap detection or, before kernel 4.14, handles | concurrent detection; failures between system calls | memory from DMA heaps; nothing leaks; the mask is complete |
| IPU and PxP | device descriptor; per buffer the granted and the aligned address, mapping, flags, count | all | alignment by over-allocation | buffers stay in the memory granted for them |
| DWL and G2D | instance (DWL); per buffer aligned virtual and physical address, flags, count | all; map and unmap only count | two addresses aligned separately | as above |
| wrapped buffers, `imxdmabuffer.c:155-235` | the user's functions, descriptor and address of another buffer | all but allocate; sync sessions do nothing | one buffer used through a wrapper and directly | nothing a wrapper does takes the buffer or its descriptor from its owner; counts and rights balance over both ways of use |
| test program, build | - | - | choice of allocators, cachedness of the heap | - |

Components interact by calls only: client to dispatch to allocator to kernel. Descriptors are
shared when a client passes its own, or reads an allocator's (`..._get_ion_fd()` etc.), and memory is
shared with the CPU cache and DMA devices. A wrapped buffer calls functions of the client, which
may call the library for the buffer behind it. `PROJECT.json` lists under "hazards" every place where this can go wrong in a way a
test would hardly reach, with the property that covers it.

## Modules

| module | models | run with |
|---|---|---|
| `BufferContract` | abstract specification: what `imxdmabuffer.h` promises users of a buffer | - |
| `DmaHeapAllocator` | the dma-heap allocator, its clients, the kernel's descriptors and mappings, memory and cache | `MCDmaHeap` |
| `DmaHeapAllocatorProofs` | theorems about it: types, reference counts | TLAPS |
| `DmaHeapOwnershipProofs` | rights, mappings, descriptors, assertions | TLAPS |
| `DmaHeapCoherenceProofs` | coherence of CPU and devices | TLAPS |
| `DmaHeapRefinementProofs` | that it implements `BufferContract` | TLAPS |
| `WrappedBuffers` | wrapped buffers around those of `DmaHeapAllocator` (EXTENDS it) | `MCWrapped` |
| `IonAllocator` | the ION allocator with concurrent allocations | `MCIon` |
| `IonAllocatorProofs` | theorems about it, up to the refinement of `BufferContract` | TLAPS |
| `Alignment` | the alignment arithmetic | - |
| `AlignedAllocators` | IPU, PxP, DWL and G2D over a small physical memory | `MCAligned` |
| `AlignedAllocatorsProofs` | theorems about the arithmetic and the memory of the aligned allocators | TLAPS |
| `AlignedContractProofs` | what they own and map, and that they implement `BufferContract` | TLAPS |

### DmaHeapAllocator

`allocator` and `buffer` are the two C structures, with `Null` for NULL and with flags as sets
("READ", "WRITE", "MANUAL_SYNC"). One action is one library call: the caller has to serialise calls on a buffer, and
calls on different buffers share no library state. Bodies of functions that call each other are operators on a record of
the buffer, its memory and the mappings (`StartSyncImpl`, `FirstMap`, `UnmapCall`, ...), composed in
the order of the C code; so `Deallocate` is `UnmapCall` with the count forced to 1 after `StopSync`,
and `FirstMap` starts the automatic session after a failed `mmap()` too, as the code does.

Kernel and hardware are `fdTable` (what each descriptor refers to), `vm` (which buffer each address
maps) and `memory`: the content of DRAM, the content of the CPU cache and whether the cache is dirty.
`PhysIoctl` is the `DMA_BUF_IOCTL_PHYS` workaround that the code relies on: it writes a dirty cache
back and refills it. The cache may do that on its own at any moment (`CacheEvict`). The CPU writes in a
sync session, the device outside of one. `client` holds what the client may rely on: who has the buffer mapped,
with which rights, and whether a session is open. Actions that are calls are guarded by the rules of
`imxdmabuffer.h` for callers: no more rights than the first map gave, sessions stopped before the last unmap, and no use
of a buffer after its deallocation or its allocator's. A client may deallocate a buffer that is mapped, start and stop sessions redundantly, and unmap a
buffer that is not mapped. `destroy()` does not deallocate the allocator's buffers, although
`imxdmabuffer.h:99-100` says so. With `DestroyEarly` clients take the header at its word and destroy an allocator that still has some:
these buffers stay live but are not `Usable`, no call on them is possible any more, and `DestroyedBuffersDeallocated` states what the
header promises of them. The run `destroy_early` shows that it does not hold. Error codes are not part of this model.

`Contract` instantiates `BufferContract` with a refinement mapping that reads reference counts,
rights and flags from the allocator's own state and the content from memory or cache, whichever the
reader sees. `ImplementsContract` thus says that no library call, no failure and no cache activity ever
changes what a reader of the buffer sees. The ION allocator and the four aligned ones refine the same contract,
with the content left out, since they have no sessions.

### BufferContract

The contract knows allocators as well as buffers. `Destroy` deallocates the buffers of an allocator, as `imxdmabuffer.h:99-100` says,
and `MapFirst` gives at least one of the rights to read and write, since no flags mean both (`:156-157`). No allocator keeps the first promise,
so each refines the contract only for clients that deallocate first (`DestroyEarly = FALSE`); IPU and PxP break the second without flags
(`MapWithoutFlags`), so the aligned allocators refine it only for clients that map with flags; ION breaks it for `MANUAL_SYNC` alone, which
`RightsAsked` excludes.

### WrappedBuffers

`wrapper` is the `ImxWrappedDmaBuffer` structure. Its map and unmap functions are either NULL or map
the buffer behind it, the way an element of a media pipeline hands out a buffer of its own; a client that uses the wrapper
counts as one more user. Next to the wrappers the client goes on with direct calls (`DirectStep`), and
may also deallocate a buffer under a wrapper, which goes on holding the descriptor's number while another buffer gets it. `DescriptorsOwned`
and the other invariants are those of `DmaHeapAllocator`, checked over both ways of use: a wrapper that closed its descriptor would violate them. The sync functions of
wrappers are the no-ops of `imxdmabuffer_priv.h`. They make manual sessions of a wrapped buffer ineffective, so the run wraps automatic sessions only.

### IonAllocator

From kernel 4.14 on `get_heap_id_mask()` fills a static variable by one read-modify-write per DMA heap.
The model splits allocation into its accesses to that variable and its system calls, one thread
per allocation (`call[t].pc`); the compiler may reload the variable or keep it in a register
between heaps, and the model allows both. `legacy` selects the branch of the `#if`s for older kernels, where
an ION handle is exported and freed. Other calls are atomic. A process may open `/dev/ion` once, as the header says.

A call ends with an outcome: `ok`; `errno`, where the code of a failing system call was stored; `stale`, where errno was stored although the system call
had succeeded (no heaps at all, `:285-288`, or an export without a descriptor, `:376-381`), so that the code is left over from earlier and may be 0; or `silent`, where
nothing was stored. `ErrorCodeReported` accepts neither of the last two. A map with `MANUAL_SYNC` alone gives no rights (`Rights`): `flags == 0` at `:135` is false then.

### AlignedAllocators

Physical memory is `1..MemorySize`; the kernel grants chunks anywhere. The four allocators share
alignment arithmetic and bookkeeping; an allocator's `kind` selects what differs: PxP asks for the
unpadded size, IPU and PxP map on demand through the node, DWL and G2D come mapped at a virtual address with an offset of its own. The assertion that a redundant map
asks for no new rights (`imxdmabuffer_ipu_allocator.c:153`) is part of `AssertionsHold`, here and in the other modules, not of the actions. `CpuRange` and
`DeviceRange` are the addresses the CPU and a device reach through a buffer.

## Runs

All runs end within seconds to about two minutes; "violation" runs each show one disagreement of the
code with its documentation.

| run | shows |
|---|---|
| `DmaHeapCoherence` | coherence and refinement for all eight flag combinations, two buffers, two users of each, own and borrowed heaps |
| `DmaHeapResources` | counts, rights, mappings, descriptors and assertions with every system call failing at times, two allocators; coherence with automatic sessions; all of it with direct calls and calls through a wrapper mixed, buffers deallocated under the wrapper included |
| `DmaHeapMapFailure` (violation) | a failed automatic map makes the next manual session start without a refill of the cache |
| `DestroyEarly` (violation) | destroying an allocator leaves its buffers' descriptors open, their mappings in place and CPU writes in the cache |
| `IonHeapMask` | two threads, six heap lists: mask complete when no scan is under way, memory from DMA heaps only, failing calls store the code of what failed wherever there is a DMA heap, mask settles, calls return; allocators come and go, also before their buffers |
| `IonBuffers` | ownership of descriptors and handles, counts and mappings, assertions, during concurrent and failing allocations; refinement of the contract |
| `IonLostHeap` (violation) | with three DMA heaps a lost update makes the mask incomplete for good |
| `IonNoDmaHeap` (violation) | without DMA heap the failure has no error code |
| `AlignedBuffers` | ranges, ownership, counts, rights, assertions and refinement of the contract for all four kinds, with maps that name their rights |
| `PxpAlignedSize` (violation) | an aligned PxP buffer extends past its memory |
| `AlignedMapStart` (violation) | IPU and PxP map the unaligned address |
| `MapWithoutFlags` (violation) | IPU and PxP map without rights when there are no flags |

**Bounds.** Two buffers are enough for one to take over descriptors, addresses or memory of another, and two
users for every redundant map. Reference counts are bounded by the number of users, since each maps a buffer at most once at a time.
Three descriptors serve one allocator and two buffers, and make them collide with a second allocator. Two values tell stale from
fresh. `MANUAL_SYNC` is left out of `DmaHeapResources` because a failing `mmap()` with it is the violation
`DmaHeapMapFailure`; `DmaHeapCoherence` has it, without failing maps. One wrapper is enough there: wrappers share
no state but the buffer, which direct calls use at the same time. Two threads and two DMA heaps show every interference
of the mask that leaves it complete; three heaps are the smallest case of the permanent loss. Sizes of 1 and 2 and an alignment of 3 on eight addresses
give each possible offset, and room for two padded buffers side by side.
Early destruction is checked where it says something new: `DestroyEarly` for dma-heap, and `IonHeapMask`, where the mask outlives every allocator. The `destroy()` of
IPU, PxP, DWL and G2D ignores live buffers in the same way (`imxdmabuffer_ipu_allocator.c:52-65`); their actions have the same constant, and their runs leave it FALSE.

**Fairness.** Only `IonAllocator` has liveness properties. Its fairness is weak fairness of each thread's
next step inside `allocate()`: nothing there waits for anything, and the system keeps scheduling a runnable thread. No call is ever forced to start.

**Deadlock** is checked in all runs.

## Proofs

`DmaHeapAllocatorProofs` proves, for every number of allocators, buffers, users, descriptors, addresses and
values, for every choice of faults, and with allocators destroyed early or not:

- `TypeCorrect`: `Spec => []TypeOK`;
- `RefcountCorrect`: `Spec => []RefcountCountsHolders`. `RefcountCountsHolders` is not inductive alone: a call on
  a buffer that is not live could leave a mapping behind. The invariant `RefInv` adds the types and that
  only live buffers are mapped or have users. The steps go through lemmas on the composed bodies (`FirstMapResult`,
  `UnmapCallResult`, `SyncResult`) which say what a body does to count, address and flags, and one
  lemma on the number of users (`HoldersUpdate`), which is where finiteness of `Handles` is used.

The only other assumption is `ConstantsAssumption` of `DmaHeapAllocator`: descriptors are natural
numbers, and `Null` is none of the structures.

`DmaHeapOwnershipProofs` strengthens `RefInv` to `OwnershipInv`. `MappingInv` says that a live mapped buffer's
address maps this buffer, with the rights of the first map's flags, that its users hold this address, and that nothing else is mapped;
`DescriptorInv` that each buffer and allocator has an open descriptor of the right kind, and none shares one that it will close.
That is what an `munmap()` or a `close()` needs in order not to hit somebody else's. From it: `HoldersKeepAccess`, `MappingsReturned`, and, with
`0 \notin Fds`, `DescriptorsBalanced` and `NoAssertionFails`. The assumption is needed: `open()` may return 0, which the
code's assertions reject and `destroy()` does not close.

`DmaHeapCoherenceProofs` proves `DeviceNotStale` without further assumptions. The invariant
`CoherenceInv` says for each buffer that a session is open throughout an automatic mapping and never without one
(`SessionOpen`), that a dirty cache has an open session with the right to write, whose end will find `sync_started`
set (`DirtyInSession`), and that a clean cache is fresh in a session with the right to read (`CacheFresh`).
`CpuNotStale` needs that `mmap()` does not fail or that all sessions are automatic: otherwise `sync_started` may be set
outside of sessions (`StartedInSession`), and `DmaHeapMapFailure` shows what follows.

`DmaHeapRefinementProofs` proves `AllocatorImplementsContract`: `Spec => ImplementsContract`, under the same assumption (`SessionsReliable`) and for clients
that deallocate first (`~DestroyEarly`): `DestroyEarly` is a run in which the contract's `Destroy` is broken.
`CoherenceInv` gives what a step of the contract needs; `ContentSettled` says that the content a reader sees is
what the synchronising ioctl would leave in memory, so that a session may start, stop, or be ended by an unmap or a
deallocation without a change of the content.

`AlignedAllocatorsProofs` starts with the arithmetic: for all addresses, sizes and alignments rounding up yields
a multiple of the alignment (`AlignMultiple`), by less than the alignment further (`AlignBounds`), so that the
aligned range fits into the padded size (`AlignedRangeFits`). The numbers are unbounded: wrap-around is not covered.
It then proves `RangesUsable`: `Spec => []DeviceRangesUsable`, for any number of buffers and
allocators, any memory size, and all sizes and alignments, from `AlignedConstants`. All theorems about the state of the aligned allocators assume `~DestroyEarly`. A release frees the
chunk that starts at the buffer's address, so the property survives it only if no other live buffer starts there.
The invariant `GrantInv` therefore adds that start addresses are distinct and that each live buffer's chunk is
still granted; a new grant keeps both because it overlaps no granted chunk. It does not need
reference counts, so its types leave them any integer. PxP is left out of the range part, as `PxpAlignedSize` shows it must be.

`AlignedContractProofs` extends `GrantInv` to `AlignedInv`:

- `ChunksOwned`: each chunk belongs to a live buffer (`GrantInv` has only the converse), which makes a leak visible;
- `NodesOwned`: a descriptor opened by the library has one allocator, a client's may have many. Without it the `close()` of
  one allocator could close the node of another;
- `MemoryHeld`: the buffer's unaligned range, which IPU and PxP map, and the CPU range of DWL and G2D are in its own chunk;
- `MappingHeld`: how count, mapping, rights and holders of a buffer belong together, in three cases: mapped
  through a node, mapped for its whole life (DWL, G2D), gone.

From it follow `AlignedTypesKept`, `CpuStaysInOwnMemory`, `AlignedResourcesOwned` and `AlignedMappingsHeld`. `AlignedHoldersCanAccess`,
`AlignedAssertionsHold` and `AlignedAllocatorsImplementContract` need `RightsNamed` too: no client maps an IPU or PxP buffer without
flags. `MapWithoutFlags` is what happens otherwise: the first map gives no rights, which the contract does not allow, and the assertion of
a redundant map with the rights that the header promised fails.

`IonAllocatorProofs` proves everything the runs check about ION except liveness, for any number of threads, buffers,
descriptors and heaps, in builds for old and new kernels, and for every choice of faults. `IonInv` adds to the types

- `HeapsDetected`: the static mask, and the copy of it in each call of a newer kernel, hold DMA heaps only, complete or
  not. `IonBuffersAreContiguous` speaks of finished buffers only and says nothing about a mask that is about to be used;
- `CallsReserve`: two calls under way never make the same buffer, and none makes a live one;
- `DmaBufsOwned`, `HandlesOwned`, `NodesOwned`: who will release each kernel object, by the position of each call;
- `MappingHeld`: as above.

From it follow `IonTypesKept`, `IonAssertionsHold`, `IonBuffersAreContiguous`, `IonObjectsOwned` and `IonMappingsHeld`, with allocators destroyed early or not.
`IonAllocatorImplementsContract` assumes `~DestroyEarly` and `RightsAsked`, that no client maps with `MANUAL_SYNC` alone. The contract
knows allocators, so it needs one more invariant, `OwnersInv`: a live buffer has one allocator, which is alive, and so has a call
under way, which otherwise would make a buffer for an allocator that is gone. All steps of an allocation but the one that makes the buffer are stutters of the contract.

`IonMaskIsComplete` needs more, and an assumption. A store to the mask overwrites what others stored since the
thread read it, so a heap may be missing for a while. But scans pass the heaps in one order, so that a mask which is not empty never lacks the first
DMA heap, and a scan that has passed a DMA heap has a mask which is not empty (`ScansKnow`). If there are at most two DMA heaps, a scan that stores the second has both, and
one that stores the first alone has the second still to come (`NoneLost`). That is what the assumption
`AtMostTwoDmaHeaps \/ OneThread` is for; with two threads and three DMA heaps the statement is false, which is `IonLostHeap`.

`IonErrorsReported` (`DetectionReportsErrors`) uses `ScansKnow` to show that a thread which read a half-built mask never
returns an empty one, the failure without an error code, and that a failure always stores the code of a system call that failed. The property leaves out kernels with heap
detection but no DMA heap, drivers that report address 0, and exports without a descriptor: the first fails silently (`IonNoDmaHeap`) or, without any heap, with a stale
errno, the second silently, the third with a stale errno, and `ErrorCodeReported` refuses all of them.

Every passing run's invariants and refinements are proved. Model-checked only: `MaskSettles` and
`CallsReturn` of `IonAllocator`, because liveness under fairness is out of TLAPS's reach here, and of course the
violations, which are counterexamples.

## Not modelled

- The choice of an allocator by `imx_dma_buffer_allocator_new()` and the build: preprocessor conditionals.
- The `DMA_BUF_IOCTL_SYNC` branch of the dma-heap allocator, compiled out at `imxdmabuffer_dma_heap_allocator.c:29`.
- Error codes of the dma-heap allocator. Like ION, it leaves `*error` unset if a driver reports the address 0 (`imxdmabuffer_dma_heap_allocator.c:116-120`).
- The alignment of dma-heap and ION buffers: both ignore the `alignment` argument, although `imxdmabuffer.h:227-229` promises aligned addresses, and rely on the kernel.
- `MANUAL_SYNC` in the aligned allocators, which ignore it except that alone it gives no rights, as in ION.
- Manual sessions of wrapped buffers, for which `imxdmabuffer.h:184-186` makes no exception while the calls do nothing (`imxdmabuffer.c:222`).
- Getters other than those of dma-heap and wrapped buffers, and all sizes a getter returns: they return fields. (`get_fd()` of DWL returns -1, while `imxdmabuffer_dwl_allocator.h:17` speaks of file descriptors.)
- Wrappers around memory that the library did not allocate: what the client's functions do then is not the library's.
- Exhausted heap memory (`malloc()` is unchecked throughout), wrap-around of size plus alignment, cache-line granularity, concurrent calls on one buffer.

## Plan

Done, in this order: dma-heap with its contract; ION; aligned allocators; types and reference counts of dma-heap; the
alignment arithmetic and the ranges of aligned buffers; ownership, coherence and refinement of dma-heap proved;
wrapped buffers; refinement of the contract by all allocators, with destruction and rights as the header has them; ownership, mappings, CPU ranges and refinement of the aligned
allocators proved; the same for ION, with the completeness of its mask and its error codes.
Next:

1. Extend the theorems about the aligned allocators to clients that destroy allocators early.
2. State and prove as action properties what a failing call may not change, and that a mask which was complete
   while nobody detected heaps stays complete (the safety half of `MaskSettles`).
3. Model two threads that use one dma-heap buffer at once, call by call, to show which of the unprotected fields such clients break.
4. Split memory into cache lines smaller than the buffer, for sessions on write-only mappings.
