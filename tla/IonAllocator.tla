---------------------------- MODULE IonAllocator ----------------------------
(***************************************************************************)
(* The ION allocator (imxdmabuffer_ion_allocator.c).                       *)
(*                                                                         *)
(* On kernels from 4.14 on an allocation first determines the mask of the  *)
(* DMA heaps, once per process: get_heap_id_mask() fills a static variable *)
(* heap by heap, without a lock, and threads that allocate at the same     *)
(* time run into each other there even if each has buffers of its own. An  *)
(* allocation is therefore modelled step by step, one action per system    *)
(* call and per access to that variable. The remaining calls touch nothing *)
(* but their own allocator or buffer, whose calls the client serialises,   *)
(* and are one action each.                                                *)
(***************************************************************************)
EXTENDS Integers, FiniteSets, Sequences

CONSTANTS
  Threads,        \* threads that allocate
  Allocators,     \* ImxDmaBufferIonAllocator structures
  Buffers,        \* ImxDmaBufferIonBuffer structures
  Handles,        \* parts of the client, each mapping a buffer at most once
  Fds,            \* file descriptor numbers the kernel hands out
  FlagChoices,    \* values of the flags argument of map(), as sets
  HeapLists,      \* answers to ION_IOC_HEAP_QUERY: the types of the heaps
  LegacyKernels,  \* whether the build is for a kernel before 4.14
  Faults,         \* system calls that may fail, see FaultKinds
  DestroyEarly    \* clients destroy an allocator that still has buffers

ReadWrite  == {"READ", "WRITE"}
HeapTypes  == {"DMA", "SYSTEM"}
Flags      == ReadWrite \cup {"MANUAL_SYNC"}
FaultKinds == {"open", "query", "alloc", "export", "export_no_fd", "phys",
               "phys_zero", "mmap"}

ASSUME IonConstants ==
  /\ Fds \subseteq Nat
  /\ IsFiniteSet(Handles)
  /\ FlagChoices \subseteq SUBSET Flags
  /\ HeapLists \subseteq Seq(HeapTypes)
  /\ LegacyKernels \subseteq BOOLEAN
  /\ Faults \subseteq FaultKinds
  /\ DestroyEarly \in BOOLEAN

VARIABLES
  heap_id_mask,  \* the static variable, a set of heaps
  heaps,         \* kernel: types of the ION heaps, which never change
  legacy,        \* the kernel version the library was built for
  userHandles,   \* kernel: ION handles not freed yet, by allocating thread
  fdTable,       \* kernel: what each descriptor refers to
  vm,            \* kernel: mappings of each buffer, and the rights they give
  allocator,     \* [Allocators -> allocator structure]
  buffer,        \* [Buffers -> buffer structure]
  call,          \* [Threads -> where its allocate call stands]
  client         \* the handles that map each buffer, and their rights

vars == <<heap_id_mask, heaps, legacy, userHandles, fdTable, vm, allocator,
          buffer, call, client>>
kernelVersion == <<heaps, legacy>>

NoFd        == -1
NoAllocator == [ion_fd |-> NoFd, internal |-> FALSE, alive |-> FALSE]
NoBuffer    == [live |-> FALSE, allocator |-> {}, dmabuf_fd |-> NoFd, heap |-> 0,
                mapped |-> FALSE, map_flags |-> {}, mapping_refcount |-> 0]
NoClient    == [held |-> {}, access |-> {}]
Unmapped    == [maps |-> 0, prot |-> {}]
Idle        == [pc |-> "idle", allocator |-> {}, buffer |-> {}, mask |-> {},
                next |-> 1, heap |-> 0, fd |-> NoFd, outcome |-> "none"]

-----------------------------------------------------------------------------
Alive     == {a \in Allocators : allocator[a].alive}
Live      == {b \in Buffers : buffer[b].live}
Usable    == {b \in Live : buffer[b].allocator \subseteq Alive}
Fresh(a)  == a \notin Alive /\ \A b \in Live : a \notin buffer[b].allocator
Busy      == {t \in Threads : call[t].pc # "idle"}
Reserved  == UNION {call[t].buffer : t \in Busy}
FreeFds   == {fd \in Fds : fdTable[fd] = "closed"}
Heaps     == DOMAIN heaps
DmaHeaps  == {i \in Heaps : heaps[i] = "DMA"}

\* The heaps get_heap_id_mask() looks at. Mutant: not at the last one.
ScannedHeapsShort == 1 .. Len(heaps) - 1
ScannedHeaps      == 1 .. Len(heaps)

Scanning  == {t \in Threads : call[t].pc \in {"scan", "store"}}

\* Heap ID #0, the default of the constructor's argument.
DefaultMask == {1}

Open(fd, kind) == [fdTable EXCEPT ![fd] = kind]
Close(fd)      == [fdTable EXCEPT ![fd] = "closed"]

\* The flags map() goes by, and the rights they give. MANUAL_SYNC alone is not
\* 0 and gives none.
Requested(f) == IF f = {} THEN ReadWrite ELSE f
Rights(f)    == Requested(f) \cap ReadWrite

-----------------------------------------------------------------------------
(***************************************************************************)
(* Allocators. A process may have /dev/ion open only once.                 *)
(***************************************************************************)
IonIsOpen == \E fd \in Fds : fdTable[fd] \in {"node", "client"}

AllocatorNew(a) ==
  /\ Fresh(a)
  /\ \/ \E fd \in FreeFds :
          /\ ~IonIsOpen
          /\ fdTable' = Open(fd, "node")
          /\ allocator' = [allocator EXCEPT ![a] =
               [ion_fd |-> fd, internal |-> TRUE, alive |-> TRUE]]
     \/ /\ IonIsOpen \/ "open" \in Faults
        /\ UNCHANGED <<fdTable, allocator>>
  /\ UNCHANGED <<kernelVersion, heap_id_mask, userHandles, vm, buffer, call, client>>

AllocatorNewFromFd(a, fd) ==
  /\ Fresh(a)
  /\ fdTable[fd] = "client"
  /\ allocator' = [allocator EXCEPT ![a] =
       [ion_fd |-> fd, internal |-> FALSE, alive |-> TRUE]]
  /\ UNCHANGED <<kernelVersion, heap_id_mask, userHandles, fdTable, vm, buffer, call, client>>

\* No call on the allocator is under way. Its buffers stay allocated, but no
\* call on them is possible any more.
AllocatorDestroy(a) ==
  /\ a \in Alive
  /\ DestroyEarly \/ \A b \in Live : a \notin buffer[b].allocator
  /\ \A t \in Busy : a \notin call[t].allocator
  /\ allocator' = [allocator EXCEPT ![a] = NoAllocator]
  /\ fdTable' = IF allocator[a].internal THEN Close(allocator[a].ion_fd) ELSE fdTable
  /\ UNCHANGED <<kernelVersion, heap_id_mask, userHandles, vm, buffer, call, client>>

ClientOpenIon(fd) ==
  /\ fd \in FreeFds /\ ~IonIsOpen
  /\ fdTable' = Open(fd, "client")
  /\ UNCHANGED <<kernelVersion, heap_id_mask, userHandles, vm, allocator, buffer, call, client>>

ClientCloseIon(fd) ==
  /\ fdTable[fd] = "client"
  /\ \A a \in Alive : allocator[a].ion_fd # fd
  /\ fdTable' = Close(fd)
  /\ UNCHANGED <<kernelVersion, heap_id_mask, userHandles, vm, allocator, buffer, call, client>>

-----------------------------------------------------------------------------
(***************************************************************************)
(* allocate(), one action per system call or access to heap_id_mask. A     *)
(* call that ends says how: outcome "errno" means that *error was set to   *)
(* the errno of a system call that failed; "stale", that it was set to     *)
(* whatever errno held after one that succeeded; "silent", that NULL was   *)
(* returned with *error untouched.                                         *)
(***************************************************************************)
At(t, label) == call[t].pc = label
Goto(t, label) == call' = [call EXCEPT ![t].pc = label]
End(t, outcome) == call' = [call EXCEPT ![t] = [Idle EXCEPT !.outcome = outcome]]

AllocateCall(t, a, b) ==
  /\ At(t, "idle")
  /\ a \in Alive
  /\ b \notin Live \cup Reserved
  /\ call' = [call EXCEPT ![t] =
       [Idle EXCEPT !.pc = IF legacy THEN "alloc" ELSE "mask",
                    !.mask = IF legacy THEN DefaultMask ELSE {},
                    !.allocator = {a}, !.buffer = {b}]]
  /\ UNCHANGED <<kernelVersion, heap_id_mask, userHandles, fdTable, vm, allocator, buffer, client>>

\* get_heap_id_mask(): has some call already found the heaps?
CheckMask(t) ==
  /\ At(t, "mask")
  /\ call' = [call EXCEPT ![t].mask = heap_id_mask,
                          ![t].pc = IF heap_id_mask # {} THEN "return" ELSE "query"]
  /\ UNCHANGED <<kernelVersion, heap_id_mask, userHandles, fdTable, vm, allocator, buffer, client>>

\* Mutant: starts every scan from an empty mask.
QueryHeapsResets(t) ==
  /\ At(t, "query")
  /\ \/ "query" \in Faults /\ End(t, "errno") /\ UNCHANGED heap_id_mask
     \/ heaps = <<>> /\ End(t, "stale") /\ UNCHANGED heap_id_mask
     \/ /\ heaps # <<>>
        /\ heap_id_mask' = {}
        /\ call' = [call EXCEPT ![t].mask = {}, ![t].pc = "scan"]
  /\ UNCHANGED <<kernelVersion, userHandles, fdTable, vm, allocator, buffer, client>>

\* The number of heaps, then the heaps. No heaps at all are a failure too.
QueryHeaps(t) ==
  /\ At(t, "query")
  /\ \/ "query" \in Faults /\ End(t, "errno")
     \/ heaps = <<>> /\ End(t, "stale")
     \/ /\ heaps # <<>>
        /\ call' = [call EXCEPT ![t].mask = heap_id_mask, ![t].pc = "scan"]
  /\ UNCHANGED <<kernelVersion, heap_id_mask, userHandles, fdTable, vm, allocator, buffer, client>>

\* Mutants: the loop takes every heap, or does not get past one that is not
\* a DMA heap.
ScanHeapAnyType(t) ==
  /\ At(t, "scan") /\ call[t].next \in ScannedHeaps
  /\ \E m \in {call[t].mask, heap_id_mask} :
       call' = [call EXCEPT ![t].mask = m, ![t].pc = "store"]
  /\ UNCHANGED <<kernelVersion, heap_id_mask, userHandles, fdTable, vm, allocator, buffer, client>>

ScanHeapStays(t) ==
  /\ At(t, "scan") /\ call[t].next \in ScannedHeaps
  /\ \E m \in {call[t].mask, heap_id_mask} :
       call' = [call EXCEPT ![t].mask = m,
                            ![t].pc = IF heaps[call[t].next] = "DMA" THEN "store" ELSE "scan"]
  /\ UNCHANGED <<kernelVersion, heap_id_mask, userHandles, fdTable, vm, allocator, buffer, client>>

\* One turn of the loop up to the load of heap_id_mask, which a compiler
\* may also keep in a register from one turn to the next.
ScanHeap(t) ==
  /\ At(t, "scan") /\ call[t].next \in ScannedHeaps
  /\ IF heaps[call[t].next] = "DMA"
     THEN \E m \in {call[t].mask, heap_id_mask} :
            call' = [call EXCEPT ![t].mask = m, ![t].pc = "store"]
     ELSE call' = [call EXCEPT ![t].next = @ + 1]
  /\ UNCHANGED <<kernelVersion, heap_id_mask, userHandles, fdTable, vm, allocator, buffer, client>>

\* Mutant: assigns instead of adding to the mask.
StoreMaskReplaces(t) ==
  /\ At(t, "store")
  /\ heap_id_mask' = {call[t].next}
  /\ call' = [call EXCEPT ![t].mask = {call[t].next}, ![t].next = @ + 1, ![t].pc = "scan"]
  /\ UNCHANGED <<kernelVersion, userHandles, fdTable, vm, allocator, buffer, client>>

StoreMask(t) ==
  /\ At(t, "store")
  /\ LET m == call[t].mask \cup {call[t].next}
     IN  /\ heap_id_mask' = m
         /\ call' = [call EXCEPT ![t].mask = m, ![t].next = @ + 1, ![t].pc = "scan"]
  /\ UNCHANGED <<kernelVersion, userHandles, fdTable, vm, allocator, buffer, client>>

\* Both returns read heap_id_mask once more, or use what they have of it.
ReturnMask(t) ==
  /\ At(t, "return") \/ (At(t, "scan") /\ call[t].next \notin ScannedHeaps)
  /\ \E m \in {call[t].mask, heap_id_mask} :
       IF m = {} THEN End(t, "silent")
       ELSE call' = [call EXCEPT ![t].mask = m, ![t].pc = "alloc"]
  /\ UNCHANGED <<kernelVersion, heap_id_mask, userHandles, fdTable, vm, allocator, buffer, client>>

\* ION_IOC_ALLOC takes the memory from any heap in the mask. It returns a
\* descriptor, or on older kernels a handle that ION_IOC_MAP exports.
AllocIoctl(t) ==
  /\ At(t, "alloc")
  /\ \/ /\ "alloc" \in Faults \/ FreeFds = {} \/ call[t].mask \cap Heaps = {}
        /\ End(t, "errno")
        /\ UNCHANGED <<fdTable, userHandles>>
     \/ \E heap \in call[t].mask \cap Heaps :
          \/ /\ legacy
             /\ userHandles' = userHandles \cup {t}
             /\ call' = [call EXCEPT ![t].heap = heap, ![t].pc = "export"]
             /\ UNCHANGED fdTable
          \/ /\ ~legacy
             /\ \E fd \in FreeFds :
                  /\ fdTable' = Open(fd, "dmabuf")
                  /\ call' = [call EXCEPT ![t].heap = heap, ![t].fd = fd, ![t].pc = "phys"]
             /\ UNCHANGED userHandles
  /\ UNCHANGED <<kernelVersion, heap_id_mask, vm, allocator, buffer, client>>

\* ION_IOC_MAP fails, or succeeds without a descriptor: *error is set before
\* the handle goes.
NoExport(t, outcome) ==
  call' = [call EXCEPT ![t].outcome = outcome, ![t].pc = "free"]

ExportHandle(t) ==
  /\ At(t, "export")
  /\ \/ /\ \/ ("export" \in Faults \/ FreeFds = {}) /\ NoExport(t, "errno")
           \/ "export_no_fd" \in Faults /\ NoExport(t, "stale")
        /\ UNCHANGED fdTable
     \/ \E fd \in FreeFds :
          /\ fdTable' = Open(fd, "dmabuf")
          /\ call' = [call EXCEPT ![t].fd = fd, ![t].pc = "free"]
  /\ UNCHANGED <<kernelVersion, heap_id_mask, userHandles, vm, allocator, buffer, client>>

\* The handle goes whether or not it could be exported.
FreeHandle(t) ==
  /\ At(t, "free")
  /\ userHandles' = userHandles \ {t}
  /\ IF call[t].fd = NoFd THEN End(t, call[t].outcome) ELSE Goto(t, "phys")
  /\ UNCHANGED <<kernelVersion, heap_id_mask, fdTable, vm, allocator, buffer, client>>

\* Mutant: a descriptor without a physical address stays open.
NoPhysicalAddressLeaks(t) ==
  /\ \/ "phys" \in Faults /\ End(t, "errno")
     \/ "phys_zero" \in Faults /\ End(t, "silent")
  /\ UNCHANGED <<fdTable, buffer>>

\* The ioctl fails, or succeeds with address 0.
NoPhysicalAddress(t) ==
  /\ \/ "phys" \in Faults /\ End(t, "errno")
     \/ "phys_zero" \in Faults /\ End(t, "silent")
  /\ fdTable' = Close(call[t].fd)
  /\ UNCHANGED buffer

GetPhysicalAddress(t) ==
  /\ At(t, "phys")
  /\ \/ NoPhysicalAddress(t)
     \/ /\ End(t, "ok")
        /\ buffer' = [b \in Buffers |->
             IF b \in call[t].buffer
             THEN [NoBuffer EXCEPT !.live = TRUE, !.allocator = call[t].allocator,
                                   !.dmabuf_fd = call[t].fd, !.heap = call[t].heap]
             ELSE buffer[b]]
        /\ UNCHANGED fdTable
  /\ UNCHANGED <<kernelVersion, heap_id_mask, userHandles, vm, allocator, client>>

ThreadStep(t) ==
  \/ CheckMask(t) \/ QueryHeaps(t) \/ ScanHeap(t) \/ StoreMask(t) \/ ReturnMask(t)
  \/ AllocIoctl(t) \/ ExportHandle(t) \/ FreeHandle(t) \/ GetPhysicalAddress(t)

-----------------------------------------------------------------------------
(***************************************************************************)
(* Buffers.                                                                *)
(***************************************************************************)
others == <<kernelVersion, heap_id_mask, userHandles, allocator, call>>

\* Mutants: a redundant map changes the rights of the mapping, or only the
\* flags that the next redundant map is compared with.
MapAgainChangesRights(b, h, f) ==
  /\ buffer[b].mapped /\ Rights(f) \subseteq client[b].access
  /\ buffer' = [buffer EXCEPT ![b].mapping_refcount = @ + 1]
  /\ vm' = [vm EXCEPT ![b].prot = Rights(f)]
  /\ client' = [client EXCEPT ![b].held = @ \cup {h}]

MapAgainReplacesFlags(b, h, f) ==
  /\ buffer[b].mapped /\ Rights(f) \subseteq client[b].access
  /\ buffer' = [buffer EXCEPT ![b].mapping_refcount = @ + 1,
                              ![b].map_flags = Requested(f)]
  /\ client' = [client EXCEPT ![b].held = @ \cup {h}]
  /\ UNCHANGED vm

\* The client asks for no more rights than the first map gave.
MapAgain(b, h, f) ==
  /\ buffer[b].mapped
  /\ Rights(f) \subseteq client[b].access
  /\ buffer' = [buffer EXCEPT ![b].mapping_refcount = @ + 1]
  /\ client' = [client EXCEPT ![b].held = @ \cup {h}]
  /\ UNCHANGED vm

\* map_flags is stored before mmap() is known to succeed.
MapFirst(b, h, f) ==
  /\ ~buffer[b].mapped
  /\ \/ /\ "mmap" \in Faults
        /\ buffer' = [buffer EXCEPT ![b].map_flags = Requested(f)]
        /\ UNCHANGED <<vm, client>>
     \/ /\ buffer' = [buffer EXCEPT ![b].map_flags = Requested(f),
                                    ![b].mapping_refcount = 1,
                                    ![b].mapped = TRUE]
        /\ vm' = [vm EXCEPT ![b] = [maps |-> @.maps + 1, prot |-> Rights(f)]]
        /\ client' = [client EXCEPT ![b] = [held |-> {h}, access |-> Rights(f)]]

Map(b, h, f) ==
  /\ b \in Usable /\ h \notin client[b].held
  /\ MapFirst(b, h, f) \/ MapAgain(b, h, f)
  /\ UNCHANGED <<others, fdTable>>

\* Mutant: an unmapped buffer is not recognised.
UnmappingUnguarded(s) ==
  IF s.buf.mapping_refcount # 1
  THEN [s EXCEPT !.buf.mapping_refcount = @ - 1]
  ELSE [s EXCEPT !.buf.mapping_refcount = 0, !.buf.mapped = FALSE,
                 !.vm = [maps |-> @.maps - 1, prot |-> {}]]

\* Buffer structure and mappings after unmap().
Unmapping(s) ==
  IF ~s.buf.mapped THEN s
  ELSE IF s.buf.mapping_refcount # 1
  THEN [s EXCEPT !.buf.mapping_refcount = @ - 1]
  ELSE [s EXCEPT !.buf.mapping_refcount = 0, !.buf.mapped = FALSE,
                 !.vm = [maps |-> @.maps - 1, prot |-> {}]]

\* By a handle that has it mapped, or by one that has not while nobody has.
Unmap(b, h) ==
  /\ b \in Usable
  /\ h \in client[b].held \/ client[b].held = {}
  /\ LET s == Unmapping([buf |-> buffer[b], vm |-> vm[b]])
     IN  /\ buffer' = [buffer EXCEPT ![b] = s.buf]
         /\ vm' = [vm EXCEPT ![b] = s.vm]
  /\ client' = [client EXCEPT
       ![b].held = @ \ {h},
       ![b].access = IF client[b].held \subseteq {h} THEN {} ELSE @]
  /\ UNCHANGED <<others, fdTable>>

\* Mutant: unmaps once, however often the buffer is mapped.
DeallocateUnmapsOnce(b) ==
  /\ b \in Usable
  /\ vm' = [vm EXCEPT ![b] = Unmapping([buf |-> buffer[b], vm |-> @]).vm]
  /\ buffer' = [buffer EXCEPT ![b] = NoBuffer]
  /\ client' = [client EXCEPT ![b] = NoClient]
  /\ fdTable' = Close(buffer[b].dmabuf_fd)
  /\ UNCHANGED others

Deallocate(b) ==
  /\ b \in Usable
  /\ LET last == [buffer[b] EXCEPT !.mapping_refcount = IF buffer[b].mapped THEN 1 ELSE @]
     IN  vm' = [vm EXCEPT ![b] = Unmapping([buf |-> last, vm |-> @]).vm]
  /\ buffer' = [buffer EXCEPT ![b] = NoBuffer]
  /\ client' = [client EXCEPT ![b] = NoClient]
  /\ fdTable' = Close(buffer[b].dmabuf_fd)
  /\ UNCHANGED others

-----------------------------------------------------------------------------
Init ==
  /\ heap_id_mask = {}
  /\ heaps \in HeapLists
  /\ legacy \in LegacyKernels
  /\ userHandles = {}
  /\ fdTable = [fd \in Fds |-> "closed"]
  /\ vm = [b \in Buffers |-> Unmapped]
  /\ allocator = [a \in Allocators |-> NoAllocator]
  /\ buffer = [b \in Buffers |-> NoBuffer]
  /\ call = [t \in Threads |-> Idle]
  /\ client = [b \in Buffers |-> NoClient]

AllocatorStep ==
  \/ \E a \in Allocators : AllocatorNew(a) \/ AllocatorDestroy(a)
  \/ \E a \in Allocators, fd \in Fds : AllocatorNewFromFd(a, fd)
  \/ \E fd \in Fds : ClientOpenIon(fd) \/ ClientCloseIon(fd)

BufferStep ==
  \/ \E b \in Buffers : Deallocate(b)
  \/ \E b \in Buffers, h \in Handles : Unmap(b, h)
  \/ \E b \in Buffers, h \in Handles, f \in FlagChoices : Map(b, h, f)

Next ==
  \/ AllocatorStep
  \/ \E t \in Threads, a \in Allocators, b \in Buffers : AllocateCall(t, a, b)
  \/ \E t \in Threads : ThreadStep(t)
  \/ BufferStep

\* A thread that is inside allocate() keeps running: nothing in it waits.
Spec == Init /\ [][Next]_vars /\ \A t \in Threads : WF_vars(ThreadStep(t))

-----------------------------------------------------------------------------
(***************************************************************************)
(* Properties.                                                             *)
(***************************************************************************)
Labels == {"idle", "mask", "query", "scan", "store", "return", "alloc",
           "export", "free", "phys"}
Outcomes == {"none", "ok", "errno", "stale", "silent"}

\* Every structure has the shape the C code declares; in particular a
\* reference count is never negative.
TypeOK ==
  /\ heap_id_mask \subseteq Heaps
  /\ heaps \in HeapLists /\ legacy \in LegacyKernels
  /\ userHandles \subseteq Threads
  /\ fdTable \in [Fds -> {"closed", "node", "client", "dmabuf"}]
  /\ vm \in [Buffers -> [maps : Nat, prot : SUBSET ReadWrite]]
  /\ allocator \in [Allocators ->
       [ion_fd : Fds \cup {NoFd}, internal : BOOLEAN, alive : BOOLEAN]]
  /\ buffer \in [Buffers ->
       [live : BOOLEAN, allocator : SUBSET Allocators, dmabuf_fd : Fds \cup {NoFd},
        heap : Nat, mapped : BOOLEAN, map_flags : SUBSET Flags,
        mapping_refcount : Nat]]
  /\ call \in [Threads ->
       [pc : Labels, allocator : SUBSET Allocators, buffer : SUBSET Buffers,
        mask : SUBSET Nat, next : Nat, heap : Nat, fd : Fds \cup {NoFd},
        outcome : Outcomes]]
  /\ client \in [Buffers -> [held : SUBSET Handles, access : SUBSET ReadWrite]]

\* With the detected mask, memory comes from DMA heaps only, whatever
\* half-built mask a thread took over from another: physically contiguous
\* memory is what the buffer's physical address stands for.
BuffersAreInDmaHeaps ==
  ~legacy => \A b \in Live : buffer[b].heap \in DmaHeaps

\* When no scan is under way, the mask is empty or complete: racing scans
\* have not lost a heap for the rest of the process.
MaskIsComplete ==
  Scanning = {} => heap_id_mask \in {{}, DmaHeaps}

\* Once a scan has found a heap, the mask becomes complete and stays so.
MaskSettles == heap_id_mask # {} ~> [](heap_id_mask = DmaHeaps)

\* Every allocate call ends, in a buffer or a failure.
CallsReturn == \A t \in Threads : call[t].pc # "idle" ~> call[t].pc = "idle"

\* Every kernel object has one owner that will release it, in mid-call too:
\* each DMA-BUF a buffer or the call that is making it, each ION handle its
\* call, each device node of the library's its allocator.
KernelObjectsOwned ==
  LET Owners(fd) == {b \in Live : buffer[b].dmabuf_fd = fd}
                      \cup {t \in Busy : call[t].fd = fd}
  IN  /\ \A fd \in Fds : fdTable[fd] = "dmabuf" <=> Cardinality(Owners(fd)) = 1
      /\ \A fd \in Fds : fdTable[fd] = "node" =>
           \E a \in Alive : allocator[a].ion_fd = fd /\ allocator[a].internal
      /\ \A a \in Alive : fdTable[allocator[a].ion_fd] \in {"node", "client"}
      /\ \A t \in userHandles : call[t].pc \in {"export", "free"}

\* The reference count is the number of map calls that still want the
\* mapping; one mmap() stands behind all of them, with the rights of the
\* first, and none is left when there are no more.
MappingsMatchHolders ==
  \A b \in Buffers :
    /\ buffer[b].mapping_refcount = Cardinality(client[b].held)
    /\ vm[b] = [maps |-> IF client[b].held # {} THEN 1 ELSE 0,
                prot |-> client[b].access]

\* A client that keeps to the contract meets no failing assertion: a call that
\* asks for a physical address has a descriptor, so has every buffer, and a
\* redundant map with no more than the first map's rights passes the comparison
\* with the flags that the buffer remembers.
AssertionsHold ==
  /\ \A t \in Threads : At(t, "phys") => call[t].fd >= 0
  /\ \A b \in Usable :
       /\ buffer[b].dmabuf_fd >= 0
       /\ client[b].held # {} => client[b].access \subseteq buffer[b].map_flags

\* A call that has failed stored the error code of what failed in it.
ErrorCodeReported ==
  \A t \in Threads : At(t, "idle") => call[t].outcome \notin {"stale", "silent"}

\* The same where the heaps are not detected or there is a DMA heap, and
\* drivers neither report address 0 nor export a handle without descriptor: a
\* thread that reads the mask while others build it never ends up with an
\* empty one, for which there is no error code.
DetectionReportsErrors ==
  /\ legacy \/ DmaHeaps # {}
  /\ Faults \cap {"phys_zero", "export_no_fd"} = {}
  => ErrorCodeReported

-----------------------------------------------------------------------------
(***************************************************************************)
(* The contract of imxdmabuffer.h. The memory is uncached: a session is    *)
(* open as long as the buffer is mapped, calls that start or stop one do   *)
(* nothing, also after MANUAL_SYNC, and what the CPU and the device write  *)
(* is not modelled.                                                        *)
(***************************************************************************)
Contract == INSTANCE BufferContract WITH
  Allocators <- {{a} : a \in Allocators},
  NoAllocator <- {},
  Values  <- {0},
  alive   <- {{a} : a \in Alive},
  owner   <- [b \in Buffers |-> buffer[b].allocator],
  maps    <- [b \in Buffers |-> buffer[b].mapping_refcount],
  access  <- [b \in Buffers |-> vm[b].prot],
  manual  <- [b \in Buffers |-> FALSE],
  session <- [b \in Buffers |-> buffer[b].mapping_refcount > 0],
  content <- [b \in Buffers |-> 0]

\* Every step is one the contract allows or is invisible to it, also while
\* other threads are in the middle of an allocation: a buffer comes to life
\* in one step and whole, and a failed allocation or map changes nothing.
\* Clients deallocate their buffers before the allocator, and do not map with
\* MANUAL_SYNC alone, which gives no rights.
ImplementsContract == Contract!Spec

=============================================================================
