------------------------- MODULE AlignedAllocators --------------------------
(***************************************************************************)
(* The four allocators that align physical addresses themselves:           *)
(*   IPU, PXP  get memory through a device node and map it with mmap();    *)
(*   DWL, G2D  get memory that their library has already mapped, so that   *)
(*             map() and unmap() only count.                               *)
(* One action is one call. Physical memory is the addresses 1..MemorySize, *)
(* from which the kernel grants chunks anywhere it likes.                  *)
(***************************************************************************)
EXTENDS Alignment, FiniteSets

CONSTANTS
  Kinds,        \* the allocators in use, of "IPU", "PXP", "DWL" and "G2D"
  Allocators,   \* allocator structures
  Buffers,      \* buffer structures
  Handles,      \* parts of the client, each mapping a buffer at most once
  Fds,          \* numbers of device descriptors and DWL instances
  FlagChoices,  \* values of the flags argument of map(), as sets
  Sizes,        \* values of the size argument of allocate()
  Alignments,   \* values of the alignment argument of allocate()
  MemorySize,   \* number of physical addresses
  Virtuals,     \* virtual addresses that DWL and G2D map their memory at
  Faults,       \* calls into the kernel or a library that may fail
  DestroyEarly  \* clients destroy an allocator that still has buffers

ReadWrite == {"READ", "WRITE"}
NodeKinds == {"IPU", "PXP"}

ASSUME AlignedConstants ==
  /\ Kinds \subseteq {"IPU", "PXP", "DWL", "G2D"}
  /\ IsFiniteSet(Handles)
  /\ FlagChoices \subseteq SUBSET ReadWrite
  /\ Fds \subseteq Nat
  /\ Sizes \subseteq Nat \ {0}
  /\ Alignments \subseteq Nat
  /\ MemorySize \in Nat
  /\ Virtuals \subseteq Nat
  /\ Faults \subseteq {"open", "alloc", "mmap"}
  /\ DestroyEarly \in BOOLEAN

VARIABLES
  fdTable,    \* kernel: what each descriptor refers to
  chunks,     \* kernel: the memory granted and not freed yet
  vm,         \* kernel: where and how each buffer is mapped for the CPU
  allocator,  \* [Allocators -> allocator structure]
  buffer,     \* [Buffers -> buffer structure]
  client      \* the handles that map each buffer, and their rights

vars == <<fdTable, chunks, vm, allocator, buffer, client>>

NoFd        == -1
NoAllocator == [kind |-> "none", fd |-> NoFd, internal |-> FALSE]
NoBuffer    == [allocator |-> {}, size |-> 0, physical_address |-> 0,
                aligned_physical_address |-> 0, mapped |-> FALSE,
                map_flags |-> {}, mapping_refcount |-> 0]
Unmapped    == [maps |-> 0, start |-> 0, prot |-> {}]
NoClient    == [held |-> {}, access |-> {}, alignment |-> 0]

Alive   == {a \in Allocators : allocator[a].kind # "none"}
Live    == {b \in Buffers : buffer[b].allocator # {}}
Usable  == {b \in Live : buffer[b].allocator \subseteq Alive}
Fresh(a) == a \notin Alive /\ \A b \in Live : a \notin buffer[b].allocator
KindOf(b) == CHOOSE kind \in {allocator[a].kind : a \in buffer[b].allocator} : TRUE
UsesNode(b) == KindOf(b) \in NodeKinds
FreeFds == {fd \in Fds : fdTable[fd] = "closed"}
Requested(f) == IF f = {} THEN ReadWrite ELSE f

Extent(start, length) == start .. (start + length - 1)
Addresses(chunk) == Extent(chunk.start, chunk.length)

-----------------------------------------------------------------------------
(***************************************************************************)
(* Allocators.                                                             *)
(***************************************************************************)
NewAllocator(a, kind, fd, internal) ==
  /\ Fresh(a) /\ kind \in Kinds
  /\ allocator' = [allocator EXCEPT ![a] =
       [kind |-> kind, fd |-> fd, internal |-> internal]]
  /\ UNCHANGED <<chunks, vm, buffer, client>>

\* Opens a device node of its own, as DWLInit() does for DWL.
AllocatorNew(a) ==
  \/ \E kind \in NodeKinds \cup {"DWL"}, fd \in FreeFds :
       /\ NewAllocator(a, kind, fd, TRUE)
       /\ fdTable' = [fdTable EXCEPT ![fd] = "node"]
  \/ /\ Fresh(a) /\ "open" \in Faults
     /\ UNCHANGED vars

AllocatorNewG2d(a) ==
  NewAllocator(a, "G2D", NoFd, FALSE) /\ UNCHANGED fdTable

AllocatorNewFromFd(a, fd) ==
  /\ fdTable[fd] = "client"
  /\ \E kind \in NodeKinds : NewAllocator(a, kind, fd, FALSE)
  /\ UNCHANGED fdTable

\* Its buffers stay allocated, but no call on them is possible any more.
AllocatorDestroy(a) ==
  /\ a \in Alive
  /\ DestroyEarly \/ \A b \in Live : a \notin buffer[b].allocator
  /\ allocator' = [allocator EXCEPT ![a] = NoAllocator]
  /\ fdTable' = IF allocator[a].internal
                THEN [fdTable EXCEPT ![allocator[a].fd] = "closed"] ELSE fdTable
  /\ UNCHANGED <<chunks, vm, buffer, client>>

ClientNode(fd) ==
  /\ \/ fd \in FreeFds /\ fdTable' = [fdTable EXCEPT ![fd] = "client"]
     \/ /\ fdTable[fd] = "client"
        /\ \A a \in Alive : allocator[a].fd # fd
        /\ fdTable' = [fdTable EXCEPT ![fd] = "closed"]
  /\ UNCHANGED <<chunks, vm, allocator, buffer, client>>

-----------------------------------------------------------------------------
(***************************************************************************)
(* Buffers.                                                                *)
(***************************************************************************)

\* The kernel finds `length` free addresses.
Grant(start, length) ==
  /\ Extent(start, length) \subseteq 1 .. MemorySize
  /\ \A c \in chunks : Extent(start, length) \cap Addresses(c) = {}
  /\ chunks' = chunks \cup {[start |-> start, length |-> length]}

\* The buffer structure, for memory that starts at `start`.
NewBuffer(b, a, size, alignment, start) ==
  /\ buffer' = [buffer EXCEPT ![b] =
       [NoBuffer EXCEPT !.allocator = {a}, !.size = size,
          !.physical_address = start,
          !.aligned_physical_address = AlignedAddress(start, alignment)]]
  /\ client' = [client EXCEPT ![b].alignment = alignment]

AllocateIpu(b, a, size, alignment) ==
  /\ allocator[a].kind = "IPU"
  /\ \E start \in 1 .. MemorySize :
       /\ Grant(start, ActualSize(size, alignment))
       /\ NewBuffer(b, a, size, alignment, start)
  /\ UNCHANGED vm

\* The extra bytes are counted in actual_size, but not asked for.
AllocatePxp(b, a, size, alignment) ==
  /\ allocator[a].kind = "PXP"
  /\ \E start \in 1 .. MemorySize :
       /\ Grant(start, size)
       /\ NewBuffer(b, a, size, alignment, start)
  /\ UNCHANGED vm

\* The memory is mapped at v; the virtual address is aligned like the
\* physical one, and so starts as far into the memory.
MappedAt(v, alignment, start) ==
  [maps |-> 1, start |-> start + AlignedAddress(v, alignment) - v, prot |-> ReadWrite]

AllocateDwl(b, a, size, alignment) ==
  /\ allocator[a].kind = "DWL"
  /\ \E start \in 1 .. MemorySize, v \in Virtuals :
       /\ Grant(start, ActualSize(size, alignment))
       /\ NewBuffer(b, a, size, alignment, start)
       /\ vm' = [vm EXCEPT ![b] = MappedAt(v, alignment, start)]

AllocateG2d(b, a, size, alignment) ==
  /\ allocator[a].kind = "G2D"
  /\ \E start \in 1 .. MemorySize, v \in Virtuals :
       /\ Grant(start, ActualSize(size, alignment))
       /\ NewBuffer(b, a, size, alignment, start)
       /\ vm' = [vm EXCEPT ![b] = MappedAt(v, alignment, start)]

\* A call that gets no memory frees the structure and leaves nothing.
AllocateFails == "alloc" \in Faults /\ UNCHANGED <<chunks, vm, buffer, client>>

Allocate(b, a, size, alignment) ==
  /\ a \in Alive /\ b \notin Live
  /\ \/ AllocateIpu(b, a, size, alignment)
     \/ AllocatePxp(b, a, size, alignment)
     \/ AllocateDwl(b, a, size, alignment)
     \/ AllocateG2d(b, a, size, alignment)
     \/ AllocateFails
  /\ UNCHANGED <<fdTable, allocator>>

\* unmap() on a buffer of an IPU or PxP allocator.
UnmapNode(s) ==
  IF ~s.buf.mapped THEN s
  ELSE IF s.buf.mapping_refcount # 1
  THEN [s EXCEPT !.buf.mapping_refcount = @ - 1]
  ELSE [s EXCEPT !.buf.mapping_refcount = 0, !.buf.mapped = FALSE,
                 !.vm = [Unmapped EXCEPT !.maps = s.vm.maps - 1]]

\* Mutant of the next: frees the aligned address.
FreeAligned(b) ==
  chunks' = {c \in chunks : c.start # buffer[b].aligned_physical_address}

\* IPU_FREE, PXP_IOC_PUT_PHYMEM, DWLFreeLinear() and g2d_free() are given
\* the address that came with the memory.
Free(b) == chunks' = {c \in chunks : c.start # buffer[b].physical_address}

\* Mutant: unmaps once, however often the buffer is mapped.
DeallocateUnmapsOnce(b) ==
  /\ b \in Usable
  /\ vm' = [vm EXCEPT ![b] =
       IF UsesNode(b) THEN UnmapNode([buf |-> buffer[b], vm |-> @]).vm ELSE Unmapped]
  /\ Free(b)
  /\ buffer' = [buffer EXCEPT ![b] = NoBuffer]
  /\ client' = [client EXCEPT ![b] = NoClient]
  /\ UNCHANGED <<fdTable, allocator>>

\* Memory of DWL and G2D is unmapped with the memory.
Deallocate(b) ==
  /\ b \in Usable
  /\ LET last == [buffer[b] EXCEPT !.mapping_refcount = IF buffer[b].mapped THEN 1 ELSE @]
     IN  vm' = [vm EXCEPT ![b] =
           IF UsesNode(b) THEN UnmapNode([buf |-> last, vm |-> @]).vm ELSE Unmapped]
  /\ Free(b)
  /\ buffer' = [buffer EXCEPT ![b] = NoBuffer]
  /\ client' = [client EXCEPT ![b] = NoClient]
  /\ UNCHANGED <<fdTable, allocator>>

-----------------------------------------------------------------------------
(***************************************************************************)
(* Mappings. The client asks for no more rights than the first map gave.   *)
(***************************************************************************)
\* Mutants: a redundant map replaces the flags that the next one is compared
\* with, or calls mmap() again.
MapNodeReplacesFlags(b, f) ==
  /\ buffer' = [buffer EXCEPT ![b].map_flags = f, ![b].mapped = TRUE,
                              ![b].mapping_refcount = @ + 1]
  /\ vm' = IF buffer[b].mapped THEN vm
           ELSE [vm EXCEPT ![b] = [maps |-> @.maps + 1,
                                   start |-> buffer[b].physical_address, prot |-> f]]

MapNodeAgain(b, f) ==
  /\ buffer' = [buffer EXCEPT ![b].map_flags = f, ![b].mapping_refcount = @ + 1,
                              ![b].mapped = TRUE]
  /\ vm' = [vm EXCEPT ![b] = [maps |-> @.maps + 1,
                              start |-> buffer[b].physical_address, prot |-> f]]

\* mmap() of the node at the physical address; no flags at all are no rights.
MapNode(b, f) ==
  \/ /\ buffer[b].mapped
     /\ buffer' = [buffer EXCEPT ![b].mapping_refcount = @ + 1]
     /\ UNCHANGED vm
  \/ /\ ~buffer[b].mapped
     /\ buffer' = [buffer EXCEPT ![b].map_flags = f, ![b].mapping_refcount = 1,
                                 ![b].mapped = TRUE]
     /\ vm' = [vm EXCEPT ![b] = [maps |-> @.maps + 1,
                                 start |-> buffer[b].physical_address, prot |-> f]]

\* Mutant: a redundant map replaces the flags.
MapLinearReplacesFlags(b, f) ==
  /\ buffer' = [buffer EXCEPT ![b].map_flags = Requested(f),
                              ![b].mapping_refcount = @ + 1]
  /\ UNCHANGED vm

\* Only flags and count, which stand for the client's use of the memory.
MapLinear(b, f) ==
  /\ \/ /\ buffer[b].mapping_refcount > 0
        /\ buffer' = [buffer EXCEPT ![b].mapping_refcount = @ + 1]
     \/ /\ buffer[b].mapping_refcount = 0
        /\ buffer' = [buffer EXCEPT ![b].map_flags = Requested(f),
                                    ![b].mapping_refcount = 1]
  /\ UNCHANGED vm

MapFails(b, f) ==
  /\ "mmap" \in Faults /\ UsesNode(b) /\ ~buffer[b].mapped
  /\ buffer' = [buffer EXCEPT ![b].map_flags = f]
  /\ UNCHANGED <<vm, client>>

Map(b, h, f) ==
  /\ b \in Usable /\ h \notin client[b].held
  /\ client[b].held # {} => Requested(f) \subseteq client[b].access
  /\ \/ /\ IF UsesNode(b) THEN MapNode(b, f) ELSE MapLinear(b, f)
        /\ client' = [client EXCEPT
             ![b].held = @ \cup {h},
             ![b].access = IF client[b].held = {} THEN Requested(f) ELSE @]
     \/ MapFails(b, f)
  /\ UNCHANGED <<fdTable, chunks, allocator>>

\* Mutant: a count of zero is not recognised.
UnmapLinearUnguarded(s) == [s EXCEPT !.buf.mapping_refcount = @ - 1]

UnmapLinear(s) ==
  IF s.buf.mapping_refcount > 0
  THEN [s EXCEPT !.buf.mapping_refcount = @ - 1] ELSE s

\* By a handle that has it mapped, or by one that has not while nobody has.
Unmap(b, h) ==
  /\ b \in Usable
  /\ h \in client[b].held \/ client[b].held = {}
  /\ LET s == [buf |-> buffer[b], vm |-> vm[b]]
         t == IF UsesNode(b) THEN UnmapNode(s) ELSE UnmapLinear(s)
     IN  /\ buffer' = [buffer EXCEPT ![b] = t.buf]
         /\ vm' = [vm EXCEPT ![b] = t.vm]
  /\ client' = [client EXCEPT
       ![b].held = @ \ {h},
       ![b].access = IF client[b].held \subseteq {h} THEN {} ELSE @]
  /\ UNCHANGED <<fdTable, chunks, allocator>>

-----------------------------------------------------------------------------
Init ==
  /\ fdTable = [fd \in Fds |-> "closed"]
  /\ chunks = {}
  /\ vm = [b \in Buffers |-> Unmapped]
  /\ allocator = [a \in Allocators |-> NoAllocator]
  /\ buffer = [b \in Buffers |-> NoBuffer]
  /\ client = [b \in Buffers |-> NoClient]

AllocatorStep ==
  \/ \E a \in Allocators : AllocatorNew(a) \/ AllocatorNewG2d(a) \/ AllocatorDestroy(a)
  \/ \E a \in Allocators, fd \in Fds : AllocatorNewFromFd(a, fd)
  \/ \E fd \in Fds : ClientNode(fd)

BufferStep ==
  \/ \E b \in Buffers, a \in Allocators, size \in Sizes, alignment \in Alignments :
       Allocate(b, a, size, alignment)
  \/ \E b \in Buffers : Deallocate(b)
  \/ \E b \in Buffers, h \in Handles, f \in FlagChoices : Map(b, h, f)
  \/ \E b \in Buffers, h \in Handles : Unmap(b, h)

Next == AllocatorStep \/ BufferStep

Spec == Init /\ [][Next]_vars

-----------------------------------------------------------------------------
(***************************************************************************)
(* Properties.                                                             *)
(***************************************************************************)
\* Every structure has the shape the C code declares; in particular a
\* reference count is never negative.
TypeOK ==
  /\ fdTable \in [Fds -> {"closed", "node", "client"}]
  /\ chunks \subseteq [start : 1 .. MemorySize, length : Nat \ {0}]
  /\ vm \in [Buffers -> [maps : Nat, start : Nat, prot : SUBSET ReadWrite]]
  /\ allocator \in [Allocators ->
       [kind : Kinds \cup {"none"}, fd : Fds \cup {NoFd}, internal : BOOLEAN]]
  /\ buffer \in [Buffers ->
       [allocator : SUBSET Allocators, size : Nat, physical_address : Nat,
        aligned_physical_address : Nat, mapped : BOOLEAN,
        map_flags : SUBSET ReadWrite, mapping_refcount : Nat]]
  /\ client \in [Buffers ->
       [held : SUBSET Handles, access : SUBSET ReadWrite, alignment : Nat]]

DeviceRange(b) == Extent(buffer[b].aligned_physical_address, buffer[b].size)
CpuRange(b)    == Extent(vm[b].start, buffer[b].size)

\* The chunk that allocate() got for b.
ChunkOf(b) == {c \in chunks : c.start = buffer[b].physical_address}
WithinOwnChunk(b, addresses) == \E c \in ChunkOf(b) : addresses \subseteq Addresses(c)

\* All that a device may access of a buffer, from the reported address on
\* and over the reported size, was granted for this buffer.
DeviceRangesGranted == \A b \in Live : WithinOwnChunk(b, DeviceRange(b))

\* The same without the PxP allocator, which does not ask for the extra
\* bytes; with it, every buffer is aligned as its allocation asked.
DeviceRangesUsable ==
  \A b \in Live :
    /\ KindOf(b) # "PXP" => WithinOwnChunk(b, DeviceRange(b))
    /\ client[b].alignment # 0 =>
         buffer[b].aligned_physical_address % client[b].alignment = 0

\* The CPU reaches no memory through a buffer but what was granted for it,
\* although the virtual address of DWL and G2D memory is moved on its own.
CpuRangesGranted ==
  \A b \in Live : vm[b].maps > 0 => WithinOwnChunk(b, CpuRange(b))

\* Memory and descriptors have one owner that will release them: no chunk is
\* freed under another buffer or left behind, no node of the library's stays
\* open without its allocator, and no allocator uses a closed one.
ResourcesOwned ==
  /\ \A c \in chunks :
       Cardinality({b \in Live : buffer[b].physical_address = c.start}) = 1
  /\ \A b \in Live : Cardinality(ChunkOf(b)) = 1
  /\ \A fd \in Fds : fdTable[fd] = "node" =>
       \E a \in Alive : allocator[a].fd = fd /\ allocator[a].internal
  /\ \A a \in Alive : allocator[a].kind # "G2D" =>
       fdTable[allocator[a].fd] = (IF allocator[a].internal THEN "node" ELSE "client")

\* The reference count is the number of map calls that still want the
\* mapping; an IPU or PxP buffer is mapped once while there are any, a DWL or
\* G2D buffer once as long as it lives; and no mapping outlives its buffer.
MappingsMatchHolders ==
  \A b \in Buffers :
    /\ buffer[b].mapping_refcount = Cardinality(client[b].held)
    /\ vm[b].maps =
         IF b \in Live /\ (client[b].held # {} \/ ~UsesNode(b)) THEN 1 ELSE 0

\* Whoever has a buffer mapped has the rights that the first map asked for.
HoldersCanAccess ==
  \A b \in Live : client[b].held # {} => client[b].access \subseteq vm[b].prot

\* A client that asks for no more than the first map's rights meets no failing
\* assertion: map() compares a redundant request with the flags that the buffer
\* remembers, which must still be those of the first map then.
AssertionsHold ==
  \A b \in Usable :
    client[b].held # {} => client[b].access \subseteq buffer[b].map_flags

\* The mapped memory begins where the device's view of the buffer does.
CpuStartsAtDeviceStart ==
  \A b \in Live : client[b].held # {} => vm[b].start = buffer[b].aligned_physical_address

-----------------------------------------------------------------------------
(***************************************************************************)
(* The contract of imxdmabuffer.h. The memory is uncached: a session is    *)
(* open as long as the buffer is mapped, and what the CPU and the device   *)
(* write is not modelled. Memory that is always mapped has the rights the  *)
(* allocator remembers.                                                    *)
(***************************************************************************)
MappedRights(b) ==
  IF buffer[b].mapping_refcount = 0 THEN {}
  ELSE IF UsesNode(b) THEN vm[b].prot ELSE buffer[b].map_flags

Contract == INSTANCE BufferContract WITH
  Allocators <- {{a} : a \in Allocators},
  NoAllocator <- {},
  Values  <- {0},
  alive   <- {{a} : a \in Alive},
  owner   <- [b \in Buffers |-> buffer[b].allocator],
  maps    <- [b \in Buffers |-> buffer[b].mapping_refcount],
  access  <- [b \in Buffers |-> MappedRights(b)],
  manual  <- [b \in Buffers |-> FALSE],
  session <- [b \in Buffers |-> buffer[b].mapping_refcount > 0],
  content <- [b \in Buffers |-> 0]

\* Every step is one the contract allows or is invisible to it: whichever of
\* the four allocators it is, the first map sets the rights, redundant maps
\* and unmaps only count, and a failed or an idle call changes nothing. Clients
\* deallocate their buffers before the allocator, and map with flags.
ImplementsContract == Contract!Spec

=============================================================================
