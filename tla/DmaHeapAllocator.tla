-------------------------- MODULE DmaHeapAllocator --------------------------
(***************************************************************************)
(* The dma-heap allocator (imxdmabuffer_dma_heap_allocator.c) as its       *)
(* clients drive it through imxdmabuffer.c: allocators on a dma-heap       *)
(* device, buffers backed by a DMA-BUF file descriptor, reference counted  *)
(* CPU mappings, and the sync sessions that keep cached memory coherent.   *)
(*                                                                         *)
(* One action is one library call: the library takes no lock and starts    *)
(* no thread, and callers serialise the calls on one buffer. Between two   *)
(* calls the CPU and the DMA device access the memory, and the CPU cache   *)
(* may write back or refill on its own. Calls are made as imxdmabuffer.h   *)
(* allows them; the client's side of that contract is in `client`.         *)
(***************************************************************************)
EXTENDS Integers, FiniteSets

CONSTANTS
  Allocators,      \* ImxDmaBufferDmaHeapAllocator structures
  Buffers,         \* ImxDmaBufferDmaHeapBuffer structures
  Handles,         \* parts of the client, each mapping a buffer at most once
  Fds,             \* file descriptor numbers the kernel hands out
  Addrs,           \* virtual addresses mmap() hands out
  Values,          \* contents of a buffer
  FlagChoices,     \* values of the flags argument of map(), as sets
  Faults,          \* system calls that may fail, see FaultKinds
  BuildIsCached,   \* built without DMA_HEAP_ALLOCATES_UNCACHED_MEMORY
  DestroyEarly,    \* clients destroy an allocator that still has buffers
  Null             \* NULL, and "no such thing"

ReadWrite  == {"READ", "WRITE"}
Flags      == ReadWrite \cup {"MANUAL_SYNC"}
FaultKinds == {"open", "alloc", "phys", "mmap"}
FdKinds    == {"closed", "node", "cached_heap", "uncached_heap", "dmabuf"}

ASSUME ConstantsAssumption ==
  /\ Fds \subseteq Nat
  /\ IsFiniteSet(Handles)
  /\ FlagChoices \subseteq SUBSET Flags
  /\ Faults \subseteq FaultKinds
  /\ BuildIsCached \in BOOLEAN
  /\ DestroyEarly \in BOOLEAN
  /\ Null \notin Allocators \cup Buffers \cup Addrs
  /\ Values # {}

VARIABLES
  allocator,  \* [Allocators -> allocator structure]
  buffer,     \* [Buffers -> buffer structure]
  fdTable,    \* kernel: what each descriptor refers to
  vm,         \* kernel: which buffer each address maps, with which rights
  memory,     \* hardware: DRAM, CPU cache and the cache's dirty state
  client      \* what the client was granted and holds, per buffer

vars == <<allocator, buffer, fdTable, vm, memory, client>>

NoFd        == -1
NoAllocator == [dma_heap_fd |-> NoFd, internal |-> FALSE, is_cached |-> FALSE,
                alive |-> FALSE]
NoBuffer    == [allocator |-> Null, dmabuf_fd |-> NoFd,
                mapped_virtual_address |-> Null, map_flags |-> {},
                mapping_refcount |-> 0, sync_started |-> FALSE]
Unmapped    == [buffer |-> Null, prot |-> {}]
NoClient    == [held |-> [h \in Handles |-> Null], access |-> {},
                manual |-> FALSE, session |-> FALSE]

-----------------------------------------------------------------------------
Alive      == {a \in Allocators : allocator[a].alive}
Live       == {b \in Buffers : buffer[b].allocator # Null}
Fresh(a)   == a \notin Alive /\ \A b \in Live : buffer[b].allocator # a
Usable     == {b \in Live : buffer[b].allocator \in Alive}
Mapped(b)  == buffer[b].mapped_virtual_address # Null
Holders(b) == {h \in Handles : client[b].held[h] # Null}
FreeFds    == {fd \in Fds : fdTable[fd] = "closed"}
FreeAddrs  == {p \in Addrs : vm[p] = Unmapped}
ClientFds  == {fd \in Fds : fdTable[fd] \in {"cached_heap", "uncached_heap"}}

\* The rights imxdmabuffer.h gives a map call with these flags.
RequestedRights(f) == IF f \cap ReadWrite = {} THEN ReadWrite ELSE f \cap ReadWrite

\* Mutant: map() forgets that no rights at all means read and write.
MappingFlagsAsGiven(f) == f

\* The flags map() goes by.
MappingFlags(f) == IF f \cap ReadWrite = {} THEN f \cup ReadWrite ELSE f

\* Whether a dma-heap hands out cached memory; the build option describes
\* the device node the library opens itself.
HeapIsCached(fd) ==
  \/ fdTable[fd] = "cached_heap"
  \/ fdTable[fd] = "node" /\ BuildIsCached

OwnerIsCached(b) == allocator[buffer[b].allocator].is_cached
MemoryIsCached(b) == HeapIsCached(allocator[buffer[b].allocator].dma_heap_fd)

Open(fd, kind) == [fdTable EXCEPT ![fd] = kind]
Close(fd)      == [fdTable EXCEPT ![fd] = "closed"]

\* What a call on one buffer works on.
Context(b) == [buf |-> buffer[b], mem |-> memory[b], vm |-> vm]
Store(b, s) ==
  /\ buffer' = [buffer EXCEPT ![b] = s.buf]
  /\ memory' = [memory EXCEPT ![b] = s.mem]
  /\ vm' = s.vm

-----------------------------------------------------------------------------
(***************************************************************************)
(* Sync sessions. The DMA_BUF_IOCTL_PHYS ioctl writes a dirty cache back   *)
(* and repopulates the cache; its result is ignored and it is the only     *)
(* thing either end of a session does.                                     *)
(***************************************************************************)
IsManual(s) == "MANUAL_SYNC" \in s.buf.map_flags

PhysIoctl(m) ==
  LET v == IF m.dirty THEN m.cache ELSE m.mem
  IN  [mem |-> v, cache |-> v, dirty |-> FALSE]

StartSyncImpl(s) ==
  [s EXCEPT !.mem = IF "READ" \in s.buf.map_flags THEN PhysIoctl(@) ELSE @,
            !.buf.sync_started = TRUE]

\* Mutants: the session stays marked as started, or its end looks at the
\* wrong flag.
StopSyncImplStaysStarted(s) ==
  [s EXCEPT !.mem = IF "WRITE" \in s.buf.map_flags THEN PhysIoctl(@) ELSE @]

StopSyncImplChecksRead(s) ==
  [s EXCEPT !.mem = IF "READ" \in s.buf.map_flags THEN PhysIoctl(@) ELSE @,
            !.buf.sync_started = FALSE]

StopSyncImpl(s) ==
  [s EXCEPT !.mem = IF "WRITE" \in s.buf.map_flags THEN PhysIoctl(@) ELSE @,
            !.buf.sync_started = FALSE]

StartSync(s) ==
  IF s.buf.sync_started \/ ~IsManual(s) THEN s ELSE StartSyncImpl(s)

StopSync(s) ==
  IF ~s.buf.sync_started \/ ~IsManual(s) THEN s ELSE StopSyncImpl(s)

-----------------------------------------------------------------------------
(***************************************************************************)
(* The bodies of map() on an unmapped buffer (mmap() returns p, Null if it *)
(* fails) and of unmap(), on an allocator that is_cached or not.           *)
(***************************************************************************)
EnterMapping(s, b, f, p) ==
  IF p = Null
  THEN [s EXCEPT !.buf.map_flags = f]
  ELSE [s EXCEPT !.buf.map_flags = f,
                 !.buf.mapping_refcount = 1,
                 !.buf.mapped_virtual_address = p,
                 !.vm[p] = [buffer |-> b, prot |-> f \cap ReadWrite]]

\* Mutant: no new session where one is marked as started.
FirstMapTrustsFlag(s, b, f, p, is_cached) ==
  LET t == EnterMapping(s, b, f, p)
  IN  IF is_cached /\ ~IsManual(t) /\ ~t.buf.sync_started
      THEN StartSyncImpl(t) ELSE t

FirstMap(s, b, f, p, is_cached) ==
  LET t == EnterMapping(s, b, f, p)
  IN  IF is_cached /\ ~IsManual(t) THEN StartSyncImpl(t) ELSE t

\* Mutant: the last unmap does not end the automatic session.
LeaveMappingUnsynced(s, is_cached) ==
  [s EXCEPT !.buf.mapping_refcount = 0,
            !.buf.mapped_virtual_address = Null,
            !.vm[s.buf.mapped_virtual_address] = Unmapped]

LeaveMapping(s, is_cached) ==
  LET t == IF is_cached /\ ~IsManual(s) THEN StopSyncImpl(s) ELSE s
  IN  [t EXCEPT !.buf.mapping_refcount = 0,
                !.buf.mapped_virtual_address = Null,
                !.vm[s.buf.mapped_virtual_address] = Unmapped]

\* Mutant: an unmapped buffer is not recognised.
UnmapCallUnguarded(s, is_cached) ==
  IF s.buf.mapping_refcount # 1
  THEN [s EXCEPT !.buf.mapping_refcount = @ - 1]
  ELSE LeaveMapping(s, is_cached)

UnmapCall(s, is_cached) ==
  IF s.buf.mapped_virtual_address = Null THEN s
  ELSE IF s.buf.mapping_refcount # 1
  THEN [s EXCEPT !.buf.mapping_refcount = @ - 1]
  ELSE LeaveMapping(s, is_cached)

-----------------------------------------------------------------------------
(***************************************************************************)
(* Allocators.                                                             *)
(***************************************************************************)

\* imx_dma_buffer_dma_heap_allocator_new(-1, ...): opens its own node.
AllocatorNew(a) ==
  /\ Fresh(a)
  /\ UNCHANGED <<buffer, vm, memory, client>>
  /\ \/ \E fd \in FreeFds :
          /\ fdTable' = Open(fd, "node")
          /\ allocator' = [allocator EXCEPT ![a] =
               [dma_heap_fd |-> fd, internal |-> TRUE,
                is_cached |-> BuildIsCached, alive |-> TRUE]]
     \/ "open" \in Faults /\ UNCHANGED <<allocator, fdTable>>

\* ..._new_from_fd(fd, ...), and the deprecated ..._new(fd, ...), which
\* assumes the memory kind of the build: clients pass it such a heap only.
AllocatorNewFromFd(a, fd) ==
  /\ Fresh(a)
  /\ fd \in ClientFds
  /\ allocator' = [allocator EXCEPT ![a] =
       [dma_heap_fd |-> fd, internal |-> FALSE,
        is_cached |-> HeapIsCached(fd), alive |-> TRUE]]
  /\ UNCHANGED <<buffer, fdTable, vm, memory, client>>

\* Destroying an allocator leaves its buffers alone: they stay allocated, but
\* no call on them is possible any more.
AllocatorDestroy(a) ==
  /\ a \in Alive
  /\ DestroyEarly \/ \A b \in Live : buffer[b].allocator # a
  /\ allocator' = [allocator EXCEPT ![a] = NoAllocator]
  /\ fdTable' = IF allocator[a].internal /\ allocator[a].dma_heap_fd > 0
                THEN Close(allocator[a].dma_heap_fd) ELSE fdTable
  /\ UNCHANGED <<buffer, vm, memory, client>>

-----------------------------------------------------------------------------
(***************************************************************************)
(* Buffers.                                                                *)
(***************************************************************************)

\* malloc() leaves map_flags as it finds it, and the cache may hold other
\* bytes than the new memory does.
AllocateSucceeds(b, a) ==
  /\ \E fd \in FreeFds, flags \in FlagChoices :
       /\ fdTable' = Open(fd, "dmabuf")
       /\ buffer' = [buffer EXCEPT ![b] =
            [NoBuffer EXCEPT !.allocator = a, !.dmabuf_fd = fd,
                             !.map_flags = flags]]
  /\ \E v, w \in Values :
       /\ HeapIsCached(allocator[a].dma_heap_fd) \/ v = w
       /\ memory' = [memory EXCEPT ![b] =
            [mem |-> v, cache |-> w, dirty |-> FALSE]]

\* Without a physical address the new DMA-BUF is closed again.
AllocateFails ==
  /\ \/ "alloc" \in Faults /\ UNCHANGED fdTable
     \/ /\ "phys" \in Faults
        /\ \E fd \in FreeFds :
             fdTable' = [Open(fd, "dmabuf") EXCEPT ![fd] = "closed"]
  /\ UNCHANGED <<buffer, memory>>

Allocate(b, a) ==
  /\ a \in Alive /\ b \notin Live
  /\ AllocateSucceeds(b, a) \/ AllocateFails
  /\ UNCHANGED <<allocator, vm, client>>

\* Mutant: the remaining references are not dropped.
DeallocateKeepsRefcount(b) ==
  /\ b \in Usable
  /\ LET s == UnmapCall(StopSync(Context(b)), OwnerIsCached(b))
     IN  Store(b, [s EXCEPT !.buf = NoBuffer])
  /\ fdTable' = Close(buffer[b].dmabuf_fd)
  /\ client' = [client EXCEPT ![b] = NoClient]
  /\ UNCHANGED allocator

\* A mapped buffer is unmapped first, however many references are left.
Deallocate(b) ==
  /\ b \in Usable
  /\ LET stopped == StopSync(Context(b))
         s == IF Mapped(b)
              THEN UnmapCall([stopped EXCEPT !.buf.mapping_refcount = 1],
                             OwnerIsCached(b))
              ELSE Context(b)
     IN  Store(b, [s EXCEPT !.buf = NoBuffer])
  /\ fdTable' = Close(buffer[b].dmabuf_fd)
  /\ client' = [client EXCEPT ![b] = NoClient]
  /\ UNCHANGED allocator

-----------------------------------------------------------------------------
(***************************************************************************)
(* Mappings and sync sessions. imxdmabuffer.c calls these through the      *)
(* allocator's function pointers, which are no-ops for sync sessions on an *)
(* allocator of uncached memory.                                           *)
(***************************************************************************)

MapFirst(b, h, f) ==
  /\ ~Mapped(b)
  /\ \E p \in FreeAddrs \cup (IF "mmap" \in Faults THEN {Null} ELSE {}) :
       /\ Store(b, FirstMap(Context(b), b, MappingFlags(f), p, OwnerIsCached(b)))
       /\ client' = IF p = Null THEN client
                    ELSE [client EXCEPT ![b] =
                           [held    |-> [@.held EXCEPT ![h] = p],
                            access  |-> RequestedRights(f),
                            manual  |-> "MANUAL_SYNC" \in f,
                            session |-> "MANUAL_SYNC" \notin f]]

\* Mutants: a redundant map is not counted, or replaces the flags.
MapAgainUncounted(b, h, f) ==
  /\ Mapped(b) /\ RequestedRights(f) \subseteq client[b].access
  /\ client' = [client EXCEPT ![b].held[h] = buffer[b].mapped_virtual_address]
  /\ UNCHANGED <<buffer, vm, memory>>

MapAgainReplacesFlags(b, h, f) ==
  /\ Mapped(b) /\ RequestedRights(f) \subseteq client[b].access
  /\ buffer' = [buffer EXCEPT ![b].mapping_refcount = @ + 1,
                              ![b].map_flags = MappingFlags(f)]
  /\ client' = [client EXCEPT ![b].held[h] = buffer[b].mapped_virtual_address]
  /\ UNCHANGED <<vm, memory>>

\* Only the reference count changes. The client asks for no more rights than
\* the first map gave it.
MapAgain(b, h, f) ==
  /\ Mapped(b)
  /\ RequestedRights(f) \subseteq client[b].access
  /\ buffer' = [buffer EXCEPT ![b].mapping_refcount = @ + 1]
  /\ client' = [client EXCEPT ![b].held[h] = buffer[b].mapped_virtual_address]
  /\ UNCHANGED <<vm, memory>>

Map(b, h, f) ==
  /\ b \in Usable /\ h \notin Holders(b)
  /\ MapFirst(b, h, f) \/ MapAgain(b, h, f)
  /\ UNCHANGED <<allocator, fdTable>>

\* The contract wants a manual session stopped before the last unmap.
Unmap(b, h) ==
  /\ b \in Usable /\ h \in Holders(b)
  /\ Holders(b) = {h} => ~(client[b].manual /\ client[b].session)
  /\ Store(b, UnmapCall(Context(b), OwnerIsCached(b)))
  /\ client' = [client EXCEPT ![b] =
       IF Holders(b) = {h} THEN NoClient ELSE [@ EXCEPT !.held[h] = Null]]
  /\ UNCHANGED <<allocator, fdTable>>

\* Unmapping a buffer that nobody has mapped does nothing.
UnmapIdle(b) ==
  /\ b \in Usable /\ Holders(b) = {}
  /\ Store(b, UnmapCall(Context(b), OwnerIsCached(b)))
  /\ UNCHANGED <<allocator, fdTable, client>>

StartSyncSession(b) ==
  /\ b \in Usable /\ Holders(b) # {}
  /\ Store(b, IF OwnerIsCached(b) THEN StartSync(Context(b)) ELSE Context(b))
  /\ client' = [client EXCEPT ![b].session = TRUE]
  /\ UNCHANGED <<allocator, fdTable>>

StopSyncSession(b) ==
  /\ b \in Usable /\ Holders(b) # {}
  /\ Store(b, IF OwnerIsCached(b) THEN StopSync(Context(b)) ELSE Context(b))
  /\ client' = [client EXCEPT ![b].session = @ /\ ~client[b].manual]
  /\ UNCHANGED <<allocator, fdTable>>

-----------------------------------------------------------------------------
(***************************************************************************)
(* The environment: the client's own heaps, the CPU and the device, which  *)
(* touches a buffer only between sync sessions, and the cache.             *)
(***************************************************************************)
ClientOpenHeap(fd, kind) ==
  /\ fd \in FreeFds
  /\ fdTable' = Open(fd, kind)
  /\ UNCHANGED <<allocator, buffer, vm, memory, client>>

ClientCloseHeap(fd) ==
  /\ fd \in ClientFds
  /\ \A a \in Alive : allocator[a].dma_heap_fd # fd
  /\ fdTable' = Close(fd)
  /\ UNCHANGED <<allocator, buffer, vm, memory, client>>

Access(b, m) ==
  /\ b \in Usable
  /\ memory' = [memory EXCEPT ![b] = m]
  /\ UNCHANGED <<allocator, buffer, fdTable, vm, client>>

CpuWrite(b, v) ==
  /\ client[b].session /\ "WRITE" \in client[b].access
  /\ Access(b, IF MemoryIsCached(b)
               THEN [memory[b] EXCEPT !.cache = v, !.dirty = TRUE]
               ELSE [mem |-> v, cache |-> v, dirty |-> FALSE])

DeviceWrite(b, v) ==
  /\ ~client[b].session
  /\ Access(b, IF MemoryIsCached(b)
               THEN [memory[b] EXCEPT !.mem = v]
               ELSE [mem |-> v, cache |-> v, dirty |-> FALSE])

\* A dirty cache writes back, a clean one refills.
CacheEvict(b) == Access(b, PhysIoctl(memory[b]))

-----------------------------------------------------------------------------
Init ==
  /\ allocator = [a \in Allocators |-> NoAllocator]
  /\ buffer = [b \in Buffers |-> NoBuffer]
  /\ fdTable = [fd \in Fds |-> "closed"]
  /\ vm = [p \in Addrs |-> Unmapped]
  /\ memory \in [Buffers -> {[mem |-> v, cache |-> v, dirty |-> FALSE] : v \in Values}]
  /\ client = [b \in Buffers |-> NoClient]

AllocatorStep(a) ==
  \/ AllocatorNew(a)
  \/ \E fd \in Fds : AllocatorNewFromFd(a, fd)
  \/ AllocatorDestroy(a)

BufferStep(b) ==
  \/ \E a \in Allocators : Allocate(b, a)
  \/ Deallocate(b)
  \/ \E h \in Handles, f \in FlagChoices : Map(b, h, f)
  \/ \E h \in Handles : Unmap(b, h)
  \/ UnmapIdle(b)
  \/ StartSyncSession(b)
  \/ StopSyncSession(b)

EnvironmentStep ==
  \/ \E fd \in Fds, kind \in {"cached_heap", "uncached_heap"} :
       ClientOpenHeap(fd, kind)
  \/ \E fd \in Fds : ClientCloseHeap(fd)
  \/ \E b \in Buffers :
       \/ \E v \in Values : CpuWrite(b, v) \/ DeviceWrite(b, v)
       \/ CacheEvict(b)

Next ==
  \/ \E a \in Allocators : AllocatorStep(a)
  \/ \E b \in Buffers : BufferStep(b)
  \/ EnvironmentStep

Spec == Init /\ [][Next]_vars

-----------------------------------------------------------------------------
(***************************************************************************)
(* Properties.                                                             *)
(***************************************************************************)
AllocatorRecords ==
  [dma_heap_fd : Fds \cup {NoFd}, internal : BOOLEAN, is_cached : BOOLEAN,
   alive : BOOLEAN]

BufferRecords ==
  [allocator : Allocators \cup {Null}, dmabuf_fd : Fds \cup {NoFd},
   mapped_virtual_address : Addrs \cup {Null}, map_flags : SUBSET Flags,
   mapping_refcount : Nat, sync_started : BOOLEAN]

ClientRecords ==
  [held : [Handles -> Addrs \cup {Null}], access : SUBSET ReadWrite,
   manual : BOOLEAN, session : BOOLEAN]

Memories == [mem : Values, cache : Values, dirty : BOOLEAN]

AddressSpaces == [Addrs -> [buffer : Buffers \cup {Null}, prot : SUBSET ReadWrite]]

\* Every structure has the shape the C code declares; in particular a
\* reference count is never negative.
TypeOK ==
  /\ allocator \in [Allocators -> AllocatorRecords]
  /\ buffer \in [Buffers -> BufferRecords]
  /\ fdTable \in [Fds -> FdKinds]
  /\ vm \in AddressSpaces
  /\ memory \in [Buffers -> Memories]
  /\ client \in [Buffers -> ClientRecords]

\* mapping_refcount is the number of map calls that still want the mapping,
\* and the buffer stays mapped exactly as long as there is one.
RefcountCountsHolders ==
  \A b \in Buffers :
    /\ buffer[b].mapping_refcount = Cardinality(Holders(b))
    /\ Mapped(b) <=> Holders(b) # {}

\* Whoever map() gave an address can use it with all the rights of the first
\* map: it still is this buffer's mapping and no other's.
HoldersCanAccess ==
  \A b \in Buffers : \A h \in Holders(b) :
    LET p == client[b].held[h] IN
    /\ p = buffer[b].mapped_virtual_address
    /\ vm[p] = [buffer |-> b, prot |-> client[b].access]

\* No mapping outlives the buffer's record of it: unmap() and deallocate()
\* leave no munmap() undone, and a failed call leaves no mapping behind.
NoMappingLeaked ==
  \A p \in Addrs : vm[p] # Unmapped =>
    \E b \in Live : vm[p].buffer = b /\ buffer[b].mapped_virtual_address = p

\* Every open descriptor of the library's has exactly one owner that will
\* close it, and nobody holds a descriptor the library or its client closed:
\* no leak on a failure path, no double close, no close of a borrowed heap.
DescriptorsOwned ==
  /\ \A fd \in Fds :
       /\ fdTable[fd] = "dmabuf" =>
            \E b \in Live : \A c \in Live : buffer[c].dmabuf_fd = fd <=> c = b
       /\ fdTable[fd] = "node" =>
            \E a \in Alive : \A c \in Alive : allocator[c].dma_heap_fd = fd <=> c = a
  /\ \A b \in Live : fdTable[buffer[b].dmabuf_fd] = "dmabuf"
  /\ \A a \in Alive : fdTable[allocator[a].dma_heap_fd] \in
       IF allocator[a].internal THEN {"node"} ELSE {"cached_heap", "uncached_heap"}

\* A client that keeps to the contract never meets a failing assertion: the
\* descriptors are positive, stop_sync_session() finds the buffer mapped, and
\* a redundant map with a subset of the first map's rights passes the check.
AssertionsHold ==
  /\ \A a \in Alive : allocator[a].dma_heap_fd > 0
  /\ \A b \in Live : buffer[b].dmabuf_fd > 0
  /\ \A b \in Usable : Holders(b) # {} =>
       /\ Mapped(b)
       /\ client[b].access \subseteq buffer[b].map_flags

\* Outside a sync session all that the CPU wrote has reached the memory, where
\* the device reads it; also after a buffer was deallocated while mapped.
DeviceSeesCpuWrites ==
  \A b \in Buffers : ~client[b].session => ~memory[b].dirty

\* In a session on a readable mapping the CPU reads what the device last
\* wrote, unless the CPU itself has written since: the cache is not stale.
CpuSeesDeviceWrites ==
  \A b \in Usable :
    client[b].session /\ "READ" \in client[b].access /\ ~memory[b].dirty
      => memory[b].cache = memory[b].mem

\* What destroy() of an allocator is said to do to its buffers: nobody can
\* call the library on them any more, so none of their descriptors is open,
\* no address maps them, and what the CPU wrote to them is in memory.
DestroyedBuffersDeallocated ==
  /\ \A fd \in Fds : fdTable[fd] = "dmabuf" =>
       \E b \in Usable : buffer[b].dmabuf_fd = fd
  /\ \A p \in Addrs : vm[p] # Unmapped => vm[p].buffer \in Usable
  /\ \A b \in Buffers \ Usable : ~memory[b].dirty

-----------------------------------------------------------------------------
(***************************************************************************)
(* The allocator implements the contract of imxdmabuffer.h. The mapping    *)
(* reads the code's own state and the hardware; only where a session       *)
(* stands is the client's knowledge.                                       *)
(***************************************************************************)
VisibleContent(b) ==
  LET m == memory[b]
      reads_cache == client[b].session /\ (m.dirty \/ "READ" \in client[b].access)
  IN  IF reads_cache THEN m.cache ELSE m.mem

MappedRights(b) == IF Mapped(b) THEN vm[buffer[b].mapped_virtual_address].prot ELSE {}

Contract == INSTANCE BufferContract WITH
  NoAllocator <- Null,
  alive   <- Alive,
  owner   <- [b \in Buffers |-> buffer[b].allocator],
  maps    <- [b \in Buffers |-> buffer[b].mapping_refcount],
  access  <- [b \in Buffers |-> MappedRights(b)],
  manual  <- [b \in Buffers |-> Mapped(b) /\ "MANUAL_SYNC" \in buffer[b].map_flags],
  session <- [b \in Buffers |-> client[b].session],
  content <- [b \in Buffers |-> VisibleContent(b)]

\* Every step of the allocator is a step of the contract or changes nothing
\* the contract speaks of: failed calls, idle calls and the cache's own
\* activity are invisible. It needs clients that deallocate their buffers
\* before the allocator, since destroy() does not do so.
ImplementsContract == Contract!Spec

=============================================================================
