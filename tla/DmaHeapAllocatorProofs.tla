----------------------- MODULE DmaHeapAllocatorProofs -----------------------
(***************************************************************************)
(* Proofs about DmaHeapAllocator for all values of its constants.          *)
(***************************************************************************)
EXTENDS DmaHeapAllocator, FiniteSetTheorems, TLAPS

Contexts == [buf : BufferRecords, mem : Memories, vm : AddressSpaces]

\* r differs from s in its memory and in sync_started only.
SameMapping(r, s) ==
  /\ r.vm = s.vm
  /\ r.buf.allocator = s.buf.allocator
  /\ r.buf.dmabuf_fd = s.buf.dmabuf_fd
  /\ r.buf.mapped_virtual_address = s.buf.mapped_virtual_address
  /\ r.buf.map_flags = s.buf.map_flags
  /\ r.buf.mapping_refcount = s.buf.mapping_refcount

-----------------------------------------------------------------------------
(***************************************************************************)
(* What the bodies of the calls return.                                    *)
(***************************************************************************)

\* The ioctl leaves a clean cache that agrees with the memory.
LEMMA PhysIoctlResult ==
  ASSUME NEW m \in Memories
  PROVE  /\ PhysIoctl(m) \in Memories
         /\ PhysIoctl(m).dirty = FALSE
         /\ PhysIoctl(m).cache = PhysIoctl(m).mem
         /\ PhysIoctl(m).mem = IF m.dirty THEN m.cache ELSE m.mem
BY DEF PhysIoctl, Memories

\* Both ends of a session change the memory and sync_started only.
LEMMA StartSyncImplResult ==
  ASSUME NEW s \in Contexts
  PROVE  /\ StartSyncImpl(s) \in Contexts
         /\ SameMapping(StartSyncImpl(s), s)
         /\ StartSyncImpl(s).buf.sync_started = TRUE
         /\ StartSyncImpl(s).mem =
              IF "READ" \in s.buf.map_flags THEN PhysIoctl(s.mem) ELSE s.mem
<1>1. PhysIoctl(s.mem) \in Memories
  BY PhysIoctlResult DEF Contexts
<1>2. QED
  BY <1>1 DEF StartSyncImpl, SameMapping, Contexts, BufferRecords

LEMMA StopSyncImplResult ==
  ASSUME NEW s \in Contexts
  PROVE  /\ StopSyncImpl(s) \in Contexts
         /\ SameMapping(StopSyncImpl(s), s)
         /\ StopSyncImpl(s).buf.sync_started = FALSE
         /\ StopSyncImpl(s).mem =
              IF "WRITE" \in s.buf.map_flags THEN PhysIoctl(s.mem) ELSE s.mem
<1>1. PhysIoctl(s.mem) \in Memories
  BY PhysIoctlResult DEF Contexts
<1>2. QED
  BY <1>1 DEF StopSyncImpl, SameMapping, Contexts, BufferRecords

LEMMA SyncResult ==
  ASSUME NEW s \in Contexts, NEW r \in {StartSync(s), StopSync(s)}
  PROVE  /\ r \in Contexts
         /\ SameMapping(r, s)
<1>1. r \in {s, StartSyncImpl(s), StopSyncImpl(s)}
  BY DEF StartSync, StopSync
<1>2. CASE r = s
  BY <1>2 DEF SameMapping
<1>3. CASE r = StartSyncImpl(s)
  BY <1>3, StartSyncImplResult
<1>4. CASE r = StopSyncImpl(s)
  BY <1>4, StopSyncImplResult
<1>5. QED
  BY <1>1, <1>2, <1>3, <1>4

\* What the first map does to s: if mmap() returns p, and if it fails.
MapEffect(r, s, b, f, p) ==
  /\ r.buf.allocator = s.buf.allocator
  /\ r.buf.dmabuf_fd = s.buf.dmabuf_fd
  /\ r.buf.map_flags = f
  /\ p = Null =>
       /\ r.vm = s.vm
       /\ r.buf.mapping_refcount = s.buf.mapping_refcount
       /\ r.buf.mapped_virtual_address = s.buf.mapped_virtual_address
  /\ p # Null =>
       /\ r.vm = [s.vm EXCEPT ![p] = [buffer |-> b, prot |-> f \cap ReadWrite]]
       /\ r.buf.mapping_refcount = 1
       /\ r.buf.mapped_virtual_address = p

\* Its automatic session starts whether mmap() succeeds or not.
MapSync(r, s, f, c) ==
  IF c /\ "MANUAL_SYNC" \notin f
  THEN /\ r.mem = IF "READ" \in f THEN PhysIoctl(s.mem) ELSE s.mem
       /\ r.buf.sync_started = TRUE
  ELSE r.mem = s.mem /\ r.buf.sync_started = s.buf.sync_started

LEMMA FirstMapResult ==
  ASSUME NEW s \in Contexts, NEW b \in Buffers, NEW f \in SUBSET Flags,
         NEW p \in Addrs \cup {Null}, NEW c \in BOOLEAN,
         NEW r, r = FirstMap(s, b, f, p, c)
  PROVE  r \in Contexts /\ MapEffect(r, s, b, f, p) /\ MapSync(r, s, f, c)
<1> DEFINE t == EnterMapping(s, b, f, p)
<1>1. /\ t \in Contexts
      /\ t.mem = s.mem
      /\ t.buf.map_flags = f
      /\ t.buf.sync_started = s.buf.sync_started
      /\ t.buf.allocator = s.buf.allocator
      /\ t.buf.dmabuf_fd = s.buf.dmabuf_fd
  BY DEF EnterMapping, Contexts, BufferRecords, AddressSpaces
<1>2. p = Null => /\ t.vm = s.vm
                  /\ t.buf.mapping_refcount = s.buf.mapping_refcount
                  /\ t.buf.mapped_virtual_address = s.buf.mapped_virtual_address
  BY DEF EnterMapping, Contexts, BufferRecords
<1>3. p # Null =>
        /\ t.vm = [s.vm EXCEPT ![p] = [buffer |-> b, prot |-> f \cap ReadWrite]]
        /\ t.buf.mapping_refcount = 1
        /\ t.buf.mapped_virtual_address = p
  BY DEF EnterMapping, Contexts, BufferRecords
<1>4. FirstMap(s, b, f, p, c) =
        IF c /\ "MANUAL_SYNC" \notin f THEN StartSyncImpl(t) ELSE t
  BY <1>1 DEF FirstMap, IsManual
<1> HIDE DEF t
<1>5. CASE c /\ "MANUAL_SYNC" \notin f
  <2>1. FirstMap(s, b, f, p, c) = StartSyncImpl(t)
    BY <1>4, <1>5
  <2>2. /\ StartSyncImpl(t) \in Contexts
        /\ SameMapping(StartSyncImpl(t), t)
        /\ StartSyncImpl(t).buf.sync_started = TRUE
        /\ StartSyncImpl(t).mem = IF "READ" \in f THEN PhysIoctl(s.mem) ELSE s.mem
    BY <1>1, StartSyncImplResult
  <2>3. QED
    BY <1>1, <1>2, <1>3, <1>5, <2>1, <2>2 DEF SameMapping, MapEffect, MapSync
<1>6. CASE ~(c /\ "MANUAL_SYNC" \notin f)
  BY <1>1, <1>2, <1>3, <1>4, <1>6 DEF MapEffect, MapSync
<1>7. QED
  BY <1>5, <1>6

LEMMA ClearedMapping ==
  ASSUME NEW x \in BufferRecords
  PROVE  LET y == [x EXCEPT !.mapping_refcount = 0,
                            !.mapped_virtual_address = Null]
         IN  /\ y \in BufferRecords
             /\ y.allocator = x.allocator
             /\ y.dmabuf_fd = x.dmabuf_fd
             /\ y.map_flags = x.map_flags
             /\ y.sync_started = x.sync_started
             /\ y.mapping_refcount = 0
             /\ y.mapped_virtual_address = Null
BY DEF BufferRecords

\* unmap() on a mapped buffer drops a reference; the last one unmaps.
UnmapEffect(r, s) ==
  /\ r.buf.allocator = s.buf.allocator
  /\ r.buf.dmabuf_fd = s.buf.dmabuf_fd
  /\ r.buf.map_flags = s.buf.map_flags
  /\ r.buf.mapping_refcount = s.buf.mapping_refcount - 1
  /\ s.buf.mapping_refcount # 1 =>
       /\ r.vm = s.vm
       /\ r.buf.mapped_virtual_address = s.buf.mapped_virtual_address
  /\ s.buf.mapping_refcount = 1 =>
       /\ r.vm = [s.vm EXCEPT ![s.buf.mapped_virtual_address] = Unmapped]
       /\ r.buf.mapped_virtual_address = Null

UnmapSync(r, s, c) ==
  /\ s.buf.mapping_refcount # 1 =>
       r.mem = s.mem /\ r.buf.sync_started = s.buf.sync_started
  /\ s.buf.mapping_refcount = 1 =>
       /\ r.mem = IF c /\ ~IsManual(s) /\ "WRITE" \in s.buf.map_flags
                  THEN PhysIoctl(s.mem) ELSE s.mem
       /\ r.buf.sync_started = (s.buf.sync_started /\ ~(c /\ ~IsManual(s)))

LEMMA UnmapCallResult ==
  ASSUME NEW s \in Contexts, NEW c \in BOOLEAN,
         s.buf.mapped_virtual_address # Null, s.buf.mapping_refcount # 0,
         NEW r, r = UnmapCall(s, c)
  PROVE  r \in Contexts /\ UnmapEffect(r, s) /\ UnmapSync(r, s, c)
<1>1. CASE s.buf.mapping_refcount # 1
  BY <1>1 DEF UnmapCall, Contexts, BufferRecords, UnmapEffect, UnmapSync
<1>2. CASE s.buf.mapping_refcount = 1
  <2> DEFINE t == IF c /\ ~IsManual(s) THEN StopSyncImpl(s) ELSE s
  <2>1. /\ t \in Contexts
        /\ t.vm = s.vm
        /\ t.buf.allocator = s.buf.allocator
        /\ t.buf.dmabuf_fd = s.buf.dmabuf_fd
        /\ t.buf.map_flags = s.buf.map_flags
        /\ t.mem = IF c /\ ~IsManual(s) /\ "WRITE" \in s.buf.map_flags
                   THEN PhysIoctl(s.mem) ELSE s.mem
        /\ t.buf.sync_started = (s.buf.sync_started /\ ~(c /\ ~IsManual(s)))
    BY StopSyncImplResult DEF SameMapping, Contexts, BufferRecords
  <2>2. UnmapCall(s, c) =
          [t EXCEPT !.buf.mapping_refcount = 0,
                    !.buf.mapped_virtual_address = Null,
                    !.vm[s.buf.mapped_virtual_address] = Unmapped]
    BY <1>2 DEF UnmapCall, LeaveMapping
  <2> HIDE DEF t
  <2>3. [t.vm EXCEPT ![s.buf.mapped_virtual_address] = Unmapped] \in AddressSpaces
    BY <2>1 DEF Unmapped, Contexts, AddressSpaces
  <2>4. /\ r = [buf |-> r.buf, mem |-> t.mem, vm |-> r.vm]
        /\ r.vm = [t.vm EXCEPT ![s.buf.mapped_virtual_address] = Unmapped]
        /\ r.buf = [t.buf EXCEPT !.mapping_refcount = 0,
                                 !.mapped_virtual_address = Null]
    BY <2>1, <2>2 DEF Contexts
  <2>5. /\ r.buf \in BufferRecords
        /\ r.buf.allocator = t.buf.allocator
        /\ r.buf.dmabuf_fd = t.buf.dmabuf_fd
        /\ r.buf.map_flags = t.buf.map_flags
        /\ r.buf.sync_started = t.buf.sync_started
        /\ r.buf.mapping_refcount = 0
        /\ r.buf.mapped_virtual_address = Null
    <3>1. t.buf \in BufferRecords
      BY <2>1 DEF Contexts
    <3>2. r.buf = [t.buf EXCEPT !.mapping_refcount = 0,
                               !.mapped_virtual_address = Null]
      BY <2>4
    <3>3. QED
      BY <3>1, <3>2, ClearedMapping
  <2>6. /\ r \in Contexts
        /\ r.mem = t.mem
    BY <2>1, <2>3, <2>4, <2>5 DEF Contexts
  <2>7. /\ r.buf.mapping_refcount = s.buf.mapping_refcount - 1
        /\ r.vm = [s.vm EXCEPT ![s.buf.mapped_virtual_address] = Unmapped]
    BY <1>2, <2>1, <2>4, <2>5
  <2>8. QED
    BY <1>2, <2>1, <2>5, <2>6, <2>7 DEF UnmapEffect, UnmapSync
<1>3. QED
  BY <1>1, <1>2

-----------------------------------------------------------------------------
(***************************************************************************)
(* Types and reference counts. TypeOK alone is not inductive: that unmap() *)
(* never takes a count below zero needs the count to agree with the        *)
(* clients' outstanding map calls.                                         *)
(***************************************************************************)
MappedAreLive == \A b \in Buffers : Mapped(b) => b \in Live

RefInv == TypeOK /\ RefcountCountsHolders /\ MappedAreLive

LEMMA ContextType ==
  ASSUME TypeOK, NEW b \in Buffers
  PROVE  Context(b) \in Contexts
BY DEF TypeOK, Context, Contexts

LEMMA StoreType ==
  ASSUME TypeOK, NEW b \in Buffers, NEW s \in Contexts, Store(b, s)
  PROVE  /\ buffer' \in [Buffers -> BufferRecords]
         /\ memory' \in [Buffers -> Memories]
         /\ vm' \in AddressSpaces
         /\ buffer'[b] = s.buf
         /\ memory'[b] = s.mem
         /\ vm' = s.vm
         /\ \A c \in Buffers \ {b} : buffer'[c] = buffer[c] /\ memory'[c] = memory[c]
BY DEF TypeOK, Store, Contexts

LEMMA EmptyRecords ==
  /\ NoAllocator \in AllocatorRecords
  /\ NoBuffer \in BufferRecords
  /\ NoClient \in ClientRecords
  /\ Unmapped \in [buffer : Buffers \cup {Null}, prot : SUBSET ReadWrite]
  /\ {h \in Handles : NoClient.held[h] # Null} = {}
BY DEF NoAllocator, AllocatorRecords, NoBuffer, BufferRecords, NoClient,
       ClientRecords, Unmapped

\* The flags of a first map, and the rights the contract derives from them.
LEMMA FlagsType ==
  ASSUME NEW f \in FlagChoices
  PROVE  /\ MappingFlags(f) \in SUBSET Flags
         /\ MappingFlags(f) \cap ReadWrite = RequestedRights(f)
         /\ RequestedRights(f) \in SUBSET ReadWrite
         /\ "MANUAL_SYNC" \in MappingFlags(f) <=> "MANUAL_SYNC" \in f
BY ConstantsAssumption DEF MappingFlags, RequestedRights, Flags, ReadWrite

\* One handle more, one less, and none.
LEMMA HoldersUpdate ==
  ASSUME TypeOK, NEW b \in Buffers
  PROVE  /\ IsFiniteSet(Holders(b))
         /\ Cardinality(Holders(b)) \in Nat
         /\ Cardinality(Holders(b)) = 0 <=> Holders(b) = {}
         /\ \A h \in Handles :
              /\ Cardinality(Holders(b) \cup {h}) =
                   IF h \in Holders(b) THEN Cardinality(Holders(b))
                   ELSE Cardinality(Holders(b)) + 1
              /\ Cardinality(Holders(b) \ {h}) =
                   IF h \in Holders(b) THEN Cardinality(Holders(b)) - 1
                   ELSE Cardinality(Holders(b))
<1>1. IsFiniteSet(Holders(b))
  BY ConstantsAssumption, FS_Subset DEF Holders
<1>2. QED
  BY <1>1, FS_EmptySet, FS_AddElement, FS_RemoveElement, FS_CardinalityType

\* The parts of RefInv for one buffer, given that the others are left alone.
LEMMA RefInvForOne ==
  ASSUME RefInv, NEW b \in Buffers,
         \A c \in Buffers \ {b} : buffer'[c] = buffer[c] /\ client'[c] = client[c],
         buffer'[b].mapping_refcount = Cardinality(Holders(b)'),
         Mapped(b)' <=> Holders(b)' # {},
         Mapped(b)' => (b \in Live)'
  PROVE  RefcountCountsHolders' /\ MappedAreLive'
<1>1. RefcountCountsHolders'
  <2>1. ASSUME NEW c \in Buffers \ {b}
        PROVE  /\ buffer'[c].mapping_refcount = Cardinality(Holders(c)')
               /\ Mapped(c)' <=> Holders(c)' # {}
    <3>1. Holders(c)' = Holders(c)
      BY <2>1 DEF Holders
    <3>2. Mapped(c)' <=> Mapped(c)
      BY <2>1 DEF Mapped
    <3>3. QED
      BY <2>1, <3>1, <3>2 DEF RefInv, RefcountCountsHolders
  <2>2. QED
    BY <2>1 DEF RefcountCountsHolders
<1>2. MappedAreLive'
  BY DEF RefInv, MappedAreLive, Mapped, Live
<1>3. QED
  BY <1>1, <1>2

LEMMA RefInvInit == Init => RefInv
<1> SUFFICES ASSUME Init PROVE RefInv
  OBVIOUS
<1>1. TypeOK
  <2>1. memory \in [Buffers -> Memories]
    <3>1. \A v \in Values : [mem |-> v, cache |-> v, dirty |-> FALSE] \in Memories
      BY DEF Memories
    <3>2. QED
      BY <3>1 DEF Init
  <2>2. QED
    BY <2>1, EmptyRecords DEF Init, TypeOK, FdKinds, AddressSpaces
<1>2. RefcountCountsHolders
  BY EmptyRecords, FS_EmptySet
  DEF Init, RefcountCountsHolders, Holders, Mapped, NoBuffer
<1>3. MappedAreLive
  BY DEF Init, MappedAreLive, Mapped, NoBuffer
<1>4. QED
  BY <1>1, <1>2, <1>3 DEF RefInv

\* Steps that touch neither the buffers nor the clients.
LEMMA RefInvAllocators ==
  ASSUME RefInv, NEW a \in Allocators, AllocatorStep(a)
  PROVE  RefInv'
<1>1. UNCHANGED <<buffer, vm, memory, client>>
  BY DEF AllocatorStep, AllocatorNew, AllocatorNewFromFd, AllocatorDestroy
<1>2. RefcountCountsHolders' /\ MappedAreLive'
  BY <1>1 DEF RefInv, RefcountCountsHolders, MappedAreLive, Holders, Mapped, Live
<1>3. TypeOK'
  <2>1. CASE AllocatorNew(a)
    <3>1. ASSUME NEW fd \in FreeFds, fdTable' = Open(fd, "node"),
                 allocator' = [allocator EXCEPT ![a] =
                   [dma_heap_fd |-> fd, internal |-> TRUE,
                    is_cached |-> BuildIsCached, alive |-> TRUE]]
          PROVE  /\ allocator' \in [Allocators -> AllocatorRecords]
                 /\ fdTable' \in [Fds -> FdKinds]
      BY <3>1, ConstantsAssumption
      DEF RefInv, TypeOK, AllocatorRecords, Open, FreeFds, FdKinds
    <3>2. /\ allocator' \in [Allocators -> AllocatorRecords]
          /\ fdTable' \in [Fds -> FdKinds]
      BY <2>1, <3>1, EmptyRecords DEF AllocatorNew, RefInv, TypeOK
    <3>3. QED
      BY <1>1, <3>2 DEF RefInv, TypeOK
  <2>2. CASE \E fd \in Fds : AllocatorNewFromFd(a, fd)
    BY <1>1, <2>2, EmptyRecords, ConstantsAssumption
    DEF RefInv, TypeOK, AllocatorNewFromFd, AllocatorRecords, HeapIsCached
  <2>3. CASE AllocatorDestroy(a)
    BY <1>1, <2>3, EmptyRecords
    DEF RefInv, TypeOK, AllocatorDestroy, Close, FdKinds
  <2>4. QED
    BY <2>1, <2>2, <2>3 DEF AllocatorStep
<1>4. QED
  BY <1>2, <1>3 DEF RefInv

LEMMA RefInvEnvironment ==
  ASSUME RefInv, EnvironmentStep
  PROVE  RefInv'
<1>1. UNCHANGED <<allocator, buffer, vm, client>>
  BY DEF EnvironmentStep, ClientOpenHeap, ClientCloseHeap, CpuWrite, DeviceWrite,
         CacheEvict, Access
<1>2. RefcountCountsHolders' /\ MappedAreLive'
  BY <1>1 DEF RefInv, RefcountCountsHolders, MappedAreLive, Holders, Mapped, Live
<1>3. fdTable' \in [Fds -> FdKinds]
  BY DEF EnvironmentStep, ClientOpenHeap, ClientCloseHeap, CpuWrite, DeviceWrite,
         CacheEvict, Access, RefInv, TypeOK, Open, Close, FdKinds
<1>4. memory' \in [Buffers -> Memories]
  <2>1. CASE UNCHANGED memory
    BY <2>1 DEF RefInv, TypeOK
  <2>2. ASSUME NEW b \in Buffers, NEW v \in Values, CpuWrite(b, v) \/ DeviceWrite(b, v)
        PROVE  memory' \in [Buffers -> Memories]
    <3>1. memory[b] \in Memories
      BY DEF RefInv, TypeOK
    <3>2. \A m \in Memories : Access(b, m) => memory' \in [Buffers -> Memories]
      BY DEF RefInv, TypeOK, Access
    <3>3. /\ [memory[b] EXCEPT !.cache = v, !.dirty = TRUE] \in Memories
          /\ [memory[b] EXCEPT !.mem = v] \in Memories
          /\ [mem |-> v, cache |-> v, dirty |-> FALSE] \in Memories
      BY <3>1 DEF Memories
    <3>4. QED
      BY <2>2, <3>2, <3>3 DEF CpuWrite, DeviceWrite
  <2>3. ASSUME NEW b \in Buffers, CacheEvict(b)
        PROVE  memory' \in [Buffers -> Memories]
    BY <2>3, PhysIoctlResult DEF RefInv, TypeOK, CacheEvict, Access
  <2>4. QED
    BY <2>1, <2>2, <2>3 DEF EnvironmentStep, ClientOpenHeap, ClientCloseHeap
<1>5. QED
  BY <1>1, <1>2, <1>3, <1>4 DEF RefInv, TypeOK

LEMMA RefInvAllocate ==
  ASSUME RefInv, NEW a \in Allocators, NEW b \in Buffers, Allocate(b, a)
  PROVE  RefInv'
<1>1. CASE AllocateSucceeds(b, a)
  <2>1. PICK fd \in FreeFds, flags \in FlagChoices :
          /\ fdTable' = Open(fd, "dmabuf")
          /\ buffer' = [buffer EXCEPT ![b] =
               [NoBuffer EXCEPT !.allocator = a, !.dmabuf_fd = fd,
                                !.map_flags = flags]]
    BY <1>1 DEF AllocateSucceeds
  <2>2. /\ buffer' \in [Buffers -> BufferRecords]
        /\ buffer'[b].mapping_refcount = 0
        /\ buffer'[b].mapped_virtual_address = Null
    BY <2>1, EmptyRecords, ConstantsAssumption
    DEF RefInv, TypeOK, NoBuffer, BufferRecords, FreeFds
  <2>3. Holders(b) = {} /\ Cardinality(Holders(b)) = 0
    BY HoldersUpdate DEF Allocate, RefInv, RefcountCountsHolders, MappedAreLive
  <2>4. Holders(b)' = {}
    BY <2>3 DEF Allocate, Holders
  <2>5. RefcountCountsHolders' /\ MappedAreLive'
    <3>1. \A c \in Buffers \ {b} : buffer'[c] = buffer[c] /\ client'[c] = client[c]
      BY <2>1 DEF Allocate, RefInv, TypeOK
    <3>2. QED
      BY <2>2, <2>3, <2>4, <3>1, RefInvForOne DEF Mapped
  <2>6. memory' \in [Buffers -> Memories]
    BY <1>1 DEF AllocateSucceeds, RefInv, TypeOK, Memories
  <2>7. fdTable' \in [Fds -> FdKinds]
    BY <1>1, <2>1, EmptyRecords DEF AllocateSucceeds, RefInv, TypeOK, Open, FdKinds
  <2>8. QED
    BY <2>2, <2>5, <2>6, <2>7 DEF Allocate, RefInv, TypeOK
<1>2. CASE AllocateFails
  <2>1. UNCHANGED <<allocator, buffer, vm, memory, client>>
    BY <1>2 DEF Allocate, AllocateFails
  <2>2. fdTable' \in [Fds -> FdKinds]
    BY <1>2, EmptyRecords DEF AllocateFails, RefInv, TypeOK, Open, FdKinds
  <2>3. RefcountCountsHolders' /\ MappedAreLive'
    BY <2>1 DEF RefInv, RefcountCountsHolders, MappedAreLive, Holders, Mapped, Live
  <2>4. QED
    BY <2>1, <2>2, <2>3 DEF RefInv, TypeOK
<1>3. QED
  BY <1>1, <1>2 DEF Allocate

\* Steps that replace one buffer's context by s and its client record by r.
LEMMA RefInvStore ==
  ASSUME RefInv, NEW b \in Buffers, NEW s \in Contexts, NEW r \in ClientRecords,
         Store(b, s), client' = [client EXCEPT ![b] = r],
         s.buf.mapping_refcount = Cardinality({h \in Handles : r.held[h] # Null}),
         s.buf.mapped_virtual_address # Null <=>
           {h \in Handles : r.held[h] # Null} # {},
         s.buf.mapped_virtual_address # Null => s.buf.allocator # Null
  PROVE  /\ RefcountCountsHolders' /\ MappedAreLive'
         /\ buffer' \in [Buffers -> BufferRecords]
         /\ memory' \in [Buffers -> Memories]
         /\ vm' \in AddressSpaces
         /\ client' \in [Buffers -> ClientRecords]
<1>1. /\ client' \in [Buffers -> ClientRecords]
      /\ client'[b] = r
      /\ \A c \in Buffers \ {b} : client'[c] = client[c]
  BY DEF RefInv, TypeOK
<1>2. /\ buffer' \in [Buffers -> BufferRecords]
      /\ memory' \in [Buffers -> Memories]
      /\ vm' \in AddressSpaces
      /\ buffer'[b] = s.buf
      /\ \A c \in Buffers \ {b} : buffer'[c] = buffer[c]
  BY StoreType DEF RefInv
<1>3. Holders(b)' = {h \in Handles : r.held[h] # Null}
  BY <1>1 DEF Holders
<1>4. RefcountCountsHolders' /\ MappedAreLive'
  BY <1>1, <1>2, <1>3, RefInvForOne DEF Mapped, Live
<1>5. QED
  BY <1>1, <1>2, <1>4

LEMMA BufferFacts ==
  ASSUME RefInv, NEW b \in Buffers
  PROVE  /\ Context(b) \in Contexts
         /\ client[b] \in ClientRecords
         /\ Mapped(b) <=> Holders(b) # {}
         /\ Mapped(b) <=> buffer[b].mapping_refcount # 0
         /\ buffer[b].mapping_refcount = Cardinality(Holders(b))
         /\ b \in Usable => /\ OwnerIsCached(b) \in BOOLEAN
                            /\ buffer[b].allocator # Null
<1>1. Context(b) \in Contexts /\ client[b] \in ClientRecords
  BY ContextType DEF RefInv, TypeOK
<1>2. /\ Mapped(b) <=> Holders(b) # {}
      /\ buffer[b].mapping_refcount = Cardinality(Holders(b))
  BY DEF RefInv, RefcountCountsHolders
<1>3. Cardinality(Holders(b)) = 0 <=> Holders(b) = {}
  BY HoldersUpdate DEF RefInv
<1>4. b \in Usable => /\ OwnerIsCached(b) \in BOOLEAN
                     /\ buffer[b].allocator # Null
  BY DEF OwnerIsCached, Usable, Alive, Live, RefInv, TypeOK, AllocatorRecords
<1>5. QED
  BY <1>1, <1>2, <1>3, <1>4

LEMMA RefInvDeallocate ==
  ASSUME RefInv, NEW b \in Buffers, Deallocate(b)
  PROVE  RefInv'
<1> DEFINE stopped == StopSync(Context(b))
           s == IF Mapped(b)
                THEN UnmapCall([stopped EXCEPT !.buf.mapping_refcount = 1],
                               OwnerIsCached(b))
                ELSE Context(b)
<1>1. Context(b) \in Contexts /\ stopped \in Contexts
  BY ContextType, SyncResult DEF RefInv
<1>2. s \in Contexts
  <2>1. CASE Mapped(b)
    <3> DEFINE last == [stopped EXCEPT !.buf.mapping_refcount = 1]
    <3>1. stopped.buf.mapped_virtual_address # Null
      BY <1>1, <2>1, SyncResult DEF SameMapping, Context, Mapped
    <3>2. s = UnmapCall(last, OwnerIsCached(b))
      BY <2>1
    <3> HIDE DEF s, stopped
    <3>3. /\ last \in Contexts
          /\ last.buf.mapping_refcount = 1
          /\ last.buf.mapped_virtual_address = stopped.buf.mapped_virtual_address
      BY <1>1 DEF Contexts, BufferRecords
    <3> HIDE DEF last
    <3>4. OwnerIsCached(b) \in BOOLEAN
      BY BufferFacts DEF Deallocate
    <3>5. \A c \in BOOLEAN : UnmapCall(last, c) \in Contexts
      <4>1. last.buf.mapping_refcount # 0
        BY <3>3
      <4>2. QED
        BY <3>1, <3>3, <4>1, UnmapCallResult
    <3>6. QED
      BY <3>2, <3>4, <3>5
  <2>2. CASE ~Mapped(b)
    BY <1>1, <2>2
  <2>3. QED
    BY <2>1, <2>2
<1>3. /\ Store(b, [s EXCEPT !.buf = NoBuffer])
      /\ fdTable' = Close(buffer[b].dmabuf_fd)
      /\ client' = [client EXCEPT ![b] = NoClient]
      /\ UNCHANGED allocator
  BY DEF Deallocate
<1> HIDE DEF s
<1>4. /\ [s EXCEPT !.buf = NoBuffer] \in Contexts
      /\ [s EXCEPT !.buf = NoBuffer].buf = NoBuffer
  BY <1>2, EmptyRecords DEF Contexts
<1>5. /\ RefcountCountsHolders' /\ MappedAreLive'
      /\ buffer' \in [Buffers -> BufferRecords]
      /\ memory' \in [Buffers -> Memories]
      /\ vm' \in AddressSpaces
      /\ client' \in [Buffers -> ClientRecords]
  <2>1. /\ NoBuffer.mapping_refcount = 0
        /\ NoBuffer.mapped_virtual_address = Null
    BY DEF NoBuffer
  <2>2. QED
    BY <1>3, <1>4, <2>1, EmptyRecords, FS_EmptySet, RefInvStore
<1>6. fdTable' \in [Fds -> FdKinds]
  BY <1>3 DEF RefInv, TypeOK, Close, FdKinds
<1>7. QED
  BY <1>3, <1>5, <1>6 DEF RefInv, TypeOK

LEMMA RefInvMapFirst ==
  ASSUME RefInv, NEW b \in Buffers, NEW h \in Handles, NEW f \in FlagChoices,
         Map(b, h, f), MapFirst(b, h, f)
  PROVE  RefInv'
<1>1. PICK p \in Addrs \cup {Null} :
        /\ Store(b, FirstMap(Context(b), b, MappingFlags(f), p, OwnerIsCached(b)))
        /\ client' = IF p = Null THEN client
                     ELSE [client EXCEPT ![b] =
                            [held    |-> [@.held EXCEPT ![h] = p],
                             access  |-> RequestedRights(f),
                             manual  |-> "MANUAL_SYNC" \in f,
                             session |-> "MANUAL_SYNC" \notin f]]
  BY DEF MapFirst, FreeAddrs
<1>2. /\ Context(b) \in Contexts
      /\ MappingFlags(f) \in SUBSET Flags
  BY BufferFacts, FlagsType
<1>cached. PICK c \in BOOLEAN : c = OwnerIsCached(b)
  BY BufferFacts DEF Map
<1> DEFINE s == FirstMap(Context(b), b, MappingFlags(f), p, c)
<1>3. /\ s \in Contexts
      /\ s.buf.allocator = buffer[b].allocator
      /\ p = Null => /\ s.buf.mapping_refcount = buffer[b].mapping_refcount
                     /\ s.buf.mapped_virtual_address = buffer[b].mapped_virtual_address
      /\ p # Null => /\ s.buf.mapping_refcount = 1
                     /\ s.buf.mapped_virtual_address = p
  <2>1. /\ Context(b).buf = buffer[b]
        /\ Context(b).mem = memory[b]
        /\ Context(b).vm = vm
    BY DEF Context
  <2> DEFINE k == Context(b)
             g == MappingFlags(f)
  <2>2. s = FirstMap(k, b, g, p, c)
    OBVIOUS
  <2>3. k \in Contexts /\ g \in SUBSET Flags /\ k.buf = buffer[b]
    BY <1>2, <2>1
  <2> HIDE DEF s, k, g
  <2>4. s \in Contexts /\ MapEffect(s, k, b, g, p)
    BY <2>2, <2>3, FirstMapResult
  <2>5. QED
    BY <2>3, <2>4 DEF MapEffect
<1> HIDE DEF s
<1>4. /\ Holders(b) = {}
      /\ ~Mapped(b)
      /\ buffer[b].mapping_refcount = 0
      /\ buffer[b].allocator # Null
      /\ client[b] \in ClientRecords
  BY BufferFacts DEF MapFirst, Map
<1> DEFINE r == IF p = Null THEN client[b]
                ELSE [held    |-> [client[b].held EXCEPT ![h] = p],
                      access  |-> RequestedRights(f),
                      manual  |-> "MANUAL_SYNC" \in f,
                      session |-> "MANUAL_SYNC" \notin f]
<1>5. r \in ClientRecords /\ client' = [client EXCEPT ![b] = r]
  <2>1. CASE p = Null
    BY <1>1, <1>4, <2>1 DEF RefInv, TypeOK
  <2>2. CASE p # Null
    <3>1. [client[b].held EXCEPT ![h] = p] \in [Handles -> Addrs \cup {Null}]
      BY <1>4, <2>2 DEF ClientRecords
    <3>2. r \in ClientRecords
      BY <2>2, <3>1, FlagsType DEF ClientRecords
    <3>3. QED
      BY <1>1, <2>2, <3>2 DEF RefInv, TypeOK
  <2>3. QED
    BY <2>1, <2>2
<1>6. {x \in Handles : r.held[x] # Null} = IF p = Null THEN {} ELSE {h}
  BY <1>4 DEF Holders, ClientRecords
<1> HIDE DEF r
<1>7. /\ s.buf.mapping_refcount = Cardinality({x \in Handles : r.held[x] # Null})
      /\ s.buf.mapped_virtual_address # Null <=>
           {x \in Handles : r.held[x] # Null} # {}
  <2>1. Cardinality({}) = 0 /\ Cardinality({h}) = 1
    BY FS_EmptySet, FS_Singleton
  <2>2. QED
    BY <1>3, <1>4, <1>6, <2>1 DEF Mapped
<1>8. Store(b, s)
  BY <1>1, <1>cached DEF s
<1>9. /\ RefcountCountsHolders' /\ MappedAreLive'
      /\ buffer' \in [Buffers -> BufferRecords]
      /\ memory' \in [Buffers -> Memories]
      /\ vm' \in AddressSpaces
      /\ client' \in [Buffers -> ClientRecords]
  BY <1>3, <1>4, <1>5, <1>7, <1>8, RefInvStore
<1>10. QED
  BY <1>1, <1>9, EmptyRecords DEF Map, RefInv, TypeOK

LEMMA RefInvMapAgain ==
  ASSUME RefInv, NEW b \in Buffers, NEW h \in Handles, NEW f \in FlagChoices,
         Map(b, h, f), MapAgain(b, h, f)
  PROVE  RefInv'
<1>1. /\ buffer' = [buffer EXCEPT ![b].mapping_refcount = @ + 1]
      /\ client' = [client EXCEPT ![b].held[h] = buffer[b].mapped_virtual_address]
      /\ UNCHANGED <<allocator, fdTable, vm, memory>>
      /\ h \notin Holders(b)
      /\ Mapped(b)
  BY DEF Map, MapAgain
<1>2. /\ buffer[b] \in BufferRecords
      /\ client[b] \in ClientRecords
      /\ buffer[b].mapped_virtual_address # Null
  BY <1>1 DEF RefInv, TypeOK, Mapped
<1>3. /\ buffer' \in [Buffers -> BufferRecords]
      /\ buffer'[b].mapping_refcount = buffer[b].mapping_refcount + 1
      /\ buffer'[b].mapped_virtual_address = buffer[b].mapped_virtual_address
      /\ buffer'[b].allocator = buffer[b].allocator
      /\ \A c \in Buffers \ {b} : buffer'[c] = buffer[c]
  <2> DEFINE r == [buffer[b] EXCEPT !.mapping_refcount = @ + 1]
  <2>1. /\ r \in BufferRecords
        /\ r.mapping_refcount = buffer[b].mapping_refcount + 1
        /\ r.mapped_virtual_address = buffer[b].mapped_virtual_address
        /\ r.allocator = buffer[b].allocator
    BY <1>2 DEF BufferRecords
  <2>2. buffer \in [Buffers -> BufferRecords] /\ buffer' = [buffer EXCEPT ![b] = r]
    BY <1>1 DEF RefInv, TypeOK
  <2> HIDE DEF r
  <2>3. QED
    BY <2>1, <2>2
<1>4. /\ client' \in [Buffers -> ClientRecords]
      /\ client'[b].held = [client[b].held EXCEPT ![h] = buffer[b].mapped_virtual_address]
      /\ \A c \in Buffers \ {b} : client'[c] = client[c]
  BY <1>1, <1>2 DEF RefInv, TypeOK, ClientRecords, BufferRecords
<1>5. Holders(b)' = Holders(b) \cup {h}
  BY <1>2, <1>4 DEF Holders, ClientRecords
<1>6. Cardinality(Holders(b)') = buffer[b].mapping_refcount + 1
  BY <1>1, <1>5, HoldersUpdate, BufferFacts DEF RefInv
<1>7. RefcountCountsHolders' /\ MappedAreLive'
  <2>1. /\ Mapped(b)' <=> Holders(b)' # {}
        /\ Mapped(b)' => (b \in Live)'
    BY <1>1, <1>2, <1>3, <1>5 DEF Mapped, Live, RefInv, MappedAreLive
  <2>2. QED
    BY <1>3, <1>4, <1>6, <2>1, RefInvForOne
<1>8. QED
  BY <1>1, <1>3, <1>4, <1>7, EmptyRecords DEF RefInv, TypeOK

LEMMA RefInvUnmap ==
  ASSUME RefInv, NEW b \in Buffers, NEW h \in Handles, Unmap(b, h)
  PROVE  RefInv'
<1>1. PICK c \in BOOLEAN : c = OwnerIsCached(b)
  BY BufferFacts DEF Unmap
<1> DEFINE k == Context(b)
           s == UnmapCall(k, c)
           r == IF Holders(b) = {h} THEN NoClient
                ELSE [client[b] EXCEPT !.held[h] = Null]
<1>2. /\ h \in Holders(b)
      /\ b \in Usable
      /\ Store(b, s)
      /\ client' = [client EXCEPT ![b] = r]
      /\ UNCHANGED <<allocator, fdTable>>
  BY <1>1 DEF Unmap
<1>3. /\ k \in Contexts
      /\ k.buf = buffer[b]
      /\ k.buf.mapped_virtual_address # Null
      /\ k.buf.mapping_refcount # 0
  BY <1>2, BufferFacts DEF Context, Mapped
<1>4. s \in Contexts /\ UnmapEffect(s, k)
  <2>1. s = UnmapCall(k, c)
    OBVIOUS
  <2> HIDE DEF s, k
  <2>2. QED
    BY <1>3, <2>1, UnmapCallResult
<1> HIDE DEF s, k
<1>5. r \in ClientRecords
  BY EmptyRecords, BufferFacts DEF ClientRecords
<1>6. {x \in Handles : r.held[x] # Null} = Holders(b) \ {h}
  <2>1. CASE Holders(b) = {h}
    BY <2>1, EmptyRecords
  <2>2. CASE Holders(b) # {h}
    BY <2>2, BufferFacts DEF Holders, ClientRecords
  <2>3. QED
    BY <2>1, <2>2
<1> HIDE DEF r
<1>7. /\ Cardinality(Holders(b) \ {h}) = buffer[b].mapping_refcount - 1
      /\ Holders(b) \ {h} = {} <=> buffer[b].mapping_refcount = 1
  <2>1. Cardinality(Holders(b) \ {h}) = buffer[b].mapping_refcount - 1
    BY <1>2, HoldersUpdate, BufferFacts DEF RefInv
  <2>2. IsFiniteSet(Holders(b) \ {h})
    BY HoldersUpdate, FS_Subset DEF RefInv
  <2>3. Cardinality(Holders(b) \ {h}) = 0 <=> Holders(b) \ {h} = {}
    BY <2>2, FS_EmptySet
  <2>4. buffer[b].mapping_refcount \in Nat
    BY HoldersUpdate, BufferFacts DEF RefInv
  <2>5. QED
    BY <2>1, <2>3, <2>4
<1>8. /\ s.buf.mapping_refcount = buffer[b].mapping_refcount - 1
      /\ s.buf.mapped_virtual_address # Null <=> buffer[b].mapping_refcount # 1
      /\ s.buf.allocator # Null
  BY <1>2, <1>3, <1>4, BufferFacts DEF UnmapEffect
<1>9. /\ RefcountCountsHolders' /\ MappedAreLive'
      /\ buffer' \in [Buffers -> BufferRecords]
      /\ memory' \in [Buffers -> Memories]
      /\ vm' \in AddressSpaces
      /\ client' \in [Buffers -> ClientRecords]
  BY <1>2, <1>4, <1>5, <1>6, <1>7, <1>8, RefInvStore
<1>10. QED
  BY <1>2, <1>9 DEF RefInv, TypeOK

\* unmap() of an unmapped buffer and the two session calls change at most
\* the memory and sync_started.
LEMMA IdleOrSyncStep ==
  ASSUME RefInv, NEW b \in Buffers,
         UnmapIdle(b) \/ StartSyncSession(b) \/ StopSyncSession(b)
  PROVE  /\ UNCHANGED <<allocator, fdTable>>
         /\ \E s \in Contexts : /\ Store(b, s)
                               /\ SameMapping(s, Context(b))
         /\ \E ses \in BOOLEAN :
              client' = [client EXCEPT ![b] = [@ EXCEPT !.session = ses]]
<1>1. Context(b) \in Contexts /\ SameMapping(Context(b), Context(b))
  BY BufferFacts DEF SameMapping
<1>2. client[b] \in ClientRecords
  BY BufferFacts
<1>3. CASE UnmapIdle(b)
  <2>1. UnmapCall(Context(b), OwnerIsCached(b)) = Context(b)
    BY <1>3, BufferFacts DEF UnmapIdle, UnmapCall, Context, Mapped
  <2>2. client' = [client EXCEPT ![b] = [@ EXCEPT !.session = client[b].session]]
    BY <1>2, <1>3 DEF UnmapIdle, RefInv, TypeOK, ClientRecords
  <2>3. client[b].session \in BOOLEAN
    BY <1>2 DEF ClientRecords
  <2>4. QED
    BY <1>1, <1>3, <2>1, <2>2, <2>3 DEF UnmapIdle
<1>4. CASE StartSyncSession(b)
  BY <1>1, <1>4, SyncResult DEF StartSyncSession
<1>5. CASE StopSyncSession(b)
  <2>1. (client[b].session /\ ~client[b].manual) \in BOOLEAN
    OBVIOUS
  <2>2. client' = [client EXCEPT ![b] =
          [@ EXCEPT !.session = client[b].session /\ ~client[b].manual]]
    BY <1>5 DEF StopSyncSession, RefInv, TypeOK
  <2>3. QED
    BY <1>1, <1>5, <2>1, <2>2, SyncResult DEF StopSyncSession
<1>6. QED
  BY <1>3, <1>4, <1>5

LEMMA RefInvIdleOrSync ==
  ASSUME RefInv, NEW b \in Buffers,
         UnmapIdle(b) \/ StartSyncSession(b) \/ StopSyncSession(b)
  PROVE  RefInv'
<1>1. /\ UNCHANGED <<allocator, fdTable>>
      /\ \E s \in Contexts : Store(b, s) /\ SameMapping(s, Context(b))
      /\ \E ses \in BOOLEAN :
           client' = [client EXCEPT ![b] = [@ EXCEPT !.session = ses]]
  BY IdleOrSyncStep
<1>2. PICK s \in Contexts : Store(b, s) /\ SameMapping(s, Context(b))
  BY <1>1
<1>3. PICK ses \in BOOLEAN :
        client' = [client EXCEPT ![b] = [@ EXCEPT !.session = ses]]
  BY <1>1
<1> DEFINE r == [client[b] EXCEPT !.session = ses]
<1>4. /\ r \in ClientRecords
      /\ {x \in Handles : r.held[x] # Null} = Holders(b)
      /\ client' = [client EXCEPT ![b] = r]
  BY <1>3, BufferFacts DEF ClientRecords, Holders
<1> HIDE DEF r
<1>5. /\ s.buf.mapping_refcount = Cardinality(Holders(b))
      /\ s.buf.mapped_virtual_address # Null <=> Holders(b) # {}
      /\ s.buf.mapped_virtual_address # Null => s.buf.allocator # Null
  BY <1>2, BufferFacts
  DEF SameMapping, Context, Mapped, RefInv, MappedAreLive, Live
<1>6. /\ RefcountCountsHolders' /\ MappedAreLive'
      /\ buffer' \in [Buffers -> BufferRecords]
      /\ memory' \in [Buffers -> Memories]
      /\ vm' \in AddressSpaces
      /\ client' \in [Buffers -> ClientRecords]
  BY <1>2, <1>4, <1>5, RefInvStore
<1>7. QED
  BY <1>1, <1>6 DEF RefInv, TypeOK

LEMMA RefInvStep == RefInv /\ [Next]_vars => RefInv'
<1> SUFFICES ASSUME RefInv, [Next]_vars PROVE RefInv'
  OBVIOUS
<1>1. CASE UNCHANGED vars
  BY <1>1 DEF vars, RefInv, TypeOK, RefcountCountsHolders, MappedAreLive,
              Holders, Mapped, Live
<1>2. ASSUME NEW a \in Allocators, AllocatorStep(a) PROVE RefInv'
  BY <1>2, RefInvAllocators
<1>3. CASE EnvironmentStep
  BY <1>3, RefInvEnvironment
<1>4. ASSUME NEW b \in Buffers, BufferStep(b) PROVE RefInv'
  <2>1. ASSUME NEW a \in Allocators, Allocate(b, a) PROVE RefInv'
    BY <2>1, RefInvAllocate
  <2>2. CASE Deallocate(b)
    BY <2>2, RefInvDeallocate
  <2>3. ASSUME NEW h \in Handles, NEW f \in FlagChoices, Map(b, h, f) PROVE RefInv'
    BY <2>3, RefInvMapFirst, RefInvMapAgain DEF Map
  <2>4. ASSUME NEW h \in Handles, Unmap(b, h) PROVE RefInv'
    BY <2>4, RefInvUnmap
  <2>5. CASE UnmapIdle(b) \/ StartSyncSession(b) \/ StopSyncSession(b)
    BY <2>5, RefInvIdleOrSync
  <2>6. QED
    BY <1>4, <2>1, <2>2, <2>3, <2>4, <2>5 DEF BufferStep
<1>5. QED
  BY <1>1, <1>2, <1>3, <1>4 DEF Next

\* The C structures, the kernel's tables and the client's view always have
\* their types, whatever the number of buffers, handles and descriptors.
THEOREM TypeCorrect == Spec => []TypeOK
<1>1. Spec => []RefInv
  BY RefInvInit, RefInvStep, PTL DEF Spec
<1>2. RefInv => TypeOK
  BY DEF RefInv
<1>3. QED
  BY <1>1, <1>2, PTL

\* mapping_refcount equals the number of outstanding map calls, and a buffer
\* is mapped as long as there is one: through failed maps, redundant maps,
\* idle unmaps and deallocations of mapped buffers.
THEOREM RefcountCorrect == Spec => []RefcountCountsHolders
<1>1. Spec => []RefInv
  BY RefInvInit, RefInvStep, PTL DEF Spec
<1>2. RefInv => RefcountCountsHolders
  BY DEF RefInv
<1>3. QED
  BY <1>1, <1>2, PTL

=============================================================================
