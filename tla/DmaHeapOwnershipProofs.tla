----------------------- MODULE DmaHeapOwnershipProofs -----------------------
(***************************************************************************)
(* Who owns the descriptors and the mappings of the dma-heap allocator:    *)
(* DescriptorsOwned, NoMappingLeaked, HoldersCanAccess and AssertionsHold  *)
(* for all values of the constants.                                        *)
(***************************************************************************)
EXTENDS DmaHeapAllocatorProofs

-----------------------------------------------------------------------------
(***************************************************************************)
(* What each call on a buffer does to the state.                           *)
(***************************************************************************)

\* The buffers other than b stay as they are.
OthersUnchanged(b) ==
  \A c \in Buffers \ {b} :
    buffer'[c] = buffer[c] /\ memory'[c] = memory[c] /\ client'[c] = client[c]

\* The record of the client whose first map of a buffer returned p.
FirstHolder(b, h, f, p) ==
  [held    |-> [client[b].held EXCEPT ![h] = p],
   access  |-> RequestedRights(f),
   manual  |-> "MANUAL_SYNC" \in f,
   session |-> "MANUAL_SYNC" \notin f]

LEMMA StoreEffect ==
  ASSUME RefInv, NEW b \in Buffers, NEW s \in Contexts, Store(b, s)
  PROVE  /\ buffer'[b] = s.buf
         /\ memory'[b] = s.mem
         /\ vm' = s.vm
         /\ \A c \in Buffers \ {b} : buffer'[c] = buffer[c] /\ memory'[c] = memory[c]
BY StoreType DEF RefInv

LEMMA MapFirstEffect ==
  ASSUME RefInv, NEW b \in Buffers, NEW h \in Handles, NEW f \in FlagChoices,
         Map(b, h, f), MapFirst(b, h, f)
  PROVE  \E p \in Addrs \cup {Null}, s \in Contexts :
           /\ p # Null => p \in FreeAddrs
           /\ p = Null => "mmap" \in Faults
           /\ Store(b, s)
           /\ MapEffect(s, Context(b), b, MappingFlags(f), p)
           /\ MapSync(s, Context(b), MappingFlags(f), OwnerIsCached(b))
           /\ client' = IF p = Null THEN client
                        ELSE [client EXCEPT ![b] = FirstHolder(b, h, f, p)]
<1>1. PICK p \in FreeAddrs \cup (IF "mmap" \in Faults THEN {Null} ELSE {}) :
        /\ Store(b, FirstMap(Context(b), b, MappingFlags(f), p, OwnerIsCached(b)))
        /\ client' = IF p = Null THEN client
                     ELSE [client EXCEPT ![b] =
                            [held    |-> [@.held EXCEPT ![h] = p],
                             access  |-> RequestedRights(f),
                             manual  |-> "MANUAL_SYNC" \in f,
                             session |-> "MANUAL_SYNC" \notin f]]
  BY DEF MapFirst
<1>2. /\ p \in Addrs \cup {Null}
      /\ p # Null => p \in FreeAddrs
      /\ p = Null => "mmap" \in Faults
  BY ConstantsAssumption DEF FreeAddrs
<1>3. client' = IF p = Null THEN client
                ELSE [client EXCEPT ![b] = FirstHolder(b, h, f, p)]
  BY <1>1 DEF FirstHolder, RefInv, TypeOK
<1> DEFINE k == Context(b)
           g == MappingFlags(f)
           c == OwnerIsCached(b)
           s == FirstMap(k, b, g, p, c)
<1>4. k \in Contexts /\ g \in SUBSET Flags /\ c \in BOOLEAN
  BY BufferFacts, FlagsType DEF Map
<1>5. s = FirstMap(k, b, g, p, c) /\ Store(b, s)
  BY <1>1
<1> HIDE DEF s, k, g, c
<1>6. s \in Contexts /\ MapEffect(s, k, b, g, p) /\ MapSync(s, k, g, c)
  BY <1>2, <1>4, <1>5, FirstMapResult
<1>7. QED
  BY <1>2, <1>3, <1>5, <1>6 DEF k, g, c

LEMMA UnmapStepEffect ==
  ASSUME RefInv, NEW b \in Buffers, NEW h \in Handles, Unmap(b, h)
  PROVE  \E s \in Contexts :
           /\ Store(b, s)
           /\ UnmapEffect(s, Context(b))
           /\ UnmapSync(s, Context(b), OwnerIsCached(b))
<1> DEFINE k == Context(b)
           c == OwnerIsCached(b)
           s == UnmapCall(k, c)
<1>1. /\ k \in Contexts /\ c \in BOOLEAN
      /\ k.buf.mapped_virtual_address # Null
      /\ k.buf.mapping_refcount # 0
  BY BufferFacts DEF Unmap, Context, Mapped
<1>2. s = UnmapCall(k, c) /\ Store(b, s)
  BY DEF Unmap
<1> HIDE DEF s, k, c
<1>3. s \in Contexts /\ UnmapEffect(s, k) /\ UnmapSync(s, k, c)
  BY <1>1, <1>2, UnmapCallResult
<1>4. QED
  BY <1>2, <1>3 DEF k, c

\* Whether ending the mapping described by k writes the cache back.
EndsSession(k, cached) ==
  /\ "WRITE" \in k.buf.map_flags
  /\ IF IsManual(k) THEN k.buf.sync_started ELSE cached

LEMMA StopSyncResult ==
  ASSUME NEW s \in Contexts
  PROVE  StopSync(s).mem =
           IF IsManual(s) /\ s.buf.sync_started /\ "WRITE" \in s.buf.map_flags
           THEN PhysIoctl(s.mem) ELSE s.mem
BY StopSyncImplResult DEF StopSync

LEMMA SetRefcount ==
  ASSUME NEW s \in Contexts
  PROVE  LET t == [s EXCEPT !.buf.mapping_refcount = 1]
         IN  /\ t \in Contexts
             /\ t.vm = s.vm
             /\ t.mem = s.mem
             /\ t.buf.mapping_refcount = 1
             /\ t.buf.map_flags = s.buf.map_flags
             /\ t.buf.mapped_virtual_address = s.buf.mapped_virtual_address
BY DEF Contexts, BufferRecords

\* What is left of b's context k.
DeallocateEffect(r, k, cached) ==
  /\ r.buf = NoBuffer
  /\ k.buf.mapped_virtual_address = Null => r.vm = k.vm /\ r.mem = k.mem
  /\ k.buf.mapped_virtual_address # Null =>
       /\ r.vm = [k.vm EXCEPT ![k.buf.mapped_virtual_address] = Unmapped]
       /\ r.mem = IF EndsSession(k, cached) THEN PhysIoctl(k.mem) ELSE k.mem

LEMMA DeallocateStepEffect ==
  ASSUME RefInv, NEW b \in Buffers, Deallocate(b)
  PROVE  \E s \in Contexts :
           Store(b, s) /\ DeallocateEffect(s, Context(b), OwnerIsCached(b))
<1> DEFINE k == Context(b)
           c == OwnerIsCached(b)
           last == [StopSync(k) EXCEPT !.buf.mapping_refcount = 1]
           t == IF k.buf.mapped_virtual_address # Null THEN UnmapCall(last, c) ELSE k
           s == [t EXCEPT !.buf = NoBuffer]
<1>1. k \in Contexts /\ c \in BOOLEAN
  BY BufferFacts DEF Deallocate
<1>2. Store(b, s)
  BY DEF Deallocate, Mapped, Context
<1> HIDE DEF k, c
<1>3. CASE k.buf.mapped_virtual_address = Null
  <2>1. t = k
    BY <1>3
  <2>2. s \in Contexts /\ s.buf = NoBuffer /\ s.vm = k.vm /\ s.mem = k.mem
    BY <1>1, <2>1, EmptyRecords DEF Contexts
  <2> HIDE DEF s
  <2>3. s \in Contexts /\ DeallocateEffect(s, k, c)
    BY <1>3, <2>2 DEF DeallocateEffect
  <2>4. QED
    BY <1>2, <2>3 DEF k, c
<1>4. CASE k.buf.mapped_virtual_address # Null
  <2>1. /\ StopSync(k) \in Contexts
        /\ SameMapping(StopSync(k), k)
        /\ StopSync(k).mem =
             IF IsManual(k) /\ k.buf.sync_started /\ "WRITE" \in k.buf.map_flags
             THEN PhysIoctl(k.mem) ELSE k.mem
    BY <1>1, SyncResult, StopSyncResult
  <2>2. /\ last \in Contexts
        /\ last.vm = k.vm
        /\ last.mem = StopSync(k).mem
        /\ last.buf.mapping_refcount = 1
        /\ last.buf.map_flags = k.buf.map_flags
        /\ last.buf.mapped_virtual_address = k.buf.mapped_virtual_address
    BY <2>1, SetRefcount DEF SameMapping
  <2>3. t = UnmapCall(last, c)
    BY <1>4
  <2> HIDE DEF last, t
  <2>4. t \in Contexts /\ UnmapEffect(t, last) /\ UnmapSync(t, last, c)
    <3>1. last.buf.mapping_refcount # 0
      BY <2>2
    <3>2. QED
      BY <1>1, <1>4, <2>2, <2>3, <3>1, UnmapCallResult
  <2>5. /\ t.vm = [k.vm EXCEPT ![k.buf.mapped_virtual_address] = Unmapped]
        /\ t.mem = IF c /\ ~IsManual(k) /\ "WRITE" \in k.buf.map_flags
                   THEN PhysIoctl(StopSync(k).mem) ELSE StopSync(k).mem
    BY <2>2, <2>4 DEF UnmapEffect, UnmapSync, IsManual
  <2>6. t.mem = IF EndsSession(k, c) THEN PhysIoctl(k.mem) ELSE k.mem
    BY <2>1, <2>5 DEF EndsSession
  <2>7. s \in Contexts /\ s.buf = NoBuffer /\ s.vm = t.vm /\ s.mem = t.mem
    BY <2>4, EmptyRecords DEF Contexts
  <2> HIDE DEF s
  <2>8. s \in Contexts /\ DeallocateEffect(s, k, c)
    BY <1>4, <2>5, <2>6, <2>7 DEF DeallocateEffect
  <2>9. QED
    BY <1>2, <2>8 DEF k, c
<1>5. QED
  BY <1>3, <1>4

\* The calls that neither make nor release a buffer.
MappingStep(b) ==
  \/ \E h \in Handles, f \in FlagChoices : Map(b, h, f)
  \/ \E h \in Handles : Unmap(b, h)
  \/ UnmapIdle(b) \/ StartSyncSession(b) \/ StopSyncSession(b)

\* They leave allocators, descriptors and their owners alone.
OwnersUnchanged ==
  /\ UNCHANGED <<allocator, fdTable>>
  /\ \A c \in Buffers : /\ buffer'[c].allocator = buffer[c].allocator
                        /\ buffer'[c].dmabuf_fd = buffer[c].dmabuf_fd

LEMMA MappingStepOwners ==
  ASSUME RefInv, NEW b \in Buffers, MappingStep(b)
  PROVE  OwnersUnchanged
<1>1. ASSUME NEW s \in Contexts, Store(b, s),
             s.buf.allocator = buffer[b].allocator,
             s.buf.dmabuf_fd = buffer[b].dmabuf_fd,
             UNCHANGED <<allocator, fdTable>>
      PROVE  OwnersUnchanged
  BY <1>1, StoreEffect DEF OwnersUnchanged
<1>2. Context(b).buf = buffer[b]
  BY DEF Context
<1>3. ASSUME NEW h \in Handles, NEW f \in FlagChoices, Map(b, h, f)
      PROVE  OwnersUnchanged
  <2>1. UNCHANGED <<allocator, fdTable>>
    BY <1>3 DEF Map
  <2>2. CASE MapFirst(b, h, f)
    BY <1>1, <1>2, <1>3, <2>1, <2>2, MapFirstEffect DEF MapEffect
  <2>3. CASE MapAgain(b, h, f)
    BY <2>1, <2>3 DEF MapAgain, OwnersUnchanged, RefInv, TypeOK, BufferRecords
  <2>4. QED
    BY <1>3, <2>2, <2>3 DEF Map
<1>4. ASSUME NEW h \in Handles, Unmap(b, h)
      PROVE  OwnersUnchanged
  <2>1. UNCHANGED <<allocator, fdTable>>
    BY <1>4 DEF Unmap
  <2>2. QED
    BY <1>1, <1>2, <1>4, <2>1, UnmapStepEffect DEF UnmapEffect
<1>5. CASE UnmapIdle(b) \/ StartSyncSession(b) \/ StopSyncSession(b)
  BY <1>1, <1>2, <1>5, IdleOrSyncStep DEF SameMapping
<1>6. QED
  BY <1>3, <1>4, <1>5 DEF MappingStep

-----------------------------------------------------------------------------
(***************************************************************************)
(* Descriptors. Each kind of owner holds descriptors of its own kind, and  *)
(* those that the library opened belong to one owner only. A descriptor 0  *)
(* would never be closed by destroy(): nothing leaks where there is none.  *)
(***************************************************************************)
ClientHeaps == {"cached_heap", "uncached_heap"}

BuffersHoldDescriptors ==
  /\ \A b \in Live : /\ buffer[b].dmabuf_fd \in Fds
                     /\ fdTable[buffer[b].dmabuf_fd] = "dmabuf"
  /\ \A b, c \in Live : buffer[b].dmabuf_fd = buffer[c].dmabuf_fd => b = c

AllocatorsHoldDescriptors ==
  /\ \A a \in Alive :
       /\ allocator[a].dma_heap_fd \in Fds
       /\ allocator[a].internal => fdTable[allocator[a].dma_heap_fd] = "node"
       /\ ~allocator[a].internal => fdTable[allocator[a].dma_heap_fd] \in ClientHeaps
  /\ \A a, c \in Alive :
       allocator[a].internal /\ allocator[a].dma_heap_fd = allocator[c].dma_heap_fd
         => a = c

NoDescriptorLeaked ==
  \A fd \in Fds :
    /\ fdTable[fd] = "dmabuf" => \E b \in Live : buffer[b].dmabuf_fd = fd
    /\ fdTable[fd] = "node" => \E a \in Alive : allocator[a].dma_heap_fd = fd

\* is_cached still tells the truth about the heap.
CachednessKnown ==
  \A a \in Alive : allocator[a].is_cached <=> HeapIsCached(allocator[a].dma_heap_fd)

DescriptorInv ==
  /\ BuffersHoldDescriptors
  /\ AllocatorsHoldDescriptors
  /\ CachednessKnown
  /\ 0 \notin Fds => NoDescriptorLeaked

LEMMA DescriptorInvInit == Init => DescriptorInv
BY DEF Init, DescriptorInv, BuffersHoldDescriptors, AllocatorsHoldDescriptors,
       CachednessKnown, NoDescriptorLeaked, Live, Alive, NoBuffer, NoAllocator

LEMMA DescriptorInvFrame ==
  ASSUME RefInv, DescriptorInv, OwnersUnchanged
  PROVE  DescriptorInv'
<1>1. Live' = Live /\ Alive' = Alive
  BY DEF OwnersUnchanged, Live, Alive
<1>2. BuffersHoldDescriptors'
  BY <1>1 DEF DescriptorInv, BuffersHoldDescriptors, OwnersUnchanged, Live
<1>3. AllocatorsHoldDescriptors' /\ CachednessKnown'
  BY <1>1 DEF DescriptorInv, AllocatorsHoldDescriptors, CachednessKnown,
              HeapIsCached, OwnersUnchanged
<1>4. NoDescriptorLeaked => NoDescriptorLeaked'
  BY <1>1 DEF NoDescriptorLeaked, OwnersUnchanged, Live
<1>5. QED
  BY <1>2, <1>3, <1>4 DEF DescriptorInv

\* A free descriptor gets a new owner, or an owner gives its descriptor back.
LEMMA DescriptorInvAllocatorNew ==
  ASSUME RefInv, DescriptorInv, NEW a \in Allocators, AllocatorNew(a)
  PROVE  DescriptorInv'
<1>1. CASE UNCHANGED <<allocator, fdTable>>
  BY <1>1, DescriptorInvFrame DEF AllocatorNew, OwnersUnchanged
<1>2. ASSUME NEW fd \in FreeFds, fdTable' = Open(fd, "node"),
             allocator' = [allocator EXCEPT ![a] =
               [dma_heap_fd |-> fd, internal |-> TRUE,
                is_cached |-> BuildIsCached, alive |-> TRUE]]
      PROVE  DescriptorInv'
  <2>1. /\ fd \in Fds /\ fdTable[fd] = "closed"
        /\ fdTable'[fd] = "node"
        /\ \A g \in Fds \ {fd} : fdTable'[g] = fdTable[g]
    BY <1>2 DEF FreeFds, Open, RefInv, TypeOK
  <2>2. /\ Live' = Live /\ Alive' = Alive \cup {a} /\ a \notin Alive
        /\ UNCHANGED buffer
        /\ allocator'[a] = [dma_heap_fd |-> fd, internal |-> TRUE,
                            is_cached |-> BuildIsCached, alive |-> TRUE]
        /\ \A c \in Alive : allocator'[c] = allocator[c]
    BY <1>2 DEF AllocatorNew, Fresh, Live, Alive, RefInv, TypeOK
  <2>3. BuffersHoldDescriptors'
    BY <2>1, <2>2 DEF DescriptorInv, BuffersHoldDescriptors
  <2>4. \A c \in Alive : /\ allocator[c].dma_heap_fd \in Fds
                         /\ allocator[c].dma_heap_fd # fd
    BY <2>1 DEF DescriptorInv, AllocatorsHoldDescriptors, ClientHeaps
  <2>5. AllocatorsHoldDescriptors'
    BY <2>1, <2>2, <2>4 DEF DescriptorInv, AllocatorsHoldDescriptors
  <2>6. CachednessKnown'
    BY <2>1, <2>2, <2>4, ConstantsAssumption
    DEF DescriptorInv, CachednessKnown, HeapIsCached
  <2>7. NoDescriptorLeaked => NoDescriptorLeaked'
    BY <2>1, <2>2 DEF NoDescriptorLeaked
  <2>8. QED
    BY <2>3, <2>5, <2>6, <2>7 DEF DescriptorInv
<1>3. QED
  BY <1>1, <1>2 DEF AllocatorNew

LEMMA DescriptorInvNewFromFd ==
  ASSUME RefInv, DescriptorInv, NEW a \in Allocators, NEW fd \in Fds,
         AllocatorNewFromFd(a, fd)
  PROVE  DescriptorInv'
<1>1. /\ fdTable[fd] \in ClientHeaps
      /\ UNCHANGED <<buffer, fdTable>>
      /\ Live' = Live /\ Alive' = Alive \cup {a} /\ a \notin Alive
      /\ allocator'[a] = [dma_heap_fd |-> fd, internal |-> FALSE,
                          is_cached |-> HeapIsCached(fd), alive |-> TRUE]
      /\ \A c \in Alive : allocator'[c] = allocator[c]
  BY DEF AllocatorNewFromFd, Fresh, Live, Alive, RefInv, TypeOK, ClientFds, ClientHeaps
<1>2. BuffersHoldDescriptors'
  BY <1>1 DEF DescriptorInv, BuffersHoldDescriptors
<1>3. AllocatorsHoldDescriptors'
  BY <1>1 DEF DescriptorInv, AllocatorsHoldDescriptors, ClientHeaps
<1>4. CachednessKnown'
  BY <1>1 DEF DescriptorInv, CachednessKnown, HeapIsCached
<1>5. NoDescriptorLeaked => NoDescriptorLeaked'
  BY <1>1 DEF NoDescriptorLeaked
<1>6. QED
  BY <1>2, <1>3, <1>4, <1>5 DEF DescriptorInv

LEMMA DescriptorInvDestroy ==
  ASSUME RefInv, DescriptorInv, NEW a \in Allocators, AllocatorDestroy(a)
  PROVE  DescriptorInv'
<1> DEFINE fd == allocator[a].dma_heap_fd
<1>1. /\ a \in Alive /\ fd \in Fds
      /\ UNCHANGED buffer
      /\ Live' = Live /\ Alive' = Alive \ {a}
      /\ \A c \in Alive \ {a} : allocator'[c] = allocator[c]
  BY DEF AllocatorDestroy, Live, Alive, RefInv, TypeOK, NoAllocator, DescriptorInv,
         AllocatorsHoldDescriptors
<1>2. \/ UNCHANGED fdTable /\ ~(allocator[a].internal /\ fd > 0)
      \/ /\ allocator[a].internal
         /\ fdTable[fd] = "node" /\ fdTable'[fd] = "closed"
         /\ \A g \in Fds \ {fd} : fdTable'[g] = fdTable[g]
         /\ \A c \in Alive \ {a} : allocator[c].dma_heap_fd # fd
  BY <1>1 DEF AllocatorDestroy, RefInv, TypeOK, Close, DescriptorInv,
              AllocatorsHoldDescriptors
<1> HIDE DEF fd
<1>3. BuffersHoldDescriptors'
  BY <1>1, <1>2 DEF DescriptorInv, BuffersHoldDescriptors
<1>4. AllocatorsHoldDescriptors'
  BY <1>1, <1>2 DEF DescriptorInv, AllocatorsHoldDescriptors
<1>5. CachednessKnown'
  BY <1>1, <1>2 DEF DescriptorInv, CachednessKnown, HeapIsCached,
                    AllocatorsHoldDescriptors
<1>6. ASSUME NoDescriptorLeaked, 0 \notin Fds PROVE NoDescriptorLeaked'
  <2>1. \A g \in Fds : fdTable'[g] = "dmabuf" => \E b \in Live : buffer[b].dmabuf_fd = g
    BY <1>2, <1>6 DEF NoDescriptorLeaked
  <2>2. fd > 0
    BY <1>1, <1>6, ConstantsAssumption
  <2>3. allocator[a].internal \/ fdTable[fd] \in ClientHeaps
    BY <1>1 DEF DescriptorInv, AllocatorsHoldDescriptors, fd
  <2>4. fdTable'[fd] # "node"
    BY <1>2, <2>2, <2>3 DEF ClientHeaps
  <2>5. ASSUME NEW g \in Fds \ {fd}, fdTable'[g] = "node"
        PROVE  \E c \in Alive \ {a} : allocator[c].dma_heap_fd = g
    BY <1>2, <1>6, <2>5 DEF NoDescriptorLeaked, fd
  <2>6. QED
    BY <1>1, <2>1, <2>4, <2>5 DEF NoDescriptorLeaked
<1>7. QED
  BY <1>3, <1>4, <1>5, <1>6 DEF DescriptorInv

LEMMA DescriptorInvAllocate ==
  ASSUME RefInv, DescriptorInv, NEW a \in Allocators, NEW b \in Buffers,
         Allocate(b, a)
  PROVE  DescriptorInv'
<1>1. CASE AllocateSucceeds(b, a)
  <2>1. PICK fd \in FreeFds, flags \in FlagChoices :
          /\ fdTable' = Open(fd, "dmabuf")
          /\ buffer' = [buffer EXCEPT ![b] =
               [NoBuffer EXCEPT !.allocator = a, !.dmabuf_fd = fd,
                                !.map_flags = flags]]
    BY <1>1 DEF AllocateSucceeds
  <2>2. /\ fd \in Fds /\ fdTable[fd] = "closed" /\ fdTable'[fd] = "dmabuf"
        /\ \A g \in Fds \ {fd} : fdTable'[g] = fdTable[g]
    BY <2>1 DEF FreeFds, Open, RefInv, TypeOK
  <2>3. /\ b \notin Live /\ Live' = Live \cup {b}
        /\ buffer'[b].dmabuf_fd = fd
        /\ \A c \in Live : buffer'[c] = buffer[c]
    BY <2>1, ConstantsAssumption DEF Allocate, Live, NoBuffer, RefInv, TypeOK
  <2>4. UNCHANGED allocator /\ Alive' = Alive
    BY DEF Allocate, Alive
  <2>5. \A c \in Live : buffer[c].dmabuf_fd # fd
    BY <2>2 DEF DescriptorInv, BuffersHoldDescriptors
  <2>6. \A c \in Alive : allocator[c].dma_heap_fd # fd
    BY <2>2 DEF DescriptorInv, AllocatorsHoldDescriptors, ClientHeaps
  <2>7. BuffersHoldDescriptors'
    BY <2>2, <2>3, <2>5 DEF DescriptorInv, BuffersHoldDescriptors
  <2>8. AllocatorsHoldDescriptors' /\ CachednessKnown'
    BY <2>2, <2>4, <2>6 DEF DescriptorInv, AllocatorsHoldDescriptors,
                            CachednessKnown, HeapIsCached
  <2>9. NoDescriptorLeaked => NoDescriptorLeaked'
    BY <2>2, <2>3, <2>4 DEF NoDescriptorLeaked
  <2>10. QED
    BY <2>7, <2>8, <2>9 DEF DescriptorInv
<1>2. CASE AllocateFails
  <2>1. fdTable' = fdTable
    BY <1>2 DEF AllocateFails, Open, FreeFds, RefInv, TypeOK
  <2>2. QED
    BY <1>2, <2>1, DescriptorInvFrame DEF Allocate, AllocateFails, OwnersUnchanged
<1>3. QED
  BY <1>1, <1>2 DEF Allocate

LEMMA DescriptorInvDeallocate ==
  ASSUME RefInv, DescriptorInv, NEW b \in Buffers, Deallocate(b)
  PROVE  DescriptorInv'
<1> DEFINE fd == buffer[b].dmabuf_fd
<1>1. /\ b \in Live /\ fd \in Fds /\ fdTable[fd] = "dmabuf" /\ fdTable'[fd] = "closed"
      /\ \A g \in Fds \ {fd} : fdTable'[g] = fdTable[g]
  BY DEF Deallocate, Usable, Close, RefInv, TypeOK, DescriptorInv, BuffersHoldDescriptors
<1>2. buffer'[b] = NoBuffer /\ \A c \in Buffers \ {b} : buffer'[c] = buffer[c]
  BY DeallocateStepEffect, StoreEffect DEF DeallocateEffect
<1>3. Live' = Live \ {b} /\ \A c \in Live \ {b} : buffer'[c] = buffer[c]
  BY <1>2 DEF Live, NoBuffer
<1>4. UNCHANGED allocator /\ Alive' = Alive
  BY DEF Deallocate, Alive
<1>5. \A c \in Live \ {b} : buffer[c].dmabuf_fd # fd
  BY <1>1 DEF DescriptorInv, BuffersHoldDescriptors
<1>6. \A c \in Alive : allocator[c].dma_heap_fd # fd
  BY <1>1 DEF DescriptorInv, AllocatorsHoldDescriptors, ClientHeaps
<1>7. NoDescriptorLeaked => NoDescriptorLeaked'
  <2>1. ASSUME NoDescriptorLeaked, NEW g \in Fds, fdTable'[g] = "dmabuf"
        PROVE  \E c \in Live \ {b} : buffer'[c].dmabuf_fd = g
    BY <1>1, <1>3, <2>1 DEF NoDescriptorLeaked
  <2>2. QED
    BY <1>1, <1>3, <1>4, <2>1 DEF NoDescriptorLeaked
<1> HIDE DEF fd
<1>8. BuffersHoldDescriptors'
  BY <1>1, <1>3, <1>5 DEF DescriptorInv, BuffersHoldDescriptors
<1>9. AllocatorsHoldDescriptors' /\ CachednessKnown'
  BY <1>1, <1>4, <1>6 DEF DescriptorInv, AllocatorsHoldDescriptors,
                          CachednessKnown, HeapIsCached
<1>10. QED
  BY <1>7, <1>8, <1>9 DEF DescriptorInv

\* The client opens and closes heaps that no allocator of its uses.
LEMMA DescriptorInvEnvironment ==
  ASSUME RefInv, DescriptorInv, EnvironmentStep
  PROVE  DescriptorInv'
<1>1. UNCHANGED <<allocator, buffer>> /\ Live' = Live /\ Alive' = Alive
  BY DEF EnvironmentStep, ClientOpenHeap, ClientCloseHeap, CpuWrite, DeviceWrite,
         CacheEvict, Access, Live, Alive
<1>2. ASSUME NEW fd \in Fds, NEW kind \in ClientHeaps \cup {"closed"},
             fdTable' = [fdTable EXCEPT ![fd] = kind],
             fdTable[fd] \in ClientHeaps \cup {"closed"},
             \A a \in Alive : allocator[a].dma_heap_fd # fd
      PROVE  DescriptorInv'
  <2>1. /\ fdTable'[fd] = kind
        /\ \A g \in Fds \ {fd} : fdTable'[g] = fdTable[g]
    BY <1>2 DEF RefInv, TypeOK
  <2>2. BuffersHoldDescriptors'
    BY <1>1, <1>2, <2>1 DEF DescriptorInv, BuffersHoldDescriptors, ClientHeaps
  <2>3. AllocatorsHoldDescriptors' /\ CachednessKnown'
    BY <1>1, <1>2, <2>1 DEF DescriptorInv, AllocatorsHoldDescriptors,
                            CachednessKnown, HeapIsCached
  <2>4. NoDescriptorLeaked => NoDescriptorLeaked'
    BY <1>1, <1>2, <2>1 DEF NoDescriptorLeaked, ClientHeaps
  <2>5. QED
    BY <2>2, <2>3, <2>4 DEF DescriptorInv
<1>3. ASSUME NEW fd \in Fds, NEW kind \in {"cached_heap", "uncached_heap"},
             ClientOpenHeap(fd, kind)
      PROVE  DescriptorInv'
  <2>1. fdTable[fd] = "closed" /\ fdTable' = [fdTable EXCEPT ![fd] = kind]
    BY <1>3 DEF ClientOpenHeap, FreeFds, Open
  <2>2. \A a \in Alive : allocator[a].dma_heap_fd # fd
    BY <2>1 DEF DescriptorInv, AllocatorsHoldDescriptors, ClientHeaps
  <2>3. QED
    BY <1>2, <2>1, <2>2 DEF ClientHeaps
<1>4. ASSUME NEW fd \in Fds, ClientCloseHeap(fd)
      PROVE  DescriptorInv'
  BY <1>2, <1>4 DEF ClientCloseHeap, ClientFds, Close, ClientHeaps
<1>5. CASE UNCHANGED fdTable
  BY <1>1, <1>5, DescriptorInvFrame DEF OwnersUnchanged
<1>6. QED
  BY <1>3, <1>4, <1>5 DEF EnvironmentStep, CpuWrite, DeviceWrite, CacheEvict, Access

LEMMA BufferStepCases ==
  ASSUME NEW b \in Buffers, BufferStep(b)
  PROVE  \/ \E a \in Allocators : Allocate(b, a)
         \/ Deallocate(b)
         \/ MappingStep(b)
BY DEF BufferStep, MappingStep

LEMMA DescriptorInvStep == RefInv /\ DescriptorInv /\ [Next]_vars => DescriptorInv'
<1> SUFFICES ASSUME RefInv, DescriptorInv, [Next]_vars PROVE DescriptorInv'
  OBVIOUS
<1>1. CASE UNCHANGED vars
  BY <1>1, DescriptorInvFrame DEF vars, OwnersUnchanged
<1>2. ASSUME NEW a \in Allocators, AllocatorStep(a) PROVE DescriptorInv'
  BY <1>2, DescriptorInvAllocatorNew, DescriptorInvNewFromFd, DescriptorInvDestroy
  DEF AllocatorStep
<1>3. CASE EnvironmentStep
  BY <1>3, DescriptorInvEnvironment
<1>4. ASSUME NEW b \in Buffers, BufferStep(b) PROVE DescriptorInv'
  BY <1>4, BufferStepCases, DescriptorInvAllocate, DescriptorInvDeallocate,
     MappingStepOwners, DescriptorInvFrame
<1>5. QED
  BY <1>1, <1>2, <1>3, <1>4 DEF Next

-----------------------------------------------------------------------------
(***************************************************************************)
(* Mappings. A mapped buffer's address is mapped to it with the rights of  *)
(* the first map, which the client and map_flags agree on, and every holder *)
(* knows that address. Since each mapping names its buffer, no two buffers *)
(* share an address.                                                       *)
(***************************************************************************)
MappingHeld(b) ==
  Mapped(b) =>
    /\ vm[buffer[b].mapped_virtual_address] =
         [buffer |-> b, prot |-> buffer[b].map_flags \cap ReadWrite]
    /\ client[b].access = buffer[b].map_flags \cap ReadWrite
    /\ client[b].manual <=> "MANUAL_SYNC" \in buffer[b].map_flags
    /\ \A h \in Holders(b) : client[b].held[h] = buffer[b].mapped_virtual_address

MappingInv == (\A b \in Buffers : MappingHeld(b)) /\ NoMappingLeaked

LEMMA MappingInvInit == Init => MappingInv
BY DEF Init, MappingInv, MappingHeld, NoMappingLeaked, Mapped, NoBuffer

\* A step on b that leaves the address space alone, and one that changes an
\* address which is b's or free.
LEMMA MappingInvFrame ==
  ASSUME RefInv, MappingInv, NEW b \in Buffers,
         \A c \in Buffers \ {b} : buffer'[c] = buffer[c] /\ client'[c] = client[c],
         UNCHANGED vm,
         buffer'[b].mapped_virtual_address = buffer[b].mapped_virtual_address,
         b \in Live => (b \in Live)',
         MappingHeld(b)'
  PROVE  MappingInv'
<1>1. \A c \in Buffers : MappingHeld(c)'
  BY DEF MappingInv, MappingHeld, Mapped, Holders
<1>2. NoMappingLeaked'
  BY DEF MappingInv, NoMappingLeaked, Live
<1>3. QED
  BY <1>1, <1>2 DEF MappingInv

LEMMA MappingInvChange ==
  ASSUME RefInv, MappingInv, NEW b \in Buffers, NEW p \in Addrs, NEW x,
         \A c \in Buffers \ {b} : buffer'[c] = buffer[c] /\ client'[c] = client[c],
         vm' = [vm EXCEPT ![p] = x],
         vm[p] = Unmapped \/ buffer[b].mapped_virtual_address = p,
         Mapped(b) => buffer[b].mapped_virtual_address = p,
         x = Unmapped \/ (x.buffer = b /\ b \in Live /\ (b \in Live)'
                            /\ buffer'[b].mapped_virtual_address = p),
         MappingHeld(b)'
  PROVE  MappingInv'
<1>1. vm'[p] = x /\ \A q \in Addrs \ {p} : vm'[q] = vm[q]
  BY DEF RefInv, TypeOK, AddressSpaces
<1>2. vm[p].buffer \in {b, Null}
  <2>1. CASE vm[p] = Unmapped
    BY <2>1 DEF Unmapped
  <2>2. CASE buffer[b].mapped_virtual_address = p
    <3>1. Mapped(b) /\ MappingHeld(b)
      BY <2>2, ConstantsAssumption DEF Mapped, MappingInv
    <3>2. vm[p] = [buffer |-> b, prot |-> buffer[b].map_flags \cap ReadWrite]
      BY <2>2, <3>1 DEF MappingHeld
    <3>3. QED
      BY <3>2
  <2>3. QED
    BY <2>1, <2>2
<1>3. ASSUME NEW c \in Buffers \ {b} PROVE MappingHeld(c)'
  <2>1. /\ buffer'[c] = buffer[c] /\ client'[c] = client[c]
        /\ c # Null
        /\ MappingHeld(c)
        /\ buffer[c].mapped_virtual_address \in Addrs \cup {Null}
    BY ConstantsAssumption DEF MappingInv, RefInv, TypeOK, BufferRecords
  <2>2. Mapped(c) => buffer[c].mapped_virtual_address # p
    BY <1>2, <2>1 DEF MappingHeld
  <2>3. Mapped(c) => vm'[buffer[c].mapped_virtual_address]
                       = vm[buffer[c].mapped_virtual_address]
    BY <1>1, <2>1, <2>2 DEF Mapped
  <2>4. QED
    BY <2>1, <2>3 DEF MappingHeld, Mapped, Holders
<1>4. NoMappingLeaked'
  <2>1. ASSUME NEW q \in Addrs, vm'[q] # Unmapped
        PROVE  \E c \in Live' : vm'[q].buffer = c
                                /\ buffer'[c].mapped_virtual_address = q
    <3>1. CASE q = p
      BY <1>1, <2>1, <3>1 DEF Live
    <3>2. CASE q # p
      <4>1. PICK c \in Live : vm[q].buffer = c /\ buffer[c].mapped_virtual_address = q
        BY <1>1, <2>1, <3>2 DEF MappingInv, NoMappingLeaked
      <4>2. c # b
        BY <3>2, <4>1, ConstantsAssumption DEF Mapped
      <4>3. QED
        BY <1>1, <3>2, <4>1, <4>2 DEF Live
    <3>3. QED
      BY <3>1, <3>2
  <2>2. QED
    BY <2>1 DEF NoMappingLeaked
<1>5. QED
  BY <1>3, <1>4 DEF MappingInv

LEMMA MappingInvMapFirst ==
  ASSUME RefInv, MappingInv, NEW b \in Buffers, NEW h \in Handles,
         NEW f \in FlagChoices, Map(b, h, f), MapFirst(b, h, f)
  PROVE  MappingInv'
<1>1. PICK p \in Addrs \cup {Null}, s \in Contexts :
        /\ p # Null => p \in FreeAddrs
        /\ Store(b, s)
        /\ MapEffect(s, Context(b), b, MappingFlags(f), p)
        /\ client' = IF p = Null THEN client
                     ELSE [client EXCEPT ![b] = FirstHolder(b, h, f, p)]
  BY MapFirstEffect
<1>2. /\ buffer'[b] = s.buf /\ vm' = s.vm
      /\ \A c \in Buffers \ {b} : buffer'[c] = buffer[c] /\ client'[c] = client[c]
  BY <1>1, StoreEffect DEF RefInv, TypeOK
<1>3. /\ Context(b).buf = buffer[b] /\ Context(b).vm = vm
      /\ ~Mapped(b) /\ Holders(b) = {} /\ b \in Live
  BY BufferFacts DEF Context, MapFirst, Map, Usable
<1>4. (b \in Live)'
  BY <1>1, <1>2, <1>3 DEF MapEffect, Live
<1>5. CASE p = Null
  <2>1. UNCHANGED vm /\ buffer'[b].mapped_virtual_address = Null
    BY <1>1, <1>2, <1>3, <1>5 DEF MapEffect, Mapped
  <2>2. QED
    BY <1>2, <1>3, <1>4, <2>1, MappingInvFrame DEF MappingHeld, Mapped
<1>6. CASE p # Null
  <2> DEFINE x == [buffer |-> b, prot |-> MappingFlags(f) \cap ReadWrite]
  <2>1. /\ p \in Addrs /\ vm[p] = Unmapped
        /\ vm' = [vm EXCEPT ![p] = x]
        /\ buffer'[b].mapped_virtual_address = p
        /\ buffer'[b].map_flags = MappingFlags(f)
        /\ vm'[p] = x
    BY <1>1, <1>2, <1>3, <1>6 DEF MapEffect, FreeAddrs, RefInv, TypeOK, AddressSpaces
  <2>2. client'[b] = FirstHolder(b, h, f, p)
    BY <1>1, <1>6 DEF RefInv, TypeOK
  <2>3. client'[b].held = [client[b].held EXCEPT ![h] = p]
    BY <2>2 DEF FirstHolder
  <2>4. \A g \in Holders(b)' : client'[b].held[g] = p
    BY <1>3, <2>3, BufferFacts DEF Holders, ClientRecords
  <2>5. /\ client'[b].access = MappingFlags(f) \cap ReadWrite
        /\ client'[b].manual <=> "MANUAL_SYNC" \in MappingFlags(f)
    <3>1. client'[b].access = RequestedRights(f)
      BY <2>2 DEF FirstHolder
    <3>2. client'[b].manual = ("MANUAL_SYNC" \in f)
      BY <2>2 DEF FirstHolder
    <3>3. QED
      BY <3>1, <3>2, FlagsType
  <2>6. MappingHeld(b)'
    BY <2>1, <2>4, <2>5 DEF MappingHeld
  <2>7. x.buffer = b
    OBVIOUS
  <2> HIDE DEF x
  <2>8. QED
    <3>1. /\ p \in Addrs /\ vm' = [vm EXCEPT ![p] = x]
          /\ vm[p] = Unmapped \/ buffer[b].mapped_virtual_address = p
          /\ Mapped(b) => buffer[b].mapped_virtual_address = p
      BY <1>3, <2>1
    <3>2. \/ x = Unmapped
          \/ x.buffer = b /\ b \in Live /\ (b \in Live)'
               /\ buffer'[b].mapped_virtual_address = p
      BY <1>3, <1>4, <2>1, <2>7
    <3>3. \A c \in Buffers \ {b} : buffer'[c] = buffer[c] /\ client'[c] = client[c]
      BY <1>2
    <3>4. QED
      BY <2>6, <3>1, <3>2, <3>3, MappingInvChange
<1>7. QED
  BY <1>5, <1>6

\* Steps that change nothing of b's mapping but who holds it.
LEMMA MappingInvHolders ==
  ASSUME RefInv, MappingInv, NEW b \in Buffers,
         \A c \in Buffers \ {b} : buffer'[c] = buffer[c] /\ client'[c] = client[c],
         UNCHANGED vm,
         buffer'[b].allocator = buffer[b].allocator,
         buffer'[b].mapped_virtual_address = buffer[b].mapped_virtual_address,
         buffer'[b].map_flags = buffer[b].map_flags,
         Mapped(b) => /\ client'[b].access = client[b].access
                      /\ client'[b].manual = client[b].manual
                      /\ \A h \in Handles :
                           client'[b].held[h] \in {client[b].held[h], Null,
                                                  buffer[b].mapped_virtual_address}
  PROVE  MappingInv'
<1>1. MappingHeld(b)
  BY DEF MappingInv
<1>2. Mapped(b)' <=> Mapped(b)
  BY DEF Mapped
<1>3. Mapped(b) => \A h \in Holders(b)' :
        client'[b].held[h] = buffer[b].mapped_virtual_address
  BY <1>1 DEF MappingHeld, Holders
<1>4. MappingHeld(b)'
  BY <1>1, <1>2, <1>3 DEF MappingHeld
<1>5. QED
  BY <1>4, MappingInvFrame DEF Live

LEMMA MapAgainEffect ==
  ASSUME RefInv, NEW b \in Buffers, NEW h \in Handles, NEW f \in FlagChoices,
         Map(b, h, f), MapAgain(b, h, f)
  PROVE  /\ Mapped(b) /\ b \in Usable
         /\ buffer'[b] = [buffer[b] EXCEPT !.mapping_refcount = @ + 1]
         /\ client'[b] = [client[b] EXCEPT
              !.held = [client[b].held EXCEPT ![h] = buffer[b].mapped_virtual_address]]
         /\ \A c \in Buffers \ {b} : buffer'[c] = buffer[c] /\ client'[c] = client[c]
         /\ UNCHANGED <<allocator, fdTable, vm, memory>>
BY DEF Map, MapAgain, RefInv, TypeOK

LEMMA MappingInvMapAgain ==
  ASSUME RefInv, MappingInv, NEW b \in Buffers, NEW h \in Handles,
         NEW f \in FlagChoices, Map(b, h, f), MapAgain(b, h, f)
  PROVE  MappingInv'
<1>1. /\ buffer[b] \in BufferRecords /\ client[b] \in ClientRecords
      /\ UNCHANGED vm
      /\ \A c \in Buffers \ {b} : buffer'[c] = buffer[c] /\ client'[c] = client[c]
  BY MapAgainEffect DEF RefInv, TypeOK
<1>2. /\ buffer'[b].allocator = buffer[b].allocator
      /\ buffer'[b].mapped_virtual_address = buffer[b].mapped_virtual_address
      /\ buffer'[b].map_flags = buffer[b].map_flags
  BY <1>1, MapAgainEffect DEF BufferRecords
<1>3. /\ client'[b].access = client[b].access
      /\ client'[b].manual = client[b].manual
      /\ client'[b].held = [client[b].held EXCEPT ![h] = buffer[b].mapped_virtual_address]
  <2>1. client'[b] = [client[b] EXCEPT
          !.held = [client[b].held EXCEPT ![h] = buffer[b].mapped_virtual_address]]
    BY MapAgainEffect
  <2>2. QED
    BY <1>1, <2>1 DEF ClientRecords
<1>4. \A g \in Handles : client'[b].held[g] \in {client[b].held[g], Null,
                                                buffer[b].mapped_virtual_address}
  BY <1>1, <1>3 DEF ClientRecords
<1>5. QED
  BY <1>1, <1>2, <1>3, <1>4, MappingInvHolders

LEMMA UnmapClient ==
  ASSUME RefInv, NEW b \in Buffers, NEW h \in Handles, Unmap(b, h)
  PROVE  /\ b \in Usable /\ h \in Holders(b)
         /\ Holders(b) = {h} <=> buffer[b].mapping_refcount = 1
         /\ Holders(b) = {h} => client'[b] = NoClient
         /\ Holders(b) # {h} =>
              client'[b] = [client[b] EXCEPT !.held = [client[b].held EXCEPT ![h] = Null]]
         /\ \A c \in Buffers \ {b} : client'[c] = client[c]
         /\ UNCHANGED <<allocator, fdTable>>
<1>1. h \in Holders(b) /\ buffer[b].mapping_refcount = Cardinality(Holders(b))
  BY BufferFacts DEF Unmap
<1>2. IsFiniteSet(Holders(b)) /\ Cardinality(Holders(b) \ {h}) = Cardinality(Holders(b)) - 1
  BY <1>1, HoldersUpdate DEF RefInv
<1>3. Cardinality(Holders(b) \ {h}) = 0 <=> Holders(b) \ {h} = {}
  BY <1>2, FS_Subset, FS_EmptySet
<1>4. Holders(b) = {h} <=> buffer[b].mapping_refcount = 1
  BY <1>1, <1>2, <1>3, HoldersUpdate DEF RefInv
<1>5. QED
  BY <1>1, <1>4 DEF Unmap, RefInv, TypeOK

LEMMA MappingInvUnmap ==
  ASSUME RefInv, MappingInv, NEW b \in Buffers, NEW h \in Handles, Unmap(b, h)
  PROVE  MappingInv'
<1>1. PICK s \in Contexts : Store(b, s) /\ UnmapEffect(s, Context(b))
  BY UnmapStepEffect
<1>2. /\ buffer'[b] = s.buf /\ vm' = s.vm
      /\ \A c \in Buffers \ {b} : buffer'[c] = buffer[c] /\ client'[c] = client[c]
  BY <1>1, StoreEffect, UnmapClient
<1>3. Context(b).buf = buffer[b] /\ Context(b).vm = vm
  BY DEF Context
<1>4. Mapped(b) /\ client[b] \in ClientRecords
  BY UnmapClient, BufferFacts
<1>5. CASE buffer[b].mapping_refcount # 1
  <2>1. /\ UNCHANGED vm
        /\ buffer'[b].allocator = buffer[b].allocator
        /\ buffer'[b].mapped_virtual_address = buffer[b].mapped_virtual_address
        /\ buffer'[b].map_flags = buffer[b].map_flags
    BY <1>1, <1>2, <1>3, <1>5 DEF UnmapEffect
  <2>2. client'[b] = [client[b] EXCEPT !.held = [client[b].held EXCEPT ![h] = Null]]
    BY <1>5, UnmapClient
  <2>3. /\ client'[b].access = client[b].access
        /\ client'[b].manual = client[b].manual
        /\ client'[b].held = [client[b].held EXCEPT ![h] = Null]
    BY <1>4, <2>2 DEF ClientRecords
  <2>4. \A g \in Handles : client'[b].held[g] \in {client[b].held[g], Null,
                                                  buffer[b].mapped_virtual_address}
    BY <1>4, <2>3 DEF ClientRecords
  <2>5. QED
    BY <1>2, <2>1, <2>3, <2>4, MappingInvHolders
<1>6. CASE buffer[b].mapping_refcount = 1
  <2>1. /\ vm' = [vm EXCEPT ![buffer[b].mapped_virtual_address] = Unmapped]
        /\ buffer'[b].mapped_virtual_address = Null
    BY <1>1, <1>2, <1>3, <1>6 DEF UnmapEffect
  <2>2. buffer[b].mapped_virtual_address \in Addrs
    BY <1>4 DEF Mapped, RefInv, TypeOK, BufferRecords
  <2>3. MappingHeld(b)'
    BY <2>1 DEF MappingHeld, Mapped
  <2>4. QED
    BY <1>2, <2>1, <2>2, <2>3, MappingInvChange
<1>7. QED
  BY <1>5, <1>6

LEMMA MappingInvIdleOrSync ==
  ASSUME RefInv, MappingInv, NEW b \in Buffers,
         UnmapIdle(b) \/ StartSyncSession(b) \/ StopSyncSession(b)
  PROVE  MappingInv'
<1>1. PICK s \in Contexts : Store(b, s) /\ SameMapping(s, Context(b))
  BY IdleOrSyncStep
<1>2. PICK ses \in BOOLEAN :
        client' = [client EXCEPT ![b] = [@ EXCEPT !.session = ses]]
  BY IdleOrSyncStep
<1>3. /\ client'[b].access = client[b].access
      /\ client'[b].manual = client[b].manual
      /\ client'[b].held = client[b].held
      /\ \A c \in Buffers \ {b} : client'[c] = client[c]
  BY <1>2 DEF RefInv, TypeOK, ClientRecords
<1>4. Context(b).buf = buffer[b] /\ Context(b).vm = vm
  BY DEF Context
<1>5. /\ UNCHANGED vm
      /\ \A c \in Buffers \ {b} : buffer'[c] = buffer[c]
      /\ buffer'[b].allocator = buffer[b].allocator
      /\ buffer'[b].mapped_virtual_address = buffer[b].mapped_virtual_address
      /\ buffer'[b].map_flags = buffer[b].map_flags
  BY <1>1, <1>4, StoreEffect DEF SameMapping
<1>6. QED
  BY <1>3, <1>5, MappingInvHolders

LEMMA MappingInvDeallocate ==
  ASSUME RefInv, MappingInv, NEW b \in Buffers, Deallocate(b)
  PROVE  MappingInv'
<1>1. PICK s \in Contexts :
        Store(b, s) /\ DeallocateEffect(s, Context(b), OwnerIsCached(b))
  BY DeallocateStepEffect
<1>2. /\ buffer'[b] = NoBuffer /\ vm' = s.vm
      /\ \A c \in Buffers \ {b} : buffer'[c] = buffer[c] /\ client'[c] = client[c]
  BY <1>1, StoreEffect DEF Deallocate, DeallocateEffect, RefInv, TypeOK
<1>3. Context(b).buf = buffer[b] /\ Context(b).vm = vm
  BY DEF Context
<1>4. ~Mapped(b)' /\ MappingHeld(b)'
  BY <1>2 DEF MappingHeld, Mapped, NoBuffer
<1>5. CASE ~Mapped(b)
  <2>1. UNCHANGED vm /\ buffer'[b].mapped_virtual_address = Null
    BY <1>1, <1>2, <1>3, <1>5 DEF DeallocateEffect, Mapped, NoBuffer
  <2>2. \A c \in Buffers : MappingHeld(c)'
    BY <1>2, <1>4, <2>1 DEF MappingInv, MappingHeld, Mapped, Holders
  <2>3. NoMappingLeaked'
    <3>1. ASSUME NEW p \in Addrs, vm[p] # Unmapped
          PROVE  \E c \in Live \ {b} : vm[p].buffer = c
                                       /\ buffer[c].mapped_virtual_address = p
      BY <1>5, <3>1, ConstantsAssumption DEF MappingInv, NoMappingLeaked, Mapped
    <3>2. QED
      BY <1>2, <2>1, <3>1 DEF NoMappingLeaked, Live
  <2>4. QED
    BY <2>2, <2>3 DEF MappingInv
<1>6. CASE Mapped(b)
  <2>1. vm' = [vm EXCEPT ![buffer[b].mapped_virtual_address] = Unmapped]
    BY <1>1, <1>2, <1>3, <1>6 DEF DeallocateEffect, Mapped
  <2>2. buffer[b].mapped_virtual_address \in Addrs
    BY <1>6 DEF Mapped, RefInv, TypeOK, BufferRecords
  <2>3. QED
    BY <1>2, <1>4, <2>1, <2>2, MappingInvChange
<1>7. QED
  BY <1>5, <1>6

\* New memory is not mapped, and the other steps touch nothing of this.
LEMMA MappingInvAllocate ==
  ASSUME RefInv, MappingInv, NEW a \in Allocators, NEW b \in Buffers, Allocate(b, a)
  PROVE  MappingInv'
<1>1. CASE UNCHANGED buffer
  BY <1>1, MappingInvFrame DEF Allocate, MappingInv, MappingHeld, Mapped, Holders, Live
<1>2. CASE AllocateSucceeds(b, a)
  <2>1. /\ buffer'[b].mapped_virtual_address = Null
        /\ \A c \in Buffers \ {b} : buffer'[c] = buffer[c]
    BY <1>2 DEF AllocateSucceeds, NoBuffer, RefInv, TypeOK
  <2>2. b \notin Live /\ UNCHANGED <<vm, client>>
    BY DEF Allocate
  <2>3. buffer[b].mapped_virtual_address = Null
    BY <2>2 DEF RefInv, MappedAreLive, Mapped
  <2>4. MappingHeld(b)'
    BY <2>1 DEF MappingHeld, Mapped
  <2>5. QED
    BY <2>1, <2>2, <2>3, <2>4, MappingInvFrame
<1>3. QED
  BY <1>1, <1>2 DEF Allocate, AllocateFails

LEMMA MappingInvStep == RefInv /\ MappingInv /\ [Next]_vars => MappingInv'
<1> SUFFICES ASSUME RefInv, MappingInv, [Next]_vars PROVE MappingInv'
  OBVIOUS
<1>1. CASE UNCHANGED <<buffer, vm, client>>
  BY <1>1 DEF MappingInv, MappingHeld, NoMappingLeaked, Mapped, Holders, Live
<1>2. CASE UNCHANGED vars
  BY <1>1, <1>2 DEF vars
<1>3. ASSUME NEW a \in Allocators, AllocatorStep(a) PROVE MappingInv'
  BY <1>1, <1>3 DEF AllocatorStep, AllocatorNew, AllocatorNewFromFd, AllocatorDestroy
<1>4. CASE EnvironmentStep
  BY <1>1, <1>4 DEF EnvironmentStep, ClientOpenHeap, ClientCloseHeap, CpuWrite,
                    DeviceWrite, CacheEvict, Access
<1>5. ASSUME NEW b \in Buffers, MappingStep(b) PROVE MappingInv'
  BY <1>5, MappingInvMapFirst, MappingInvMapAgain, MappingInvUnmap, MappingInvIdleOrSync
  DEF MappingStep, Map
<1>6. ASSUME NEW b \in Buffers, BufferStep(b) PROVE MappingInv'
  BY <1>5, <1>6, BufferStepCases, MappingInvAllocate, MappingInvDeallocate
<1>7. QED
  BY <1>2, <1>3, <1>4, <1>6 DEF Next

-----------------------------------------------------------------------------
(***************************************************************************)
(* The theorems.                                                           *)
(***************************************************************************)
OwnershipInv == RefInv /\ DescriptorInv /\ MappingInv

LEMMA OwnershipInvariant == Spec => []OwnershipInv
<1>1. Init => OwnershipInv
  BY RefInvInit, DescriptorInvInit, MappingInvInit DEF OwnershipInv
<1>2. OwnershipInv /\ [Next]_vars => OwnershipInv'
  BY RefInvStep, DescriptorInvStep, MappingInvStep DEF OwnershipInv
<1>3. QED
  BY <1>1, <1>2, PTL DEF Spec

\* Whoever map() gave an address can use it with the rights of the first map,
\* whatever other parts of the client, other buffers, failed calls and
\* destroyed allocators do meanwhile.
THEOREM HoldersKeepAccess == Spec => []HoldersCanAccess
<1>1. OwnershipInv => HoldersCanAccess
  <2> SUFFICES ASSUME OwnershipInv, NEW b \in Buffers, NEW h \in Holders(b)
               PROVE  /\ client[b].held[h] = buffer[b].mapped_virtual_address
                      /\ vm[client[b].held[h]] =
                           [buffer |-> b, prot |-> client[b].access]
    BY DEF HoldersCanAccess
  <2>1. Mapped(b) /\ MappingHeld(b)
    BY BufferFacts DEF OwnershipInv, MappingInv
  <2>2. QED
    BY <2>1 DEF MappingHeld
<1>2. QED
  BY <1>1, OwnershipInvariant, PTL

\* unmap() and deallocate() leave no munmap() undone, however many references
\* there were, and a failed map leaves no mapping.
THEOREM MappingsReturned == Spec => []NoMappingLeaked
<1>1. OwnershipInv => NoMappingLeaked
  BY DEF OwnershipInv, MappingInv
<1>2. QED
  BY <1>1, OwnershipInvariant, PTL

\* With descriptors above 0, as the code's assertions want them, each open
\* descriptor of the library's has exactly one owner, and no owner holds a
\* closed or a foreign one: through failed allocations, borrowed heaps and
\* allocators that are destroyed before their buffers.
THEOREM DescriptorsBalanced ==
  ASSUME 0 \notin Fds
  PROVE  Spec => []DescriptorsOwned
<1>1. OwnershipInv => DescriptorsOwned
  <2> SUFFICES ASSUME OwnershipInv PROVE DescriptorsOwned
    OBVIOUS
  <2>1. BuffersHoldDescriptors /\ AllocatorsHoldDescriptors /\ NoDescriptorLeaked
    BY DEF OwnershipInv, DescriptorInv
  <2>2. ASSUME NEW fd \in Fds, fdTable[fd] = "dmabuf"
        PROVE  \E b \in Live : \A c \in Live : buffer[c].dmabuf_fd = fd <=> c = b
    BY <2>1, <2>2 DEF NoDescriptorLeaked, BuffersHoldDescriptors
  <2>3. ASSUME NEW fd \in Fds, fdTable[fd] = "node"
        PROVE  \E a \in Alive : \A c \in Alive : allocator[c].dma_heap_fd = fd <=> c = a
    <3>1. PICK a \in Alive : allocator[a].dma_heap_fd = fd
      BY <2>1, <2>3 DEF NoDescriptorLeaked
    <3>2. allocator[a].internal
      BY <2>1, <2>3, <3>1 DEF AllocatorsHoldDescriptors, ClientHeaps
    <3>3. \A c \in Alive : allocator[c].dma_heap_fd = fd <=> c = a
      BY <2>1, <3>1, <3>2 DEF AllocatorsHoldDescriptors
    <3>4. QED
      BY <3>3
  <2>4. \A b \in Live : fdTable[buffer[b].dmabuf_fd] = "dmabuf"
    BY <2>1 DEF BuffersHoldDescriptors
  <2>5. \A a \in Alive : fdTable[allocator[a].dma_heap_fd] \in
          IF allocator[a].internal THEN {"node"} ELSE {"cached_heap", "uncached_heap"}
    BY <2>1 DEF AllocatorsHoldDescriptors, ClientHeaps
  <2>6. QED
    BY <2>2, <2>3, <2>4, <2>5 DEF DescriptorsOwned
<1>2. QED
  BY <1>1, OwnershipInvariant, PTL

\* A client that keeps to the contract meets no failing assertion.
THEOREM NoAssertionFails ==
  ASSUME 0 \notin Fds
  PROVE  Spec => []AssertionsHold
<1>1. OwnershipInv => AssertionsHold
  <2> SUFFICES ASSUME OwnershipInv PROVE AssertionsHold
    OBVIOUS
  <2>0. \A fd \in Fds : fd > 0
    BY ConstantsAssumption
  <2>1. \A a \in Alive : allocator[a].dma_heap_fd > 0
    BY <2>0 DEF OwnershipInv, DescriptorInv, AllocatorsHoldDescriptors
  <2>2. \A b \in Live : buffer[b].dmabuf_fd > 0
    BY <2>0 DEF OwnershipInv, DescriptorInv, BuffersHoldDescriptors
  <2>3. ASSUME NEW b \in Usable, Holders(b) # {}
        PROVE  Mapped(b) /\ client[b].access \subseteq buffer[b].map_flags
    <3>1. b \in Buffers
      BY DEF Usable, Live
    <3>2. Mapped(b) /\ MappingHeld(b)
      BY <2>3, <3>1, BufferFacts DEF OwnershipInv, MappingInv
    <3>3. QED
      BY <3>2 DEF MappingHeld
  <2>4. QED
    BY <2>1, <2>2, <2>3 DEF AssertionsHold
<1>2. QED
  BY <1>1, OwnershipInvariant, PTL

=============================================================================
