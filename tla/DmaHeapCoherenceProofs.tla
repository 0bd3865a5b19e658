----------------------- MODULE DmaHeapCoherenceProofs -----------------------
(***************************************************************************)
(* Sync sessions keep the CPU cache and the device coherent:               *)
(* DeviceSeesCpuWrites for all values of the constants, and                *)
(* CpuSeesDeviceWrites unless maps both fail and ask for manual sessions.  *)
(***************************************************************************)
EXTENDS DmaHeapOwnershipProofs

\* No client asks for manual sync sessions.
AutomaticOnly == \A f \in FlagChoices : "MANUAL_SYNC" \notin f

-----------------------------------------------------------------------------
(***************************************************************************)
(* The invariant, for one buffer.                                          *)
(***************************************************************************)

\* What the client knows of its session: it is open throughout an automatic
\* mapping, and never without a mapping.
SessionOpen(b) ==
  /\ Mapped(b) => client[b].manual \/ client[b].session
  /\ client[b].session => Mapped(b)
  /\ AutomaticOnly => ~client[b].manual

\* Nothing is dirty without a session whose end will write it back.
DirtyInSession(b) ==
  /\ memory[b].dirty => client[b].session /\ "WRITE" \in client[b].access
  /\ b \in Usable =>
       /\ memory[b].dirty => OwnerIsCached(b)
       /\ client[b].session /\ client[b].manual /\ OwnerIsCached(b)
            => buffer[b].sync_started

\* Uncached memory is its own cache, and a readable session sees the memory.
CacheFresh(b) ==
  b \in Usable =>
    /\ ~OwnerIsCached(b) => memory[b].cache = memory[b].mem
    /\ client[b].session /\ "READ" \in client[b].access /\ ~memory[b].dirty
         => memory[b].cache = memory[b].mem

\* A session that is marked as started is one, if no map() ever fails.
StartedInSession(b) ==
  /\ b \in Usable /\ buffer[b].sync_started => OwnerIsCached(b)
  /\ "mmap" \notin Faults /\ buffer[b].sync_started => client[b].session

SessionsCoherent(b) ==
  /\ SessionOpen(b)
  /\ DirtyInSession(b)
  /\ "mmap" \notin Faults \/ AutomaticOnly => CacheFresh(b)
  /\ StartedInSession(b)

CoherenceInv == \A b \in Buffers : SessionsCoherent(b)

LEMMA CoherenceInvInit == Init => CoherenceInv
<1> SUFFICES ASSUME Init, NEW b \in Buffers PROVE SessionsCoherent(b)
  BY DEF CoherenceInv
<1>1. /\ buffer[b] = NoBuffer /\ client[b] = NoClient
      /\ memory[b].dirty = FALSE
      /\ b \notin Usable
  BY DEF Init, Usable, Live, NoBuffer
<1>2. ~Mapped(b) /\ ~client[b].manual /\ ~client[b].session /\ ~buffer[b].sync_started
  BY <1>1 DEF Mapped, NoBuffer, NoClient
<1>3. QED
  BY <1>1, <1>2 DEF SessionsCoherent, SessionOpen, DirtyInSession, CacheFresh,
                    StartedInSession

\* A buffer that a step leaves alone.
LEMMA CoherenceFrame ==
  ASSUME NEW b \in Buffers, SessionsCoherent(b),
         buffer'[b] = buffer[b], memory'[b] = memory[b], client'[b] = client[b],
         (b \in Usable)' => b \in Usable /\ (OwnerIsCached(b)' <=> OwnerIsCached(b))
  PROVE  SessionsCoherent(b)'
BY DEF SessionsCoherent, SessionOpen, DirtyInSession, CacheFresh, StartedInSession,
       Mapped, AutomaticOnly

\* A buffer nobody has mapped has no session, and its memory is clean.
LEMMA NoSessionUnmapped ==
  ASSUME NEW b \in Buffers, SessionsCoherent(b), ~Mapped(b)
  PROVE  ~client[b].session /\ ~memory[b].dirty
BY DEF SessionsCoherent, SessionOpen, DirtyInSession

-----------------------------------------------------------------------------
(***************************************************************************)
(* Allocators, the environment, and new buffers.                           *)
(***************************************************************************)
LEMMA CoherenceAllocator ==
  ASSUME RefInv, CoherenceInv, NEW a \in Allocators, AllocatorStep(a)
  PROVE  CoherenceInv'
<1>1. UNCHANGED <<buffer, memory, client>>
  BY DEF AllocatorStep, AllocatorNew, AllocatorNewFromFd, AllocatorDestroy
<1>2. ASSUME NEW b \in Buffers PROVE SessionsCoherent(b)'
  <2>1. (b \in Usable)' => b \in Usable /\ (OwnerIsCached(b)' <=> OwnerIsCached(b))
    <3>1. CASE UNCHANGED allocator
      BY <1>1, <3>1 DEF Usable, Live, Alive, OwnerIsCached
    <3>2. CASE Fresh(a) /\ \A c \in Allocators \ {a} : allocator'[c] = allocator[c]
      BY <1>1, <3>2 DEF Fresh, Usable, Live, Alive, OwnerIsCached
    <3>3. CASE AllocatorDestroy(a)
      BY <1>1, <3>3 DEF AllocatorDestroy, NoAllocator, Usable, Live, Alive,
                        OwnerIsCached, RefInv, TypeOK
    <3>4. QED
      BY <3>1, <3>2, <3>3
      DEF AllocatorStep, AllocatorNew, AllocatorNewFromFd, RefInv, TypeOK
  <2>2. SessionsCoherent(b)
    BY DEF CoherenceInv
  <2>3. buffer'[b] = buffer[b] /\ memory'[b] = memory[b] /\ client'[b] = client[b]
    BY <1>1
  <2>4. QED
    BY <2>1, <2>2, <2>3, CoherenceFrame
<1>3. QED
  BY <1>2 DEF CoherenceInv

\* The CPU, the device and the cache: what is written where follows the real
\* kind of the memory, which is what is_cached says.
LEMMA CachednessOfMemory ==
  ASSUME DescriptorInv, NEW b \in Usable
  PROVE  MemoryIsCached(b) <=> OwnerIsCached(b)
BY DEF DescriptorInv, CachednessKnown, Usable, MemoryIsCached, OwnerIsCached

LEMMA CoherenceAccess ==
  ASSUME RefInv, CoherenceInv, NEW b \in Buffers, NEW m \in Memories, Access(b, m),
         m.dirty => /\ client[b].session /\ "WRITE" \in client[b].access
                    /\ OwnerIsCached(b),
         ~OwnerIsCached(b) /\ memory[b].cache = memory[b].mem => m.cache = m.mem,
         client[b].session /\ ~m.dirty =>
           \/ m.cache = m.mem
           \/ m = memory[b]
  PROVE  CoherenceInv'
<1>1. /\ memory'[b] = m
      /\ \A c \in Buffers \ {b} : memory'[c] = memory[c]
      /\ UNCHANGED <<allocator, buffer, client>>
  BY DEF Access, RefInv, TypeOK
<1>2. /\ Usable' = Usable
      /\ \A c \in Buffers : OwnerIsCached(c)' <=> OwnerIsCached(c)
      /\ Mapped(b)' <=> Mapped(b)
  BY <1>1 DEF Usable, Live, Alive, OwnerIsCached, Mapped
<1>3. SessionsCoherent(b)
  BY DEF CoherenceInv
<1>4. SessionOpen(b)' /\ StartedInSession(b)'
  BY <1>1, <1>2, <1>3 DEF SessionsCoherent, SessionOpen, StartedInSession, AutomaticOnly
<1>5. DirtyInSession(b)'
  BY <1>1, <1>2, <1>3 DEF SessionsCoherent, DirtyInSession
<1>6. CacheFresh(b) => CacheFresh(b)'
  BY <1>1, <1>2 DEF CacheFresh
<1>7. SessionsCoherent(b)'
  BY <1>3, <1>4, <1>5, <1>6 DEF SessionsCoherent, AutomaticOnly
<1>8. \A c \in Buffers \ {b} : SessionsCoherent(c)'
  BY <1>1, <1>2, CoherenceFrame DEF CoherenceInv
<1>9. QED
  BY <1>7, <1>8 DEF CoherenceInv

LEMMA CoherenceEnvironment ==
  ASSUME RefInv, DescriptorInv, CoherenceInv, EnvironmentStep
  PROVE  CoherenceInv'
<1>1. CASE UNCHANGED <<allocator, buffer, memory, client>>
  BY <1>1, CoherenceFrame DEF CoherenceInv, Usable, Live, Alive, OwnerIsCached
<1>2. ASSUME NEW b \in Buffers, NEW v \in Values, CpuWrite(b, v)
      PROVE  CoherenceInv'
  <2> DEFINE m == IF MemoryIsCached(b)
                  THEN [memory[b] EXCEPT !.cache = v, !.dirty = TRUE]
                  ELSE [mem |-> v, cache |-> v, dirty |-> FALSE]
  <2>1. /\ Access(b, m) /\ b \in Usable
        /\ client[b].session /\ "WRITE" \in client[b].access
    BY <1>2 DEF CpuWrite, Access
  <2>2. memory[b] \in Memories
    BY DEF RefInv, TypeOK
  <2>3. /\ m \in Memories
        /\ m.dirty <=> MemoryIsCached(b)
        /\ ~m.dirty => m.cache = m.mem
    BY <2>2 DEF Memories
  <2> HIDE DEF m
  <2>4. QED
    BY <2>1, <2>3, CachednessOfMemory, CoherenceAccess
<1>3. ASSUME NEW b \in Buffers, NEW v \in Values, DeviceWrite(b, v)
      PROVE  CoherenceInv'
  <2> DEFINE m == IF MemoryIsCached(b)
                  THEN [memory[b] EXCEPT !.mem = v]
                  ELSE [mem |-> v, cache |-> v, dirty |-> FALSE]
  <2>1. Access(b, m) /\ b \in Usable /\ ~client[b].session
    BY <1>3 DEF DeviceWrite, Access
  <2>2. memory[b] \in Memories /\ ~memory[b].dirty
    BY <2>1 DEF RefInv, TypeOK, CoherenceInv, SessionsCoherent, DirtyInSession
  <2>3. /\ m \in Memories
        /\ ~m.dirty
        /\ ~MemoryIsCached(b) => m.cache = m.mem
    BY <2>2 DEF Memories
  <2> HIDE DEF m
  <2>4. QED
    BY <2>1, <2>3, CachednessOfMemory, CoherenceAccess
<1>4. ASSUME NEW b \in Buffers, CacheEvict(b)
      PROVE  CoherenceInv'
  <2>1. memory[b] \in Memories
    BY DEF RefInv, TypeOK
  <2>2. /\ PhysIoctl(memory[b]) \in Memories
        /\ ~PhysIoctl(memory[b]).dirty
        /\ PhysIoctl(memory[b]).cache = PhysIoctl(memory[b]).mem
    BY <2>1, PhysIoctlResult
  <2>3. QED
    BY <1>4, <2>2, CoherenceAccess DEF CacheEvict
<1>5. QED
  BY <1>1, <1>2, <1>3, <1>4 DEF EnvironmentStep, ClientOpenHeap, ClientCloseHeap

LEMMA CoherenceAllocate ==
  ASSUME RefInv, DescriptorInv, CoherenceInv, NEW a \in Allocators, NEW b \in Buffers,
         Allocate(b, a)
  PROVE  CoherenceInv'
<1>1. UNCHANGED <<allocator, client>> /\ Alive' = Alive /\ a \in Alive /\ b \notin Live
  BY DEF Allocate, Alive
<1>2. CASE UNCHANGED <<buffer, memory>>
  BY <1>1, <1>2, CoherenceFrame DEF CoherenceInv, Usable, Live, OwnerIsCached
<1>3. CASE AllocateSucceeds(b, a)
  <2>1. PICK v \in Values, w \in Values :
          /\ HeapIsCached(allocator[a].dma_heap_fd) \/ v = w
          /\ memory' = [memory EXCEPT ![b] = [mem |-> v, cache |-> w, dirty |-> FALSE]]
    BY <1>3 DEF AllocateSucceeds
  <2>2. /\ memory'[b] = [mem |-> v, cache |-> w, dirty |-> FALSE]
        /\ \A c \in Buffers \ {b} : memory'[c] = memory[c]
    BY <2>1 DEF RefInv, TypeOK
  <2>3. /\ buffer'[b].allocator = a
        /\ buffer'[b].mapped_virtual_address = Null
        /\ buffer'[b].sync_started = FALSE
        /\ \A c \in Buffers \ {b} : buffer'[c] = buffer[c]
    BY <1>3 DEF AllocateSucceeds, NoBuffer, RefInv, TypeOK
  <2>4. OwnerIsCached(b)' <=> HeapIsCached(allocator[a].dma_heap_fd)
    BY <1>1, <2>3 DEF OwnerIsCached, DescriptorInv, CachednessKnown
  <2>5. SessionsCoherent(b) /\ ~Mapped(b) /\ ~client[b].session
    BY <1>1, NoSessionUnmapped DEF CoherenceInv, RefInv, MappedAreLive
  <2>6. ~Mapped(b)' /\ ~client'[b].session
    BY <1>1, <2>3, <2>5 DEF Mapped
  <2>7. SessionOpen(b)'
    BY <1>1, <2>5, <2>6 DEF SessionsCoherent, SessionOpen, AutomaticOnly
  <2>8. DirtyInSession(b)' /\ StartedInSession(b)'
    BY <2>2, <2>3, <2>6 DEF DirtyInSession, StartedInSession
  <2>9. CacheFresh(b)'
    BY <2>1, <2>2, <2>4, <2>6 DEF CacheFresh
  <2>10. SessionsCoherent(b)'
    BY <2>7, <2>8, <2>9 DEF SessionsCoherent
  <2>11. \A c \in Buffers \ {b} : SessionsCoherent(c)'
    BY <1>1, <2>2, <2>3, CoherenceFrame DEF CoherenceInv, Usable, Live, OwnerIsCached
  <2>12. QED
    BY <2>10, <2>11 DEF CoherenceInv
<1>4. QED
  BY <1>2, <1>3 DEF Allocate, AllocateFails

-----------------------------------------------------------------------------
(***************************************************************************)
(* Calls on one buffer.                                                    *)
(***************************************************************************)
LEMMA CoherenceOne ==
  ASSUME CoherenceInv, NEW b \in Buffers, OthersUnchanged(b), UNCHANGED allocator,
         SessionsCoherent(b)'
  PROVE  CoherenceInv'
<1>1. ASSUME NEW c \in Buffers \ {b} PROVE SessionsCoherent(c)'
  <2>1. SessionsCoherent(c)
    BY DEF CoherenceInv
  <2>2. buffer'[c] = buffer[c] /\ memory'[c] = memory[c] /\ client'[c] = client[c]
    BY DEF OthersUnchanged
  <2>3. (c \in Usable)' => c \in Usable /\ (OwnerIsCached(c)' <=> OwnerIsCached(c))
    BY <2>2 DEF Usable, Live, Alive, OwnerIsCached
  <2>4. QED
    BY <2>1, <2>2, <2>3, CoherenceFrame
<1>2. QED
  BY <1>1 DEF CoherenceInv

LEMMA OwnerFrame ==
  ASSUME RefInv, NEW b \in Buffers, MappingStep(b)
  PROVE  /\ (b \in Usable)' <=> b \in Usable
         /\ OwnerIsCached(b)' <=> OwnerIsCached(b)
         /\ UNCHANGED allocator
<1>1. UNCHANGED allocator /\ buffer'[b].allocator = buffer[b].allocator
  BY MappingStepOwners DEF OwnersUnchanged
<1>2. QED
  BY <1>1 DEF Usable, Live, Alive, OwnerIsCached

\* The ioctl leaves nothing dirty and nothing stale.
LEMMA AfterIoctl ==
  ASSUME RefInv, NEW b \in Buffers
  PROVE  /\ ~PhysIoctl(memory[b]).dirty
         /\ PhysIoctl(memory[b]).cache = PhysIoctl(memory[b]).mem
BY PhysIoctlResult DEF RefInv, TypeOK

\* The first map: an automatic session begins, also if mmap() fails.
LEMMA CoherenceMapFirst ==
  ASSUME RefInv, CoherenceInv, NEW b \in Buffers, NEW h \in Handles,
         NEW f \in FlagChoices, Map(b, h, f), MapFirst(b, h, f)
  PROVE  CoherenceInv'
<1>1. PICK p \in Addrs \cup {Null}, s \in Contexts :
        /\ p = Null => "mmap" \in Faults
        /\ Store(b, s)
        /\ MapEffect(s, Context(b), b, MappingFlags(f), p)
        /\ MapSync(s, Context(b), MappingFlags(f), OwnerIsCached(b))
        /\ client' = IF p = Null THEN client
                     ELSE [client EXCEPT ![b] = FirstHolder(b, h, f, p)]
  BY MapFirstEffect
<1>2. /\ buffer'[b] = s.buf /\ memory'[b] = s.mem
      /\ OthersUnchanged(b)
  BY <1>1, StoreEffect DEF OthersUnchanged, RefInv, TypeOK
<1>3. /\ (b \in Usable)' <=> b \in Usable
      /\ OwnerIsCached(b)' <=> OwnerIsCached(b)
      /\ UNCHANGED allocator
  BY OwnerFrame DEF MappingStep
<1>4. Context(b).buf = buffer[b] /\ Context(b).mem = memory[b]
  BY DEF Context
<1>5. SessionsCoherent(b) /\ ~Mapped(b) /\ b \in Usable
  BY DEF CoherenceInv, Map, MapFirst
<1>6. ~client[b].session /\ ~memory[b].dirty
  BY <1>5, NoSessionUnmapped
<1> DEFINE auto == OwnerIsCached(b) /\ "MANUAL_SYNC" \notin f
<1>7. "MANUAL_SYNC" \in MappingFlags(f) <=> "MANUAL_SYNC" \in f
  BY FlagsType
<1>8. /\ auto => /\ memory'[b] = IF "READ" \in MappingFlags(f)
                                 THEN PhysIoctl(memory[b]) ELSE memory[b]
                 /\ buffer'[b].sync_started
      /\ ~auto => /\ memory'[b] = memory[b]
                  /\ buffer'[b].sync_started = buffer[b].sync_started
  BY <1>1, <1>2, <1>4, <1>7 DEF MapSync
<1> HIDE DEF auto
<1>9. ~memory'[b].dirty
  BY <1>6, <1>8, AfterIoctl
<1>10. CASE p = Null
  <2>1. client'[b] = client[b] /\ ~Mapped(b)' /\ "mmap" \in Faults
    BY <1>1, <1>2, <1>4, <1>5, <1>10 DEF MapEffect, Mapped
  <2>2. SessionOpen(b)'
    BY <1>5, <2>1 DEF SessionsCoherent, SessionOpen, AutomaticOnly, Mapped
  <2>3. DirtyInSession(b)'
    BY <1>6, <1>9, <2>1 DEF DirtyInSession
  <2>4. CacheFresh(b) => CacheFresh(b)'
    BY <1>3, <1>6, <1>8, <2>1 DEF CacheFresh, auto
  <2>5. StartedInSession(b)'
    BY <1>3, <1>5, <1>8, <2>1 DEF SessionsCoherent, StartedInSession, auto
  <2>6. SessionsCoherent(b)'
    BY <1>5, <2>2, <2>3, <2>4, <2>5 DEF SessionsCoherent, AutomaticOnly
  <2>7. QED
    BY <1>2, <1>3, <2>6, CoherenceOne
<1>11. CASE p # Null
  <2>1. client'[b] = FirstHolder(b, h, f, p) /\ Mapped(b)'
    BY <1>1, <1>2, <1>11 DEF MapEffect, Mapped, RefInv, TypeOK
  <2>2. /\ client'[b].access = MappingFlags(f) \cap ReadWrite
        /\ client'[b].manual <=> "MANUAL_SYNC" \in f
        /\ client'[b].session <=> "MANUAL_SYNC" \notin f
    <3>1. /\ client'[b].access = RequestedRights(f)
          /\ client'[b].manual = ("MANUAL_SYNC" \in f)
          /\ client'[b].session = ("MANUAL_SYNC" \notin f)
      BY <2>1 DEF FirstHolder
    <3>2. QED
      BY <3>1, FlagsType
  <2>3. SessionOpen(b)'
    BY <2>1, <2>2 DEF SessionOpen, AutomaticOnly
  <2>4. DirtyInSession(b)'
    BY <1>9, <2>2 DEF DirtyInSession
  <2>5. CacheFresh(b) => CacheFresh(b)'
    <3>1. auto /\ "READ" \in client'[b].access => memory'[b].cache = memory'[b].mem
      BY <1>8, <2>2, AfterIoctl
    <3>2. QED
      BY <1>3, <1>8, <2>2, <3>1 DEF CacheFresh, auto
  <2>6. StartedInSession(b)'
    BY <1>3, <1>5, <1>6, <1>8, <2>2 DEF SessionsCoherent, StartedInSession, auto
  <2>7. SessionsCoherent(b)'
    BY <1>5, <2>3, <2>4, <2>5, <2>6 DEF SessionsCoherent, AutomaticOnly
  <2>8. QED
    BY <1>2, <1>3, <2>7, CoherenceOne
<1>12. QED
  BY <1>10, <1>11

LEMMA CoherenceMapAgain ==
  ASSUME RefInv, CoherenceInv, NEW b \in Buffers, NEW h \in Handles,
         NEW f \in FlagChoices, Map(b, h, f), MapAgain(b, h, f)
  PROVE  CoherenceInv'
<1>1. /\ buffer'[b] = [buffer[b] EXCEPT !.mapping_refcount = @ + 1]
      /\ client'[b] = [client[b] EXCEPT
           !.held = [client[b].held EXCEPT ![h] = buffer[b].mapped_virtual_address]]
      /\ UNCHANGED memory
      /\ OthersUnchanged(b)
  BY MapAgainEffect DEF OthersUnchanged
<1>2. buffer[b] \in BufferRecords /\ client[b] \in ClientRecords
  BY DEF RefInv, TypeOK
<1>3. /\ buffer'[b].mapped_virtual_address = buffer[b].mapped_virtual_address
      /\ buffer'[b].sync_started = buffer[b].sync_started
      /\ client'[b].access = client[b].access
      /\ client'[b].manual = client[b].manual
      /\ client'[b].session = client[b].session
  BY <1>1, <1>2 DEF BufferRecords, ClientRecords
<1>4. /\ (b \in Usable)' <=> b \in Usable
      /\ OwnerIsCached(b)' <=> OwnerIsCached(b)
      /\ UNCHANGED allocator
  BY OwnerFrame DEF MappingStep
<1>5. SessionsCoherent(b)
  BY DEF CoherenceInv
<1>6. SessionsCoherent(b)'
  BY <1>1, <1>3, <1>4, <1>5
  DEF SessionsCoherent, SessionOpen, DirtyInSession, CacheFresh, StartedInSession,
      Mapped, AutomaticOnly
<1>7. QED
  BY <1>1, <1>4, <1>6, CoherenceOne

\* The last unmap writes back what an automatic session left dirty; a manual
\* session was stopped before.
LEMMA CoherenceUnmap ==
  ASSUME RefInv, MappingInv, CoherenceInv, NEW b \in Buffers, NEW h \in Handles,
         Unmap(b, h)
  PROVE  CoherenceInv'
<1>1. PICK s \in Contexts :
        /\ Store(b, s)
        /\ UnmapEffect(s, Context(b))
        /\ UnmapSync(s, Context(b), OwnerIsCached(b))
  BY UnmapStepEffect
<1>2. /\ buffer'[b] = s.buf /\ memory'[b] = s.mem
      /\ OthersUnchanged(b)
  BY <1>1, StoreEffect, UnmapClient DEF OthersUnchanged
<1>3. /\ (b \in Usable)' <=> b \in Usable
      /\ OwnerIsCached(b)' <=> OwnerIsCached(b)
      /\ UNCHANGED allocator
  BY OwnerFrame DEF MappingStep
<1>4. Context(b).buf = buffer[b] /\ Context(b).mem = memory[b]
  BY DEF Context
<1>5. /\ SessionsCoherent(b)
      /\ b \in Usable /\ Mapped(b)
      /\ client[b] \in ClientRecords
  BY UnmapClient, BufferFacts DEF CoherenceInv
<1>6. CASE buffer[b].mapping_refcount # 1
  <2>1. /\ memory'[b] = memory[b]
        /\ buffer'[b].sync_started = buffer[b].sync_started
        /\ buffer'[b].mapped_virtual_address = buffer[b].mapped_virtual_address
    BY <1>1, <1>2, <1>4, <1>6 DEF UnmapEffect, UnmapSync
  <2>2. client'[b] = [client[b] EXCEPT !.held = [client[b].held EXCEPT ![h] = Null]]
    BY <1>6, UnmapClient
  <2>3. /\ client'[b].access = client[b].access
        /\ client'[b].manual = client[b].manual
        /\ client'[b].session = client[b].session
    BY <1>5, <2>2 DEF ClientRecords
  <2>4. SessionsCoherent(b)'
    BY <1>3, <1>5, <2>1, <2>3
    DEF SessionsCoherent, SessionOpen, DirtyInSession, CacheFresh, StartedInSession,
        Mapped, AutomaticOnly
  <2>5. QED
    BY <1>2, <1>3, <2>4, CoherenceOne
<1>7. CASE buffer[b].mapping_refcount = 1
  <2>1. /\ memory'[b] = IF /\ OwnerIsCached(b)
                           /\ "MANUAL_SYNC" \notin buffer[b].map_flags
                           /\ "WRITE" \in buffer[b].map_flags
                        THEN PhysIoctl(memory[b]) ELSE memory[b]
        /\ buffer'[b].sync_started =
             (buffer[b].sync_started
                /\ ~(OwnerIsCached(b) /\ "MANUAL_SYNC" \notin buffer[b].map_flags))
        /\ ~Mapped(b)'
    BY <1>1, <1>2, <1>4, <1>7 DEF UnmapEffect, UnmapSync, IsManual, Mapped
  <2>2. client'[b] = NoClient /\ ~(client[b].manual /\ client[b].session)
    BY <1>7, UnmapClient DEF Unmap
  <2>3. ~client'[b].session /\ ~client'[b].manual
    BY <2>2 DEF NoClient
  <2>4. /\ client[b].access = buffer[b].map_flags \cap ReadWrite
        /\ client[b].manual <=> "MANUAL_SYNC" \in buffer[b].map_flags
    BY <1>5 DEF MappingInv, MappingHeld
  <2>5. ~memory'[b].dirty
    <3>1. memory[b].dirty => /\ OwnerIsCached(b)
                            /\ "MANUAL_SYNC" \notin buffer[b].map_flags
                            /\ "WRITE" \in buffer[b].map_flags
      BY <1>5, <2>2, <2>4 DEF SessionsCoherent, DirtyInSession
    <3>2. QED
      BY <2>1, <3>1, AfterIoctl
  <2>6. SessionOpen(b)' /\ DirtyInSession(b)'
    BY <2>1, <2>3, <2>5 DEF SessionOpen, DirtyInSession
  <2>7. CacheFresh(b) => CacheFresh(b)'
    BY <1>3, <2>1, <2>3 DEF CacheFresh
  <2>8. StartedInSession(b)'
    <3>1. buffer'[b].sync_started => buffer[b].sync_started /\ OwnerIsCached(b)
      BY <1>5, <2>1 DEF SessionsCoherent, StartedInSession
    <3>2. "mmap" \notin Faults => ~buffer'[b].sync_started
      BY <1>5, <2>1, <2>2, <2>4, <3>1 DEF SessionsCoherent, StartedInSession
    <3>3. QED
      BY <1>3, <3>1, <3>2 DEF StartedInSession
  <2>9. SessionsCoherent(b)'
    BY <1>5, <2>6, <2>7, <2>8 DEF SessionsCoherent, AutomaticOnly
  <2>10. QED
    BY <1>2, <1>3, <2>9, CoherenceOne
<1>8. QED
  BY <1>6, <1>7

\* Both session calls, on the context k of a mapped buffer.
SessionCallEffect(s, k, ioctl, started) ==
  /\ SameMapping(s, k)
  /\ s.mem = IF ioctl THEN PhysIoctl(k.mem) ELSE k.mem
  /\ s.buf.sync_started <=> started

LEMMA StartSyncResult ==
  ASSUME NEW k \in Contexts, NEW c \in BOOLEAN,
         NEW s, s = IF c THEN StartSync(k) ELSE k
  PROVE  /\ s \in Contexts
         /\ SessionCallEffect(s, k,
              /\ c /\ IsManual(k) /\ ~k.buf.sync_started
              /\ "READ" \in k.buf.map_flags,
              k.buf.sync_started \/ (c /\ IsManual(k)))
<1>1. CASE c /\ IsManual(k) /\ ~k.buf.sync_started
  BY <1>1, StartSyncImplResult DEF StartSync, SessionCallEffect
<1>2. CASE ~(c /\ IsManual(k) /\ ~k.buf.sync_started)
  BY <1>2 DEF StartSync, SessionCallEffect, SameMapping
<1>3. QED
  BY <1>1, <1>2

LEMMA StopSyncCallResult ==
  ASSUME NEW k \in Contexts, NEW c \in BOOLEAN,
         NEW s, s = IF c THEN StopSync(k) ELSE k
  PROVE  /\ s \in Contexts
         /\ SessionCallEffect(s, k,
              /\ c /\ IsManual(k) /\ k.buf.sync_started
              /\ "WRITE" \in k.buf.map_flags,
              k.buf.sync_started /\ ~(c /\ IsManual(k)))
<1>1. CASE c /\ IsManual(k) /\ k.buf.sync_started
  BY <1>1, StopSyncImplResult DEF StopSync, SessionCallEffect
<1>2. CASE ~(c /\ IsManual(k) /\ k.buf.sync_started)
  BY <1>2 DEF StopSync, SessionCallEffect, SameMapping
<1>3. QED
  BY <1>1, <1>2

\* What the invariants say of a mapped buffer the client can use.
LEMMA MappedFacts ==
  ASSUME RefInv, MappingInv, CoherenceInv, NEW b \in Buffers, Holders(b) # {}
  PROVE  /\ SessionsCoherent(b) /\ Mapped(b)
         /\ Context(b) \in Contexts
         /\ Context(b).buf = buffer[b] /\ Context(b).mem = memory[b]
         /\ client[b].access = buffer[b].map_flags \cap ReadWrite
         /\ client[b].manual <=> IsManual(Context(b))
<1>1. Mapped(b) /\ MappingHeld(b) /\ Context(b) \in Contexts
  BY BufferFacts DEF MappingInv
<1>2. QED
  BY <1>1 DEF CoherenceInv, MappingHeld, Context, IsManual

LEMMA CoherenceStartSync ==
  ASSUME RefInv, MappingInv, CoherenceInv, NEW b \in Buffers, StartSyncSession(b)
  PROVE  CoherenceInv'
<1> DEFINE k == Context(b)
           c == OwnerIsCached(b)
           s == IF c THEN StartSync(k) ELSE k
<1>1. /\ SessionsCoherent(b) /\ Mapped(b) /\ b \in Usable
      /\ k \in Contexts /\ c \in BOOLEAN
      /\ k.buf = buffer[b] /\ k.mem = memory[b]
      /\ client[b].access = buffer[b].map_flags \cap ReadWrite
      /\ client[b].manual <=> IsManual(k)
  BY MappedFacts, BufferFacts DEF StartSyncSession
<1>2. s = (IF c THEN StartSync(k) ELSE k) /\ Store(b, s)
  BY DEF StartSyncSession
<1>3. client' = [client EXCEPT ![b].session = TRUE]
  BY DEF StartSyncSession
<1>4. /\ (b \in Usable)' <=> b \in Usable
      /\ OwnerIsCached(b)' <=> c
      /\ UNCHANGED allocator
  BY OwnerFrame DEF MappingStep
<1> HIDE DEF s, k, c
<1>5. /\ s \in Contexts
      /\ SessionCallEffect(s, k,
           c /\ IsManual(k) /\ ~k.buf.sync_started /\ "READ" \in k.buf.map_flags,
           k.buf.sync_started \/ (c /\ IsManual(k)))
  BY <1>1, <1>2, StartSyncResult
<1>6. /\ buffer'[b] = s.buf /\ memory'[b] = s.mem
      /\ OthersUnchanged(b)
  BY <1>2, <1>3, <1>5, StoreEffect DEF OthersUnchanged, RefInv, TypeOK
<1>7. /\ Mapped(b)'
      /\ memory'[b] = IF c /\ IsManual(k) /\ ~buffer[b].sync_started
                           /\ "READ" \in buffer[b].map_flags
                      THEN PhysIoctl(memory[b]) ELSE memory[b]
      /\ buffer'[b].sync_started <=> buffer[b].sync_started \/ (c /\ IsManual(k))
  BY <1>1, <1>5, <1>6 DEF SessionCallEffect, SameMapping, Mapped
<1>8. /\ client'[b].access = client[b].access
      /\ client'[b].manual = client[b].manual
      /\ client'[b].session = TRUE
  BY <1>3 DEF RefInv, TypeOK, ClientRecords
<1>9. SessionOpen(b)'
  BY <1>1, <1>7, <1>8 DEF SessionsCoherent, SessionOpen, AutomaticOnly
<1>10. DirtyInSession(b)'
  <2>1. memory'[b].dirty => memory[b].dirty
    BY <1>7, AfterIoctl
  <2>2. QED
    BY <1>1, <1>4, <1>7, <1>8, <2>1 DEF SessionsCoherent, DirtyInSession, c
<1>11. ASSUME "mmap" \notin Faults \/ AutomaticOnly PROVE CacheFresh(b)'
  <2>1. CacheFresh(b)
    BY <1>1, <1>11 DEF SessionsCoherent
  <2>2. CASE c /\ IsManual(k) /\ ~buffer[b].sync_started /\ "READ" \in buffer[b].map_flags
    BY <1>4, <1>7, <2>2, AfterIoctl DEF CacheFresh
  <2>3. CASE ~("READ" \in buffer[b].map_flags)
    BY <1>1, <1>4, <1>7, <1>8, <2>1, <2>3 DEF CacheFresh, c
  <2>4. CASE client[b].session
    BY <1>4, <1>7, <1>8, <2>1, <2>2, <2>4 DEF CacheFresh, c
  <2>5. CASE ~c
    BY <1>1, <1>4, <1>7, <2>1, <2>5 DEF CacheFresh, c
  <2>6. IsManual(k) \/ client[b].session
    BY <1>1 DEF SessionsCoherent, SessionOpen
  <2>7. buffer[b].sync_started /\ IsManual(k) => client[b].session
    BY <1>1, <1>11 DEF SessionsCoherent, SessionOpen, StartedInSession
  <2>8. QED
    BY <2>2, <2>3, <2>4, <2>5, <2>6, <2>7
<1>12. StartedInSession(b)'
  BY <1>1, <1>4, <1>7, <1>8 DEF SessionsCoherent, StartedInSession, c
<1>13. SessionsCoherent(b)'
  BY <1>9, <1>10, <1>11, <1>12 DEF SessionsCoherent, AutomaticOnly
<1>14. QED
  BY <1>4, <1>6, <1>13, CoherenceOne

\* The end of a manual session writes back what it left dirty.
LEMMA CoherenceStopSync ==
  ASSUME RefInv, MappingInv, CoherenceInv, NEW b \in Buffers, StopSyncSession(b)
  PROVE  CoherenceInv'
<1> DEFINE k == Context(b)
           c == OwnerIsCached(b)
           s == IF c THEN StopSync(k) ELSE k
<1>1. /\ SessionsCoherent(b) /\ Mapped(b) /\ b \in Usable
      /\ k \in Contexts /\ c \in BOOLEAN
      /\ k.buf = buffer[b] /\ k.mem = memory[b]
      /\ client[b].access = buffer[b].map_flags \cap ReadWrite
      /\ client[b].manual <=> IsManual(k)
  BY MappedFacts, BufferFacts DEF StopSyncSession
<1>2. s = (IF c THEN StopSync(k) ELSE k) /\ Store(b, s)
  BY DEF StopSyncSession
<1>3. client' = [client EXCEPT ![b].session = client[b].session /\ ~client[b].manual]
  BY DEF StopSyncSession, RefInv, TypeOK
<1>4. /\ (b \in Usable)' <=> b \in Usable
      /\ OwnerIsCached(b)' <=> c
      /\ UNCHANGED allocator
  BY OwnerFrame DEF MappingStep
<1> HIDE DEF s, k, c
<1>5. /\ s \in Contexts
      /\ SessionCallEffect(s, k,
           c /\ IsManual(k) /\ k.buf.sync_started /\ "WRITE" \in k.buf.map_flags,
           k.buf.sync_started /\ ~(c /\ IsManual(k)))
  BY <1>1, <1>2, StopSyncCallResult
<1>6. /\ buffer'[b] = s.buf /\ memory'[b] = s.mem
      /\ OthersUnchanged(b)
  BY <1>2, <1>3, <1>5, StoreEffect DEF OthersUnchanged, RefInv, TypeOK
<1>7. /\ Mapped(b)'
      /\ memory'[b] = IF c /\ IsManual(k) /\ buffer[b].sync_started
                           /\ "WRITE" \in buffer[b].map_flags
                      THEN PhysIoctl(memory[b]) ELSE memory[b]
      /\ buffer'[b].sync_started <=> buffer[b].sync_started /\ ~(c /\ IsManual(k))
  BY <1>1, <1>5, <1>6 DEF SessionCallEffect, SameMapping, Mapped
<1>8. /\ client'[b].access = client[b].access
      /\ client'[b].manual = client[b].manual
      /\ client'[b].session = (client[b].session /\ ~client[b].manual)
  BY <1>3 DEF RefInv, TypeOK, ClientRecords
<1>9. SessionOpen(b)'
  BY <1>1, <1>7, <1>8 DEF SessionsCoherent, SessionOpen, AutomaticOnly
<1>10. memory[b].dirty /\ client[b].manual => ~memory'[b].dirty
  <2>1. memory[b].dirty /\ client[b].manual =>
          c /\ IsManual(k) /\ buffer[b].sync_started /\ "WRITE" \in buffer[b].map_flags
    BY <1>1 DEF SessionsCoherent, DirtyInSession, c
  <2>2. QED
    BY <1>7, <2>1, AfterIoctl
<1>11. DirtyInSession(b)'
  <2>1. memory'[b].dirty => memory[b].dirty
    BY <1>7, AfterIoctl
  <2>2. QED
    BY <1>1, <1>4, <1>7, <1>8, <1>10, <2>1 DEF SessionsCoherent, DirtyInSession, c
<1>12. CacheFresh(b) => CacheFresh(b)'
  <2>1. CASE client[b].manual
    BY <1>1, <1>4, <1>7, <1>8, <2>1, AfterIoctl DEF CacheFresh, c
  <2>2. CASE ~client[b].manual
    BY <1>1, <1>4, <1>7, <1>8, <2>2 DEF CacheFresh, c
  <2>3. QED
    BY <2>1, <2>2
<1>13. StartedInSession(b)'
  BY <1>1, <1>4, <1>7, <1>8 DEF SessionsCoherent, StartedInSession, c
<1>14. SessionsCoherent(b)'
  BY <1>1, <1>9, <1>11, <1>12, <1>13 DEF SessionsCoherent, AutomaticOnly
<1>15. QED
  BY <1>4, <1>6, <1>14, CoherenceOne

LEMMA CoherenceUnmapIdle ==
  ASSUME RefInv, CoherenceInv, NEW b \in Buffers, UnmapIdle(b)
  PROVE  CoherenceInv'
<1>1. UnmapCall(Context(b), OwnerIsCached(b)) = Context(b)
  BY BufferFacts DEF UnmapIdle, UnmapCall, Context, Mapped
<1>2. Store(b, Context(b)) /\ UNCHANGED <<allocator, client>> /\ Context(b) \in Contexts
  BY <1>1, BufferFacts DEF UnmapIdle
<1>3. buffer'[b] = buffer[b] /\ memory'[b] = memory[b] /\ OthersUnchanged(b)
  BY <1>2, StoreEffect DEF OthersUnchanged, Context
<1>4. SessionsCoherent(b)'
  <2>1. SessionsCoherent(b) /\ client'[b] = client[b]
    BY <1>2 DEF CoherenceInv
  <2>2. (b \in Usable)' => b \in Usable /\ (OwnerIsCached(b)' <=> OwnerIsCached(b))
    BY OwnerFrame DEF MappingStep
  <2>3. QED
    BY <1>3, <2>1, <2>2, CoherenceFrame
<1>5. QED
  BY <1>2, <1>3, <1>4, CoherenceOne

\* Deallocation ends whichever session is open.
LEMMA CoherenceDeallocate ==
  ASSUME RefInv, MappingInv, CoherenceInv, NEW b \in Buffers, Deallocate(b)
  PROVE  CoherenceInv'
<1>1. PICK s \in Contexts :
        Store(b, s) /\ DeallocateEffect(s, Context(b), OwnerIsCached(b))
  BY DeallocateStepEffect
<1>2. /\ buffer'[b] = NoBuffer /\ client'[b] = NoClient /\ memory'[b] = s.mem
      /\ OthersUnchanged(b)
      /\ UNCHANGED allocator
  BY <1>1, StoreEffect DEF Deallocate, DeallocateEffect, OthersUnchanged, RefInv, TypeOK
<1>3. /\ ~Mapped(b)' /\ ~buffer'[b].sync_started
      /\ ~client'[b].session /\ ~client'[b].manual
      /\ ~(b \in Usable)'
  BY <1>2 DEF Mapped, NoBuffer, NoClient, Usable, Live
<1>4. /\ Context(b).buf = buffer[b] /\ Context(b).mem = memory[b]
      /\ b \in Usable /\ SessionsCoherent(b)
  BY DEF Context, Deallocate, CoherenceInv
<1>5. ~memory'[b].dirty
  <2>1. CASE ~Mapped(b)
    BY <1>1, <1>2, <1>4, <2>1, NoSessionUnmapped DEF DeallocateEffect, Mapped
  <2>2. CASE Mapped(b)
    <3>1. memory'[b] = IF EndsSession(Context(b), OwnerIsCached(b))
                       THEN PhysIoctl(memory[b]) ELSE memory[b]
      BY <1>1, <1>2, <1>4, <2>2 DEF DeallocateEffect, Mapped
    <3>2. /\ client[b].access = buffer[b].map_flags \cap ReadWrite
          /\ client[b].manual <=> IsManual(Context(b))
      BY <2>2, BufferFacts, MappedFacts
    <3>3. memory[b].dirty => EndsSession(Context(b), OwnerIsCached(b))
      BY <1>4, <3>2 DEF SessionsCoherent, DirtyInSession, EndsSession
    <3>4. QED
      BY <3>1, <3>3, AfterIoctl
  <2>3. QED
    BY <2>1, <2>2
<1>6. SessionsCoherent(b)'
  BY <1>3, <1>5 DEF SessionsCoherent, SessionOpen, DirtyInSession, CacheFresh,
                    StartedInSession
<1>7. QED
  BY <1>2, <1>6, CoherenceOne

LEMMA CoherenceInvStep ==
  OwnershipInv /\ CoherenceInv /\ [Next]_vars => CoherenceInv'
<1> SUFFICES ASSUME OwnershipInv, CoherenceInv, [Next]_vars PROVE CoherenceInv'
  OBVIOUS
<1>1. RefInv /\ DescriptorInv /\ MappingInv
  BY DEF OwnershipInv
<1>2. CASE UNCHANGED vars
  BY <1>2, CoherenceFrame DEF vars, CoherenceInv, Usable, Live, Alive, OwnerIsCached
<1>3. ASSUME NEW a \in Allocators, AllocatorStep(a) PROVE CoherenceInv'
  BY <1>1, <1>3, CoherenceAllocator
<1>4. CASE EnvironmentStep
  BY <1>1, <1>4, CoherenceEnvironment
<1>5. ASSUME NEW b \in Buffers, MappingStep(b) PROVE CoherenceInv'
  BY <1>1, <1>5, CoherenceMapFirst, CoherenceMapAgain, CoherenceUnmap,
     CoherenceUnmapIdle, CoherenceStartSync, CoherenceStopSync
  DEF MappingStep, Map
<1>6. ASSUME NEW b \in Buffers, BufferStep(b) PROVE CoherenceInv'
  BY <1>1, <1>5, <1>6, BufferStepCases, CoherenceAllocate, CoherenceDeallocate
<1>7. QED
  BY <1>2, <1>3, <1>4, <1>6 DEF Next

LEMMA CoherenceInvariant == Spec => [](OwnershipInv /\ CoherenceInv)
<1>1. Init => OwnershipInv /\ CoherenceInv
  BY RefInvInit, DescriptorInvInit, MappingInvInit, CoherenceInvInit DEF OwnershipInv
<1>2. OwnershipInv /\ CoherenceInv /\ [Next]_vars => (OwnershipInv /\ CoherenceInv)'
  BY RefInvStep, DescriptorInvStep, MappingInvStep, CoherenceInvStep DEF OwnershipInv
<1>3. QED
  BY <1>1, <1>2, PTL DEF Spec

\* Whatever the CPU wrote has reached the memory when the session is over:
\* through redundant maps, early deallocation, failed maps and all flags.
THEOREM DeviceNotStale == Spec => []DeviceSeesCpuWrites
<1>1. CoherenceInv => DeviceSeesCpuWrites
  BY DEF CoherenceInv, SessionsCoherent, DirtyInSession, DeviceSeesCpuWrites
<1>2. QED
  BY <1>1, CoherenceInvariant, PTL

\* The CPU reads what the device wrote, on every cached or uncached heap, if
\* no map() fails or nobody manages sessions manually. Where both happen the
\* property does not hold.
THEOREM CpuNotStale ==
  ASSUME "mmap" \notin Faults \/ AutomaticOnly
  PROVE  Spec => []CpuSeesDeviceWrites
<1>1. CoherenceInv => CpuSeesDeviceWrites
  <2> SUFFICES ASSUME CoherenceInv, NEW b \in Usable,
                      client[b].session, "READ" \in client[b].access, ~memory[b].dirty
               PROVE  memory[b].cache = memory[b].mem
    BY DEF CpuSeesDeviceWrites
  <2>1. b \in Buffers
    BY DEF Usable, Live
  <2>2. CacheFresh(b)
    BY <2>1 DEF CoherenceInv, SessionsCoherent
  <2>3. QED
    BY <2>2 DEF CacheFresh
<1>2. QED
  BY <1>1, CoherenceInvariant, PTL

=============================================================================
