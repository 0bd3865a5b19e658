------------------------ MODULE AlignedContractProofs ------------------------
(***************************************************************************)
(* The four aligned allocators own exactly the memory, descriptors and     *)
(* mappings that they use, and implement the contract of imxdmabuffer.h.   *)
(***************************************************************************)
EXTENDS AlignedAllocatorsProofs

-----------------------------------------------------------------------------
(***************************************************************************)
(* The inductive invariant, which extends GrantInv.                        *)
(***************************************************************************)
VmRecords == [maps : Nat, start : Nat, prot : SUBSET ReadWrite]

KernelTypes ==
  /\ fdTable \in [Fds -> {"closed", "node", "client"}]
  /\ vm \in [Buffers -> VmRecords]

\* A buffer's memory was granted for it, also the part below the aligned
\* address, which IPU and PxP map, and the range that DWL and G2D map.
MemoryHeld(b) ==
  b \in Live =>
    /\ WithinOwnChunk(b, Extent(buffer[b].physical_address, buffer[b].size))
    /\ ~UsesNode(b) => WithinOwnChunk(b, CpuRange(b))

\* How a buffer is mapped, with a node, without one, and once it is gone.
NodeMapping(b) ==
  /\ buffer[b].mapped <=> client[b].held # {}
  /\ vm[b].maps = IF buffer[b].mapped THEN 1 ELSE 0
  /\ buffer[b].mapped =>
       /\ buffer[b].map_flags \in FlagChoices
       /\ vm[b].start = buffer[b].physical_address
       /\ vm[b].prot = buffer[b].map_flags
       /\ client[b].access = Requested(buffer[b].map_flags)

LinearMapping(b) ==
  /\ vm[b].maps = 1 /\ vm[b].prot = ReadWrite
  /\ client[b].held # {} => client[b].access = buffer[b].map_flags

NoMapping(b) == vm[b].maps = 0 /\ ~buffer[b].mapped /\ client[b].held = {}

MappingHeld(b) ==
  /\ buffer[b].mapping_refcount = Cardinality(client[b].held)
  /\ client[b].held = {} => client[b].access = {}
  /\ IF b \notin Live THEN NoMapping(b)
     ELSE IF UsesNode(b) THEN NodeMapping(b) ELSE LinearMapping(b)

\* Chunks start at different addresses, each where a live buffer's does.
ChunksOwned ==
  /\ \A c, d \in chunks : c.start = d.start => c = d
  /\ \A c \in chunks : \E b \in Live : buffer[b].physical_address = c.start

\* A descriptor the library opened has one allocator, which will close it; a
\* client's may have many.
DescriptorHeld(a) ==
  IF allocator[a].kind = "G2D"
  THEN allocator[a].fd = NoFd /\ ~allocator[a].internal
  ELSE /\ allocator[a].fd \in Fds
       /\ fdTable[allocator[a].fd] = IF allocator[a].internal THEN "node" ELSE "client"

NodesOwned ==
  /\ \A a \in Alive : DescriptorHeld(a)
  /\ \A a, c \in Alive : allocator[a].internal /\ allocator[c].fd = allocator[a].fd => a = c
  /\ \A fd \in Fds : fdTable[fd] = "node" =>
       \E a \in Alive : allocator[a].fd = fd /\ allocator[a].internal

AlignedInv ==
  /\ GrantInv
  /\ KernelTypes
  /\ ChunksOwned
  /\ NodesOwned
  /\ \A b \in Buffers : MemoryHeld(b) /\ MappingHeld(b)

LEMMA AlignedInvInit == Init => AlignedInv
<1> SUFFICES ASSUME Init PROVE AlignedInv
  OBVIOUS
<1>1. Live = {} /\ Alive = {}
  BY DEF Init, Live, Alive, NoBuffer, NoAllocator
<1>2. KernelTypes
  BY DEF Init, KernelTypes, VmRecords, Unmapped
<1>3. ChunksOwned
  BY DEF Init, ChunksOwned
<1>4. NodesOwned
  BY <1>1 DEF Init, NodesOwned
<1>5. ASSUME NEW b \in Buffers PROVE MemoryHeld(b) /\ MappingHeld(b)
  <2>1. buffer[b] = NoBuffer /\ client[b] = NoClient /\ vm[b] = Unmapped
    BY DEF Init
  <2>2. QED
    BY <1>1, <2>1, FS_EmptySet
    DEF MemoryHeld, MappingHeld, NoMapping, NoBuffer, NoClient, Unmapped
<1>6. QED
  BY <1>2, <1>3, <1>4, <1>5, GrantInvInit DEF AlignedInv

-----------------------------------------------------------------------------
(***************************************************************************)
(* Frames: what a step that leaves a buffer alone keeps of it.             *)
(***************************************************************************)
LEMMA SameKind ==
  ASSUME NEW b \in Live, NEW a \in Alive, buffer[b].allocator = {a},
         buffer'[b].allocator = {a}, allocator'[a] = allocator[a]
  PROVE  KindOf(b)' = KindOf(b) /\ (UsesNode(b)' <=> UsesNode(b))
<1>1. KindOf(b) = allocator[a].kind
  BY KindIs
<1>2. KindOf(b)' = allocator'[a].kind
  <2>1. {allocator'[x].kind : x \in buffer'[b].allocator} = {allocator'[a].kind}
    OBVIOUS
  <2>2. KindOf(b)' \in {allocator'[a].kind}
    BY <2>1 DEF KindOf
  <2>3. QED
    BY <2>2
<1>3. QED
  BY <1>1, <1>2 DEF UsesNode

SamePart(b) ==
  /\ buffer'[b] = buffer[b]
  /\ vm'[b] = vm[b]
  /\ client'[b] = client[b]

KeepsAllocator(b) ==
  \A a \in Alive : buffer[b].allocator = {a} => allocator'[a] = allocator[a]

LEMMA PartKept ==
  ASSUME GrantInv, NEW b \in Buffers, MemoryHeld(b), MappingHeld(b), SamePart(b),
         b \in Live => KeepsAllocator(b) /\ ChunkOf(b) \subseteq ChunkOf(b)'
  PROVE  MemoryHeld(b)' /\ MappingHeld(b)'
<1>1. b \in Live' <=> b \in Live
  BY DEF SamePart, Live
<1>2. CASE b \notin Live
  BY <1>1, <1>2 DEF MemoryHeld, MappingHeld, NoMapping, SamePart
<1>3. CASE b \in Live
  <2>1. PICK a \in Alive : buffer[b].allocator = {a}
    BY <1>3 DEF GrantInv, Placed, PlacedIn
  <2>2. UsesNode(b)' <=> UsesNode(b)
    BY <1>3, <2>1, SameKind DEF SamePart, KeepsAllocator
  <2>3. ASSUME NEW S, WithinOwnChunk(b, S) PROVE WithinOwnChunk(b, S)'
    BY <1>3, <2>3 DEF WithinOwnChunk, Addresses, Extent
  <2>4. CpuRange(b)' = CpuRange(b)
    BY DEF CpuRange, SamePart
  <2>5. MemoryHeld(b)'
    BY <1>3, <2>2, <2>3, <2>4 DEF MemoryHeld, SamePart
  <2>6. MappingHeld(b)'
    BY <1>1, <1>3, <2>2 DEF MappingHeld, NodeMapping, LinearMapping, SamePart
  <2>7. QED
    BY <2>5, <2>6
<1>4. QED
  BY <1>2, <1>3

LEMMA OthersKept ==
  ASSUME AlignedInv, NEW b \in Buffers, \A d \in Buffers \ {b} : SamePart(d),
         \A d \in Live \ {b} : KeepsAllocator(d) /\ ChunkOf(d) \subseteq ChunkOf(d)'
  PROVE  \A d \in Buffers \ {b} : MemoryHeld(d)' /\ MappingHeld(d)'
<1> SUFFICES ASSUME NEW d \in Buffers \ {b} PROVE MemoryHeld(d)' /\ MappingHeld(d)'
  OBVIOUS
<1>1. GrantInv /\ MemoryHeld(d) /\ MappingHeld(d) /\ SamePart(d)
  BY DEF AlignedInv
<1>2. QED
  BY <1>1, PartKept

LEMMA HolderCount ==
  ASSUME AlignedConstants, NEW held \in SUBSET Handles
  PROVE  /\ Cardinality(held) \in Nat
         /\ Cardinality(held) = 0 <=> held = {}
         /\ \A h \in Handles :
              /\ Cardinality({h}) = 1
              /\ h \notin held => Cardinality(held \cup {h}) = Cardinality(held) + 1
              /\ h \in held => Cardinality(held \ {h}) = Cardinality(held) - 1
<1>1. IsFiniteSet(held)
  BY FS_Subset DEF AlignedConstants
<1>2. QED
  BY <1>1, FS_EmptySet, FS_Singleton, FS_AddElement, FS_RemoveElement, FS_CardinalityType

LEMMA UnchangedHolds ==
  ASSUME AlignedConstants, AlignedInv, UNCHANGED vars
  PROVE  AlignedInv'
<1>1. GrantInv'
  BY GrantInvStutter DEF AlignedInv
<1>2. Live' = Live /\ Alive' = Alive
  BY DEF vars, Live, Alive
<1>3. KernelTypes' /\ ChunksOwned' /\ NodesOwned'
  BY <1>2 DEF AlignedInv, vars, KernelTypes, ChunksOwned, NodesOwned, DescriptorHeld
<1>4. ASSUME NEW b \in Buffers PROVE MemoryHeld(b)' /\ MappingHeld(b)'
  <2>1. SamePart(b) /\ KeepsAllocator(b) /\ ChunkOf(b) \subseteq ChunkOf(b)'
    BY DEF vars, SamePart, KeepsAllocator, ChunkOf
  <2>2. QED
    BY <2>1, PartKept DEF AlignedInv
<1>5. QED
  BY <1>1, <1>3, <1>4 DEF AlignedInv

-----------------------------------------------------------------------------
(***************************************************************************)
(* map() and unmap(): what they leave of the buffer, as values.            *)
(***************************************************************************)
NewPart(b, mapped, flags, count, mapping, held, access) ==
  /\ buffer'[b] = [buffer[b] EXCEPT !.mapped = mapped, !.map_flags = flags,
                                    !.mapping_refcount = count]
  /\ vm' = [vm EXCEPT ![b] = mapping]
  /\ client'[b] = [client[b] EXCEPT !.held = held, !.access = access]
  /\ \A d \in Buffers \ {b} : SamePart(d)
  /\ UNCHANGED <<fdTable, chunks, allocator>>

\* The state of b with another count of holders.
Recount(b, count, held) ==
  NewPart(b, buffer[b].mapped, buffer[b].map_flags, count, vm[b], held, client[b].access)

NodeFirst(b, h, f) ==
  /\ UsesNode(b) /\ ~buffer[b].mapped /\ client[b].held = {}
  /\ NewPart(b, TRUE, f, 1, [maps |-> 1, start |-> buffer[b].physical_address, prot |-> f],
             {h}, Requested(f))

LinearFirst(b, h, f) ==
  /\ ~UsesNode(b) /\ client[b].held = {}
  /\ NewPart(b, buffer[b].mapped, Requested(f), 1, vm[b], {h}, Requested(f))

NodeFails(b, f) ==
  /\ UsesNode(b) /\ ~buffer[b].mapped /\ client[b].held = {}
  /\ NewPart(b, FALSE, f, 0, vm[b], {}, {})

Again(b, h) ==
  /\ client[b].held # {} /\ h \notin client[b].held
  /\ Recount(b, buffer[b].mapping_refcount + 1, client[b].held \cup {h})

OneLess(b, h) ==
  /\ client[b].held \ {h} # {} /\ h \in client[b].held
  /\ Recount(b, buffer[b].mapping_refcount - 1, client[b].held \ {h})

Idle(b) == client[b].held = {} /\ Recount(b, 0, {})

NodeLast(b, h) ==
  /\ UsesNode(b) /\ client[b].held = {h}
  /\ NewPart(b, FALSE, buffer[b].map_flags, 0, Unmapped, {}, {})

LinearLast(b, h) ==
  /\ ~UsesNode(b) /\ client[b].held = {h}
  /\ NewPart(b, buffer[b].mapped, buffer[b].map_flags, 0, vm[b], {}, {})

\* What the invariant says of a buffer that is going to be mapped or unmapped.
LEMMA LiveBuffer ==
  ASSUME AlignedConstants, AlignedInv, NEW b \in Live
  PROVE  /\ b \in Buffers
         /\ buffer \in [Buffers -> BufferTypes] /\ buffer[b] \in BufferTypes
         /\ client \in [Buffers -> ClientTypes] /\ client[b] \in ClientTypes
         /\ vm \in [Buffers -> VmRecords] /\ vm[b] \in VmRecords
         /\ client[b].held \in SUBSET Handles
         /\ buffer[b].mapping_refcount = Cardinality(client[b].held)
         /\ buffer[b].mapping_refcount \in Nat
         /\ buffer[b].mapping_refcount = 0 <=> client[b].held = {}
         /\ client[b].held = {} => client[b].access = {}
         /\ UsesNode(b) => NodeMapping(b)
         /\ ~UsesNode(b) => LinearMapping(b)
<1>1. b \in Buffers
  BY DEF Live
<1>2. /\ buffer \in [Buffers -> BufferTypes] /\ client \in [Buffers -> ClientTypes]
      /\ vm \in [Buffers -> VmRecords]
  BY DEF AlignedInv, GrantInv, Shapes, KernelTypes, ClientTypes
<1>3. client[b].held \in SUBSET Handles
  BY <1>1, <1>2 DEF ClientTypes
<1>4. MappingHeld(b)
  BY <1>1 DEF AlignedInv
<1>5. QED
  BY <1>1, <1>2, <1>3, <1>4, HolderCount DEF MappingHeld

LEMMA MapEffect ==
  ASSUME AlignedConstants, AlignedInv, NEW b \in Buffers, NEW h \in Handles,
         NEW f \in FlagChoices, Map(b, h, f)
  PROVE  /\ b \in Live
         /\ NodeFirst(b, h, f) \/ LinearFirst(b, h, f) \/ NodeFails(b, f) \/ Again(b, h)
<1>0. b \in Live /\ h \notin client[b].held /\ UNCHANGED <<fdTable, chunks, allocator>>
  BY DEF Map, Usable
<1>1. /\ buffer \in [Buffers -> BufferTypes] /\ buffer[b] \in BufferTypes
      /\ client \in [Buffers -> ClientTypes] /\ client[b] \in ClientTypes
      /\ vm \in [Buffers -> VmRecords] /\ vm[b] \in VmRecords
      /\ buffer[b].mapping_refcount \in Nat
      /\ buffer[b].mapping_refcount = 0 <=> client[b].held = {}
      /\ client[b].held = {} => client[b].access = {}
      /\ UsesNode(b) => NodeMapping(b)
      /\ ~UsesNode(b) => LinearMapping(b)
  BY <1>0, LiveBuffer
<1>2. CASE MapFails(b, f)
  <2>1. UsesNode(b) /\ ~buffer[b].mapped /\ UNCHANGED <<vm, client>>
        /\ buffer' = [buffer EXCEPT ![b].map_flags = f]
    BY <1>2 DEF MapFails
  <2>2. client[b].held = {} /\ client[b].access = {} /\ buffer[b].mapping_refcount = 0
    BY <1>1, <2>1 DEF NodeMapping
  <2>3. buffer'[b] = [buffer[b] EXCEPT !.mapped = FALSE, !.map_flags = f,
                                       !.mapping_refcount = 0]
    BY <1>1, <2>1, <2>2 DEF BufferTypes
  <2>4. client'[b] = [client[b] EXCEPT !.held = {}, !.access = {}]
    BY <1>1, <2>1, <2>2 DEF ClientTypes
  <2>5. \A d \in Buffers \ {b} : SamePart(d)
    BY <1>1, <2>1 DEF SamePart
  <2>6. vm' = [vm EXCEPT ![b] = vm[b]]
    BY <1>1, <2>1
  <2>7. QED
    BY <1>0, <2>1, <2>2, <2>3, <2>4, <2>5, <2>6 DEF NodeFails, NewPart
<1> DEFINE access == IF client[b].held = {} THEN Requested(f) ELSE client[b].access
<1>3. ASSUME ~MapFails(b, f)
      PROVE  /\ client' = [client EXCEPT ![b].held = @ \cup {h}, ![b].access = access]
             /\ IF UsesNode(b) THEN MapNode(b, f) ELSE MapLinear(b, f)
  BY <1>3 DEF Map
<1>4. ASSUME ~MapFails(b, f)
      PROVE  /\ client'[b] = [client[b] EXCEPT !.held = @ \cup {h}, !.access = access]
             /\ \A d \in Buffers \ {b} : client'[d] = client[d]
  BY <1>1, <1>3, <1>4 DEF ClientTypes
<1>5. CASE ~MapFails(b, f) /\ client[b].held # {}
  <2>1. buffer' = [buffer EXCEPT ![b].mapping_refcount = @ + 1] /\ vm' = vm
    BY <1>1, <1>3, <1>5 DEF MapNode, MapLinear, NodeMapping
  <2>2. buffer'[b] = [buffer[b] EXCEPT !.mapped = buffer[b].mapped,
          !.map_flags = buffer[b].map_flags,
          !.mapping_refcount = buffer[b].mapping_refcount + 1]
    BY <1>1, <2>1 DEF BufferTypes
  <2>3. client'[b] = [client[b] EXCEPT !.held = client[b].held \cup {h},
                                       !.access = client[b].access]
    BY <1>1, <1>4, <1>5 DEF ClientTypes
  <2>4. \A d \in Buffers \ {b} : SamePart(d)
    BY <1>1, <1>4, <1>5, <2>1 DEF SamePart
  <2>5. vm' = [vm EXCEPT ![b] = vm[b]]
    BY <1>1, <2>1
  <2>6. QED
    BY <1>0, <1>5, <2>2, <2>3, <2>4, <2>5 DEF Again, Recount, NewPart
<1>6. CASE ~MapFails(b, f) /\ client[b].held = {}
  <2>1. client'[b] = [client[b] EXCEPT !.held = {h}, !.access = Requested(f)]
    BY <1>1, <1>4, <1>6 DEF ClientTypes
  <2>2. CASE UsesNode(b)
    <3>1. /\ ~buffer[b].mapped /\ vm[b].maps = 0
          /\ buffer' = [buffer EXCEPT ![b].map_flags = f, ![b].mapping_refcount = 1,
                                      ![b].mapped = TRUE]
          /\ vm' = [vm EXCEPT ![b] = [maps |-> @.maps + 1,
                                      start |-> buffer[b].physical_address, prot |-> f]]
      BY <1>1, <1>3, <1>6, <2>2 DEF MapNode, NodeMapping
    <3>2. buffer'[b] = [buffer[b] EXCEPT !.mapped = TRUE, !.map_flags = f,
                                         !.mapping_refcount = 1]
      BY <1>1, <3>1 DEF BufferTypes
    <3>3. vm' = [vm EXCEPT ![b] = [maps |-> 1, start |-> buffer[b].physical_address,
                                   prot |-> f]]
      BY <1>1, <3>1
    <3>4. \A d \in Buffers \ {b} : SamePart(d)
      BY <1>1, <1>4, <1>6, <3>1 DEF SamePart
    <3>5. QED
      BY <1>0, <1>6, <2>1, <2>2, <3>1, <3>2, <3>3, <3>4 DEF NodeFirst, NewPart
  <2>3. CASE ~UsesNode(b)
    <3>1. /\ vm' = vm
          /\ buffer' = [buffer EXCEPT ![b].map_flags = Requested(f),
                                      ![b].mapping_refcount = 1]
      BY <1>1, <1>3, <1>6, <2>3 DEF MapLinear
    <3>2. buffer'[b] = [buffer[b] EXCEPT !.mapped = buffer[b].mapped,
            !.map_flags = Requested(f), !.mapping_refcount = 1]
      BY <1>1, <3>1 DEF BufferTypes
    <3>3. \A d \in Buffers \ {b} : SamePart(d)
      BY <1>1, <1>4, <1>6, <3>1 DEF SamePart
    <3>4. vm' = [vm EXCEPT ![b] = vm[b]]
      BY <1>1, <3>1
    <3>5. QED
      BY <1>0, <1>6, <2>1, <2>3, <3>2, <3>3, <3>4 DEF LinearFirst, NewPart
  <2>4. QED
    BY <2>2, <2>3
<1>7. QED
  BY <1>0, <1>2, <1>5, <1>6

LEMMA UnmapEffect ==
  ASSUME AlignedConstants, AlignedInv, NEW b \in Buffers, NEW h \in Handles, Unmap(b, h)
  PROVE  /\ b \in Live
         /\ Idle(b) \/ OneLess(b, h) \/ NodeLast(b, h) \/ LinearLast(b, h)
<1> DEFINE s == [buf |-> buffer[b], vm |-> vm[b]]
           t == IF UsesNode(b) THEN UnmapNode(s) ELSE UnmapLinear(s)
           access == IF client[b].held \subseteq {h} THEN {} ELSE client[b].access
<1>0. /\ b \in Live /\ UNCHANGED <<fdTable, chunks, allocator>>
      /\ h \in client[b].held \/ client[b].held = {}
      /\ buffer' = [buffer EXCEPT ![b] = t.buf]
      /\ vm' = [vm EXCEPT ![b] = t.vm]
      /\ client' = [client EXCEPT ![b].held = @ \ {h}, ![b].access = access]
  BY DEF Unmap, Usable
<1>1. /\ buffer \in [Buffers -> BufferTypes] /\ buffer[b] \in BufferTypes
      /\ client \in [Buffers -> ClientTypes] /\ client[b] \in ClientTypes
      /\ vm \in [Buffers -> VmRecords] /\ vm[b] \in VmRecords
      /\ buffer[b].mapping_refcount = Cardinality(client[b].held)
      /\ buffer[b].mapping_refcount \in Nat
      /\ buffer[b].mapping_refcount = 0 <=> client[b].held = {}
      /\ client[b].held = {} => client[b].access = {}
      /\ client[b].held \in SUBSET Handles
      /\ UsesNode(b) => NodeMapping(b)
      /\ ~UsesNode(b) => LinearMapping(b)
  BY <1>0, LiveBuffer
<1>2. client'[b] = [client[b] EXCEPT !.held = client[b].held \ {h}, !.access = access]
  BY <1>0, <1>1 DEF ClientTypes
<1> HIDE DEF access, t
<1>3. /\ buffer'[b] = t.buf
      /\ \A d \in Buffers \ {b} : SamePart(d)
  BY <1>0, <1>1 DEF SamePart
<1>4. CASE client[b].held = {}
  <2>1. t = s
    BY <1>1, <1>4 DEF t, UnmapNode, UnmapLinear, NodeMapping
  <2>2. buffer'[b] = [buffer[b] EXCEPT !.mapped = buffer[b].mapped,
          !.map_flags = buffer[b].map_flags, !.mapping_refcount = 0]
    BY <1>1, <1>3, <1>4, <2>1 DEF BufferTypes
  <2>3. client'[b] = [client[b] EXCEPT !.held = {}, !.access = client[b].access]
    BY <1>1, <1>2, <1>4 DEF access
  <2>4. vm' = [vm EXCEPT ![b] = vm[b]]
    BY <1>0, <2>1
  <2>5. QED
    BY <1>0, <1>3, <1>4, <2>2, <2>3, <2>4 DEF Idle, Recount, NewPart
<1>5. CASE h \in client[b].held /\ client[b].held \ {h} # {}
  <2>1. buffer[b].mapping_refcount > 1
    <3>1. Cardinality(client[b].held \ {h}) = buffer[b].mapping_refcount - 1
      <4>1. client[b].held \in SUBSET Handles /\ h \in client[b].held
        BY <1>1, <1>5
      <4>2. Cardinality(client[b].held \ {h}) = Cardinality(client[b].held) - 1
        BY <4>1, HolderCount
      <4>3. QED
        BY <1>1, <4>2
    <3>2. client[b].held \ {h} \in SUBSET Handles
      BY <1>1
    <3>3. /\ Cardinality(client[b].held \ {h}) \in Nat
          /\ Cardinality(client[b].held \ {h}) # 0
      BY <1>5, <3>2, HolderCount
    <3>4. QED
      BY <1>1, <3>1, <3>3
  <2>2. t = [s EXCEPT !.buf.mapping_refcount = @ - 1]
    BY <1>1, <1>5, <2>1 DEF t, UnmapNode, UnmapLinear, NodeMapping
  <2>3. buffer'[b] = [buffer[b] EXCEPT !.mapped = buffer[b].mapped,
          !.map_flags = buffer[b].map_flags,
          !.mapping_refcount = buffer[b].mapping_refcount - 1]
    BY <1>1, <1>3, <2>2 DEF BufferTypes
  <2>4. client'[b] = [client[b] EXCEPT !.held = client[b].held \ {h},
                                       !.access = client[b].access]
    BY <1>2, <1>5 DEF access
  <2>5. vm' = [vm EXCEPT ![b] = vm[b]]
    BY <1>0, <2>2
  <2>6. Recount(b, buffer[b].mapping_refcount - 1, client[b].held \ {h})
    BY <1>0, <1>3, <2>3, <2>4, <2>5 DEF Recount, NewPart
  <2>7. OneLess(b, h)
    BY <1>5, <2>6 DEF OneLess
  <2>8. QED
    BY <1>0, <2>7
<1>6. CASE client[b].held = {h}
  <2>1. buffer[b].mapping_refcount = 1
    <3>1. Cardinality({h}) = 1
      BY HolderCount
    <3>2. QED
      BY <1>1, <1>6, <3>1
  <2>2. client'[b] = [client[b] EXCEPT !.held = {}, !.access = {}]
    BY <1>2, <1>6 DEF access
  <2>3. CASE UsesNode(b)
    <3>1. /\ t.buf = [buffer[b] EXCEPT !.mapping_refcount = 0, !.mapped = FALSE]
          /\ t.vm = [Unmapped EXCEPT !.maps = vm[b].maps - 1]
          /\ vm[b].maps = 1
      BY <1>1, <1>6, <2>1, <2>3 DEF t, UnmapNode, NodeMapping
    <3> HIDE DEF s
    <3>2. buffer'[b] = [buffer[b] EXCEPT !.mapped = FALSE,
            !.map_flags = buffer[b].map_flags, !.mapping_refcount = 0]
      <4>1. buffer'[b] = [buffer[b] EXCEPT !.mapping_refcount = 0, !.mapped = FALSE]
        BY <1>3, <3>1
      <4>2. QED
        BY <1>1, <4>1 DEF BufferTypes
    <3>3. vm' = [vm EXCEPT ![b] = Unmapped]
      <4>1. t.vm = Unmapped
        BY <3>1 DEF Unmapped
      <4>2. QED
        BY <1>0, <4>1
    <3>4. QED
      BY <1>0, <1>3, <1>6, <2>2, <2>3, <3>2, <3>3 DEF NodeLast, NewPart
  <2>4. CASE ~UsesNode(b)
    <3>1. t = [s EXCEPT !.buf.mapping_refcount = @ - 1]
      BY <1>1, <2>1, <2>4 DEF t, UnmapLinear
    <3>2. buffer'[b] = [buffer[b] EXCEPT !.mapped = buffer[b].mapped,
            !.map_flags = buffer[b].map_flags, !.mapping_refcount = 0]
      <4>1. buffer'[b] = [buffer[b] EXCEPT !.mapping_refcount = 0]
        BY <1>1, <1>3, <2>1, <3>1
      <4>2. QED
        BY <1>1, <4>1 DEF BufferTypes
    <3>3. vm' = [vm EXCEPT ![b] = vm[b]]
      BY <1>0, <3>1
    <3>4. QED
      BY <1>0, <1>3, <1>6, <2>2, <2>4, <3>2, <3>3 DEF LinearLast, NewPart
  <2>5. QED
    BY <2>3, <2>4
<1>7. QED
  BY <1>0, <1>4, <1>5, <1>6

\* A call that changes a mapping at most moves no memory.
MappingChange(b) ==
  \E mapped, flags, count, mapping, held, access :
    /\ NewPart(b, mapped, flags, count, mapping, held, access)
    /\ mapping \in VmRecords
    /\ ~UsesNode(b) => mapping = vm[b]

LEMMA MappingFrame ==
  ASSUME AlignedConstants, AlignedInv, GrantInv', NEW b \in Live, MappingChange(b),
         MappingHeld(b)'
  PROVE  AlignedInv'
<1>1. PICK mapped, flags, count, mapping, held, access :
        /\ NewPart(b, mapped, flags, count, mapping, held, access)
        /\ mapping \in VmRecords
        /\ ~UsesNode(b) => mapping = vm[b]
  BY DEF MappingChange
<1>2. /\ b \in Buffers
      /\ buffer \in [Buffers -> BufferTypes] /\ vm \in [Buffers -> VmRecords]
  BY LiveBuffer
<1>3. /\ UNCHANGED <<fdTable, chunks, allocator>>
      /\ \A d \in Buffers \ {b} : SamePart(d)
      /\ vm' = [vm EXCEPT ![b] = mapping]
  BY <1>1 DEF NewPart
<1>4. \A d \in Buffers : SamePlace(d)
  <2>1. SamePlace(b)
    BY <1>1, <1>2 DEF NewPart, SamePlace, BufferTypes
  <2>2. \A d \in Buffers \ {b} : SamePlace(d)
    BY <1>3 DEF SamePart, SamePlace
  <2>3. QED
    BY <2>1, <2>2
<1>5. Live' = Live /\ Alive' = Alive /\ \A d \in Buffers : ChunkOf(d)' = ChunkOf(d)
  BY <1>3, <1>4 DEF Live, Alive, ChunkOf, SamePlace
<1>6. KernelTypes'
  BY <1>1, <1>2, <1>3 DEF AlignedInv, KernelTypes
<1>7. ChunksOwned'
  BY <1>3, <1>4, <1>5 DEF AlignedInv, ChunksOwned, SamePlace, Live
<1>8. NodesOwned'
  BY <1>3, <1>5 DEF AlignedInv, NodesOwned, DescriptorHeld
<1>9. \A d \in Buffers \ {b} : MemoryHeld(d)' /\ MappingHeld(d)'
  BY <1>2, <1>3, <1>5, OthersKept DEF KeepsAllocator, Live
<1>10. MemoryHeld(b)'
  <2>1. PICK a \in Alive : buffer[b].allocator = {a}
    BY DEF AlignedInv, GrantInv, Placed, PlacedIn
  <2>2. UsesNode(b)' <=> UsesNode(b)
    BY <1>2, <1>3, <1>4, <2>1, SameKind DEF SamePlace
  <2>3. Extent(buffer[b].physical_address, buffer[b].size)'
          = Extent(buffer[b].physical_address, buffer[b].size)
    BY <1>2, <1>4 DEF SamePlace
  <2>4. ~UsesNode(b) => CpuRange(b)' = CpuRange(b)
    BY <1>1, <1>2, <1>3, <1>4 DEF SamePlace, CpuRange
  <2>5. MemoryHeld(b)
    BY <1>2 DEF AlignedInv
  <2>6. QED
    BY <1>2, <1>5, <2>2, <2>3, <2>4, <2>5 DEF MemoryHeld, WithinOwnChunk, Addresses, Extent
<1>11. QED
  BY <1>6, <1>7, <1>8, <1>9, <1>10 DEF AlignedInv

\* The new values, field by field.
LEMMA PartNow ==
  ASSUME AlignedConstants, AlignedInv, NEW b \in Live,
         NEW mapped, NEW flags, NEW count, NEW mapping, NEW held, NEW access,
         NewPart(b, mapped, flags, count, mapping, held, access)
  PROVE  /\ Live' = Live /\ (UsesNode(b)' <=> UsesNode(b))
         /\ buffer'[b].mapped = mapped /\ buffer'[b].map_flags = flags
         /\ buffer'[b].mapping_refcount = count
         /\ buffer'[b].physical_address = buffer[b].physical_address
         /\ vm'[b] = mapping
         /\ client'[b].held = held /\ client'[b].access = access
<1>1. /\ b \in Buffers
      /\ buffer[b] \in BufferTypes /\ client[b] \in ClientTypes /\ vm \in [Buffers -> VmRecords]
  BY LiveBuffer
<1>2. /\ buffer'[b] = [buffer[b] EXCEPT !.mapped = mapped, !.map_flags = flags,
                                        !.mapping_refcount = count]
      /\ client'[b] = [client[b] EXCEPT !.held = held, !.access = access]
      /\ vm' = [vm EXCEPT ![b] = mapping] /\ allocator' = allocator
      /\ \A d \in Buffers \ {b} : buffer'[d] = buffer[d]
  BY DEF NewPart, SamePart
<1>3. /\ buffer'[b].mapped = mapped /\ buffer'[b].map_flags = flags
      /\ buffer'[b].mapping_refcount = count
      /\ buffer'[b].physical_address = buffer[b].physical_address
      /\ buffer'[b].allocator = buffer[b].allocator
  BY <1>1, <1>2 DEF BufferTypes
<1>4. client'[b].held = held /\ client'[b].access = access /\ vm'[b] = mapping
  BY <1>1, <1>2 DEF ClientTypes
<1>5. Live' = Live
  BY <1>2, <1>3 DEF Live
<1>6. PICK a \in Alive : buffer[b].allocator = {a}
  BY DEF AlignedInv, GrantInv, Placed, PlacedIn
<1>7. UsesNode(b)' <=> UsesNode(b)
  BY <1>2, <1>3, <1>6, SameKind
<1>8. QED
  BY <1>3, <1>4, <1>5, <1>7

LEMMA MapStepHolds ==
  ASSUME AlignedConstants, AlignedInv, NEW b \in Buffers, NEW h \in Handles,
         NEW f \in FlagChoices, Map(b, h, f)
  PROVE  AlignedInv'
<1>0. GrantInv' /\ b \in Live
  BY MapKeeps, MapEffect DEF AlignedInv
<1>1. /\ buffer[b] \in BufferTypes /\ vm[b] \in VmRecords
      /\ client[b].held \in SUBSET Handles
      /\ buffer[b].mapping_refcount = Cardinality(client[b].held)
      /\ UsesNode(b) => NodeMapping(b)
      /\ ~UsesNode(b) => LinearMapping(b)
  BY <1>0, LiveBuffer
<1>2. Cardinality({h}) = 1 /\ Cardinality({}) = 0
  BY HolderCount, FS_EmptySet
<1>3. f \in SUBSET ReadWrite
  BY DEF AlignedConstants
<1>4. CASE NodeFirst(b, h, f)
  <2> DEFINE mapped == TRUE
             mapping == [maps |-> 1, start |-> buffer[b].physical_address, prot |-> f]
             access == Requested(f)
  <2>1. UsesNode(b) /\ mapped = TRUE /\ NewPart(b, mapped, f, 1, mapping, {h}, access)
    BY <1>4 DEF NodeFirst
  <2>2. mapping \in VmRecords
    BY <1>1, <1>3 DEF BufferTypes, VmRecords
  <2> HIDE DEF mapped, mapping, access
  <2>3. mapping.maps = 1 /\ mapping.start = buffer[b].physical_address /\ mapping.prot = f
    BY DEF mapping
  <2>4. MappingHeld(b)'
    <3>1. /\ Live' = Live /\ UsesNode(b)' /\ buffer'[b].mapped = mapped
          /\ buffer'[b].map_flags = f /\ buffer'[b].mapping_refcount = 1
          /\ buffer'[b].physical_address = buffer[b].physical_address
          /\ vm'[b] = mapping
          /\ client'[b].held = {h} /\ client'[b].access = access
      <4> DEFINE count == 1
                 held == {h}
      <4>1. b \in Live /\ NewPart(b, mapped, f, count, mapping, held, access)
        BY <1>0, <2>1
      <4> HIDE DEF count, held
      <4>2. /\ Live' = Live /\ (UsesNode(b)' <=> UsesNode(b))
            /\ buffer'[b].mapped = mapped /\ buffer'[b].map_flags = f
            /\ buffer'[b].mapping_refcount = count
            /\ buffer'[b].physical_address = buffer[b].physical_address
            /\ vm'[b] = mapping
            /\ client'[b].held = held /\ client'[b].access = access
        BY <4>1, PartNow
      <4>3. QED
        BY <2>1, <4>2 DEF count, held
    <3>2. buffer'[b].mapped
      BY <2>1, <3>1
    <3>3. client'[b].access = Requested(buffer'[b].map_flags)
      BY <3>1 DEF access
    <3>4. NodeMapping(b)'
      BY <1>0, <2>3, <3>1, <3>2, <3>3 DEF NodeMapping
    <3>5. b \in Live'
      BY <1>0, <3>1
    <3>6. QED
      BY <1>2, <3>1, <3>4, <3>5 DEF MappingHeld
  <2>5. QED
    BY <1>0, <2>1, <2>2, <2>4, MappingFrame DEF MappingChange
<1>5. CASE LinearFirst(b, h, f)
  <2>1. ~UsesNode(b) /\ NewPart(b, buffer[b].mapped, Requested(f), 1, vm[b], {h}, Requested(f))
    BY <1>5 DEF LinearFirst
  <2>2. MappingHeld(b)'
    BY <1>0, <1>1, <1>2, <2>1, PartNow DEF MappingHeld, LinearMapping
  <2>3. QED
    BY <1>0, <1>1, <2>1, <2>2, MappingFrame DEF MappingChange
<1>6. CASE NodeFails(b, f)
  <2> DEFINE mapped == FALSE
  <2>1. /\ UsesNode(b) /\ ~buffer[b].mapped /\ mapped = FALSE
        /\ NewPart(b, mapped, f, 0, vm[b], {}, {})
    BY <1>6 DEF NodeFails
  <2> HIDE DEF mapped
  <2>2. MappingHeld(b)'
    BY <1>0, <1>1, <1>2, <2>1, PartNow DEF MappingHeld, NodeMapping
  <2>3. QED
    BY <1>0, <1>1, <2>1, <2>2, MappingFrame DEF MappingChange
<1>7. CASE Again(b, h)
  <2> DEFINE held == client[b].held \cup {h}
             count == buffer[b].mapping_refcount + 1
  <2>1. /\ client[b].held # {}
        /\ NewPart(b, buffer[b].mapped, buffer[b].map_flags, count, vm[b], held,
                   client[b].access)
    BY <1>7 DEF Again, Recount
  <2>2. count = Cardinality(held)
    <3>1. client[b].held \in SUBSET Handles /\ h \notin client[b].held
      BY <1>1, <1>7 DEF Again
    <3>2. Cardinality(held) = Cardinality(client[b].held) + 1
      BY <3>1, HolderCount
    <3>3. QED
      BY <1>1, <3>2
  <2> HIDE DEF held, count
  <2>3. held # {}
    BY DEF held
  <2>4. MappingHeld(b)'
    BY <1>0, <1>1, <2>1, <2>2, <2>3, PartNow DEF MappingHeld, NodeMapping, LinearMapping
  <2>5. QED
    BY <1>0, <1>1, <2>1, <2>4, MappingFrame DEF MappingChange
<1>8. QED
  BY <1>4, <1>5, <1>6, <1>7, MapEffect

LEMMA UnmapStepHolds ==
  ASSUME AlignedConstants, AlignedInv, NEW b \in Buffers, NEW h \in Handles, Unmap(b, h)
  PROVE  AlignedInv'
<1>0. GrantInv' /\ b \in Live
  BY UnmapKeeps, UnmapEffect DEF AlignedInv
<1>1. /\ buffer[b] \in BufferTypes /\ vm[b] \in VmRecords
      /\ client[b].held \in SUBSET Handles
      /\ buffer[b].mapping_refcount = Cardinality(client[b].held)
      /\ client[b].held = {} => client[b].access = {}
      /\ UsesNode(b) => NodeMapping(b)
      /\ ~UsesNode(b) => LinearMapping(b)
  BY <1>0, LiveBuffer
<1>2. Cardinality({}) = 0 /\ Unmapped \in VmRecords
  BY FS_EmptySet DEF Unmapped, VmRecords
<1>3. CASE Idle(b)
  <2>1. /\ client[b].held = {}
        /\ NewPart(b, buffer[b].mapped, buffer[b].map_flags, 0, vm[b], {}, client[b].access)
    BY <1>3 DEF Idle, Recount
  <2>2. MappingHeld(b)'
    BY <1>0, <1>1, <1>2, <2>1, PartNow DEF MappingHeld, NodeMapping, LinearMapping
  <2>3. QED
    BY <1>0, <1>1, <2>1, <2>2, MappingFrame DEF MappingChange
<1>4. CASE OneLess(b, h)
  <2> DEFINE held == client[b].held \ {h}
             count == buffer[b].mapping_refcount - 1
  <2>1. /\ h \in client[b].held
        /\ NewPart(b, buffer[b].mapped, buffer[b].map_flags, count, vm[b], held,
                   client[b].access)
    BY <1>4 DEF OneLess, Recount
  <2>2. count = Cardinality(held)
    <3>1. client[b].held \in SUBSET Handles /\ h \in client[b].held
      BY <1>1, <1>4 DEF OneLess
    <3>2. Cardinality(held) = Cardinality(client[b].held) - 1
      BY <3>1, HolderCount
    <3>3. QED
      BY <1>1, <3>2
  <2>3. held # {}
    BY <1>4 DEF OneLess
  <2> HIDE DEF held, count
  <2>4. MappingHeld(b)'
    BY <1>0, <1>1, <2>1, <2>2, <2>3, PartNow DEF MappingHeld, NodeMapping, LinearMapping
  <2>5. QED
    BY <1>0, <1>1, <2>1, <2>4, MappingFrame DEF MappingChange
<1>5. CASE NodeLast(b, h)
  <2> DEFINE mapped == FALSE
  <2>1. /\ UsesNode(b) /\ mapped = FALSE
        /\ NewPart(b, mapped, buffer[b].map_flags, 0, Unmapped, {}, {})
    BY <1>5 DEF NodeLast
  <2> HIDE DEF mapped
  <2>2. MappingHeld(b)'
    BY <1>0, <1>2, <2>1, PartNow DEF MappingHeld, NodeMapping, Unmapped
  <2>3. QED
    BY <1>0, <1>2, <2>1, <2>2, MappingFrame DEF MappingChange
<1>6. CASE LinearLast(b, h)
  <2>1. /\ ~UsesNode(b)
        /\ NewPart(b, buffer[b].mapped, buffer[b].map_flags, 0, vm[b], {}, {})
    BY <1>6 DEF LinearLast
  <2>2. MappingHeld(b)'
    BY <1>0, <1>1, <1>2, <2>1, PartNow DEF MappingHeld, LinearMapping
  <2>3. QED
    BY <1>0, <1>1, <2>1, <2>2, MappingFrame DEF MappingChange
<1>7. QED
  BY <1>3, <1>4, <1>5, <1>6, UnmapEffect

-----------------------------------------------------------------------------
(***************************************************************************)
(* allocate() and deallocate().                                            *)
(***************************************************************************)
\* A buffer on its new chunk, which is mapped unless a node has to map it.
LEMMA GrantHolds ==
  ASSUME AlignedConstants, AlignedInv, GrantInv',
         NEW a \in Alive, NEW b \in Buffers \ Live,
         NEW size \in Sizes, NEW alignment \in Alignments,
         NEW start \in 1 .. MemorySize, NEW length \in Nat \ {0}, size <= length,
         Grant(start, length), NewBuffer(b, a, size, alignment, start),
         UNCHANGED <<fdTable, allocator>>,
         NEW mapping \in VmRecords, vm' = [vm EXCEPT ![b] = mapping],
         IF allocator[a].kind \in NodeKinds THEN mapping.maps = 0
         ELSE /\ mapping.maps = 1 /\ mapping.prot = ReadWrite
              /\ Extent(mapping.start, size) \subseteq Extent(start, length)
  PROVE  AlignedInv'
<1> DEFINE chunk == [start |-> start, length |-> length]
<1>1. /\ buffer \in [Buffers -> BufferTypes] /\ client \in [Buffers -> ClientTypes]
      /\ vm \in [Buffers -> VmRecords] /\ size \in Nat \ {0}
      /\ client[b] \in ClientTypes /\ start \in Nat /\ MemorySize \in Nat
      /\ chunks \subseteq [start : 1 .. MemorySize, length : Nat \ {0}]
  <2>1. Shapes /\ KernelTypes
    BY DEF AlignedInv, GrantInv
  <2>2. /\ buffer \in [Buffers -> BufferTypes] /\ client \in [Buffers -> ClientTypes]
        /\ chunks \subseteq [start : 1 .. MemorySize, length : Nat \ {0}]
    BY <2>1 DEF Shapes, ClientTypes
  <2>3. vm \in [Buffers -> VmRecords]
    BY <2>1 DEF KernelTypes
  <2>4. size \in Nat \ {0} /\ MemorySize \in Nat
    BY DEF AlignedConstants
  <2>5. client[b] \in ClientTypes
    BY <2>2
  <2>6. start \in Nat
    BY <2>4
  <2>7. QED
    BY <2>2, <2>3, <2>4, <2>5, <2>6
<1>2. /\ buffer'[b] = [NoBuffer EXCEPT !.allocator = {a}, !.size = size,
                         !.physical_address = start,
                         !.aligned_physical_address = AlignedAddress(start, alignment)]
      /\ client'[b] = [client[b] EXCEPT !.alignment = alignment]
      /\ vm'[b] = mapping
      /\ \A d \in Buffers \ {b} : SamePart(d)
  BY <1>1 DEF NewBuffer, SamePart, ClientTypes
<1>3. /\ buffer'[b].allocator = {a} /\ buffer'[b].size = size
      /\ buffer'[b].physical_address = start
      /\ ~buffer'[b].mapped /\ buffer'[b].mapping_refcount = 0
      /\ client'[b].held = client[b].held /\ client'[b].access = client[b].access
  BY <1>1, <1>2 DEF NoBuffer, ClientTypes
<1>4. Live' = Live \cup {b} /\ Alive' = Alive
  <2>1. Alive' = Alive
    BY DEF Alive
  <2>2. \A d \in Buffers \ {b} : buffer'[d].allocator = buffer[d].allocator
    BY <1>2 DEF SamePart
  <2>3. Live' = Live \cup {b}
    BY <1>3, <2>2 DEF Live
  <2>4. QED
    BY <2>1, <2>3
<1>5. UsesNode(b)' <=> allocator[a].kind \in NodeKinds
  <2>1. {allocator'[x].kind : x \in buffer'[b].allocator} = {allocator[a].kind}
    BY <1>3
  <2>2. KindOf(b)' \in {allocator[a].kind}
    BY <2>1 DEF KindOf
  <2>3. QED
    BY <2>2 DEF UsesNode
<1>6. chunks' = chunks \cup {chunk} /\ \A c \in chunks : c.start # start
  <2>1. ASSUME NEW c \in chunks PROVE c.start \in Addresses(c)
    BY <1>1 DEF Addresses, Extent
  <2>2. start \in Extent(start, length)
    BY <1>1 DEF Extent
  <2>3. QED
    BY <2>1, <2>2 DEF Grant
<1>7. KernelTypes'
  BY <1>1 DEF AlignedInv, KernelTypes
<1>8. ChunksOwned'
  <2>1. \A c, d \in chunks' : c.start = d.start => c = d
    BY <1>6 DEF AlignedInv, ChunksOwned
  <2>2. ASSUME NEW c \in chunks' PROVE \E e \in Live' : buffer'[e].physical_address = c.start
    <3>1. CASE c = chunk
      BY <1>3, <1>4, <3>1
    <3>2. CASE c \in chunks
      <4>1. PICK e \in Live : buffer[e].physical_address = c.start
        BY <3>2 DEF AlignedInv, ChunksOwned
      <4>2. e \in Buffers \ {b}
        BY DEF Live
      <4>3. QED
        BY <1>2, <1>4, <4>1, <4>2 DEF SamePart
    <3>3. QED
      BY <1>6, <3>1, <3>2
  <2>3. QED
    BY <2>1, <2>2 DEF ChunksOwned
<1>9. NodesOwned'
  BY <1>4 DEF AlignedInv, NodesOwned, DescriptorHeld
<1>10. \A d \in Buffers \ {b} : MemoryHeld(d)' /\ MappingHeld(d)'
  <2>1. \A d \in Live \ {b} : KeepsAllocator(d) /\ ChunkOf(d) \subseteq ChunkOf(d)'
    BY <1>2, <1>6 DEF KeepsAllocator, ChunkOf, SamePart, Live
  <2>2. QED
    BY <1>2, <2>1, OthersKept
<1>11. MemoryHeld(b)'
  <2>1. chunk \in ChunkOf(b)'
    BY <1>3, <1>6 DEF ChunkOf
  <2>2. Addresses(chunk) = Extent(start, length)
    BY DEF Addresses
  <2>3. Extent(start, size) \subseteq Addresses(chunk)
    BY <1>1, <2>2 DEF Extent
  <2>4. UsesNode(b)' \/ CpuRange(b)' \subseteq Addresses(chunk)
    BY <1>2, <1>3, <1>5, <2>2 DEF CpuRange, Extent
  <2>5. WithinOwnChunk(b, Extent(buffer[b].physical_address, buffer[b].size))'
    BY <1>3, <2>1, <2>3 DEF WithinOwnChunk, Extent, Addresses
  <2>6. UsesNode(b)' \/ WithinOwnChunk(b, CpuRange(b))'
    BY <2>1, <2>4 DEF WithinOwnChunk, Extent, Addresses
  <2>7. QED
    BY <2>5, <2>6 DEF MemoryHeld
<1>12. MappingHeld(b)'
  <2>1. /\ client[b].held = {} /\ client[b].access = {} /\ Cardinality(client[b].held) = 0
    BY FS_EmptySet DEF AlignedInv, MappingHeld, NoMapping
  <2>2. QED
    BY <1>2, <1>3, <1>4, <1>5, <2>1 DEF MappingHeld, NodeMapping, LinearMapping
<1>13. QED
  BY <1>7, <1>8, <1>9, <1>10, <1>11, <1>12 DEF AlignedInv

LEMMA AllocateStepHolds ==
  ASSUME AlignedConstants, AlignedInv, NEW b \in Buffers, NEW a \in Allocators,
         NEW size \in Sizes, NEW alignment \in Alignments,
         Allocate(b, a, size, alignment)
  PROVE  AlignedInv'
<1>1. /\ a \in Alive /\ b \in Buffers \ Live /\ UNCHANGED <<fdTable, allocator>>
      /\ size \in Nat \ {0} /\ alignment \in Nat /\ GrantInv'
  BY AllocateKeeps DEF Allocate, AlignedConstants, AlignedInv
<1>2. ActualSize(size, alignment) \in Nat \ {0} /\ size <= ActualSize(size, alignment)
  BY <1>1 DEF ActualSize, EffectiveAlignment
<1>3. /\ vm \in [Buffers -> VmRecords] /\ vm[b] \in VmRecords /\ vm[b].maps = 0
  BY <1>1 DEF AlignedInv, KernelTypes, MappingHeld, NoMapping
<1>4. ASSUME NEW start \in 1 .. MemorySize, NEW length \in Nat \ {0}, size <= length,
             Grant(start, length), NewBuffer(b, a, size, alignment, start),
             UNCHANGED vm, allocator[a].kind \in NodeKinds
      PROVE  AlignedInv'
  <2>1. vm' = [vm EXCEPT ![b] = vm[b]]
    BY <1>3, <1>4
  <2>2. QED
    BY <1>1, <1>3, <1>4, <2>1, GrantHolds
<1>5. ASSUME NEW start \in 1 .. MemorySize, NEW v \in Virtuals,
             Grant(start, ActualSize(size, alignment)),
             NewBuffer(b, a, size, alignment, start),
             vm' = [vm EXCEPT ![b] = MappedAt(v, alignment, start)],
             allocator[a].kind \notin NodeKinds
      PROVE  AlignedInv'
  <2> DEFINE mapping == MappedAt(v, alignment, start)
             address == AlignedAddress(v, alignment)
  <2>1. v \in Nat /\ start \in Nat
    BY DEF AlignedConstants
  <2>2. /\ address \in Nat /\ v <= address
        /\ address + size <= v + ActualSize(size, alignment)
    BY <1>1, <2>1, AlignedRangeFits
  <2>3. mapping.maps = 1 /\ mapping.start = start + address - v /\ mapping.prot = ReadWrite
    BY DEF MappedAt
  <2>4. mapping \in VmRecords
    <3>1. start + address - v \in Nat
      BY <2>1, <2>2
    <3>2. QED
      BY <3>1 DEF MappedAt, VmRecords
  <2> HIDE DEF address, mapping
  <2>5. Extent(mapping.start, size) \subseteq Extent(start, ActualSize(size, alignment))
    BY <1>1, <1>2, <2>1, <2>2, <2>3 DEF Extent
  <2>6. vm' = [vm EXCEPT ![b] = mapping]
    BY <1>5 DEF mapping
  <2> DEFINE length == ActualSize(size, alignment)
  <2>7. /\ length \in Nat \ {0} /\ size <= length
        /\ Grant(start, length) /\ NewBuffer(b, a, size, alignment, start)
        /\ Extent(mapping.start, size) \subseteq Extent(start, length)
    BY <1>2, <1>5, <2>5
  <2>8. IF allocator[a].kind \in NodeKinds THEN mapping.maps = 0
        ELSE /\ mapping.maps = 1 /\ mapping.prot = ReadWrite
             /\ Extent(mapping.start, size) \subseteq Extent(start, length)
    BY <1>5, <2>3, <2>7
  <2> HIDE DEF length
  <2>9. QED
    BY <1>1, <2>4, <2>6, <2>7, <2>8, GrantHolds
<1>6. CASE AllocateIpu(b, a, size, alignment)
  BY <1>2, <1>4, <1>6 DEF AllocateIpu, NodeKinds
<1>7. CASE AllocatePxp(b, a, size, alignment)
  BY <1>1, <1>4, <1>7 DEF AllocatePxp, NodeKinds
<1>8. CASE AllocateDwl(b, a, size, alignment)
  BY <1>5, <1>8 DEF AllocateDwl, NodeKinds
<1>9. CASE AllocateG2d(b, a, size, alignment)
  BY <1>5, <1>9 DEF AllocateG2d, NodeKinds
<1>10. CASE AllocateFails
  <2>1. UNCHANGED vars
    BY <1>1, <1>10 DEF AllocateFails, vars
  <2>2. QED
    BY <2>1, UnchangedHolds
<1>11. QED
  BY <1>6, <1>7, <1>8, <1>9, <1>10 DEF Allocate

\* The mapping goes however often it is used, and the chunk of b alone.
LEMMA DeallocateStepHolds ==
  ASSUME AlignedConstants, AlignedInv, NEW b \in Buffers, Deallocate(b)
  PROVE  /\ AlignedInv'
         /\ Live' = Live \ {b} /\ buffer'[b] = NoBuffer
         /\ \A d \in Buffers \ {b} : SamePart(d)
         /\ UNCHANGED allocator
<1> DEFINE last == [buffer[b] EXCEPT !.mapping_refcount = IF buffer[b].mapped THEN 1 ELSE @]
           mapping == IF UsesNode(b) THEN UnmapNode([buf |-> last, vm |-> vm[b]]).vm
                      ELSE Unmapped
<1>1. /\ b \in Live /\ UNCHANGED <<fdTable, allocator>>
      /\ vm' = [vm EXCEPT ![b] = mapping]
      /\ chunks' = {c \in chunks : c.start # buffer[b].physical_address}
      /\ buffer' = [buffer EXCEPT ![b] = NoBuffer]
      /\ client' = [client EXCEPT ![b] = NoClient]
      /\ GrantInv'
  BY DeallocateKeeps DEF Deallocate, Free, Usable, AlignedInv
<1>2. /\ buffer \in [Buffers -> BufferTypes] /\ buffer[b] \in BufferTypes
      /\ client \in [Buffers -> ClientTypes]
      /\ vm \in [Buffers -> VmRecords] /\ vm[b] \in VmRecords
      /\ UsesNode(b) => NodeMapping(b)
  BY <1>1, LiveBuffer
<1>3. mapping \in VmRecords /\ mapping.maps = 0
  <2>1. CASE UsesNode(b) /\ buffer[b].mapped
    <3>1. last.mapped /\ last.mapping_refcount = 1
      BY <1>2, <2>1 DEF BufferTypes
    <3> HIDE DEF last
    <3>2. mapping = [Unmapped EXCEPT !.maps = vm[b].maps - 1]
      BY <2>1, <3>1 DEF UnmapNode
    <3>3. vm[b].maps - 1 = 0
      BY <1>2, <2>1 DEF NodeMapping
    <3>4. QED
      BY <3>2, <3>3 DEF Unmapped, VmRecords
  <2>2. CASE UsesNode(b) /\ ~buffer[b].mapped
    <3>1. ~last.mapped
      BY <1>2, <2>2 DEF BufferTypes
    <3> HIDE DEF last
    <3>2. mapping = vm[b]
      BY <2>2, <3>1 DEF UnmapNode
    <3>3. QED
      BY <1>2, <2>2, <3>2 DEF NodeMapping
  <2>3. CASE ~UsesNode(b)
    BY <2>3 DEF Unmapped, VmRecords
  <2>4. QED
    BY <2>1, <2>2, <2>3
<1> HIDE DEF mapping
<1>4. /\ buffer'[b] = NoBuffer /\ client'[b] = NoClient /\ vm'[b] = mapping
      /\ \A d \in Buffers \ {b} : SamePart(d)
  BY <1>1, <1>2 DEF SamePart
<1>5. Live' = Live \ {b} /\ Alive' = Alive
  <2>1. buffer'[b].allocator = {}
    BY <1>4 DEF NoBuffer
  <2>2. \A d \in Buffers \ {b} : buffer'[d].allocator = buffer[d].allocator
    BY <1>4 DEF SamePart
  <2>3. QED
    BY <1>1, <2>1, <2>2 DEF Live, Alive
<1>6. KernelTypes'
  BY <1>1, <1>2, <1>3 DEF AlignedInv, KernelTypes
<1>7. ChunksOwned'
  <2>1. \A c, d \in chunks' : c.start = d.start => c = d
    BY <1>1 DEF AlignedInv, ChunksOwned
  <2>2. ASSUME NEW c \in chunks' PROVE \E e \in Live' : buffer'[e].physical_address = c.start
    <3>1. PICK e \in Live : buffer[e].physical_address = c.start
      BY <1>1, <2>2 DEF AlignedInv, ChunksOwned
    <3>2. e \in Buffers \ {b}
      BY <1>1, <2>2, <3>1 DEF Live
    <3>3. QED
      BY <1>4, <1>5, <3>1, <3>2 DEF SamePart
  <2>3. QED
    BY <2>1, <2>2 DEF ChunksOwned
<1>8. NodesOwned'
  BY <1>1, <1>5 DEF AlignedInv, NodesOwned, DescriptorHeld
<1>9. \A d \in Buffers \ {b} : MemoryHeld(d)' /\ MappingHeld(d)'
  <2>1. ASSUME NEW d \in Live \ {b} PROVE KeepsAllocator(d) /\ ChunkOf(d) \subseteq ChunkOf(d)'
    <3>1. buffer[d].physical_address # buffer[b].physical_address
      BY <1>1 DEF AlignedInv, GrantInv
    <3>2. buffer'[d] = buffer[d]
      BY <1>4 DEF SamePart, Live
    <3>3. QED
      BY <1>1, <3>1, <3>2 DEF KeepsAllocator, ChunkOf
  <2>2. QED
    BY <1>4, <2>1, OthersKept
<1>10. MemoryHeld(b)' /\ MappingHeld(b)'
  <2>1. b \notin Live'
    BY <1>5
  <2>2. QED
    BY <1>3, <1>4, <2>1, FS_EmptySet
    DEF MemoryHeld, MappingHeld, NoMapping, NoBuffer, NoClient
<1>11. QED
  BY <1>1, <1>4, <1>5, <1>6, <1>7, <1>8, <1>9, <1>10 DEF AlignedInv

-----------------------------------------------------------------------------
(***************************************************************************)
(* The allocators' own calls.                                              *)
(***************************************************************************)
LEMMA FdsInUse ==
  ASSUME AlignedConstants, AlignedInv, NEW fd \in FreeFds, NEW c \in Alive
  PROVE  allocator[c].fd # fd
<1>1. CASE allocator[c].kind = "G2D"
  BY <1>1 DEF AlignedConstants, AlignedInv, NodesOwned, DescriptorHeld, NoFd, FreeFds
<1>2. CASE allocator[c].kind # "G2D"
  BY <1>2 DEF AlignedInv, NodesOwned, DescriptorHeld, FreeFds
<1>3. QED
  BY <1>1, <1>2

LEMMA NewAllocatorOwns ==
  ASSUME AlignedConstants, AlignedInv, NEW a \in Allocators,
         NEW kind \in {"IPU", "PXP", "DWL", "G2D"}, NEW fd, NEW internal \in BOOLEAN,
         NewAllocator(a, kind, fd, internal),
         IF kind = "G2D" THEN fd = NoFd /\ ~internal /\ fdTable' = fdTable
         ELSE /\ fd \in Fds
              /\ fdTable' = [fdTable EXCEPT ![fd] = IF internal THEN "node" ELSE "client"]
              /\ IF internal THEN fd \in FreeFds ELSE fdTable[fd] = "client"
  PROVE  NodesOwned'
<1>1. /\ a \notin Alive /\ allocator \in [Allocators -> AllocatorRecords]
      /\ allocator' = [allocator EXCEPT ![a] = [kind |-> kind, fd |-> fd, internal |-> internal]]
      /\ fdTable \in [Fds -> {"closed", "node", "client"}]
  BY DEF NewAllocator, Fresh, AlignedInv, GrantInv, Shapes, AllocatorRecords, KernelTypes
<1>2. /\ allocator'[a].kind = kind /\ allocator'[a].fd = fd
      /\ allocator'[a].internal = internal
      /\ \A c \in Allocators \ {a} : allocator'[c] = allocator[c]
  BY <1>1
<1>3. Alive' = Alive \cup {a}
  BY <1>2 DEF Alive
<1>4. DescriptorHeld(a)'
  BY <1>1, <1>2 DEF DescriptorHeld
<1>5. ASSUME NEW c \in Alive
      PROVE  /\ c \in Allocators \ {a} /\ DescriptorHeld(c)'
             /\ internal => allocator[c].fd # fd
             /\ allocator[c].internal => allocator[c].fd # fd
  <2>1. c \in Allocators \ {a} /\ DescriptorHeld(c)
    BY <1>1 DEF Alive, AlignedInv, NodesOwned
  <2>2. internal => allocator[c].fd # fd
    <3>1. CASE kind = "G2D"
      BY <3>1
    <3>2. CASE kind # "G2D"
      BY <3>2, FdsInUse
    <3>3. QED
      BY <3>1, <3>2
  <2>3. allocator[c].internal => allocator[c].fd # fd
    BY <2>1, <2>2, AlignedConstants DEF DescriptorHeld, NoFd
  <2>4. DescriptorHeld(c)'
    <3>1. allocator'[c] = allocator[c] /\ c \in Allocators
      BY <1>2, <2>1
    <3>2. CASE allocator[c].kind = "G2D"
      BY <2>1, <3>1, <3>2 DEF DescriptorHeld
    <3>3. CASE allocator[c].kind # "G2D"
      <4>1. allocator[c].fd \in Fds
        BY <2>1, <3>3 DEF DescriptorHeld
      <4>2. fdTable'[allocator[c].fd] = fdTable[allocator[c].fd]
        <5>1. CASE kind = "G2D"
          BY <5>1
        <5>2. CASE kind # "G2D" /\ internal
          BY <1>1, <2>2, <4>1, <5>2
        <5>3. CASE kind # "G2D" /\ ~internal
          BY <1>1, <4>1, <5>3
        <5>4. QED
          BY <5>1, <5>2, <5>3
      <4>3. QED
        BY <2>1, <3>1, <3>3, <4>2 DEF DescriptorHeld
    <3>4. QED
      BY <3>2, <3>3
  <2>5. QED
    BY <2>1, <2>2, <2>3, <2>4
<1>6. \A c, d \in Alive' :
        allocator'[c].internal /\ allocator'[d].fd = allocator'[c].fd => c = d
  BY <1>2, <1>3, <1>5 DEF AlignedInv, NodesOwned
<1>7. ASSUME NEW g \in Fds, fdTable'[g] = "node"
      PROVE  \E c \in Alive' : allocator'[c].fd = g /\ allocator'[c].internal
  <2>1. CASE fdTable[g] = "node"
    <3>1. PICK c \in Alive : allocator[c].fd = g /\ allocator[c].internal
      BY <2>1 DEF AlignedInv, NodesOwned
    <3>2. QED
      BY <1>2, <1>3, <1>5, <3>1
  <2>2. CASE fdTable[g] # "node"
    <3>1. kind # "G2D" /\ g = fd /\ internal
      BY <1>1, <1>7, <2>2
    <3>2. QED
      BY <1>2, <1>3, <3>1
  <2>3. QED
    BY <2>1, <2>2
<1>8. QED
  BY <1>3, <1>4, <1>5, <1>6, <1>7 DEF NodesOwned

LEMMA DestroyOwns ==
  ASSUME AlignedConstants, AlignedInv, NEW a \in Allocators, AllocatorDestroy(a)
  PROVE  NodesOwned'
<1>1. /\ a \in Alive /\ allocator \in [Allocators -> AllocatorRecords]
      /\ allocator' = [allocator EXCEPT ![a] = NoAllocator]
      /\ fdTable' = IF allocator[a].internal
                    THEN [fdTable EXCEPT ![allocator[a].fd] = "closed"] ELSE fdTable
      /\ fdTable \in [Fds -> {"closed", "node", "client"}]
  BY DEF AllocatorDestroy, AlignedInv, GrantInv, Shapes, AllocatorRecords, KernelTypes
<1>2. /\ allocator'[a].kind = "none"
      /\ \A c \in Allocators \ {a} : allocator'[c] = allocator[c]
  BY <1>1 DEF NoAllocator
<1>3. Alive' = Alive \ {a}
  BY <1>2 DEF Alive
<1>4. \A fd \in Fds : fdTable'[fd] = fdTable[fd]
                        \/ (allocator[a].internal /\ fd = allocator[a].fd
                              /\ fdTable'[fd] = "closed")
  BY <1>1
<1>5. ASSUME NEW c \in Alive \ {a}
      PROVE  c \in Allocators \ {a} /\ DescriptorHeld(c)'
  <2>1. c \in Allocators \ {a} /\ DescriptorHeld(c)
    BY DEF Alive, AlignedInv, NodesOwned
  <2>2. ~(allocator[a].internal /\ allocator[c].fd = allocator[a].fd)
    BY <1>1 DEF AlignedInv, NodesOwned
  <2>3. QED
    BY <1>2, <1>4, <2>1, <2>2 DEF DescriptorHeld
<1>6. \A c, d \in Alive' :
        allocator'[c].internal /\ allocator'[d].fd = allocator'[c].fd => c = d
  BY <1>2, <1>3, <1>5 DEF AlignedInv, NodesOwned
<1>7. ASSUME NEW g \in Fds, fdTable'[g] = "node"
      PROVE  \E c \in Alive' : allocator'[c].fd = g /\ allocator'[c].internal
  <2>1. fdTable[g] = "node" /\ ~(allocator[a].internal /\ g = allocator[a].fd)
    BY <1>1, <1>7
  <2>2. PICK c \in Alive : allocator[c].fd = g /\ allocator[c].internal
    BY <2>1 DEF AlignedInv, NodesOwned
  <2>3. QED
    BY <1>2, <1>3, <1>5, <2>1, <2>2
<1>8. QED
  BY <1>3, <1>5, <1>6, <1>7 DEF NodesOwned

LEMMA ClientNodeOwns ==
  ASSUME AlignedConstants, AlignedInv, NEW fd \in Fds, ClientNode(fd)
  PROVE  NodesOwned'
<1>1. /\ fdTable \in [Fds -> {"closed", "node", "client"}] /\ allocator' = allocator
      /\ \A g \in Fds \ {fd} : fdTable'[g] = fdTable[g]
      /\ fdTable[fd] # "node" /\ fdTable'[fd] # "node"
  BY DEF ClientNode, FreeFds, AlignedInv, KernelTypes
<1>2. Alive' = Alive
  BY <1>1 DEF Alive
<1>3. ASSUME NEW c \in Alive PROVE DescriptorHeld(c)'
  <2>1. DescriptorHeld(c)
    BY DEF AlignedInv, NodesOwned
  <2>2. allocator[c].fd # fd
    BY FdsInUse DEF ClientNode
  <2>3. QED
    BY <1>1, <2>1, <2>2 DEF DescriptorHeld
<1>4. QED
  BY <1>1, <1>2, <1>3 DEF AlignedInv, NodesOwned

LEMMA AllocatorStepHolds ==
  ASSUME AlignedConstants, ~DestroyEarly, AlignedInv, AllocatorStep
  PROVE  AlignedInv'
<1>1. /\ UNCHANGED <<chunks, vm, buffer, client>>
      /\ \A b \in Live, a \in Alive :
           buffer[b].allocator = {a} => allocator'[a] = allocator[a]
      /\ GrantInv'
  BY AllocatorStepFrame, AllocatorStepKeeps DEF AlignedInv
<1>2. fdTable \in [Fds -> {"closed", "node", "client"}]
  BY DEF AlignedInv, KernelTypes
<1>3. fdTable' \in [Fds -> {"closed", "node", "client"}] /\ NodesOwned'
  <2>1. ASSUME NEW a \in Allocators, AllocatorNew(a) PROVE <1>3
    <3>1. CASE UNCHANGED vars
      BY <1>2, <3>1, UnchangedHolds DEF vars, AlignedInv
    <3>2. ASSUME NEW kind \in NodeKinds \cup {"DWL"}, NEW fd \in FreeFds,
                 NewAllocator(a, kind, fd, TRUE), fdTable' = [fdTable EXCEPT ![fd] = "node"]
          PROVE  <1>3
      <4>1. kind \in {"IPU", "PXP", "DWL", "G2D"} /\ kind # "G2D" /\ fd \in Fds
        BY DEF NodeKinds, FreeFds
      <4>2. NodesOwned'
        BY <3>2, <4>1, NewAllocatorOwns
      <4>3. QED
        BY <1>2, <3>2, <4>2
    <3>3. QED
      BY <2>1, <3>1, <3>2 DEF AllocatorNew
  <2>2. ASSUME NEW a \in Allocators, AllocatorNewG2d(a) PROVE <1>3
    BY <1>2, <2>2, NewAllocatorOwns DEF AllocatorNewG2d
  <2>3. ASSUME NEW a \in Allocators, AllocatorDestroy(a) PROVE <1>3
    <3>1. fdTable' \in [Fds -> {"closed", "node", "client"}]
      BY <1>2, <2>3 DEF AllocatorDestroy
    <3>2. QED
      BY <2>3, <3>1, DestroyOwns
  <2>4. ASSUME NEW a \in Allocators, NEW fd \in Fds, AllocatorNewFromFd(a, fd)
        PROVE  <1>3
    <3>1. PICK kind \in NodeKinds : NewAllocator(a, kind, fd, FALSE)
      BY <2>4 DEF AllocatorNewFromFd
    <3>2. kind \in {"IPU", "PXP", "DWL", "G2D"} /\ kind # "G2D"
      BY DEF NodeKinds
    <3>3. fdTable' = fdTable /\ fdTable[fd] = "client"
      BY <2>4 DEF AllocatorNewFromFd
    <3>4. fdTable' = [fdTable EXCEPT ![fd] = "client"]
      BY <1>2, <3>3
    <3>5. NodesOwned'
      BY <3>1, <3>2, <3>3, <3>4, NewAllocatorOwns
    <3>6. QED
      BY <1>2, <3>3, <3>5
  <2>5. ASSUME NEW fd \in Fds, ClientNode(fd) PROVE <1>3
    <3>1. fdTable' \in [Fds -> {"closed", "node", "client"}]
      BY <1>2, <2>5 DEF ClientNode
    <3>2. QED
      BY <2>5, <3>1, ClientNodeOwns
  <2>6. QED
    BY <2>1, <2>2, <2>3, <2>4, <2>5 DEF AllocatorStep
<1>4. KernelTypes'
  BY <1>1, <1>3 DEF AlignedInv, KernelTypes
<1>5. ChunksOwned'
  BY <1>1 DEF AlignedInv, ChunksOwned, Live
<1>6. ASSUME NEW b \in Buffers PROVE MemoryHeld(b)' /\ MappingHeld(b)'
  <2>1. SamePart(b) /\ (b \in Live => KeepsAllocator(b)) /\ ChunkOf(b) \subseteq ChunkOf(b)'
    BY <1>1 DEF SamePart, KeepsAllocator, ChunkOf
  <2>2. QED
    BY <2>1, PartKept DEF AlignedInv
<1>7. QED
  BY <1>1, <1>3, <1>4, <1>5, <1>6 DEF AlignedInv

-----------------------------------------------------------------------------
(***************************************************************************)
(* The invariant, and what follows from it.                                *)
(***************************************************************************)
LEMMA AlignedInvStep ==
  ASSUME AlignedConstants, ~DestroyEarly, AlignedInv, [Next]_vars
  PROVE  AlignedInv'
<1>1. CASE UNCHANGED vars
  BY <1>1, UnchangedHolds
<1>2. CASE AllocatorStep
  BY <1>2, AllocatorStepHolds
<1>3. CASE BufferStep
  BY <1>3, AllocateStepHolds, DeallocateStepHolds, MapStepHolds, UnmapStepHolds
  DEF BufferStep
<1>4. QED
  BY <1>1, <1>2, <1>3 DEF Next

LEMMA AlignedInvariant ==
  ASSUME ~DestroyEarly
  PROVE  Spec => []AlignedInv
<1>1. Init => AlignedInv
  BY AlignedInvInit
<1>2. AlignedInv /\ [Next]_vars => AlignedInv'
  BY AlignedConstants, AlignedInvStep
<1>3. QED
  BY <1>1, <1>2, PTL DEF Spec

LEMMA TypesFollow == AlignedConstants /\ AlignedInv => TypeOK
<1> SUFFICES ASSUME AlignedConstants, AlignedInv PROVE TypeOK
  OBVIOUS
<1>1. /\ buffer \in [Buffers -> BufferTypes]
      /\ client \in [Buffers -> ClientTypes]
  BY DEF AlignedInv, GrantInv, Shapes, ClientTypes
<1>2. ASSUME NEW b \in Buffers PROVE buffer[b].mapping_refcount \in Nat
  <2>1. client[b].held \in SUBSET Handles
    BY <1>1 DEF ClientTypes
  <2>2. buffer[b].mapping_refcount = Cardinality(client[b].held)
    BY DEF AlignedInv, MappingHeld
  <2>3. QED
    BY <2>1, <2>2, HolderCount
<1>3. buffer \in [Buffers ->
        [allocator : SUBSET Allocators, size : Nat, physical_address : Nat,
         aligned_physical_address : Nat, mapped : BOOLEAN,
         map_flags : SUBSET ReadWrite, mapping_refcount : Nat]]
  BY <1>1, <1>2 DEF BufferTypes
<1>4. QED
  BY <1>3 DEF AlignedInv, GrantInv, Shapes, KernelTypes, VmRecords, TypeOK

LEMMA CpuRangesFollow == AlignedConstants /\ AlignedInv => CpuRangesGranted
<1> SUFFICES ASSUME AlignedConstants, AlignedInv, NEW b \in Live, vm[b].maps > 0
             PROVE  WithinOwnChunk(b, CpuRange(b))
  BY DEF CpuRangesGranted
<1>1. b \in Buffers /\ (UsesNode(b) => NodeMapping(b))
  BY LiveBuffer
<1>2. MemoryHeld(b)
  BY <1>1 DEF AlignedInv
<1>3. UsesNode(b) => CpuRange(b) = Extent(buffer[b].physical_address, buffer[b].size)
  BY <1>1 DEF NodeMapping, CpuRange
<1>4. QED
  BY <1>2, <1>3 DEF MemoryHeld

LEMMA OwnersFollow == AlignedInv => ResourcesOwned
<1> SUFFICES ASSUME AlignedInv PROVE ResourcesOwned
  OBVIOUS
<1>1. ASSUME NEW c \in chunks
      PROVE  Cardinality({b \in Live : buffer[b].physical_address = c.start}) = 1
  <2>1. PICK b \in Live : buffer[b].physical_address = c.start
    BY DEF AlignedInv, ChunksOwned
  <2>2. {d \in Live : buffer[d].physical_address = c.start} = {b}
    BY <2>1 DEF AlignedInv, GrantInv
  <2>3. QED
    BY <2>2, FS_Singleton
<1>2. ASSUME NEW b \in Live PROVE Cardinality(ChunkOf(b)) = 1
  <2>1. PICK a \in Alive, c \in chunks : PlacedIn(b, a, c)
    BY DEF AlignedInv, GrantInv, Placed
  <2>2. ChunkOf(b) = {c}
    BY <2>1 DEF PlacedIn, ChunkOf, AlignedInv, ChunksOwned
  <2>3. QED
    BY <2>2, FS_Singleton
<1>3. QED
  BY <1>1, <1>2 DEF ResourcesOwned, AlignedInv, NodesOwned, DescriptorHeld

LEMMA MappingsFollow == AlignedConstants /\ AlignedInv => MappingsMatchHolders
<1> SUFFICES ASSUME AlignedConstants, AlignedInv, NEW b \in Buffers
             PROVE  /\ buffer[b].mapping_refcount = Cardinality(client[b].held)
                    /\ vm[b].maps =
                         IF b \in Live /\ (client[b].held # {} \/ ~UsesNode(b)) THEN 1 ELSE 0
  BY DEF MappingsMatchHolders
<1>1. MappingHeld(b)
  BY DEF AlignedInv
<1>2. QED
  BY <1>1 DEF MappingHeld, NodeMapping, LinearMapping, NoMapping

\* Every map call names the rights it wants, or no buffer is mapped through a
\* node: there, no flags at all give no rights.
RightsNamed == {} \notin FlagChoices \/ Kinds \cap NodeKinds = {}

LEMMA NodeFlagsNamed ==
  ASSUME RightsNamed, AlignedInv, NEW b \in Live, UsesNode(b)
  PROVE  {} \notin FlagChoices
<1>1. PICK a \in Alive : buffer[b].allocator = {a}
  BY DEF AlignedInv, GrantInv, Placed, PlacedIn
<1>2. KindOf(b) = allocator[a].kind
  BY <1>1, KindIs
<1>3. allocator[a].kind \in Kinds
  BY DEF Alive, AlignedInv, GrantInv, Shapes
<1>4. QED
  BY <1>2, <1>3 DEF UsesNode, RightsNamed

\* Then the flags of a mapping are the rights of those who hold it.
LEMMA FlagsAreRights ==
  ASSUME AlignedConstants, RightsNamed, AlignedInv, NEW b \in Live, client[b].held # {}
  PROVE  /\ client[b].access = buffer[b].map_flags
         /\ client[b].access \subseteq vm[b].prot
<1>1. /\ client[b] \in ClientTypes
      /\ UsesNode(b) => NodeMapping(b)
      /\ ~UsesNode(b) => LinearMapping(b)
  BY LiveBuffer
<1>2. CASE ~UsesNode(b)
  BY <1>1, <1>2 DEF LinearMapping, ClientTypes
<1>3. CASE UsesNode(b)
  <2>1. buffer[b].map_flags # {}
    BY <1>1, <1>3, NodeFlagsNamed DEF NodeMapping
  <2>2. QED
    BY <1>1, <1>3, <2>1 DEF NodeMapping, Requested
<1>4. QED
  BY <1>2, <1>3

LEMMA AccessFollows ==
  AlignedConstants /\ RightsNamed /\ AlignedInv => HoldersCanAccess
  BY FlagsAreRights DEF HoldersCanAccess

LEMMA AssertionsFollow ==
  AlignedConstants /\ RightsNamed /\ AlignedInv => AssertionsHold
  BY FlagsAreRights DEF AssertionsHold, Usable

\* The structures keep their shape; no reference count becomes negative,
\* whatever sequence of maps, unmaps and failures the client goes through.
THEOREM AlignedTypesKept ==
  ASSUME ~DestroyEarly
  PROVE  Spec => []TypeOK
<1>1. AlignedInv => TypeOK
  BY AlignedConstants, TypesFollow
<1>2. QED
  BY <1>1, AlignedInvariant, PTL

\* Through no mapping does the CPU reach memory of another buffer or of nobody,
\* although DWL and G2D memory is mapped at an address that was aligned
\* apart from the physical one.
THEOREM CpuStaysInOwnMemory ==
  ASSUME ~DestroyEarly
  PROVE  Spec => []CpuRangesGranted
<1>1. AlignedInv => CpuRangesGranted
  BY AlignedConstants, CpuRangesFollow
<1>2. QED
  BY <1>1, AlignedInvariant, PTL

\* All memory and every descriptor has exactly one owner that releases it.
THEOREM AlignedResourcesOwned ==
  ASSUME ~DestroyEarly
  PROVE  Spec => []ResourcesOwned
<1>1. AlignedInv => ResourcesOwned
  BY OwnersFollow
<1>2. QED
  BY <1>1, AlignedInvariant, PTL

\* Reference counts are the numbers of outstanding map calls, and the
\* mappings last as long as those or, for DWL and G2D, as the buffer.
THEOREM AlignedMappingsHeld ==
  ASSUME ~DestroyEarly
  PROVE  Spec => []MappingsMatchHolders
<1>1. AlignedInv => MappingsMatchHolders
  BY AlignedConstants, MappingsFollow
<1>2. QED
  BY <1>1, AlignedInvariant, PTL

\* Whoever maps a buffer can access it as the first map asked for, unless a
\* node's buffer is mapped with no flags.
THEOREM AlignedHoldersCanAccess ==
  ASSUME ~DestroyEarly, RightsNamed
  PROVE  Spec => []HoldersCanAccess
<1>1. AlignedInv => HoldersCanAccess
  BY AlignedConstants, AccessFollows
<1>2. QED
  BY <1>1, AlignedInvariant, PTL

\* For a client that asks for no more than the first map's rights, no redundant
\* map fails its assertion, whatever failed maps and unmaps came before: unless
\* a node's buffer is mapped with no flags, when the assertion compares with
\* none.
THEOREM AlignedAssertionsHold ==
  ASSUME ~DestroyEarly, RightsNamed
  PROVE  Spec => []AssertionsHold
<1>1. AlignedInv => AssertionsHold
  BY AlignedConstants, AssertionsFollow
<1>2. QED
  BY <1>1, AlignedInvariant, PTL

-----------------------------------------------------------------------------
(***************************************************************************)
(* The contract of imxdmabuffer.h: the values that the refinement gives to *)
(* its variables, and the contract's actions in terms of them.             *)
(***************************************************************************)
alive   == {{a} : a \in Alive}
owner   == [b \in Buffers |-> buffer[b].allocator]
maps    == [b \in Buffers |-> buffer[b].mapping_refcount]
access  == [b \in Buffers |-> MappedRights(b)]
manual  == [b \in Buffers |-> FALSE]
session == [b \in Buffers |-> buffer[b].mapping_refcount > 0]
content == [b \in Buffers |-> 0]

NewView(b, n, rights) == buffer'[b].mapping_refcount = n /\ MappedRights(b)' = rights

SameView(b) == NewView(b, buffer[b].mapping_refcount, MappedRights(b))

OthersSameView(b) == \A d \in Buffers \ {b} : SameView(d)

SameOwners == owner' = owner /\ alive' = alive

ContractStep == Contract!Next \/ UNCHANGED Contract!contractVars

LEMMA ContractLive == Contract!live = Live
  BY DEF Contract!live, Live

\* A step of one buffer is a step of the contract.
LEMMA OneBufferSteps ==
  ASSUME NEW b \in Buffers, Contract!BufferStep(b)
  PROVE  ContractStep
  BY DEF ContractStep, Contract!Next

LEMMA ViewFunctions ==
  ASSUME NEW b \in Buffers, OthersSameView(b), NEW n, NEW rights, NewView(b, n, rights)
  PROVE  /\ maps' = [maps EXCEPT ![b] = n]
         /\ access' = [access EXCEPT ![b] = rights]
         /\ session' = [session EXCEPT ![b] = n > 0]
         /\ manual' = manual /\ manual = [manual EXCEPT ![b] = FALSE]
         /\ content' = content /\ content = [content EXCEPT ![b] = 0]
<1>1. maps' = [maps EXCEPT ![b] = n]
  BY DEF OthersSameView, SameView, NewView, maps
<1>2. access' = [access EXCEPT ![b] = rights]
  BY DEF OthersSameView, SameView, NewView, access
<1>3. session' = [session EXCEPT ![b] = n > 0]
  BY DEF OthersSameView, SameView, NewView, session
<1>4. manual' = manual /\ manual = [manual EXCEPT ![b] = FALSE]
  BY DEF manual
<1>5. content' = content /\ content = [content EXCEPT ![b] = 0]
  BY DEF content
<1>6. QED
  BY <1>1, <1>2, <1>3, <1>4, <1>5

LEMMA SetMappingStep ==
  ASSUME NEW b \in Buffers, OthersSameView(b), NEW n, NEW rights, NewView(b, n, rights),
         alive' = alive
  PROVE  /\ Contract!SetMapping(b, n, rights, FALSE, n > 0)
         /\ maps[b] = buffer[b].mapping_refcount
<1>1. /\ maps' = [maps EXCEPT ![b] = n]
      /\ access' = [access EXCEPT ![b] = rights]
      /\ session' = [session EXCEPT ![b] = n > 0]
      /\ manual' = [manual EXCEPT ![b] = FALSE]
      /\ content' = content
      /\ maps[b] = buffer[b].mapping_refcount
  BY ViewFunctions DEF maps
<1>2. QED
  BY <1>1 DEF Contract!SetMapping, alive, maps, access, manual, session, content

LEMMA SameMappings ==
  ASSUME \A b \in Buffers : SameView(b)
  PROVE  UNCHANGED <<maps, access, manual, session, content>>
<1>1. maps' = maps /\ access' = access /\ session' = session
  BY DEF SameView, NewView, maps, access, session
<1>2. QED
  BY <1>1 DEF manual, content

LEMMA Stutter ==
  ASSUME SameOwners, \A b \in Buffers : SameView(b)
  PROVE  ContractStep
<1>1. UNCHANGED <<maps, access, manual, session, content>>
  BY SameMappings
<1>2. QED
  BY <1>1 DEF ContractStep, Contract!contractVars, SameOwners, alive, owner, maps, access,
     manual, session, content

\* One more or one less map call on a buffer that stays mapped.
LEMMA CountStep ==
  ASSUME NEW b \in Live, SameOwners, OthersSameView(b), NEW n \in Nat,
         NewView(b, n, MappedRights(b)), buffer[b].mapping_refcount \in Nat \ {0},
         n = buffer[b].mapping_refcount + 1 \/ (n = buffer[b].mapping_refcount - 1 /\ n > 0)
  PROVE  Contract!MapAgain(b) \/ Contract!Unmap(b)
<1>0. b \in Buffers /\ b \in Contract!live
  BY ContractLive DEF Live
<1>1. maps' = [maps EXCEPT ![b] = n] /\ maps[b] = buffer[b].mapping_refcount
  BY <1>0, ViewFunctions DEF maps
<1>2. access' = access
  BY <1>0 DEF OthersSameView, SameView, NewView, access
<1>3. session' = session
  BY <1>0 DEF OthersSameView, SameView, NewView, session
<1>4. manual' = manual /\ content' = content
  BY DEF manual, content
<1>5. UNCHANGED <<alive, owner, access, manual, session, content>>
  BY <1>2, <1>3, <1>4 DEF SameOwners
<1>6. CASE n = maps[b] + 1
  <2>1. /\ b \in Contract!live /\ maps[b] > 0
        /\ maps' = [maps EXCEPT ![b] = maps[b] + 1]
    BY <1>0, <1>1, <1>6
  <2>2. QED
    BY <1>5, <2>1, Zenon
    DEF Contract!MapAgain, alive, owner, maps, access, manual, session, content
<1>7. CASE n = maps[b] - 1 /\ n > 0
  <2>1. /\ b \in Contract!live /\ maps[b] > 1
        /\ maps' = [maps EXCEPT ![b] = maps[b] - 1]
    BY <1>0, <1>1, <1>7
  <2>2. QED
    BY <1>5, <2>1, Zenon
    DEF Contract!Unmap, alive, owner, maps, access, manual, session, content
<1>8. QED
  BY <1>1, <1>6, <1>7

LEMMA SameViewFrame ==
  ASSUME AlignedConstants, AlignedInv, NEW b \in Buffers, SamePart(b),
         b \in Live => KeepsAllocator(b)
  PROVE  SameView(b)
<1>1. CASE b \notin Live
  <2>1. buffer[b].mapping_refcount = 0
    BY <1>1, FS_EmptySet DEF AlignedInv, MappingHeld, NoMapping
  <2>2. QED
    BY <2>1 DEF SamePart, SameView, NewView, MappedRights
<1>2. CASE b \in Live
  <2>1. PICK a \in Alive : buffer[b].allocator = {a}
    BY <1>2 DEF AlignedInv, GrantInv, Placed, PlacedIn
  <2>2. UsesNode(b)' <=> UsesNode(b)
    BY <1>2, <2>1, SameKind DEF SamePart, KeepsAllocator
  <2>3. QED
    BY <2>2 DEF SamePart, SameView, NewView, MappedRights
<1>3. QED
  BY <1>1, <1>2

LEMMA OthersLookTheSame ==
  ASSUME AlignedConstants, AlignedInv, NEW b \in Buffers,
         \A d \in Buffers \ {b} : SamePart(d), UNCHANGED allocator
  PROVE  OthersSameView(b)
<1>1. \A d \in Buffers : KeepsAllocator(d)
  BY DEF KeepsAllocator
<1>2. QED
  BY <1>1, SameViewFrame DEF OthersSameView

-----------------------------------------------------------------------------
(***************************************************************************)
(* The steps.                                                              *)
(***************************************************************************)
\* What the contract sees of b when a call gives it these values.
LEMMA PartView ==
  ASSUME AlignedConstants, AlignedInv, NEW b \in Live,
         NEW mapped, NEW flags, NEW count, NEW mapping, NEW held, NEW rights,
         NewPart(b, mapped, flags, count, mapping, held, rights)
  PROVE  /\ SameOwners /\ b \in Buffers /\ OthersSameView(b)
         /\ NewView(b, count, IF count = 0 THEN {}
                              ELSE IF UsesNode(b) THEN mapping.prot ELSE flags)
<1>1. /\ UsesNode(b)' <=> UsesNode(b)
      /\ buffer'[b].map_flags = flags /\ buffer'[b].mapping_refcount = count
      /\ vm'[b] = mapping
  BY PartNow
<1>2. b \in Buffers
  BY DEF Live
<1>3. OthersSameView(b)
  BY <1>2, OthersLookTheSame DEF NewPart
<1>4. NewView(b, count, IF count = 0 THEN {}
                        ELSE IF UsesNode(b) THEN mapping.prot ELSE flags)
  BY <1>1 DEF NewView, MappedRights
<1>5. SameOwners
  <2>1. buffer'[b] = [buffer[b] EXCEPT !.mapped = mapped, !.map_flags = flags,
                                       !.mapping_refcount = count]
    BY DEF NewPart
  <2>2. buffer[b] \in BufferTypes
    BY LiveBuffer
  <2>3. buffer'[b].allocator = buffer[b].allocator
    BY <2>1, <2>2 DEF BufferTypes
  <2>4. \A d \in Buffers \ {b} : buffer'[d] = buffer[d]
    BY DEF NewPart, SamePart
  <2>5. owner' = owner
    BY <2>3, <2>4 DEF owner
  <2>6. alive' = alive
    BY DEF NewPart, alive, Alive
  <2>7. QED
    BY <2>5, <2>6 DEF SameOwners
<1>6. QED
  BY <1>2, <1>3, <1>4, <1>5

LEMMA FirstStep ==
  ASSUME AlignedConstants, AlignedInv, NEW b \in Live,
         NEW mapped, NEW flags, NEW mapping, NEW held, NEW rights,
         NewPart(b, mapped, flags, 1, mapping, held, rights),
         buffer[b].mapping_refcount = 0,
         flags \in (SUBSET ReadWrite) \ {{}}, UsesNode(b) => mapping.prot = flags
  PROVE  ContractStep
<1>1. SameOwners /\ b \in Buffers /\ OthersSameView(b) /\ NewView(b, 1, flags)
  BY PartView
<1>2. Contract!SetMapping(b, 1, flags, FALSE, 1 > 0) /\ maps[b] = 0
  BY <1>1, SetMappingStep DEF SameOwners
<1>3. Contract!SetMapping(b, 1, flags, FALSE, ~FALSE)
  <2>1. (1 > 0) = ~FALSE
    OBVIOUS
  <2>2. QED
    BY <1>2, <2>1, Zenon
<1>4. Contract!MapFirst(b, flags, FALSE)
  BY <1>1, <1>2, <1>3, ContractLive DEF Contract!MapFirst, SameOwners, owner, maps
<1>5. flags \in SUBSET Contract!ReadWrite
  BY DEF ReadWrite, Contract!ReadWrite
<1>6. QED
  BY <1>1, <1>4, <1>5, OneBufferSteps DEF Contract!BufferStep

LEMMA LastStep ==
  ASSUME AlignedConstants, AlignedInv, NEW b \in Live,
         NEW mapped, NEW flags, NEW mapping, NEW held, NEW rights,
         NewPart(b, mapped, flags, 0, mapping, held, rights),
         buffer[b].mapping_refcount = 1
  PROVE  ContractStep
<1>1. SameOwners /\ b \in Buffers /\ OthersSameView(b) /\ NewView(b, 0, {})
  BY PartView
<1>2. Contract!SetMapping(b, 0, {}, FALSE, 0 > 0) /\ maps[b] = 1
  BY <1>1, SetMappingStep DEF SameOwners
<1>3. Contract!SetMapping(b, 0, {}, FALSE, FALSE)
  <2>1. (0 > 0) = FALSE
    OBVIOUS
  <2>2. QED
    BY <1>2, <2>1, Zenon
<1>4. ~manual[b]
  BY <1>1 DEF manual
<1>5. Contract!UnmapLast(b)
  BY <1>1, <1>2, <1>3, <1>4, ContractLive
  DEF Contract!UnmapLast, SameOwners, owner, maps, manual
<1>6. QED
  BY <1>1, <1>5, OneBufferSteps DEF Contract!BufferStep

\* A failed map or an idle unmap leaves the count at 0.
LEMMA IdleStep ==
  ASSUME AlignedConstants, AlignedInv, NEW b \in Live,
         NEW mapped, NEW flags, NEW mapping, NEW held, NEW rights,
         NewPart(b, mapped, flags, 0, mapping, held, rights),
         buffer[b].mapping_refcount = 0
  PROVE  ContractStep
<1>1. SameOwners /\ b \in Buffers /\ OthersSameView(b) /\ NewView(b, 0, {})
  BY PartView
<1>2. SameView(b)
  BY <1>1 DEF SameView, NewView, MappedRights
<1>3. QED
  BY <1>1, <1>2, Stutter DEF OthersSameView

LEMMA RecountStep ==
  ASSUME AlignedConstants, AlignedInv, NEW b \in Live, NEW n \in Nat \ {0}, NEW held,
         Recount(b, n, held), buffer[b].mapping_refcount \in Nat \ {0},
         n = buffer[b].mapping_refcount + 1 \/ n = buffer[b].mapping_refcount - 1
  PROVE  ContractStep
<1>1. /\ SameOwners /\ b \in Buffers /\ OthersSameView(b)
      /\ NewView(b, n, IF UsesNode(b) THEN vm[b].prot ELSE buffer[b].map_flags)
  BY PartView DEF Recount
<1>2. NewView(b, n, MappedRights(b))
  BY <1>1 DEF MappedRights
<1>3. Contract!MapAgain(b) \/ Contract!Unmap(b)
  BY <1>1, <1>2, CountStep
<1>4. QED
  BY <1>1, <1>3, OneBufferSteps DEF Contract!BufferStep

LEMMA RefineMap ==
  ASSUME AlignedConstants, RightsNamed, AlignedInv, NEW b \in Buffers, NEW h \in Handles,
         NEW f \in FlagChoices, Map(b, h, f)
  PROVE  ContractStep
<1>1. b \in Live
  BY MapEffect
<1>2. /\ buffer[b].mapping_refcount \in Nat
      /\ buffer[b].mapping_refcount = 0 <=> client[b].held = {}
  BY <1>1, LiveBuffer
<1>3. /\ f \in SUBSET ReadWrite /\ Requested(f) \in (SUBSET ReadWrite) \ {{}}
      /\ UsesNode(b) => f # {}
  <2>1. f \in SUBSET ReadWrite
    BY DEF AlignedConstants
  <2>2. QED
    BY <1>1, <2>1, NodeFlagsNamed DEF Requested, ReadWrite
<1>4. CASE NodeFirst(b, h, f)
  <2> DEFINE mapped == TRUE
             mapping == [maps |-> 1, start |-> buffer[b].physical_address, prot |-> f]
  <2>1. /\ NewPart(b, mapped, f, 1, mapping, {h}, Requested(f))
        /\ client[b].held = {} /\ f \in (SUBSET ReadWrite) \ {{}}
    BY <1>3, <1>4 DEF NodeFirst
  <2>2. mapping.prot = f
    OBVIOUS
  <2> HIDE DEF mapped, mapping
  <2>3. QED
    BY <1>1, <1>2, <2>1, <2>2, FirstStep
<1>5. CASE LinearFirst(b, h, f)
  BY <1>1, <1>2, <1>3, <1>5, FirstStep DEF LinearFirst
<1>6. CASE NodeFails(b, f)
  <2> DEFINE mapped == FALSE
  <2>1. NewPart(b, mapped, f, 0, vm[b], {}, {}) /\ client[b].held = {}
    BY <1>6 DEF NodeFails
  <2> HIDE DEF mapped
  <2>2. QED
    BY <1>1, <1>2, <2>1, IdleStep
<1>7. CASE Again(b, h)
  <2> DEFINE n == buffer[b].mapping_refcount + 1
             held == client[b].held \cup {h}
  <2>1. Recount(b, n, held) /\ buffer[b].mapping_refcount # 0 /\ n \in Nat \ {0}
    BY <1>2, <1>7 DEF Again
  <2>2. QED
    BY <1>1, <1>2, <2>1, RecountStep
<1>8. QED
  BY <1>4, <1>5, <1>6, <1>7, MapEffect

LEMMA RefineUnmap ==
  ASSUME AlignedConstants, AlignedInv, NEW b \in Buffers, NEW h \in Handles, Unmap(b, h)
  PROVE  ContractStep
<1>1. b \in Live
  BY UnmapEffect
<1>2. /\ client[b].held \in SUBSET Handles
      /\ buffer[b].mapping_refcount = Cardinality(client[b].held)
      /\ buffer[b].mapping_refcount \in Nat
      /\ buffer[b].mapping_refcount = 0 <=> client[b].held = {}
  BY <1>1, LiveBuffer
<1>3. client[b].held = {h} => buffer[b].mapping_refcount = 1
  <2>1. Cardinality({h}) = 1
    BY <1>2, HolderCount
  <2>2. QED
    BY <1>2, <2>1
<1>4. CASE Idle(b)
  BY <1>1, <1>2, <1>4, IdleStep DEF Idle, Recount
<1>5. CASE OneLess(b, h)
  <2> DEFINE n == buffer[b].mapping_refcount - 1
             held == client[b].held \ {h}
  <2>1. Recount(b, n, held) /\ h \in client[b].held /\ held # {} /\ held \in SUBSET Handles
    BY <1>2, <1>5 DEF OneLess
  <2>2. n = Cardinality(held)
    <3>1. Cardinality(held) = Cardinality(client[b].held) - 1
      BY <1>2, <2>1, HolderCount
    <3>2. QED
      BY <1>2, <3>1
  <2>3. n \in Nat \ {0}
    BY <2>1, <2>2, HolderCount
  <2>4. buffer[b].mapping_refcount \in Nat \ {0}
    BY <1>2, <2>1
  <2> HIDE DEF held
  <2>5. QED
    BY <1>1, <2>1, <2>3, <2>4, RecountStep
<1>6. CASE NodeLast(b, h)
  <2> DEFINE mapped == FALSE
  <2>1. /\ NewPart(b, mapped, buffer[b].map_flags, 0, Unmapped, {}, {})
        /\ client[b].held = {h}
    BY <1>6 DEF NodeLast
  <2> HIDE DEF mapped
  <2>2. QED
    BY <1>1, <1>3, <2>1, LastStep
<1>7. CASE LinearLast(b, h)
  BY <1>1, <1>3, <1>7, LastStep DEF LinearLast
<1>8. QED
  BY <1>4, <1>5, <1>6, <1>7, UnmapEffect

LEMMA RefineAllocate ==
  ASSUME AlignedConstants, AlignedInv, NEW b \in Buffers, NEW a \in Allocators,
         NEW size \in Sizes, NEW alignment \in Alignments,
         Allocate(b, a, size, alignment)
  PROVE  ContractStep
<1>0. b \notin Live /\ a \in Alive /\ UNCHANGED allocator /\ alive' = alive
  BY DEF Allocate, alive, Alive
<1>1. /\ buffer \in [Buffers -> BufferTypes] /\ client \in [Buffers -> ClientTypes]
      /\ vm \in [Buffers -> VmRecords]
      /\ buffer[b].mapping_refcount = 0
  <2>1. buffer[b].mapping_refcount = 0
    BY <1>0, FS_EmptySet DEF AlignedInv, MappingHeld, NoMapping
  <2>2. QED
    BY <2>1 DEF AlignedInv, GrantInv, Shapes, KernelTypes, ClientTypes
<1>2. CASE UNCHANGED <<vm, buffer, client>>
  <2>1. SameOwners /\ \A d \in Buffers : SamePart(d) /\ KeepsAllocator(d)
    BY <1>0, <1>2 DEF SameOwners, owner, SamePart, KeepsAllocator
  <2>2. QED
    BY <2>1, SameViewFrame, Stutter
<1>3. ASSUME NEW start, NewBuffer(b, a, size, alignment, start),
             NEW mapping, vm' = [vm EXCEPT ![b] = mapping]
      PROVE  ContractStep
  <2>1. \A d \in Buffers \ {b} : SamePart(d)
    BY <1>1, <1>3 DEF NewBuffer, SamePart
  <2>2. buffer'[b].allocator = {a} /\ buffer'[b].mapping_refcount = 0
    BY <1>1, <1>3 DEF NewBuffer, NoBuffer
  <2>3. owner' = [owner EXCEPT ![b] = {a}]
    <3>1. \A d \in Buffers \ {b} : buffer'[d].allocator = buffer[d].allocator
      BY <2>1 DEF SamePart
    <3>2. QED
      BY <2>2, <3>1 DEF owner
  <2>4. OthersSameView(b) /\ SameView(b)
    <3>1. SameView(b)
      BY <1>1, <2>2 DEF SameView, NewView, MappedRights
    <3>2. QED
      BY <1>0, <2>1, <3>1, OthersLookTheSame
  <2>5. UNCHANGED <<maps, access, manual, session, content>>
    BY <2>4, SameMappings DEF OthersSameView
  <2>6. content' = [content EXCEPT ![b] = 0]
    BY DEF content
  <2>7. b \notin Contract!live /\ {a} \in alive
    BY <1>0, ContractLive DEF alive
  <2>8. Contract!Allocate(b, {a})
    BY <1>0, <2>3, <2>5, <2>6, <2>7
    DEF Contract!Allocate, Contract!mapping, alive, owner, maps, access, manual, session,
        content
  <2>9. QED
    BY <2>8, OneBufferSteps DEF Contract!BufferStep
<1>4. CASE \E start : NewBuffer(b, a, size, alignment, start) /\ UNCHANGED vm
  <2>1. vm' = [vm EXCEPT ![b] = vm[b]]
    BY <1>1, <1>4
  <2>2. QED
    BY <1>3, <1>4, <2>1
<1>5. QED
  BY <1>2, <1>3, <1>4 DEF Allocate, AllocateIpu, AllocatePxp, AllocateDwl, AllocateG2d,
     AllocateFails

LEMMA RefineDeallocate ==
  ASSUME AlignedConstants, AlignedInv, NEW b \in Buffers, Deallocate(b)
  PROVE  ContractStep
<1>1. /\ b \in Live /\ buffer'[b] = NoBuffer /\ OthersSameView(b)
      /\ \A d \in Buffers \ {b} : SamePart(d)
  BY DeallocateStepHolds, OthersLookTheSame DEF Deallocate, Usable
<1>2. NewView(b, 0, {})
  BY <1>1 DEF NoBuffer, NewView, MappedRights
<1>3. owner' = [owner EXCEPT ![b] = {}] /\ alive' = alive
  <2>1. buffer'[b].allocator = {}
    BY <1>1 DEF NoBuffer
  <2>2. \A d \in Buffers \ {b} : buffer'[d].allocator = buffer[d].allocator
    BY <1>1 DEF SamePart
  <2>3. owner' = [owner EXCEPT ![b] = {}]
    BY <2>1, <2>2 DEF owner
  <2>4. allocator' = allocator
    BY DEF Deallocate
  <2>5. alive' = alive
    BY <2>4 DEF alive, Alive
  <2>6. QED
    BY <2>3, <2>5
<1>4. Contract!SetMapping(b, 0, {}, FALSE, 0 > 0)
  BY <1>1, <1>2, <1>3, SetMappingStep
<1>5. Contract!SetMapping(b, 0, {}, FALSE, FALSE)
  <2>1. (0 > 0) = FALSE
    OBVIOUS
  <2>2. QED
    BY <1>4, <2>1, Zenon
<1>6. Contract!Deallocate(b)
  BY <1>1, <1>3, <1>5, ContractLive DEF Contract!Deallocate, owner
<1>7. QED
  BY <1>6, OneBufferSteps DEF Contract!BufferStep

\* An allocator is created, or destroyed when it has no buffers.
LEMMA AllocatorEffect ==
  ASSUME AlignedConstants, ~DestroyEarly, AlignedInv, AllocatorStep
  PROVE  \/ allocator' = allocator
         \/ \E a \in Allocators : a \notin Alive /\ Alive' = Alive \cup {a}
         \/ \E a \in Alive : /\ Alive' = Alive \ {a}
                            /\ \A b \in Live : a \notin buffer[b].allocator
<1>0. allocator \in [Allocators -> AllocatorRecords]
  BY DEF AlignedInv, GrantInv, Shapes, AllocatorRecords
<1>1. ASSUME NEW a \in Allocators, NEW kind, NEW fd, NEW internal,
             NewAllocator(a, kind, fd, internal)
      PROVE  a \notin Alive /\ Alive' = Alive \cup {a}
  <2>1. /\ a \notin Alive /\ kind \in Kinds
        /\ allocator' = [allocator EXCEPT ![a] =
             [kind |-> kind, fd |-> fd, internal |-> internal]]
    BY <1>1 DEF NewAllocator, Fresh
  <2>2. kind # "none"
    BY <2>1 DEF AlignedConstants
  <2>3. QED
    BY <1>0, <2>1, <2>2 DEF Alive
<1>2. ASSUME NEW a \in Allocators, AllocatorDestroy(a)
      PROVE  /\ a \in Alive /\ Alive' = Alive \ {a}
             /\ \A b \in Live : a \notin buffer[b].allocator
  <2>1. a \in Alive /\ \A b \in Live : a \notin buffer[b].allocator
    BY <1>2 DEF AllocatorDestroy
  <2>2. allocator' = [allocator EXCEPT ![a] = NoAllocator]
    BY <1>2 DEF AllocatorDestroy
  <2>3. QED
    BY <1>0, <2>1, <2>2 DEF Alive, NoAllocator
<1>3. CASE \E a \in Allocators : AllocatorNew(a)
  BY <1>1, <1>3 DEF AllocatorNew, vars
<1>4. CASE \E a \in Allocators : AllocatorNewG2d(a)
  BY <1>1, <1>4 DEF AllocatorNewG2d
<1>5. CASE \E a \in Allocators, fd \in Fds : AllocatorNewFromFd(a, fd)
  BY <1>1, <1>5 DEF AllocatorNewFromFd
<1>6. CASE \E a \in Allocators : AllocatorDestroy(a)
  BY <1>2, <1>6
<1>7. CASE \E fd \in Fds : ClientNode(fd)
  BY <1>7 DEF ClientNode
<1>8. QED
  BY <1>3, <1>4, <1>5, <1>6, <1>7 DEF AllocatorStep

LEMMA RefineAllocators ==
  ASSUME AlignedConstants, ~DestroyEarly, AlignedInv, AllocatorStep
  PROVE  ContractStep
<1>1. /\ UNCHANGED <<chunks, vm, buffer, client>>
      /\ \A b \in Live, a \in Alive :
           buffer[b].allocator = {a} => allocator'[a] = allocator[a]
  BY AllocatorStepFrame DEF AlignedInv
<1>2. \A b \in Buffers : SameView(b)
  <2>1. \A b \in Buffers : SamePart(b) /\ (b \in Live => KeepsAllocator(b))
    BY <1>1 DEF SamePart, KeepsAllocator
  <2>2. QED
    BY <2>1, SameViewFrame
<1>3. UNCHANGED <<maps, access, manual, session, content>>
  BY <1>2, SameMappings
<1>4. owner' = owner
  BY <1>1 DEF owner
<1>5. CASE allocator' = allocator
  <2>1. SameOwners
    BY <1>4, <1>5 DEF SameOwners, alive, Alive
  <2>2. QED
    BY <1>2, <2>1, Stutter
<1>6. ASSUME NEW a \in Allocators, a \notin Alive, Alive' = Alive \cup {a}
      PROVE  ContractStep
  <2>1. {a} \notin alive /\ alive' = alive \cup {{a}}
    BY <1>6 DEF alive
  <2>2. Contract!NewAllocator({a})
    BY <1>3, <1>4, <2>1
    DEF Contract!NewAllocator, Contract!mapping, alive, owner, maps, access, manual,
        session, content
  <2>3. QED
    BY <2>2 DEF ContractStep, Contract!Next
<1>7. ASSUME NEW a \in Alive, Alive' = Alive \ {a},
             \A b \in Live : a \notin buffer[b].allocator
      PROVE  ContractStep
  <2>1. {a} \in alive /\ alive' = alive \ {{a}} /\ a \in Allocators
    BY <1>7 DEF alive, Alive
  <2>2. \A b \in Buffers : owner[b] # {a}
    BY <1>7 DEF owner, Live
  <2>3. /\ owner' = [b \in Buffers |-> IF owner[b] # {a} THEN owner[b] ELSE {}]
        /\ maps' = [b \in Buffers |-> IF owner[b] # {a} THEN maps[b] ELSE 0]
        /\ access' = [b \in Buffers |-> IF owner[b] # {a} THEN access[b] ELSE {}]
        /\ session' = [b \in Buffers |-> owner[b] # {a} /\ session[b]]
        /\ manual' = [b \in Buffers |-> owner[b] # {a} /\ manual[b]]
    <3>1. owner' = [b \in Buffers |-> IF owner[b] # {a} THEN owner[b] ELSE {}]
      BY <1>4, <2>2 DEF owner
    <3>2. maps' = [b \in Buffers |-> IF owner[b] # {a} THEN maps[b] ELSE 0]
      BY <1>3, <2>2 DEF maps
    <3>3. access' = [b \in Buffers |-> IF owner[b] # {a} THEN access[b] ELSE {}]
      BY <1>3, <2>2 DEF access
    <3>4. session' = [b \in Buffers |-> owner[b] # {a} /\ session[b]]
      <4>1. session = [b \in Buffers |-> owner[b] # {a} /\ session[b]]
        <5> DEFINE Now(b) == buffer[b].mapping_refcount > 0
                   Kept(b) == owner[b] # {a} /\ session[b]
        <5>1. session = [b \in Buffers |-> Now(b)]
          BY DEF session
        <5>2. ASSUME NEW b \in Buffers PROVE Now(b) = Kept(b)
          <6>1. Now(b) \in BOOLEAN
            OBVIOUS
          <6> HIDE DEF Now
          <6>2. session[b] = Now(b)
            BY <5>1
          <6>3. owner[b] # {a}
            BY <2>2
          <6>4. CASE Now(b) = TRUE
            BY <6>2, <6>3, <6>4
          <6>5. CASE Now(b) = FALSE
            BY <6>2, <6>5
          <6>6. QED
            BY <6>1, <6>4, <6>5
        <5> HIDE DEF Now, Kept
        <5>3. session = [b \in Buffers |-> Kept(b)]
          BY <5>1, <5>2, Zenon
        <5>4. QED
          BY <5>3 DEF Kept
      <4>2. QED
        BY <1>3, <4>1
    <3>5. manual' = [b \in Buffers |-> owner[b] # {a} /\ manual[b]]
      BY <1>3, <2>2 DEF manual
    <3>6. QED
      BY <3>1, <3>2, <3>3, <3>4, <3>5
  <2>4. Contract!Destroy({a})
    BY <1>3, <2>1, <2>3
    DEF Contract!Destroy, alive, owner, maps, access, manual, session, content
  <2>5. QED
    BY <2>1, <2>4 DEF ContractStep, Contract!Next
<1>8. QED
  BY <1>5, <1>6, <1>7, AllocatorEffect

LEMMA RefineNext ==
  ASSUME AlignedConstants, ~DestroyEarly, RightsNamed, AlignedInv, [Next]_vars
  PROVE  ContractStep
<1>1. CASE UNCHANGED vars
  <2>1. SameOwners /\ \A b \in Buffers : SamePart(b) /\ KeepsAllocator(b)
    BY <1>1 DEF vars, SameOwners, owner, alive, Alive, SamePart, KeepsAllocator
  <2>2. QED
    BY <2>1, SameViewFrame, Stutter
<1>2. CASE AllocatorStep
  BY <1>2, RefineAllocators
<1>3. CASE BufferStep
  BY <1>3, RefineAllocate, RefineDeallocate, RefineMap, RefineUnmap DEF BufferStep
<1>4. QED
  BY <1>1, <1>2, <1>3 DEF Next

LEMMA RefineInit == AlignedConstants /\ Init => Contract!Init
<1> SUFFICES ASSUME Init PROVE Contract!Init
  OBVIOUS
<1>1. \A b \in Buffers : buffer[b].mapping_refcount = 0 /\ buffer[b].allocator = {}
  BY DEF Init, NoBuffer
<1>2. alive = {} /\ owner = [b \in Buffers |-> {}]
  <2>1. Alive = {}
    BY DEF Init, Alive, NoAllocator
  <2>2. QED
    BY <1>1, <2>1 DEF alive, owner
<1>3. /\ maps = [b \in Buffers |-> 0]
      /\ access = [b \in Buffers |-> {}]
      /\ session = [b \in Buffers |-> FALSE]
  <2>1. maps = [b \in Buffers |-> 0]
    BY <1>1 DEF maps
  <2>2. access = [b \in Buffers |-> {}]
    BY <1>1 DEF access, MappedRights
  <2>3. ASSUME NEW b \in Buffers PROVE (buffer[b].mapping_refcount > 0) = FALSE
    BY <1>1
  <2>4. session = [b \in Buffers |-> FALSE]
    BY <2>3 DEF session
  <2>5. QED
    BY <2>1, <2>2, <2>4
<1>4. manual = [b \in Buffers |-> FALSE] /\ content \in [Buffers -> {0}]
  BY DEF manual, content
<1>5. QED
  BY <1>2, <1>3, <1>4
  DEF Contract!Init, alive, owner, maps, access, manual, session, content

\* Each of the four allocators implements the contract of imxdmabuffer.h, for
\* any mixture of them in one process: the first map sets the rights and opens
\* the session, redundant maps and unmaps only count, the last unmap and
\* deallocate() end everything, and a call that fails changes nothing. It does
\* for clients that name the rights they want of an IPU or PxP buffer, where no
\* flags give none and the header promises all, and that deallocate their
\* buffers before the allocator, whose destroy() does not, as the header says.
THEOREM AlignedAllocatorsImplementContract ==
  ASSUME ~DestroyEarly, RightsNamed
  PROVE  Spec => ImplementsContract
<1>1. Init => Contract!Init
  BY AlignedConstants, RefineInit
<1>2. AlignedInv /\ [Next]_vars => [Contract!Next]_(Contract!contractVars)
  BY AlignedConstants, RefineNext DEF ContractStep
<1>3. QED
  BY <1>1, <1>2, AlignedInvariant, PTL DEF Spec, ImplementsContract, Contract!Spec

=============================================================================
