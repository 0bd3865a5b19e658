---------------------- MODULE AlignedAllocatorsProofs -----------------------
(***************************************************************************)
(* What the alignment trick guarantees for every address, size and         *)
(* alignment, and that aligned buffers stay in the memory granted for      *)
(* them: for every number of buffers, all sizes and alignments, and every  *)
(* way the kernel may place its memory.                                    *)
(***************************************************************************)
EXTENDS AlignedAllocators, FiniteSetTheorems, TLAPS

-----------------------------------------------------------------------------
(***************************************************************************)
(* The alignment arithmetic, for every address, size and alignment.        *)
(***************************************************************************)
\* Rounding up moves an address by less than the alignment.
LEMMA AlignBounds ==
  ASSUME NEW v \in Nat, NEW a \in Nat \ {0}
  PROVE  /\ AlignValTo(v, a) \in Nat
         /\ v <= AlignValTo(v, a)
         /\ AlignValTo(v, a) < v + a
<1> DEFINE n == v + a - 1
           q == n \div a
           r == n % a
<1>1. n \in Nat
  OBVIOUS
<1>2. q \in Nat /\ r \in Nat /\ r < a /\ n = a * q + r
  BY <1>1, SMTT(30)
<1>3. a * q = q * a /\ q * a \in Nat
  BY <1>2, SMTT(30)
<1> HIDE DEF q, r
<1>4. q * a = n - r
  BY <1>2, <1>3
<1>5. AlignValTo(v, a) = q * a
  BY DEF AlignValTo, q
<1> QED
  BY <1>2, <1>3, <1>4, <1>5

\* The result is a multiple of the alignment.
LEMMA AlignMultiple ==
  ASSUME NEW v \in Nat, NEW a \in Nat \ {0}
  PROVE  AlignValTo(v, a) % a = 0
<1> DEFINE q == (v + a - 1) \div a
           x == q * a
<1>1. q \in Nat
  BY SMTT(30)
<1> HIDE DEF q
<1>2. x \in Nat /\ x = a * (x \div a) + (x % a) /\ (x % a) \in 0 .. a - 1 /\ x \div a \in Nat
  BY <1>1, SMTT(30)
<1>3. x % a = 0
  BY <1>1, <1>2, SMTT(30)
<1> QED
  BY <1>3 DEF AlignValTo, q

\* The reported address and the buffer's whole size lie in the memory that is
\* asked for, wherever that memory starts.
THEOREM AlignedRangeFits ==
  ASSUME NEW v \in Nat, NEW size \in Nat, NEW alignment \in Nat
  PROVE  /\ AlignedAddress(v, alignment) \in Nat
         /\ v <= AlignedAddress(v, alignment)
         /\ AlignedAddress(v, alignment) + size <= v + ActualSize(size, alignment)
<1> DEFINE a == EffectiveAlignment(alignment)
<1>1. a \in Nat \ {0} /\ (a > 1 => a = alignment)
  BY DEF EffectiveAlignment
<1>2. /\ AlignValTo(v, a) \in Nat
      /\ v <= AlignValTo(v, a)
      /\ AlignValTo(v, a) < v + a
  BY <1>1, AlignBounds
<1>3. ActualSize(size, alignment) = IF a > 1 THEN size + alignment ELSE size
  BY DEF ActualSize
<1> QED
  BY <1>1, <1>2, <1>3 DEF AlignedAddress

-----------------------------------------------------------------------------
(***************************************************************************)
(* The inductive invariant. The property itself survives the release of a  *)
(* chunk only because no other buffer's memory starts at the same address, *)
(* and that in turn because a grant overlaps no chunk of a live buffer.    *)
(***************************************************************************)
BufferTypes ==
  [allocator : SUBSET Allocators, size : Nat, physical_address : Nat,
   aligned_physical_address : Nat, mapped : BOOLEAN,
   map_flags : SUBSET ReadWrite, mapping_refcount : Int]

Shapes ==
  /\ chunks \subseteq [start : 1 .. MemorySize, length : Nat \ {0}]
  /\ allocator \in [Allocators ->
       [kind : Kinds \cup {"none"}, fd : Fds \cup {NoFd}, internal : BOOLEAN]]
  /\ buffer \in [Buffers -> BufferTypes]
  /\ client \in [Buffers ->
       [held : SUBSET Handles, access : SUBSET ReadWrite, alignment : Nat]]

\* Buffer b of allocator a lies in chunk c.
PlacedIn(b, a, c) ==
  /\ buffer[b].allocator = {a}
  /\ c.start = buffer[b].physical_address
  /\ allocator[a].kind # "PXP" => DeviceRange(b) \subseteq Addresses(c)

Aligned(b) ==
  client[b].alignment # 0 =>
    buffer[b].aligned_physical_address % client[b].alignment = 0

Placed(b) == \E a \in Alive, c \in chunks : PlacedIn(b, a, c)

GrantInv ==
  /\ Shapes
  /\ \A b \in Live : Placed(b) /\ Aligned(b)
  /\ \A b, c \in Live : b # c => buffer[b].physical_address # buffer[c].physical_address

\* The kind of a buffer is that of its allocator.
LEMMA KindIs ==
  ASSUME NEW b, NEW a, buffer[b].allocator = {a}
  PROVE  KindOf(b) = allocator[a].kind
<1>1. {allocator[x].kind : x \in buffer[b].allocator} = {allocator[a].kind}
  OBVIOUS
<1>2. KindOf(b) \in {allocator[a].kind}
  BY <1>1 DEF KindOf
<1> QED
  BY <1>2

LEMMA GrantInvImplies == GrantInv => DeviceRangesUsable
<1> SUFFICES ASSUME GrantInv, NEW b \in Live
             PROVE  /\ KindOf(b) # "PXP" => WithinOwnChunk(b, DeviceRange(b))
                    /\ Aligned(b)
  BY DEF DeviceRangesUsable, Aligned
<1>1. Aligned(b)
  BY DEF GrantInv
<1>2. PICK a \in Alive, c \in chunks : PlacedIn(b, a, c)
  BY DEF GrantInv, Placed
<1>3. KindOf(b) = allocator[a].kind
  BY <1>2, KindIs DEF PlacedIn
<1> QED
  BY <1>1, <1>2, <1>3 DEF PlacedIn, WithinOwnChunk, ChunkOf

LEMMA GrantInvInit == Init => GrantInv
  BY DEF Init, GrantInv, Shapes, BufferTypes, Live, NoBuffer, NoClient, NoAllocator, NoFd

-----------------------------------------------------------------------------
\* What does not touch a buffer's place, or the record of an allocator with
\* buffers, preserves the invariant.
LEMMA GrantInvFrame ==
  ASSUME GrantInv, Shapes', chunks' = chunks,
         \A b \in Buffers :
           /\ buffer'[b].allocator = buffer[b].allocator
           /\ buffer'[b].size = buffer[b].size
           /\ buffer'[b].physical_address = buffer[b].physical_address
           /\ buffer'[b].aligned_physical_address = buffer[b].aligned_physical_address
           /\ client'[b].alignment = client[b].alignment,
         \A b \in Live, a \in Alive :
           buffer[b].allocator = {a} => allocator'[a] = allocator[a]
  PROVE  GrantInv'
<1>1. Live' = Live
  BY DEF Live
<1>2. ASSUME NEW b \in Live PROVE Placed(b)' /\ Aligned(b)'
  <2>1. b \in Buffers
    BY DEF Live
  <2>2. Aligned(b)'
    BY <2>1 DEF GrantInv, Aligned
  <2>3. PICK a \in Alive, c \in chunks : PlacedIn(b, a, c)
    BY DEF GrantInv, Placed
  <2>4. allocator'[a] = allocator[a] /\ a \in Alive'
    BY <2>3 DEF PlacedIn, Alive
  <2>5. DeviceRange(b)' = DeviceRange(b)
    BY <2>1 DEF DeviceRange
  <2>6. PlacedIn(b, a, c)'
    BY <2>1, <2>3, <2>4, <2>5 DEF PlacedIn, Addresses
  <2> QED
    BY <2>2, <2>4, <2>6 DEF Placed
<1>3. \A b, c \in Live : b # c => buffer'[b].physical_address # buffer'[c].physical_address
  BY DEF GrantInv, Live
<1> QED
  BY <1>1, <1>2, <1>3 DEF GrantInv

\* A new buffer is placed in its chunk, and away from all others.
LEMMA GrantInvGrant ==
  ASSUME AlignedConstants, GrantInv,
         NEW a \in Alive, NEW b \in Buffers \ Live,
         NEW size \in Sizes, NEW alignment \in Alignments,
         NEW start \in 1 .. MemorySize, NEW length \in Nat \ {0},
         allocator[a].kind # "PXP" => length = ActualSize(size, alignment),
         Grant(start, length), NewBuffer(b, a, size, alignment, start),
         UNCHANGED allocator
  PROVE  GrantInv'
<1> DEFINE chunk == [start |-> start, length |-> length]
           address == AlignedAddress(start, alignment)
<1>1. /\ size \in Nat \ {0} /\ alignment \in Nat /\ start \in Nat \ {0}
      /\ MemorySize \in Nat /\ a \in Allocators
  <2>1. size \in Nat \ {0} /\ alignment \in Nat /\ MemorySize \in Nat
    BY DEF AlignedConstants
  <2>2. a \in Allocators
    BY DEF Alive
  <2> QED
    BY <2>1, <2>2
<1>2. /\ address \in Nat /\ start <= address
      /\ address + size <= start + ActualSize(size, alignment)
  BY <1>1, AlignedRangeFits
<1>3. alignment # 0 => address % alignment = 0
  BY <1>1, AlignMultiple DEF AlignedAddress, EffectiveAlignment
<1> HIDE DEF address
<1>4. /\ buffer'[b].allocator = {a} /\ buffer'[b].size = size
      /\ buffer'[b].physical_address = start
      /\ buffer'[b].aligned_physical_address = address
      /\ client'[b].alignment = alignment
  BY DEF NewBuffer, NoBuffer, GrantInv, Shapes, BufferTypes, address
<1>5. \A d \in Buffers \ {b} : buffer'[d] = buffer[d] /\ client'[d] = client[d]
  BY DEF NewBuffer, GrantInv, Shapes
<1>6. chunk \in chunks' /\ chunks \subseteq chunks'
  BY DEF Grant
<1>7. Shapes'
  <2>1. chunks' \subseteq [start : 1 .. MemorySize, length : Nat \ {0}]
    BY DEF Grant, GrantInv, Shapes
  <2>2. buffer'[b] \in BufferTypes
    <3>1. buffer'[b] =
            [allocator |-> {a}, size |-> size, physical_address |-> start,
             aligned_physical_address |-> address, mapped |-> FALSE,
             map_flags |-> {}, mapping_refcount |-> 0]
      BY DEF NewBuffer, NoBuffer, GrantInv, Shapes, address
    <3>2. {a} \in SUBSET Allocators
      BY <1>1
    <3> QED
      BY <1>1, <1>2, <3>1, <3>2 DEF BufferTypes
  <2>3. buffer' \in [Buffers -> BufferTypes]
    BY <2>2, <1>5 DEF NewBuffer, GrantInv, Shapes
  <2>4. client' \in [Buffers ->
          [held : SUBSET Handles, access : SUBSET ReadWrite, alignment : Nat]]
    <3>1. client \in [Buffers ->
            [held : SUBSET Handles, access : SUBSET ReadWrite, alignment : Nat]]
      BY DEF GrantInv, Shapes
    <3>2. client' = [client EXCEPT ![b].alignment = alignment]
      BY DEF NewBuffer
    <3> QED
      BY <1>1, <3>1, <3>2
  <2> QED
    BY <2>1, <2>3, <2>4 DEF GrantInv, Shapes
<1>8. Live' = Live \cup {b} /\ Alive' = Alive
  BY <1>4, <1>5 DEF Live, Alive
<1>9. Placed(b)' /\ Aligned(b)'
  <2>1. Aligned(b)'
    BY <1>3, <1>4 DEF Aligned
  <2>2. DeviceRange(b)' = address .. address + size - 1
    BY <1>4 DEF DeviceRange, Extent
  <2>3. Addresses(chunk) = start .. start + length - 1
    BY DEF Addresses, Extent
  <2>4. allocator[a].kind # "PXP" => DeviceRange(b)' \subseteq Addresses(chunk)
    BY <1>1, <1>2, <2>2, <2>3
  <2>5. PlacedIn(b, a, chunk)'
    BY <1>4, <2>4 DEF PlacedIn, Addresses, Extent
  <2> QED
    BY <1>6, <1>8, <2>1, <2>5 DEF Placed
<1>10. ASSUME NEW d \in Live
       PROVE  Placed(d)' /\ Aligned(d)' /\ buffer[d].physical_address # start
  <2>1. d \in Buffers \ {b}
    BY DEF Live
  <2>2. PICK e \in Alive, c \in chunks : PlacedIn(d, e, c)
    BY DEF GrantInv, Placed
  <2>3. PlacedIn(d, e, c)'
    BY <1>5, <2>1, <2>2 DEF PlacedIn, DeviceRange, Extent, Addresses
  <2>4. Aligned(d)'
    BY <1>5, <2>1 DEF GrantInv, Aligned
  <2>5. c.start \in Addresses(c) /\ start \in Extent(start, length)
    BY <1>1 DEF Addresses, Extent, GrantInv, Shapes
  <2>6. c.start # start
    BY <2>5 DEF Grant
  <2> QED
    BY <1>6, <1>8, <2>2, <2>3, <2>4, <2>6 DEF Placed, PlacedIn
<1> QED
  BY <1>4, <1>5, <1>7, <1>8, <1>9, <1>10 DEF GrantInv, Live

-----------------------------------------------------------------------------
(***************************************************************************)
(* The steps.                                                              *)
(***************************************************************************)
ClientTypes == [held : SUBSET Handles, access : SUBSET ReadWrite, alignment : Nat]

\* Updates of a structure keep its shape.
LEMMA BufferUpdate ==
  ASSUME NEW r \in BufferTypes, NEW g \in SUBSET ReadWrite, NEW n \in Int
  PROVE  [r EXCEPT !.map_flags = g, !.mapping_refcount = n] \in BufferTypes
  BY DEF BufferTypes

LEMMA ClientUpdate ==
  ASSUME NEW r \in ClientTypes, NEW held \in SUBSET Handles,
         NEW access \in SUBSET ReadWrite
  PROVE  [r EXCEPT !.held = held, !.access = access] \in ClientTypes
  BY DEF ClientTypes

\* A call may change the rest of a buffer without moving it.
SamePlace(b) ==
  /\ buffer'[b].allocator = buffer[b].allocator
  /\ buffer'[b].size = buffer[b].size
  /\ buffer'[b].physical_address = buffer[b].physical_address
  /\ buffer'[b].aligned_physical_address = buffer[b].aligned_physical_address

\* Steps of allocators leave buffers alone, and an allocator that has some.
AllocatorRecords ==
  [kind : Kinds \cup {"none"}, fd : Fds \cup {NoFd}, internal : BOOLEAN]

LEMMA AllocatorStepFrame ==
  ASSUME ~DestroyEarly, GrantInv, AllocatorStep
  PROVE  /\ UNCHANGED <<chunks, vm, buffer, client>>
         /\ allocator' \in [Allocators -> AllocatorRecords]
         /\ \A b \in Live, a \in Alive :
              buffer[b].allocator = {a} => allocator'[a] = allocator[a]
<1>0. allocator \in [Allocators -> AllocatorRecords]
  BY DEF GrantInv, Shapes, AllocatorRecords
<1>1. UNCHANGED <<chunks, vm, buffer, client>>
  BY DEF AllocatorStep, AllocatorNew, AllocatorNewG2d, AllocatorNewFromFd,
         AllocatorDestroy, ClientNode, NewAllocator, vars
<1>2. /\ allocator' \in [Allocators -> AllocatorRecords]
      /\ \A b \in Live, a \in Alive :
           buffer[b].allocator = {a} => allocator'[a] = allocator[a]
  <2>1. ASSUME NEW a \in Allocators, NEW kind, NEW fd \in Fds \cup {NoFd},
               NEW internal \in BOOLEAN, NewAllocator(a, kind, fd, internal)
        PROVE  <1>2
    BY <1>0, <2>1 DEF NewAllocator, Fresh, AllocatorRecords, Alive
  <2>2. ASSUME NEW a \in Allocators, AllocatorDestroy(a)
        PROVE  <1>2
    <3>1. NoAllocator \in AllocatorRecords
      BY DEF NoAllocator, AllocatorRecords
    <3>2. \A b \in Live : a \notin buffer[b].allocator
      BY <2>2 DEF AllocatorDestroy
    <3>3. allocator' = [allocator EXCEPT ![a] = NoAllocator]
      BY <2>2 DEF AllocatorDestroy
    <3> QED
      BY <1>0, <3>1, <3>2, <3>3 DEF Alive
  <2>3. CASE UNCHANGED allocator
    BY <1>0, <2>3
  <2>4. CASE \E a \in Allocators : AllocatorNew(a)
    BY <2>1, <2>3, <2>4 DEF AllocatorNew, FreeFds, vars
  <2>5. CASE \E a \in Allocators : AllocatorNewG2d(a)
    BY <2>1, <2>5 DEF AllocatorNewG2d
  <2>6. CASE \E a \in Allocators, fd \in Fds : AllocatorNewFromFd(a, fd)
    BY <2>1, <2>6 DEF AllocatorNewFromFd
  <2> QED
    BY <2>2, <2>3, <2>4, <2>5, <2>6 DEF AllocatorStep, ClientNode
<1> QED
  BY <1>1, <1>2

LEMMA AllocatorStepKeeps ==
  ASSUME ~DestroyEarly, GrantInv, AllocatorStep
  PROVE  GrantInv'
<1>1. Shapes'
  BY AllocatorStepFrame DEF GrantInv, Shapes, AllocatorRecords
<1> QED
  BY <1>1, AllocatorStepFrame, GrantInvFrame

LEMMA AllocateKeeps ==
  ASSUME AlignedConstants, GrantInv, NEW b \in Buffers, NEW a \in Allocators,
         NEW size \in Sizes, NEW alignment \in Alignments,
         Allocate(b, a, size, alignment)
  PROVE  GrantInv'
<1>1. /\ a \in Alive /\ b \in Buffers \ Live /\ UNCHANGED allocator
      /\ size \in Nat \ {0} /\ alignment \in Nat
  BY DEF Allocate, AlignedConstants
<1>2. ActualSize(size, alignment) \in Nat \ {0}
  BY <1>1 DEF ActualSize, EffectiveAlignment
<1>3. ASSUME NEW start \in 1 .. MemorySize, Grant(start, ActualSize(size, alignment)),
             NewBuffer(b, a, size, alignment, start)
      PROVE  GrantInv'
  BY <1>1, <1>2, <1>3, GrantInvGrant
<1>4. CASE AllocateIpu(b, a, size, alignment)
  BY <1>3, <1>4 DEF AllocateIpu
<1>5. CASE AllocatePxp(b, a, size, alignment)
  BY <1>1, <1>5, GrantInvGrant DEF AllocatePxp
<1>6. CASE AllocateDwl(b, a, size, alignment)
  BY <1>3, <1>6 DEF AllocateDwl
<1>7. CASE AllocateG2d(b, a, size, alignment)
  BY <1>3, <1>7 DEF AllocateG2d
<1>8. CASE AllocateFails
  <2>1. Shapes'
    BY <1>1, <1>8 DEF AllocateFails, GrantInv, Shapes
  <2> QED
    BY <1>1, <1>8, <2>1, GrantInvFrame DEF AllocateFails
<1> QED
  BY <1>4, <1>5, <1>6, <1>7, <1>8 DEF Allocate

\* Only the chunk at b's address is freed, and no other buffer's starts there.
LEMMA DeallocateKeeps ==
  ASSUME GrantInv, NEW b \in Buffers, Deallocate(b)
  PROVE  GrantInv'
<1>1. /\ buffer' = [buffer EXCEPT ![b] = NoBuffer]
      /\ client' = [client EXCEPT ![b] = NoClient]
      /\ chunks' = {c \in chunks : c.start # buffer[b].physical_address}
      /\ allocator' = allocator /\ b \in Live
  BY DEF Deallocate, Free, Usable
<1>2. Shapes'
  <2>1. NoBuffer \in BufferTypes
    BY DEF NoBuffer, BufferTypes
  <2>2. NoClient \in ClientTypes
    BY DEF NoClient, ClientTypes
  <2> QED
    BY <1>1, <2>1, <2>2 DEF GrantInv, Shapes, ClientTypes
<1>3. \A d \in Buffers \ {b} : buffer'[d] = buffer[d] /\ client'[d] = client[d]
  BY <1>1 DEF GrantInv, Shapes
<1>4. Live' = Live \ {b} /\ Alive' = Alive
  <2>1. buffer'[b].allocator = {}
    BY <1>1 DEF GrantInv, Shapes, NoBuffer
  <2> QED
    BY <1>1, <1>3, <2>1 DEF Live, Alive
<1>5. ASSUME NEW d \in Live \ {b} PROVE Placed(d)' /\ Aligned(d)'
  <2>1. d \in Buffers \ {b}
    BY DEF Live
  <2>2. PICK a \in Alive, c \in chunks : PlacedIn(d, a, c)
    BY DEF GrantInv, Placed
  <2>3. c \in chunks'
    BY <1>1, <2>2 DEF PlacedIn, GrantInv
  <2>4. PlacedIn(d, a, c)'
    BY <1>1, <1>3, <2>1, <2>2 DEF PlacedIn, DeviceRange, Extent, Addresses
  <2>5. Aligned(d)'
    BY <1>3, <2>1 DEF GrantInv, Aligned
  <2> QED
    BY <1>4, <2>3, <2>4, <2>5 DEF Placed
<1>6. \A d, e \in Live \ {b} :
        d # e => buffer'[d].physical_address # buffer'[e].physical_address
  BY <1>3 DEF GrantInv, Live
<1> QED
  BY <1>2, <1>4, <1>5, <1>6 DEF GrantInv

\* map() sets only flags, count and whether the buffer is mapped.
LEMMA MapKeeps ==
  ASSUME AlignedConstants, GrantInv, NEW b \in Buffers, NEW h \in Handles,
         NEW f \in FlagChoices, Map(b, h, f)
  PROVE  GrantInv'
<1>1. f \in SUBSET ReadWrite /\ Requested(f) \in SUBSET ReadWrite
  BY DEF AlignedConstants, Requested, ReadWrite
<1>2. chunks' = chunks /\ allocator' = allocator
  BY DEF Map
<1>3. (\A d \in Buffers : SamePlace(d)) /\ buffer' \in [Buffers -> BufferTypes]
  <2>1. buffer \in [Buffers -> BufferTypes]
    BY DEF GrantInv, Shapes
  <2>2. CASE MapNode(b, f) /\ buffer[b].mapped
    BY <2>1, <2>2 DEF MapNode, SamePlace, BufferTypes
  <2>3. CASE MapNode(b, f) /\ ~buffer[b].mapped
    BY <1>1, <2>1, <2>3 DEF MapNode, SamePlace, BufferTypes
  <2>4. CASE buffer' = [buffer EXCEPT ![b].mapping_refcount = @ + 1]
    BY <2>1, <2>4 DEF SamePlace, BufferTypes
  <2>5. CASE buffer' = [buffer EXCEPT ![b].map_flags = Requested(f),
                                      ![b].mapping_refcount = 1]
    <3>1. PICK flags \in SUBSET ReadWrite, n \in Int :
            buffer' = [buffer EXCEPT ![b].map_flags = flags, ![b].mapping_refcount = n]
      BY <1>1, <2>5, 1 \in Int, Zenon
    <3>2. \A d \in Buffers : SamePlace(d)
      BY <2>1, <3>1 DEF SamePlace, BufferTypes
    <3>3. buffer' \in [Buffers -> BufferTypes]
      <4>1. buffer'[b] = [buffer[b] EXCEPT !.map_flags = flags, !.mapping_refcount = n]
        BY <2>1, <3>1
      <4>2. buffer'[b] \in BufferTypes
        BY <2>1, <3>1, <4>1, BufferUpdate
      <4> QED
        BY <2>1, <3>1, <4>2
    <3> QED
      BY <3>2, <3>3
  <2>6. CASE buffer' = [buffer EXCEPT ![b].map_flags = f]
    BY <1>1, <2>1, <2>6 DEF SamePlace, BufferTypes
  <2> QED
    BY <2>2, <2>3, <2>4, <2>5, <2>6 DEF Map, MapLinear, MapFails
<1>4. client \in [Buffers -> ClientTypes]
  BY DEF GrantInv, Shapes, ClientTypes
<1>5. /\ client' \in [Buffers -> ClientTypes]
      /\ \A d \in Buffers : client'[d].alignment = client[d].alignment
  <2>1. CASE MapFails(b, f)
    BY <1>4, <2>1 DEF MapFails
  <2>2. CASE ~MapFails(b, f)
    <3> DEFINE access == IF client[b].held = {} THEN Requested(f) ELSE client[b].access
    <3>1. /\ client' = [client EXCEPT ![b].held = @ \cup {h}, ![b].access = access]
          /\ access \in SUBSET ReadWrite
      BY <1>1, <1>4, <2>2 DEF Map, ClientTypes
    <3> HIDE DEF access
    <3>2. client' \in [Buffers -> ClientTypes]
      <4>1. client'[b] = [client[b] EXCEPT !.held = @ \cup {h}, !.access = access]
        BY <1>4, <3>1
      <4>2. client[b].held \cup {h} \in SUBSET Handles
        BY <1>4 DEF ClientTypes
      <4>3. client'[b] \in ClientTypes
        BY <1>4, <3>1, <4>1, <4>2, ClientUpdate
      <4> QED
        BY <1>4, <3>1, <4>3
    <3>3. \A d \in Buffers : client'[d].alignment = client[d].alignment
      BY <1>4, <3>1 DEF ClientTypes
    <3> QED
      BY <3>2, <3>3
  <2> QED
    BY <2>1, <2>2
<1>6. Shapes'
  BY <1>2, <1>3, <1>5 DEF GrantInv, Shapes, ClientTypes
<1> QED
  BY <1>2, <1>3, <1>5, <1>6, GrantInvFrame DEF SamePlace

\* unmap() likewise.
LEMMA UnmapKeeps ==
  ASSUME GrantInv, NEW b \in Buffers, NEW h \in Handles, Unmap(b, h)
  PROVE  GrantInv'
<1>1. chunks' = chunks /\ allocator' = allocator
  BY DEF Unmap
<1>2. (\A d \in Buffers : SamePlace(d)) /\ buffer' \in [Buffers -> BufferTypes]
  <2> DEFINE s == [buf |-> buffer[b], vm |-> vm[b]]
             t == IF UsesNode(b) THEN UnmapNode(s) ELSE UnmapLinear(s)
  <2>1. buffer \in [Buffers -> BufferTypes] /\ buffer' = [buffer EXCEPT ![b] = t.buf]
    BY DEF Unmap, GrantInv, Shapes
  <2>2. \/ t.buf = buffer[b]
        \/ t.buf = [buffer[b] EXCEPT !.mapping_refcount = @ - 1]
        \/ t.buf = [buffer[b] EXCEPT !.mapping_refcount = 0, !.mapped = FALSE]
    BY DEF UnmapNode, UnmapLinear
  <2> HIDE DEF t
  <2>3. CASE t.buf = buffer[b]
    BY <2>1, <2>3 DEF SamePlace
  <2>4. CASE t.buf = [buffer[b] EXCEPT !.mapping_refcount = @ - 1]
    BY <2>1, <2>4 DEF SamePlace, BufferTypes
  <2>5. CASE t.buf = [buffer[b] EXCEPT !.mapping_refcount = 0, !.mapped = FALSE]
    <3>1. buffer' = [buffer EXCEPT ![b].mapping_refcount = 0, ![b].mapped = FALSE]
      BY <2>1, <2>5
    <3>2. \A d \in Buffers : SamePlace(d)
      BY <2>1, <3>1 DEF SamePlace, BufferTypes
    <3>3. buffer' \in [Buffers -> BufferTypes]
      BY <2>1, <3>1 DEF BufferTypes
    <3> QED
      BY <3>2, <3>3
  <2> QED
    BY <2>2, <2>3, <2>4, <2>5
<1>3. client \in [Buffers -> ClientTypes]
  BY DEF GrantInv, Shapes, ClientTypes
<1>4. /\ client' \in [Buffers -> ClientTypes]
      /\ \A d \in Buffers : client'[d].alignment = client[d].alignment
  <2> DEFINE access == IF client[b].held \subseteq {h} THEN {} ELSE client[b].access
  <2>1. /\ client' = [client EXCEPT ![b].held = @ \ {h}, ![b].access = access]
        /\ access \in SUBSET ReadWrite
    BY <1>3 DEF Unmap, ClientTypes
  <2> HIDE DEF access
  <2> QED
    BY <1>3, <2>1 DEF ClientTypes
<1>5. Shapes'
  BY <1>1, <1>2, <1>4 DEF GrantInv, Shapes, ClientTypes
<1> QED
  BY <1>1, <1>2, <1>4, <1>5, GrantInvFrame DEF SamePlace

LEMMA GrantInvStutter ==
  ASSUME GrantInv, UNCHANGED vars
  PROVE  GrantInv'
<1>1. Shapes'
  BY DEF vars, GrantInv, Shapes
<1> QED
  BY <1>1, GrantInvFrame DEF vars

LEMMA GrantInvStep ==
  ASSUME AlignedConstants, ~DestroyEarly, GrantInv, [Next]_vars
  PROVE  GrantInv'
<1>1. CASE AllocatorStep
  BY <1>1, AllocatorStepKeeps
<1>2. CASE BufferStep
  BY <1>2, AllocateKeeps, DeallocateKeeps, MapKeeps, UnmapKeeps DEF BufferStep
<1>3. CASE UNCHANGED vars
  BY <1>3, GrantInvStutter
<1> QED
  BY <1>1, <1>2, <1>3 DEF Next

\* Whatever the kernel grants and whatever is freed meanwhile, the range that
\* an IPU, DWL or G2D buffer reports to a device stays within the buffer's own
\* memory, and every buffer starts at a multiple of the requested alignment:
\* for clients that deallocate the buffers of an allocator before it, without
\* which a buffer has no allocator that could tell its kind.
THEOREM RangesUsable ==
  ASSUME ~DestroyEarly
  PROVE  Spec => []DeviceRangesUsable
<1>1. Init => GrantInv
  BY GrantInvInit
<1>2. GrantInv /\ [Next]_vars => GrantInv'
  BY AlignedConstants, GrantInvStep
<1>3. GrantInv => DeviceRangesUsable
  BY GrantInvImplies
<1> QED
  BY <1>1, <1>2, <1>3, PTL DEF Spec
=============================================================================
