------------------------- MODULE IonAllocatorProofs -------------------------
(***************************************************************************)
(* The ION allocator, for any number of threads, buffers and allocators:   *)
(* what its calls own while they run into each other, where its memory     *)
(* comes from, when the detected mask is complete, and that it implements  *)
(* the contract of imxdmabuffer.h.                                         *)
(***************************************************************************)
EXTENDS IonAllocator, FiniteSetTheorems, TLAPS

-----------------------------------------------------------------------------
(***************************************************************************)
(* The inductive invariant.                                                *)
(***************************************************************************)
CallRecords ==
  [pc : Labels, allocator : SUBSET Allocators, buffer : SUBSET Buffers,
   mask : SUBSET Nat, next : Nat, heap : Nat, fd : Fds \cup {NoFd}, outcome : Outcomes]

BufferRecords ==
  [live : BOOLEAN, allocator : SUBSET Allocators, dmabuf_fd : Fds \cup {NoFd},
   heap : Nat, mapped : BOOLEAN, map_flags : SUBSET Flags, mapping_refcount : Nat]

AllocatorRecords == [ion_fd : Fds \cup {NoFd}, internal : BOOLEAN, alive : BOOLEAN]
VmRecords        == [maps : Nat, prot : SUBSET ReadWrite]
ClientRecords    == [held : SUBSET Handles, access : SUBSET ReadWrite]

DetectLabels == {"mask", "query", "scan", "store", "return"}

\* What a call may know of heaps: on newer kernels DMA heaps only.
HeapsOfCall(r) ==
  /\ r.pc \in DetectLabels => ~legacy
  /\ r.pc \in {"export", "free"} => legacy
  /\ ~legacy =>
       /\ r.mask \subseteq DmaHeaps
       /\ r.pc = "store" => r.next \in DmaHeaps
       /\ r.pc = "phys" => r.heap \in DmaHeaps

HeapsDetected ==
  /\ heap_id_mask \subseteq DmaHeaps
  /\ \A t \in Threads : HeapsOfCall(call[t])
  /\ ~legacy => \A b \in Live : buffer[b].heap \in DmaHeaps

\* A call has the structure it fills in to itself.
CallsReserve ==
  /\ \A t \in Busy : \E b \in Buffers \ Live : call[t].buffer = {b}
  /\ \A t, u \in Busy : t # u => call[t].buffer \cap call[u].buffer = {}

\* A call holds a descriptor from the ioctl that opens it to the last step.
DescriptorOfCall(r) ==
  /\ r.fd # NoFd => r.pc \in {"free", "phys"}
  /\ r.pc = "phys" => r.fd # NoFd

DmaBufsOwned ==
  /\ \A t \in Threads : DescriptorOfCall(call[t])
  /\ \A t \in Threads : call[t].fd # NoFd => fdTable[call[t].fd] = "dmabuf"
  /\ \A b \in Live : buffer[b].dmabuf_fd \in Fds /\ fdTable[buffer[b].dmabuf_fd] = "dmabuf"
  /\ \A b, d \in Live : buffer[b].dmabuf_fd = buffer[d].dmabuf_fd => b = d
  /\ \A t, u \in Threads : call[t].fd # NoFd /\ call[u].fd = call[t].fd => t = u
  /\ \A b \in Live, t \in Threads : buffer[b].dmabuf_fd # call[t].fd
  /\ \A fd \in Fds : fdTable[fd] = "dmabuf" =>
       \/ \E b \in Live : buffer[b].dmabuf_fd = fd
       \/ \E t \in Threads : call[t].fd = fd

HandlesOwned == \A t \in userHandles : call[t].pc \in {"export", "free"}

NodesOwned ==
  /\ \A a \in Alive :
       /\ allocator[a].ion_fd \in Fds
       /\ fdTable[allocator[a].ion_fd] = IF allocator[a].internal THEN "node" ELSE "client"
  /\ \A a, c \in Alive :
       allocator[a].internal /\ allocator[c].ion_fd = allocator[a].ion_fd => a = c
  /\ \A fd \in Fds : fdTable[fd] = "node" =>
       \E a \in Alive : allocator[a].ion_fd = fd /\ allocator[a].internal

MappingHeld(b) ==
  /\ buffer[b].mapped <=> client[b].held # {}
  /\ buffer[b].mapping_refcount = Cardinality(client[b].held)
  /\ vm[b] = [maps |-> IF client[b].held # {} THEN 1 ELSE 0, prot |-> client[b].access]
  /\ IF client[b].held = {} THEN client[b].access = {}
     ELSE client[b].access \subseteq buffer[b].map_flags
  /\ b \notin Live => client[b].held = {}

IonInv ==
  /\ TypeOK
  /\ HeapsDetected
  /\ CallsReserve
  /\ DmaBufsOwned
  /\ HandlesOwned
  /\ NodesOwned
  /\ \A b \in Buffers : MappingHeld(b)

LEMMA EmptyRecords ==
  /\ Idle \in CallRecords /\ NoBuffer \in BufferRecords
  /\ NoAllocator \in AllocatorRecords /\ Unmapped \in VmRecords /\ NoClient \in ClientRecords
BY DEF Idle, NoBuffer, NoAllocator, Unmapped, NoClient, CallRecords, BufferRecords,
   AllocatorRecords, VmRecords, ClientRecords, Labels, Outcomes

LEMMA TypeParts ==
  TypeOK <=>
    /\ heap_id_mask \subseteq Heaps
    /\ heaps \in HeapLists /\ legacy \in LegacyKernels
    /\ userHandles \subseteq Threads
    /\ fdTable \in [Fds -> {"closed", "node", "client", "dmabuf"}]
    /\ vm \in [Buffers -> VmRecords]
    /\ allocator \in [Allocators -> AllocatorRecords]
    /\ buffer \in [Buffers -> BufferRecords]
    /\ call \in [Threads -> CallRecords]
    /\ client \in [Buffers -> ClientRecords]
BY DEF TypeOK, CallRecords, BufferRecords, AllocatorRecords, VmRecords, ClientRecords

LEMMA HeapNumbers ==
  ASSUME IonConstants, TypeOK
  PROVE  Heaps \subseteq Nat \ {0} /\ DmaHeaps \subseteq Heaps /\ NoFd \notin Fds
         /\ legacy \in BOOLEAN
<1>1. heaps \in Seq(HeapTypes) /\ legacy \in BOOLEAN
  BY DEF IonConstants, TypeOK
<1>2. Heaps = 1 .. Len(heaps) /\ Len(heaps) \in Nat
  BY <1>1 DEF Heaps
<1>3. QED
  BY <1>1, <1>2 DEF DmaHeaps, IonConstants, NoFd

LEMMA IonInvInit == IonConstants /\ Init => IonInv
<1> SUFFICES ASSUME IonConstants, Init PROVE IonInv
  OBVIOUS
<1>1. TypeOK
  BY EmptyRecords, TypeParts DEF Init
<1>2. Live = {} /\ Alive = {} /\ Busy = {}
  BY DEF Init, Live, Alive, Busy, NoBuffer, NoAllocator, Idle
<1>3. \A t \in Threads : call[t] = Idle
  BY DEF Init
<1>4. HeapsDetected
  BY <1>2, <1>3 DEF Init, HeapsDetected, HeapsOfCall, Idle, DetectLabels
<1>5. CallsReserve /\ HandlesOwned /\ NodesOwned
  BY <1>2 DEF Init, CallsReserve, HandlesOwned, NodesOwned
<1>6. DmaBufsOwned
  BY <1>2, <1>3 DEF Init, DmaBufsOwned, DescriptorOfCall, Idle
<1>7. ASSUME NEW b \in Buffers PROVE MappingHeld(b)
  BY FS_EmptySet DEF Init, MappingHeld, NoBuffer, NoClient, Unmapped
<1>8. QED
  BY <1>1, <1>4, <1>5, <1>6, <1>7 DEF IonInv

-----------------------------------------------------------------------------
(***************************************************************************)
(* Frames.                                                                 *)
(***************************************************************************)
LEMMA NodesFrame ==
  ASSUME NodesOwned, UNCHANGED allocator,
         \A fd \in Fds : \/ fdTable'[fd] = fdTable[fd]
                         \/ {fdTable[fd], fdTable'[fd]} \subseteq {"closed", "dmabuf"}
  PROVE  NodesOwned'
<1>1. Alive' = Alive
  BY DEF Alive
<1>2. ASSUME NEW fd \in Fds PROVE fdTable'[fd] = "node" => fdTable[fd] = "node"
  OBVIOUS
<1>3. QED
  BY <1>1, <1>2 DEF NodesOwned

\* Steps that change neither calls nor buffers' owners, nor any DMA-BUF.
LEMMA DmaBufsFrame ==
  ASSUME DmaBufsOwned, UNCHANGED call,
         \A b \in Buffers : buffer'[b].live = buffer[b].live
                              /\ buffer'[b].dmabuf_fd = buffer[b].dmabuf_fd,
         \A fd \in Fds : (fdTable'[fd] = "dmabuf") <=> (fdTable[fd] = "dmabuf"),
         call \in [Threads -> CallRecords]
  PROVE  DmaBufsOwned'
<1>1. Live' = Live /\ \A b \in Live : buffer'[b].dmabuf_fd = buffer[b].dmabuf_fd
  BY DEF Live
<1>2. \A t \in Threads : call[t].fd # NoFd => call[t].fd \in Fds
  BY DEF CallRecords
<1>3. QED
  BY <1>1, <1>2 DEF DmaBufsOwned, DescriptorOfCall

LEMMA HolderCount ==
  ASSUME IonConstants, NEW held \in SUBSET Handles
  PROVE  /\ Cardinality(held) \in Nat
         /\ Cardinality(held) = 0 <=> held = {}
         /\ \A h \in Handles :
              /\ Cardinality({h}) = 1
              /\ h \notin held => Cardinality(held \cup {h}) = Cardinality(held) + 1
              /\ h \in held => Cardinality(held \ {h}) = Cardinality(held) - 1
<1>1. IsFiniteSet(held)
  BY FS_Subset DEF IonConstants
<1>2. QED
  BY <1>1, FS_EmptySet, FS_Singleton, FS_AddElement, FS_RemoveElement, FS_CardinalityType

-----------------------------------------------------------------------------
(***************************************************************************)
(* A step of an allocate() call that does not make the buffer: the call's  *)
(* record becomes r, and the descriptor it held or will hold may change.   *)
(***************************************************************************)
CallBecomes(t, r) ==
  /\ call' = [call EXCEPT ![t] = r]
  /\ UNCHANGED <<kernelVersion, vm, allocator, buffer, client>>

\* What r may reserve: the buffer the call had, or one nobody has.
Reserves(t, r) ==
  r.pc = "idle" \/ \E b \in Buffers \ Live :
                     r.buffer = {b} /\ \A u \in Busy \ {t} : b \notin call[u].buffer

\* The call keeps its descriptor, opens one, or closes it.
MovesDescriptor(t, r) ==
  \/ fdTable' = fdTable /\ r.fd = call[t].fd
  \/ call[t].fd = NoFd /\ r.fd \in FreeFds /\ fdTable' = Open(r.fd, "dmabuf")
  \/ call[t].fd \in Fds /\ r.fd = NoFd /\ fdTable' = Close(call[t].fd)

LEMMA CallFrame ==
  ASSUME IonConstants, IonInv, NEW t \in Threads, NEW r \in CallRecords, CallBecomes(t, r)
  PROVE  /\ call'[t] = r /\ \A u \in Threads \ {t} : call'[u] = call[u]
         /\ call' \in [Threads -> CallRecords]
         /\ Live' = Live /\ Alive' = Alive /\ DmaHeaps' = DmaHeaps /\ Heaps' = Heaps
         /\ Busy' = IF r.pc = "idle" THEN Busy \ {t} ELSE Busy \cup {t}
         /\ \A b \in Buffers : MappingHeld(b)'
<1>1. call \in [Threads -> CallRecords]
  BY TypeParts DEF IonInv
<1>2. call'[t] = r /\ \A u \in Threads \ {t} : call'[u] = call[u]
  BY <1>1 DEF CallBecomes
<1>3. call' \in [Threads -> CallRecords]
  BY <1>1 DEF CallBecomes
<1>4. Live' = Live /\ Alive' = Alive /\ DmaHeaps' = DmaHeaps /\ Heaps' = Heaps
  BY DEF CallBecomes, kernelVersion, Live, Alive, DmaHeaps, Heaps
<1>5. Busy' = IF r.pc = "idle" THEN Busy \ {t} ELSE Busy \cup {t}
  BY <1>2 DEF Busy
<1>6. \A b \in Buffers : MappingHeld(b)'
  BY <1>4 DEF CallBecomes, IonInv, MappingHeld
<1>7. QED
  BY <1>2, <1>3, <1>4, <1>5, <1>6

LEMMA CallReserves ==
  ASSUME IonConstants, IonInv, NEW t \in Threads, NEW r \in CallRecords,
         CallBecomes(t, r), Reserves(t, r)
  PROVE  CallsReserve'
<1>1. /\ call'[t] = r /\ \A u \in Threads \ {t} : call'[u] = call[u]
      /\ Live' = Live /\ Busy' = IF r.pc = "idle" THEN Busy \ {t} ELSE Busy \cup {t}
  BY CallFrame
<1>2. ASSUME NEW u \in Busy' \ {t}
      PROVE  /\ u \in Busy /\ call'[u] = call[u]
             /\ \E b \in Buffers \ Live : call[u].buffer = {b}
             /\ t \in Busy' => r.buffer \cap call[u].buffer = {}
  <2>1. u \in Busy /\ call'[u] = call[u]
    BY <1>1 DEF Busy
  <2>2. \E b \in Buffers \ Live : call[u].buffer = {b}
    BY <2>1 DEF IonInv, CallsReserve
  <2>3. t \in Busy' => r.buffer \cap call[u].buffer = {}
    BY <1>1, <2>1 DEF Reserves
  <2>4. QED
    BY <2>1, <2>2, <2>3
<1>3. t \in Busy' => \E b \in Buffers \ Live : r.buffer = {b}
  BY <1>1 DEF Reserves
<1>4. ASSUME NEW u \in Busy', NEW v \in Busy', u # v
      PROVE  call'[u].buffer \cap call'[v].buffer = {}
  <2>1. CASE u # t /\ v # t
    BY <1>2, <1>4, <2>1 DEF IonInv, CallsReserve
  <2>2. CASE u = t \/ v = t
    BY <1>1, <1>2, <1>4, <2>2
  <2>3. QED
    BY <2>1, <2>2
<1>5. QED
  BY <1>1, <1>2, <1>3, <1>4 DEF CallsReserve

LEMMA CallDmaBufs ==
  ASSUME IonConstants, IonInv, NEW t \in Threads, NEW r \in CallRecords,
         CallBecomes(t, r), DescriptorOfCall(r), MovesDescriptor(t, r)
  PROVE  /\ DmaBufsOwned' /\ NodesOwned'
         /\ fdTable' \in [Fds -> {"closed", "node", "client", "dmabuf"}]
<1>1. /\ call'[t] = r /\ \A u \in Threads \ {t} : call'[u] = call[u]
      /\ Live' = Live /\ buffer' = buffer /\ allocator' = allocator
  BY CallFrame DEF CallBecomes
<1>2. /\ fdTable \in [Fds -> {"closed", "node", "client", "dmabuf"}]
      /\ NoFd \notin Fds /\ call \in [Threads -> CallRecords]
  BY HeapNumbers, TypeParts DEF IonInv
<1>3. \A u \in Threads : call[u].fd # NoFd => call[u].fd \in Fds
  BY <1>2 DEF CallRecords
<1>4. DmaBufsOwned /\ NodesOwned
  BY DEF IonInv
<1>5. CASE fdTable' = fdTable /\ r.fd = call[t].fd
  <2>1. \A u \in Threads : call'[u].fd = call[u].fd
    BY <1>1, <1>5
  <2>2. \A u \in Threads : DescriptorOfCall(call[u])'
    BY <1>1, <1>4 DEF DmaBufsOwned, DescriptorOfCall
  <2>3. DmaBufsOwned'
    BY <1>1, <1>4, <1>5, <2>1, <2>2 DEF DmaBufsOwned
  <2>4. QED
    BY <1>1, <1>2, <1>4, <1>5, <2>3, NodesFrame
<1>6. CASE call[t].fd = NoFd /\ r.fd \in FreeFds /\ fdTable' = Open(r.fd, "dmabuf")
  <2>1. /\ r.fd \in Fds /\ fdTable[r.fd] = "closed" /\ fdTable'[r.fd] = "dmabuf"
        /\ \A fd \in Fds \ {r.fd} : fdTable'[fd] = fdTable[fd]
    BY <1>2, <1>6 DEF FreeFds, Open
  <2>2. \A u \in Threads : DescriptorOfCall(call[u])'
    BY <1>1, <1>4 DEF DmaBufsOwned, DescriptorOfCall
  <2>3. ASSUME NEW u \in Threads \ {t} PROVE call[u].fd # r.fd
    BY <1>4, <1>2, <2>1 DEF DmaBufsOwned
  <2>4. ASSUME NEW b \in Live PROVE buffer[b].dmabuf_fd # r.fd
    BY <1>4, <2>1 DEF DmaBufsOwned
  <2>5. \A u \in Threads : call'[u].fd # NoFd => fdTable'[call'[u].fd] = "dmabuf"
    <3>1. ASSUME NEW u \in Threads \ {t}, call[u].fd # NoFd
          PROVE  fdTable'[call[u].fd] = "dmabuf"
      <4>1. call[u].fd \in Fds /\ fdTable[call[u].fd] = "dmabuf"
        BY <1>3, <1>4, <3>1 DEF DmaBufsOwned
      <4>2. QED
        BY <2>1, <4>1
    <3>2. QED
      BY <1>1, <2>1, <3>1
  <2>6. /\ \A b \in Live : buffer[b].dmabuf_fd \in Fds /\ fdTable'[buffer[b].dmabuf_fd] = "dmabuf"
        /\ \A b, d \in Live : buffer[b].dmabuf_fd = buffer[d].dmabuf_fd => b = d
    <3>1. /\ \A b \in Live : buffer[b].dmabuf_fd \in Fds /\ fdTable[buffer[b].dmabuf_fd] = "dmabuf"
          /\ \A b, d \in Live : buffer[b].dmabuf_fd = buffer[d].dmabuf_fd => b = d
      BY <1>4 DEF DmaBufsOwned
    <3>2. QED
      BY <2>1, <2>4, <3>1
  <2>7. \A u, v \in Threads : call'[u].fd # NoFd /\ call'[v].fd = call'[u].fd => u = v
    BY <1>1, <1>4, <2>3 DEF DmaBufsOwned
  <2>8. \A b \in Live, u \in Threads : buffer[b].dmabuf_fd # call'[u].fd
    BY <1>1, <1>4, <2>4 DEF DmaBufsOwned
  <2>9. \A fd \in Fds : fdTable'[fd] = "dmabuf" =>
          \/ \E b \in Live : buffer[b].dmabuf_fd = fd
          \/ \E u \in Threads : call'[u].fd = fd
    <3>1. ASSUME NEW fd \in Fds, fdTable[fd] = "dmabuf", NEW u \in Threads, call[u].fd = fd
          PROVE  call'[u].fd = fd
      BY <1>1, <1>2, <1>6, <3>1
    <3>2. QED
      BY <1>1, <1>4, <2>1, <3>1 DEF DmaBufsOwned
  <2>10. DmaBufsOwned'
    BY <1>1, <2>2, <2>5, <2>6, <2>7, <2>8, <2>9 DEF DmaBufsOwned
  <2>11. NodesOwned'
    BY <1>1, <1>4, <2>1, NodesFrame
  <2>12. QED
    BY <1>2, <1>6, <2>10, <2>11 DEF Open
<1>7. CASE call[t].fd \in Fds /\ r.fd = NoFd /\ fdTable' = Close(call[t].fd)
  <2> DEFINE old == call[t].fd
  <2>1. /\ old \in Fds /\ old # NoFd /\ fdTable[old] = "dmabuf" /\ fdTable'[old] = "closed"
        /\ \A fd \in Fds \ {old} : fdTable'[fd] = fdTable[fd]
    BY <1>2, <1>4, <1>7 DEF Close, DmaBufsOwned
  <2>2. \A u \in Threads : DescriptorOfCall(call[u])'
    BY <1>1, <1>4 DEF DmaBufsOwned, DescriptorOfCall
  <2>3. ASSUME NEW u \in Threads \ {t} PROVE call[u].fd # old
    BY <1>4, <2>1 DEF DmaBufsOwned
  <2>4. ASSUME NEW b \in Live PROVE buffer[b].dmabuf_fd # old
    BY <1>4 DEF DmaBufsOwned
  <2> HIDE DEF old
  <2>5. \A u \in Threads : call'[u].fd # NoFd => fdTable'[call'[u].fd] = "dmabuf"
    <3>1. ASSUME NEW u \in Threads \ {t}, call[u].fd # NoFd
          PROVE  fdTable'[call[u].fd] = "dmabuf"
      <4>1. call[u].fd \in Fds /\ fdTable[call[u].fd] = "dmabuf"
        BY <1>3, <1>4, <3>1 DEF DmaBufsOwned
      <4>2. QED
        BY <2>1, <2>3, <4>1
    <3>2. QED
      BY <1>1, <1>7, <3>1
  <2>6. /\ \A b \in Live : buffer[b].dmabuf_fd \in Fds /\ fdTable'[buffer[b].dmabuf_fd] = "dmabuf"
        /\ \A b, d \in Live : buffer[b].dmabuf_fd = buffer[d].dmabuf_fd => b = d
    BY <1>4, <2>1, <2>4 DEF DmaBufsOwned
  <2>7. \A u, v \in Threads : call'[u].fd # NoFd /\ call'[v].fd = call'[u].fd => u = v
    BY <1>1, <1>4, <1>7 DEF DmaBufsOwned
  <2>8. \A b \in Live, u \in Threads : buffer[b].dmabuf_fd # call'[u].fd
    BY <1>1, <1>2, <1>4, <1>7 DEF DmaBufsOwned
  <2>9. \A fd \in Fds : fdTable'[fd] = "dmabuf" =>
          \/ \E b \in Live : buffer[b].dmabuf_fd = fd
          \/ \E u \in Threads : call'[u].fd = fd
    <3>1. ASSUME NEW fd \in Fds, fdTable'[fd] = "dmabuf" PROVE fd # old /\ fdTable[fd] = "dmabuf"
      BY <2>1, <3>1
    <3>2. ASSUME NEW fd \in Fds, fd # old, NEW u \in Threads, call[u].fd = fd
          PROVE  call'[u].fd = fd
      BY <1>1, <3>2 DEF old
    <3>3. QED
      BY <1>1, <1>4, <3>1, <3>2 DEF DmaBufsOwned
  <2>10. DmaBufsOwned'
    BY <1>1, <2>2, <2>5, <2>6, <2>7, <2>8, <2>9 DEF DmaBufsOwned
  <2>11. NodesOwned'
    BY <1>1, <1>4, <2>1, NodesFrame
  <2>12. QED
    BY <1>2, <1>7, <2>10, <2>11 DEF Close
<1>8. QED
  BY <1>5, <1>6, <1>7 DEF MovesDescriptor

LEMMA CallHolds ==
  ASSUME IonConstants, IonInv, NEW t \in Threads, NEW r \in CallRecords,
         CallBecomes(t, r), HeapsOfCall(r), Reserves(t, r),
         DescriptorOfCall(r), MovesDescriptor(t, r),
         heap_id_mask' \subseteq DmaHeaps,
         userHandles' \subseteq Threads,
         \A u \in userHandles' : IF u = t THEN r.pc \in {"export", "free"}
                                 ELSE u \in userHandles
  PROVE  IonInv'
<1>1. /\ call'[t] = r /\ \A u \in Threads \ {t} : call'[u] = call[u]
      /\ call' \in [Threads -> CallRecords]
      /\ Live' = Live /\ DmaHeaps' = DmaHeaps /\ Heaps' = Heaps
      /\ \A b \in Buffers : MappingHeld(b)'
      /\ UNCHANGED <<heaps, legacy, vm, allocator, buffer, client>>
  BY CallFrame DEF CallBecomes, kernelVersion
<1>2. /\ DmaBufsOwned' /\ NodesOwned' /\ CallsReserve'
      /\ fdTable' \in [Fds -> {"closed", "node", "client", "dmabuf"}]
  BY CallDmaBufs, CallReserves
<1>3. TypeOK'
  <2>1. heap_id_mask' \subseteq Heaps'
    BY <1>1, HeapNumbers DEF IonInv
  <2>2. TypeOK
    BY DEF IonInv
  <2>3. QED
    BY <1>1, <1>2, <2>1, <2>2
    DEF TypeOK, CallRecords
<1>4. HeapsDetected'
  BY <1>1 DEF IonInv, HeapsDetected, HeapsOfCall
<1>5. HandlesOwned'
  BY <1>1 DEF IonInv, HandlesOwned
<1>6. QED
  BY <1>1, <1>2, <1>3, <1>4, <1>5 DEF IonInv

-----------------------------------------------------------------------------
(***************************************************************************)
(* The steps of allocate().                                                *)
(***************************************************************************)
LEMMA CallFacts ==
  ASSUME IonConstants, IonInv, NEW t \in Threads
  PROVE  /\ call \in [Threads -> CallRecords] /\ call[t] \in CallRecords
         /\ HeapsOfCall(call[t]) /\ DescriptorOfCall(call[t])
         /\ heap_id_mask \subseteq DmaHeaps /\ DmaHeaps \subseteq Heaps
         /\ Heaps \subseteq Nat \ {0} /\ NoFd \notin Fds
         /\ legacy \in BOOLEAN /\ userHandles \subseteq Threads
         /\ t \in userHandles => call[t].pc \in {"export", "free"}
BY HeapNumbers, TypeParts DEF IonInv, HeapsDetected, DmaBufsOwned, HandlesOwned

\* The call ends in a failure.
LEMMA EndHolds ==
  ASSUME IonConstants, IonInv, NEW t \in Threads, NEW outcome \in Outcomes,
         End(t, outcome),
         UNCHANGED <<kernelVersion, heap_id_mask, vm, allocator, buffer, client>>,
         userHandles' \subseteq userHandles \ {t},
         \/ fdTable' = fdTable /\ call[t].fd = NoFd
         \/ call[t].fd \in Fds /\ fdTable' = Close(call[t].fd)
  PROVE  IonInv'
<1> DEFINE r == [Idle EXCEPT !.outcome = outcome]
<1>1. /\ r.pc = "idle" /\ r.mask = {} /\ r.fd = NoFd /\ r \in CallRecords
  BY DEF Idle, CallRecords, Labels
<1>2. call' = [call EXCEPT ![t] = r]
  BY DEF End
<1> HIDE DEF r
<1>3. CallBecomes(t, r)
  BY <1>2 DEF CallBecomes
<1>4. HeapsOfCall(r) /\ DescriptorOfCall(r) /\ Reserves(t, r)
  BY <1>1 DEF HeapsOfCall, DescriptorOfCall, Reserves, DetectLabels
<1>5. MovesDescriptor(t, r)
  BY <1>1 DEF MovesDescriptor
<1>6. /\ heap_id_mask' \subseteq DmaHeaps /\ userHandles' \subseteq Threads
      /\ \A u \in userHandles' : u # t /\ u \in userHandles
  BY CallFacts
<1>7. QED
  BY <1>1, <1>3, <1>4, <1>5, <1>6, CallHolds

\* The call goes on, with the buffer it had reserved.
LEMMA AdvanceHolds ==
  ASSUME IonConstants, IonInv, NEW t \in Busy, NEW r \in CallRecords,
         CallBecomes(t, r), r.buffer = call[t].buffer,
         HeapsOfCall(r), DescriptorOfCall(r), MovesDescriptor(t, r),
         heap_id_mask' \subseteq DmaHeaps,
         userHandles' \subseteq Threads,
         \A u \in userHandles' : IF u = t THEN r.pc \in {"export", "free"}
                                 ELSE u \in userHandles
  PROVE  IonInv'
<1>1. t \in Threads
  BY DEF Busy
<1>2. Reserves(t, r)
  <2>1. PICK b \in Buffers \ Live : call[t].buffer = {b}
    BY DEF IonInv, CallsReserve
  <2>2. \A u \in Busy \ {t} : b \notin call[u].buffer
    BY <2>1 DEF IonInv, CallsReserve
  <2>3. QED
    BY <2>1, <2>2 DEF Reserves
<1>3. QED
  BY <1>1, <1>2, CallHolds

\* A step of the detection leaves descriptors and handles alone.
LEMMA DetectHolds ==
  ASSUME IonConstants, IonInv, NEW t \in Threads, call[t].pc \in DetectLabels,
         NEW mask, NEW next, NEW pc \in DetectLabels \cup {"alloc"},
         call' = [call EXCEPT ![t].mask = mask, ![t].next = next, ![t].pc = pc],
         mask \subseteq DmaHeaps, next \in Nat, pc = "store" => next \in DmaHeaps,
         heap_id_mask' \subseteq DmaHeaps,
         UNCHANGED <<kernelVersion, userHandles, fdTable, vm, allocator, buffer, client>>
  PROVE  IonInv'
<1> DEFINE r == [call[t] EXCEPT !.mask = mask, !.next = next, !.pc = pc]
<1>1. /\ call \in [Threads -> CallRecords] /\ call[t] \in CallRecords
      /\ HeapsOfCall(call[t]) /\ DescriptorOfCall(call[t])
      /\ Heaps \subseteq Nat \ {0} /\ DmaHeaps \subseteq Heaps
      /\ userHandles \subseteq Threads
      /\ t \in userHandles => call[t].pc \in {"export", "free"}
  BY CallFacts
<1>2. t \in Busy /\ t \notin userHandles /\ ~legacy /\ call[t].fd = NoFd
  BY <1>1 DEF Busy, DetectLabels, HeapsOfCall, DescriptorOfCall
<1>3. pc \in Labels /\ mask \in SUBSET Nat
  BY <1>1 DEF DetectLabels, Labels
<1>4. /\ r \in CallRecords /\ r.pc = pc /\ r.mask = mask /\ r.next = next
      /\ r.buffer = call[t].buffer /\ r.fd = call[t].fd
  BY <1>1, <1>3 DEF CallRecords
<1>5. call' = [call EXCEPT ![t] = r]
  BY <1>1 DEF CallRecords
<1> HIDE DEF r
<1>6. CallBecomes(t, r)
  BY <1>5 DEF CallBecomes
<1>7. HeapsOfCall(r) /\ DescriptorOfCall(r)
  BY <1>2, <1>4 DEF HeapsOfCall, DescriptorOfCall, DetectLabels
<1>8. MovesDescriptor(t, r)
  BY <1>4 DEF MovesDescriptor
<1>9. \A u \in userHandles' : u # t /\ u \in userHandles
  BY <1>2
<1>10. QED
  BY <1>1, <1>2, <1>4, <1>6, <1>7, <1>8, <1>9, AdvanceHolds

LEMMA DetectionHolds ==
  ASSUME IonConstants, IonInv, NEW t \in Threads,
         CheckMask(t) \/ QueryHeaps(t) \/ ScanHeap(t) \/ StoreMask(t) \/ ReturnMask(t)
  PROVE  IonInv'
<1>1. /\ call \in [Threads -> CallRecords] /\ call[t] \in CallRecords
      /\ HeapsOfCall(call[t]) /\ DescriptorOfCall(call[t])
      /\ heap_id_mask \subseteq DmaHeaps
      /\ Heaps \subseteq Nat \ {0} /\ DmaHeaps \subseteq Heaps
      /\ userHandles \subseteq Threads
      /\ t \in userHandles => call[t].pc \in {"export", "free"}
      /\ call[t].next \in Nat
  BY CallFacts DEF CallRecords
<1>2. ASSUME call[t].pc \in DetectLabels
      PROVE  call[t].mask \subseteq DmaHeaps /\ call[t].fd = NoFd /\ t \notin userHandles
  BY <1>1, <1>2 DEF HeapsOfCall, DescriptorOfCall, DetectLabels
<1>3. CASE CheckMask(t)
  <2> DEFINE pc == IF heap_id_mask # {} THEN "return" ELSE "query"
  <2>1. /\ call[t].pc \in DetectLabels /\ pc \in DetectLabels /\ pc # "store"
        /\ call' = [call EXCEPT ![t].mask = heap_id_mask, ![t].pc = pc]
    BY <1>3 DEF CheckMask, At, DetectLabels
  <2> HIDE DEF pc
  <2>2. call' = [call EXCEPT ![t].mask = heap_id_mask, ![t].next = call[t].next, ![t].pc = pc]
    BY <1>1, <2>1 DEF CallRecords
  <2>3. /\ heap_id_mask' \subseteq DmaHeaps
        /\ UNCHANGED <<kernelVersion, userHandles, fdTable, vm, allocator, buffer, client>>
    BY <1>1, <1>3 DEF CheckMask
  <2> DEFINE next == call[t].next
  <2>4. /\ pc \in DetectLabels \cup {"alloc"} /\ pc # "store" /\ next \in Nat
        /\ call[t].pc \in DetectLabels /\ heap_id_mask \subseteq DmaHeaps
        /\ call' = [call EXCEPT ![t].mask = heap_id_mask, ![t].next = next, ![t].pc = pc]
    BY <1>1, <2>1, <2>2
  <2> HIDE DEF next
  <2>5. QED
    BY <2>3, <2>4, DetectHolds
<1>4. CASE QueryHeaps(t)
  <2>1. call[t].pc \in DetectLabels
    BY <1>4 DEF QueryHeaps, At, DetectLabels
  <2>2. ASSUME NEW outcome \in Outcomes, End(t, outcome) PROVE IonInv'
    BY <1>2, <1>4, <2>1, <2>2, EndHolds DEF QueryHeaps
  <2>3. CASE call' = [call EXCEPT ![t].mask = heap_id_mask, ![t].pc = "scan"]
    <3>1. call' = [call EXCEPT ![t].mask = heap_id_mask, ![t].next = call[t].next,
                               ![t].pc = "scan"]
      BY <1>1, <2>3 DEF CallRecords
    <3> DEFINE next == call[t].next
    <3>2. /\ "scan" \in DetectLabels \cup {"alloc"} /\ next \in Nat
          /\ heap_id_mask \subseteq DmaHeaps
          /\ call' = [call EXCEPT ![t].mask = heap_id_mask, ![t].next = next, ![t].pc = "scan"]
      BY <1>1, <3>1 DEF DetectLabels
    <3> HIDE DEF next
    <3>3. /\ heap_id_mask' \subseteq DmaHeaps
          /\ UNCHANGED <<kernelVersion, userHandles, fdTable, vm, allocator, buffer, client>>
      BY <1>1, <1>4 DEF QueryHeaps
    <3>4. QED
      BY <2>1, <3>2, <3>3, DetectHolds
  <2>4. QED
    BY <1>4, <2>2, <2>3 DEF QueryHeaps, Outcomes
<1>5. CASE ScanHeap(t)
  <2>1. call[t].pc \in DetectLabels /\ call[t].pc = "scan" /\ call[t].next \in Heaps
    <3>1. heaps \in Seq(HeapTypes)
      BY DEF IonConstants, IonInv, TypeOK
    <3>2. QED
      BY <1>5, <3>1 DEF ScanHeap, At, DetectLabels, ScannedHeaps, Heaps
  <2>2. CASE heaps[call[t].next] = "DMA"
    <3>1. PICK m \in {call[t].mask, heap_id_mask} :
            call' = [call EXCEPT ![t].mask = m, ![t].pc = "store"]
      BY <1>5, <2>2 DEF ScanHeap
    <3>2. call' = [call EXCEPT ![t].mask = m, ![t].next = call[t].next, ![t].pc = "store"]
      BY <1>1, <3>1 DEF CallRecords
    <3> DEFINE next == call[t].next
    <3>3. m \subseteq DmaHeaps /\ "store" \in DetectLabels \cup {"alloc"}
      BY <1>1, <1>2, <2>1, <2>2 DEF DetectLabels
    <3>4. /\ next \in Nat /\ next \in DmaHeaps
          /\ call' = [call EXCEPT ![t].mask = m, ![t].next = next, ![t].pc = "store"]
      BY <1>1, <2>1, <2>2, <3>2 DEF DmaHeaps
    <3> HIDE DEF next
    <3>5. /\ heap_id_mask' \subseteq DmaHeaps
          /\ UNCHANGED <<kernelVersion, userHandles, fdTable, vm, allocator, buffer, client>>
      BY <1>1, <1>5 DEF ScanHeap
    <3>6. QED
      BY <2>1, <3>3, <3>4, <3>5, DetectHolds
  <2>3. CASE heaps[call[t].next] # "DMA"
    <3>1. call' = [call EXCEPT ![t].next = @ + 1]
      BY <1>5, <2>3 DEF ScanHeap
    <3>2. call' = [call EXCEPT ![t].mask = call[t].mask, ![t].next = call[t].next + 1,
                               ![t].pc = "scan"]
      BY <1>1, <2>1, <3>1 DEF CallRecords
    <3> DEFINE mask == call[t].mask
               next == call[t].next + 1
    <3>3. /\ "scan" \in DetectLabels \cup {"alloc"} /\ next \in Nat /\ mask \subseteq DmaHeaps
          /\ call' = [call EXCEPT ![t].mask = mask, ![t].next = next, ![t].pc = "scan"]
      BY <1>1, <1>2, <2>1, <3>2 DEF DetectLabels
    <3> HIDE DEF mask, next
    <3>4. /\ heap_id_mask' \subseteq DmaHeaps
          /\ UNCHANGED <<kernelVersion, userHandles, fdTable, vm, allocator, buffer, client>>
      BY <1>1, <1>5 DEF ScanHeap
    <3>5. QED
      BY <2>1, <3>3, <3>4, DetectHolds
  <2>4. QED
    BY <2>2, <2>3
<1>6. CASE StoreMask(t)
  <2> DEFINE m == call[t].mask \cup {call[t].next}
  <2>1. /\ call[t].pc = "store" /\ call[t].pc \in DetectLabels
        /\ heap_id_mask' = m
        /\ call' = [call EXCEPT ![t].mask = m, ![t].next = @ + 1, ![t].pc = "scan"]
    BY <1>6 DEF StoreMask, At, DetectLabels
  <2>2. m \subseteq DmaHeaps /\ "scan" \in DetectLabels /\ call[t].next + 1 \in Nat
    BY <1>1, <1>2, <2>1 DEF HeapsOfCall, DetectLabels
  <2> DEFINE next == call[t].next + 1
             pc   == "scan"
  <2>3. call' = [call EXCEPT ![t].mask = m, ![t].next = next, ![t].pc = pc]
    BY <1>1, <2>1 DEF CallRecords
  <2>4. /\ heap_id_mask' \subseteq DmaHeaps
        /\ UNCHANGED <<kernelVersion, userHandles, fdTable, vm, allocator, buffer, client>>
    BY <1>6, <2>1, <2>2 DEF StoreMask
  <2>5. next \in Nat /\ pc \in DetectLabels \cup {"alloc"} /\ pc # "store"
    BY <2>2
  <2> HIDE DEF m, next, pc
  <2>6. QED
    BY <2>1, <2>2, <2>3, <2>4, <2>5, DetectHolds
<1>7. CASE ReturnMask(t)
  <2>1. call[t].pc \in DetectLabels
    BY <1>7 DEF ReturnMask, At, DetectLabels
  <2>2. PICK m \in {call[t].mask, heap_id_mask} :
          IF m = {} THEN End(t, "silent")
          ELSE call' = [call EXCEPT ![t].mask = m, ![t].pc = "alloc"]
    BY <1>7 DEF ReturnMask
  <2>3. CASE m = {}
    <3>1. "silent" \in Outcomes /\ End(t, "silent")
      BY <2>2, <2>3 DEF Outcomes
    <3>2. QED
      BY <1>2, <1>7, <2>1, <3>1, EndHolds DEF ReturnMask
  <2>4. CASE m # {}
    <3>1. call' = [call EXCEPT ![t].mask = m, ![t].next = call[t].next, ![t].pc = "alloc"]
      BY <1>1, <2>2, <2>4 DEF CallRecords
    <3>2. m \subseteq DmaHeaps
      BY <1>1, <1>2, <2>1
    <3>3. /\ heap_id_mask' \subseteq DmaHeaps
          /\ UNCHANGED <<kernelVersion, userHandles, fdTable, vm, allocator, buffer, client>>
      BY <1>1, <1>7 DEF ReturnMask
    <3> DEFINE pc   == "alloc"
               next == call[t].next
    <3>4. /\ call' = [call EXCEPT ![t].mask = m, ![t].next = next, ![t].pc = pc]
          /\ pc \in DetectLabels \cup {"alloc"} /\ pc # "store" /\ next \in Nat
      BY <1>1, <3>1
    <3> HIDE DEF pc, next
    <3>5. QED
      BY <2>1, <3>2, <3>3, <3>4, DetectHolds
  <2>5. QED
    BY <2>3, <2>4
<1>8. QED
  BY <1>3, <1>4, <1>5, <1>6, <1>7

LEMMA AllocateCallHolds ==
  ASSUME IonConstants, IonInv,
         NEW t \in Threads, NEW a \in Allocators, NEW b \in Buffers, AllocateCall(t, a, b)
  PROVE  IonInv'
<1> DEFINE pc   == IF legacy THEN "alloc" ELSE "mask"
           mask == IF legacy THEN DefaultMask ELSE {}
           r    == [Idle EXCEPT !.pc = pc, !.mask = mask, !.allocator = {a}, !.buffer = {b}]
<1>1. /\ call \in [Threads -> CallRecords] /\ DescriptorOfCall(call[t])
      /\ heap_id_mask \subseteq DmaHeaps /\ legacy \in BOOLEAN
      /\ userHandles \subseteq Threads
      /\ t \in userHandles => call[t].pc \in {"export", "free"}
  BY CallFacts
<1>2. /\ call[t].pc = "idle" /\ b \notin Live /\ b \notin Reserved
      /\ call' = [call EXCEPT ![t] = r]
      /\ UNCHANGED <<kernelVersion, heap_id_mask, userHandles, fdTable, vm, allocator,
                     buffer, client>>
  BY DEF AllocateCall, At
<1>3. /\ pc \in Labels /\ pc \notin {"idle", "store", "phys", "free", "export"}
      /\ (pc \in DetectLabels => ~legacy) /\ (~legacy => mask = {}) /\ mask \in SUBSET Nat
  BY <1>1 DEF Labels, DetectLabels, DefaultMask
<1> HIDE DEF pc, mask
<1>4. /\ r.pc = pc /\ r.mask = mask /\ r.buffer = {b} /\ r.fd = NoFd /\ r \in CallRecords
  BY <1>3 DEF Idle, CallRecords, Outcomes
<1> HIDE DEF r
<1>5. CallBecomes(t, r)
  BY <1>2 DEF CallBecomes
<1>6. HeapsOfCall(r) /\ DescriptorOfCall(r)
  BY <1>3, <1>4 DEF HeapsOfCall, DescriptorOfCall
<1>7. Reserves(t, r)
  BY <1>2, <1>4 DEF Reserves, Reserved
<1>8. MovesDescriptor(t, r)
  BY <1>1, <1>2, <1>4 DEF MovesDescriptor, DescriptorOfCall
<1>9. \A u \in userHandles' : u # t /\ u \in userHandles
  BY <1>1, <1>2
<1>10. heap_id_mask' \subseteq DmaHeaps /\ userHandles' \subseteq Threads
  BY <1>1, <1>2
<1>11. QED
  BY <1>4, <1>5, <1>6, <1>7, <1>8, <1>9, <1>10, CallHolds

LEMMA AllocIoctlHolds ==
  ASSUME IonConstants, IonInv, NEW t \in Threads, AllocIoctl(t)
  PROVE  IonInv'
<1>1. /\ call \in [Threads -> CallRecords] /\ call[t] \in CallRecords
      /\ HeapsOfCall(call[t]) /\ DescriptorOfCall(call[t])
      /\ heap_id_mask \subseteq DmaHeaps /\ Heaps \subseteq Nat \ {0} /\ NoFd \notin Fds
      /\ userHandles \subseteq Threads
      /\ t \in userHandles => call[t].pc \in {"export", "free"}
  BY CallFacts
<1>2. /\ call[t].pc = "alloc" /\ t \in Busy /\ call[t].fd = NoFd /\ t \notin userHandles
      /\ UNCHANGED <<kernelVersion, heap_id_mask, vm, allocator, buffer, client>>
  BY <1>1 DEF AllocIoctl, At, Busy, DescriptorOfCall
<1>3. CASE End(t, "errno") /\ UNCHANGED <<fdTable, userHandles>>
  <2>1. "errno" \in Outcomes /\ userHandles' \subseteq userHandles \ {t}
    BY <1>2, <1>3 DEF Outcomes
  <2>2. QED
    BY <1>2, <1>3, <2>1, EndHolds
<1>4. ASSUME NEW heap \in call[t].mask \cap Heaps, legacy,
             userHandles' = userHandles \cup {t},
             call' = [call EXCEPT ![t].heap = heap, ![t].pc = "export"],
             UNCHANGED fdTable
      PROVE  IonInv'
  <2> DEFINE r == [call[t] EXCEPT !.heap = heap, !.pc = "export"]
  <2>1. /\ r \in CallRecords /\ r.pc = "export" /\ r.buffer = call[t].buffer
        /\ r.fd = call[t].fd /\ call' = [call EXCEPT ![t] = r]
    BY <1>1, <1>4 DEF CallRecords, Labels
  <2> HIDE DEF r
  <2>2. CallBecomes(t, r) /\ MovesDescriptor(t, r)
    BY <1>2, <1>4, <2>1 DEF CallBecomes, MovesDescriptor
  <2>3. HeapsOfCall(r) /\ DescriptorOfCall(r)
    BY <1>2, <1>4, <2>1 DEF HeapsOfCall, DescriptorOfCall, DetectLabels
  <2>4. /\ heap_id_mask' \subseteq DmaHeaps /\ userHandles' \subseteq Threads
        /\ \A u \in userHandles' : IF u = t THEN r.pc \in {"export", "free"}
                                   ELSE u \in userHandles
    BY <1>1, <1>2, <1>4, <2>1
  <2>5. QED
    BY <1>2, <2>1, <2>2, <2>3, <2>4, AdvanceHolds
<1>5. ASSUME NEW heap \in call[t].mask \cap Heaps, ~legacy, NEW fd \in FreeFds,
             fdTable' = Open(fd, "dmabuf"),
             call' = [call EXCEPT ![t].heap = heap, ![t].fd = fd, ![t].pc = "phys"],
             UNCHANGED userHandles
      PROVE  IonInv'
  <2> DEFINE r == [call[t] EXCEPT !.heap = heap, !.fd = fd, !.pc = "phys"]
  <2>1. fd \in Fds /\ fd # NoFd /\ heap \in Nat /\ heap \in DmaHeaps
    BY <1>1, <1>5 DEF FreeFds, HeapsOfCall
  <2>2. /\ r \in CallRecords /\ r.pc = "phys" /\ r.buffer = call[t].buffer
        /\ r.fd = fd /\ r.heap = heap /\ r.mask = call[t].mask
        /\ call' = [call EXCEPT ![t] = r]
    BY <1>1, <1>5, <2>1 DEF CallRecords, Labels
  <2> HIDE DEF r
  <2>3. CallBecomes(t, r) /\ MovesDescriptor(t, r)
    BY <1>2, <1>5, <2>2 DEF CallBecomes, MovesDescriptor
  <2>4. HeapsOfCall(r) /\ DescriptorOfCall(r)
    BY <1>1, <1>5, <2>1, <2>2 DEF HeapsOfCall, DescriptorOfCall, DetectLabels
  <2>5. /\ heap_id_mask' \subseteq DmaHeaps /\ userHandles' \subseteq Threads
        /\ \A u \in userHandles' : u # t /\ u \in userHandles
    BY <1>1, <1>2, <1>5
  <2>6. QED
    BY <1>2, <2>2, <2>3, <2>4, <2>5, AdvanceHolds
<1>6. QED
  BY <1>3, <1>4, <1>5 DEF AllocIoctl

LEMMA ExportHandleHolds ==
  ASSUME IonConstants, IonInv, NEW t \in Threads, ExportHandle(t)
  PROVE  IonInv'
<1>1. /\ call \in [Threads -> CallRecords] /\ call[t] \in CallRecords
      /\ HeapsOfCall(call[t]) /\ DescriptorOfCall(call[t])
      /\ heap_id_mask \subseteq DmaHeaps /\ NoFd \notin Fds
      /\ userHandles \subseteq Threads
  BY CallFacts
<1>2. /\ call[t].pc = "export" /\ t \in Busy /\ call[t].fd = NoFd /\ legacy
      /\ UNCHANGED <<kernelVersion, heap_id_mask, userHandles, vm, allocator, buffer, client>>
  BY <1>1 DEF ExportHandle, At, Busy, DescriptorOfCall, HeapsOfCall
<1>3. PICK fd \in FreeFds \cup {NoFd}, outcome \in Outcomes :
        /\ call' = [call EXCEPT ![t].outcome = outcome, ![t].fd = fd, ![t].pc = "free"]
        /\ fdTable' = IF fd = NoFd THEN fdTable ELSE Open(fd, "dmabuf")
  <2>1. ASSUME NEW o \in Outcomes, NoExport(t, o), UNCHANGED fdTable
        PROVE  /\ call' = [call EXCEPT ![t].outcome = o, ![t].fd = NoFd, ![t].pc = "free"]
               /\ fdTable' = IF NoFd = NoFd THEN fdTable ELSE Open(NoFd, "dmabuf")
    BY <1>1, <1>2, <2>1 DEF NoExport, CallRecords
  <2>2. ASSUME NEW fd \in FreeFds, fdTable' = Open(fd, "dmabuf"),
               call' = [call EXCEPT ![t].fd = fd, ![t].pc = "free"]
        PROVE  /\ call[t].outcome \in Outcomes /\ fd # NoFd
               /\ call' = [call EXCEPT ![t].outcome = call[t].outcome, ![t].fd = fd,
                                       ![t].pc = "free"]
    BY <1>1, <2>2 DEF FreeFds, CallRecords
  <2>3. {"errno", "stale"} \subseteq Outcomes
    BY DEF Outcomes
  <2>4. \/ \E o \in {"errno", "stale"} : NoExport(t, o) /\ UNCHANGED fdTable
        \/ \E fd \in FreeFds : /\ fdTable' = Open(fd, "dmabuf")
                               /\ call' = [call EXCEPT ![t].fd = fd, ![t].pc = "free"]
    BY DEF ExportHandle
  <2>5. QED
    BY <2>1, <2>2, <2>3, <2>4
<1> DEFINE r == [call[t] EXCEPT !.outcome = outcome, !.fd = fd, !.pc = "free"]
<1>4. /\ r \in CallRecords /\ r.pc = "free" /\ r.buffer = call[t].buffer /\ r.fd = fd
      /\ call' = [call EXCEPT ![t] = r]
  BY <1>1, <1>3 DEF CallRecords, Labels, FreeFds
<1> HIDE DEF r
<1>5. CallBecomes(t, r) /\ MovesDescriptor(t, r)
  BY <1>2, <1>3, <1>4 DEF CallBecomes, MovesDescriptor
<1>6. HeapsOfCall(r) /\ DescriptorOfCall(r)
  BY <1>2, <1>4 DEF HeapsOfCall, DescriptorOfCall, DetectLabels
<1>7. /\ heap_id_mask' \subseteq DmaHeaps /\ userHandles' \subseteq Threads
      /\ \A u \in userHandles' : IF u = t THEN r.pc \in {"export", "free"}
                                 ELSE u \in userHandles
  BY <1>1, <1>2, <1>4
<1>8. QED
  BY <1>2, <1>4, <1>5, <1>6, <1>7, AdvanceHolds

LEMMA FreeHandleHolds ==
  ASSUME IonConstants, IonInv, NEW t \in Threads, FreeHandle(t)
  PROVE  IonInv'
<1>1. /\ call \in [Threads -> CallRecords] /\ call[t] \in CallRecords
      /\ HeapsOfCall(call[t]) /\ DescriptorOfCall(call[t])
      /\ heap_id_mask \subseteq DmaHeaps /\ userHandles \subseteq Threads
  BY CallFacts
<1>2. /\ call[t].pc = "free" /\ t \in Busy /\ legacy /\ userHandles' = userHandles \ {t}
      /\ UNCHANGED <<kernelVersion, heap_id_mask, fdTable, vm, allocator, buffer, client>>
  BY <1>1 DEF FreeHandle, At, Busy, HeapsOfCall
<1>3. CASE call[t].fd = NoFd
  <2>1. call[t].outcome \in Outcomes /\ End(t, call[t].outcome)
    BY <1>1, <1>3 DEF FreeHandle, CallRecords
  <2>2. QED
    BY <1>2, <1>3, <2>1, EndHolds
<1>4. CASE call[t].fd # NoFd
  <2> DEFINE r == [call[t] EXCEPT !.pc = "phys"]
  <2>1. /\ r \in CallRecords /\ r.pc = "phys" /\ r.buffer = call[t].buffer
        /\ r.fd = call[t].fd /\ call' = [call EXCEPT ![t] = r]
    BY <1>1, <1>4 DEF FreeHandle, Goto, CallRecords, Labels
  <2> HIDE DEF r
  <2>2. CallBecomes(t, r) /\ MovesDescriptor(t, r)
    BY <1>2, <2>1 DEF CallBecomes, MovesDescriptor
  <2>3. HeapsOfCall(r) /\ DescriptorOfCall(r)
    BY <1>2, <1>4, <2>1 DEF HeapsOfCall, DescriptorOfCall, DetectLabels
  <2>4. /\ heap_id_mask' \subseteq DmaHeaps /\ userHandles' \subseteq Threads
        /\ \A u \in userHandles' : u # t /\ u \in userHandles
    BY <1>1, <1>2
  <2>5. QED
    BY <1>2, <2>1, <2>2, <2>3, <2>4, AdvanceHolds
<1>5. QED
  BY <1>3, <1>4

\* The last step of a call makes the buffer, which takes over the descriptor.
LEMMA GetPhysicalAddressHolds ==
  ASSUME IonConstants, IonInv, NEW t \in Threads, GetPhysicalAddress(t)
  PROVE  IonInv'
<1>1. /\ call \in [Threads -> CallRecords] /\ call[t] \in CallRecords
      /\ HeapsOfCall(call[t]) /\ DescriptorOfCall(call[t])
      /\ heap_id_mask \subseteq DmaHeaps /\ NoFd \notin Fds
      /\ userHandles \subseteq Threads
      /\ t \in userHandles => call[t].pc \in {"export", "free"}
  BY CallFacts
<1>2. /\ call[t].pc = "phys" /\ t \in Busy /\ call[t].fd \in Fds /\ t \notin userHandles
      /\ UNCHANGED <<kernelVersion, heap_id_mask, userHandles, vm, allocator, client>>
  BY <1>1 DEF GetPhysicalAddress, At, Busy, DescriptorOfCall, CallRecords
<1>3. CASE NoPhysicalAddress(t)
  <2>1. ASSUME NEW outcome \in Outcomes, End(t, outcome) PROVE IonInv'
    <3>1. fdTable' = Close(call[t].fd) /\ UNCHANGED buffer
      BY <1>3 DEF NoPhysicalAddress
    <3>2. userHandles' \subseteq userHandles \ {t}
      BY <1>2
    <3>3. QED
      BY <1>2, <2>1, <3>1, <3>2, EndHolds
  <2>2. QED
    BY <1>3, <2>1 DEF NoPhysicalAddress, Outcomes
<1>4. ASSUME End(t, "ok"), UNCHANGED fdTable,
             buffer' = [b \in Buffers |->
               IF b \in call[t].buffer
               THEN [NoBuffer EXCEPT !.live = TRUE, !.allocator = call[t].allocator,
                                     !.dmabuf_fd = call[t].fd, !.heap = call[t].heap]
               ELSE buffer[b]]
      PROVE  IonInv'
  <2> DEFINE fd   == call[t].fd
             heap == call[t].heap
             r    == [Idle EXCEPT !.outcome = "ok"]
             made == [NoBuffer EXCEPT !.live = TRUE, !.allocator = call[t].allocator,
                                      !.dmabuf_fd = fd, !.heap = heap]
  <2>1. PICK b \in Buffers \ Live : call[t].buffer = {b}
    BY <1>2 DEF IonInv, CallsReserve
  <2>2. /\ r \in CallRecords /\ r.pc = "idle" /\ r.mask = {} /\ r.fd = NoFd
        /\ call' = [call EXCEPT ![t] = r]
    BY <1>4 DEF End, Idle, CallRecords, Labels, Outcomes
  <2>3. /\ made \in BufferRecords /\ made.live /\ made.dmabuf_fd = fd /\ made.heap = heap
        /\ ~made.mapped /\ made.mapping_refcount = 0
    BY <1>1, <1>2 DEF NoBuffer, BufferRecords, CallRecords
  <2>4. buffer' = [c \in Buffers |-> IF c = b THEN made ELSE buffer[c]]
    BY <1>4, <2>1
  <2>5. fd \in Fds /\ fd # NoFd /\ heap \in Nat /\ (~legacy => heap \in DmaHeaps)
    BY <1>1, <1>2 DEF CallRecords, HeapsOfCall
  <2> HIDE DEF r, made
  <2>6. /\ call'[t] = r /\ \A u \in Threads \ {t} : call'[u] = call[u]
        /\ call' \in [Threads -> CallRecords]
    BY <1>1, <2>2
  <2>7. /\ buffer'[b] = made /\ \A c \in Buffers \ {b} : buffer'[c] = buffer[c]
        /\ Live' = Live \cup {b}
    BY <2>1, <2>3, <2>4 DEF Live
  <2>8. Busy' = Busy \ {t} /\ Alive' = Alive /\ DmaHeaps' = DmaHeaps /\ Heaps' = Heaps
    BY <1>2, <2>2, <2>6 DEF Busy, Alive, DmaHeaps, Heaps, kernelVersion
  <2>9. TypeOK'
    <3>1. TypeOK
      BY DEF IonInv
    <3>2. buffer' \in [Buffers -> BufferRecords]
      BY <2>3, <2>4, <3>1, TypeParts
    <3>3. QED
      BY <1>2, <1>4, <2>6, <2>8, <3>1, <3>2
      DEF TypeOK, CallRecords, BufferRecords, kernelVersion
  <2>10. HeapsDetected'
    <3>1. legacy' = legacy /\ heap_id_mask' = heap_id_mask
      BY <1>2 DEF kernelVersion
    <3>2. ASSUME ~legacy, NEW c \in Live' PROVE buffer'[c].heap \in DmaHeaps
      BY <2>3, <2>5, <2>7, <3>2 DEF IonInv, HeapsDetected, Live
    <3>3. ASSUME NEW u \in Threads PROVE HeapsOfCall(call[u])'
      BY <2>2, <2>6, <2>8, <3>1 DEF IonInv, HeapsDetected, HeapsOfCall, DetectLabels
    <3>4. QED
      BY <1>1, <2>8, <3>1, <3>2, <3>3 DEF HeapsDetected
  <2>11. CallsReserve'
    <3>1. ASSUME NEW u \in Busy' PROVE \E c \in Buffers \ Live' : call'[u].buffer = {c}
      <4>1. u # t /\ u \in Busy /\ u \in Threads
        BY <2>8 DEF Busy
      <4>2. PICK c \in Buffers \ Live : call[u].buffer = {c}
        BY <4>1 DEF IonInv, CallsReserve
      <4>3. c # b
        BY <1>2, <2>1, <4>1, <4>2 DEF IonInv, CallsReserve
      <4>4. QED
        BY <2>6, <2>7, <4>1, <4>2, <4>3
    <3>2. \A u \in Busy' : u \in Busy /\ call'[u] = call[u]
      BY <2>6, <2>8 DEF Busy
    <3>3. QED
      BY <3>1, <3>2 DEF IonInv, CallsReserve
  <2>12. DmaBufsOwned'
    <3>1. DmaBufsOwned
      BY DEF IonInv
    <3>2. \A u \in Threads \ {t} : call[u].fd # fd
      BY <2>5, <3>1 DEF DmaBufsOwned
    <3>3. \A c \in Live : buffer[c].dmabuf_fd # fd /\ c # b /\ buffer'[c] = buffer[c]
      BY <2>1, <2>7, <3>1 DEF DmaBufsOwned, Live
    <3>4. /\ \A u \in Threads \ {t} : call'[u].fd = call[u].fd
          /\ call'[t].fd = NoFd /\ buffer'[b].dmabuf_fd = fd
      BY <2>2, <2>3, <2>6, <2>7
    <3>5. fdTable' = fdTable /\ fdTable[fd] = "dmabuf" /\ Live' = Live \cup {b}
      BY <1>4, <2>5, <2>7, <3>1 DEF DmaBufsOwned
    <3> HIDE DEF fd
    <3>6. \A u \in Threads : DescriptorOfCall(call[u])'
      BY <2>2, <2>6, <3>1 DEF DmaBufsOwned, DescriptorOfCall
    <3>7. \A u \in Threads : call'[u].fd # NoFd => fdTable'[call'[u].fd] = "dmabuf"
      BY <3>1, <3>4, <3>5 DEF DmaBufsOwned
    <3>8. \A c \in Live' : buffer'[c].dmabuf_fd \in Fds /\ fdTable'[buffer'[c].dmabuf_fd] = "dmabuf"
      BY <2>5, <3>1, <3>3, <3>4, <3>5 DEF DmaBufsOwned
    <3>9. \A c, d \in Live' : buffer'[c].dmabuf_fd = buffer'[d].dmabuf_fd => c = d
      BY <3>1, <3>3, <3>4, <3>5 DEF DmaBufsOwned
    <3>10. \A u, v \in Threads : call'[u].fd # NoFd /\ call'[v].fd = call'[u].fd => u = v
      BY <3>1, <3>4 DEF DmaBufsOwned
    <3>11. \A c \in Live', u \in Threads : buffer'[c].dmabuf_fd # call'[u].fd
      <4>1. ASSUME NEW c \in Live, NEW u \in Threads PROVE buffer'[c].dmabuf_fd # call'[u].fd
        BY <1>1, <3>1, <3>3, <3>4 DEF DmaBufsOwned
      <4>2. ASSUME NEW u \in Threads PROVE buffer'[b].dmabuf_fd # call'[u].fd
        BY <2>5, <3>2, <3>4
      <4>3. QED
        BY <3>5, <4>1, <4>2
    <3>12. \A x \in Fds : fdTable'[x] = "dmabuf" =>
             \/ \E c \in Live' : buffer'[c].dmabuf_fd = x
             \/ \E u \in Threads : call'[u].fd = x
      <4>1. ASSUME NEW x \in Fds, fdTable[x] = "dmabuf"
            PROVE  \/ \E c \in Live' : buffer'[c].dmabuf_fd = x
                   \/ \E u \in Threads : call'[u].fd = x
        <5>1. CASE x = fd
          BY <3>4, <3>5, <5>1
        <5>2. CASE x # fd /\ \E c \in Live : buffer[c].dmabuf_fd = x
          BY <3>3, <3>5, <5>2
        <5>3. CASE x # fd /\ \E u \in Threads : call[u].fd = x
          BY <3>4, <5>3 DEF fd
        <5>4. QED
          BY <3>1, <4>1, <5>1, <5>2, <5>3 DEF DmaBufsOwned
      <4>2. QED
        BY <3>5, <4>1
    <3>13. QED
      BY <3>6, <3>7, <3>8, <3>9, <3>10, <3>11, <3>12 DEF DmaBufsOwned
  <2>13. HandlesOwned'
    BY <1>1, <1>2, <2>6 DEF IonInv, HandlesOwned
  <2>14. NodesOwned'
    BY <1>2, <1>4, <2>8 DEF IonInv, NodesOwned
  <2>15. ASSUME NEW c \in Buffers PROVE MappingHeld(c)'
    <3>1. CASE c = b
      <4>1. MappingHeld(b)
        BY DEF IonInv
      <4>2. client[b].held = {} /\ client' = client /\ vm' = vm
        BY <1>2, <2>1, <4>1 DEF MappingHeld
      <4>3. QED
        BY <2>3, <2>7, <3>1, <4>1, <4>2, FS_EmptySet DEF MappingHeld
    <3>2. CASE c # b
      BY <1>2, <2>7, <3>2 DEF IonInv, MappingHeld
    <3>3. QED
      BY <3>1, <3>2
  <2>16. QED
    BY <2>9, <2>10, <2>11, <2>12, <2>13, <2>14, <2>15 DEF IonInv
<1>5. QED
  BY <1>3, <1>4 DEF GetPhysicalAddress

LEMMA AllocateHolds ==
  ASSUME IonConstants, IonInv, NEW t \in Threads, ThreadStep(t)
  PROVE  IonInv'
BY DetectionHolds, AllocIoctlHolds, ExportHandleHolds, FreeHandleHolds,
   GetPhysicalAddressHolds DEF ThreadStep

-----------------------------------------------------------------------------
(***************************************************************************)
(* The calls on buffers. A buffer keeps its heap and its descriptor until  *)
(* it is deallocated, so mapping disturbs its mapping only.                *)
(***************************************************************************)
LEMMA MappingStepHolds ==
  ASSUME IonConstants, IonInv, NEW b \in Buffers,
         NEW buf \in BufferRecords, NEW map \in VmRecords, NEW cl \in ClientRecords,
         buf.live = buffer[b].live, buf.heap = buffer[b].heap,
         buf.dmabuf_fd = buffer[b].dmabuf_fd,
         buffer' = [buffer EXCEPT ![b] = buf],
         vm' = [vm EXCEPT ![b] = map],
         client' = [client EXCEPT ![b] = cl],
         UNCHANGED <<others, fdTable>>,
         MappingHeld(b)'
  PROVE  IonInv'
<1>1. /\ TypeOK /\ HeapsDetected /\ CallsReserve /\ DmaBufsOwned /\ HandlesOwned
      /\ NodesOwned /\ \A c \in Buffers : MappingHeld(c)
  BY DEF IonInv
<1>2. /\ vm \in [Buffers -> VmRecords] /\ buffer \in [Buffers -> BufferRecords]
      /\ client \in [Buffers -> ClientRecords] /\ call \in [Threads -> CallRecords]
  BY <1>1, TypeParts
<1>3. /\ \A c \in Buffers \ {b} : buffer'[c] = buffer[c] /\ vm'[c] = vm[c]
                                    /\ client'[c] = client[c]
      /\ buffer'[b] = buf
  BY <1>2
<1>4. \A c \in Buffers : /\ buffer'[c].live = buffer[c].live
                         /\ buffer'[c].heap = buffer[c].heap
                         /\ buffer'[c].dmabuf_fd = buffer[c].dmabuf_fd
  BY <1>3
<1>5. /\ UNCHANGED <<heap_id_mask, heaps, legacy, userHandles, fdTable, allocator, call>>
      /\ Live' = Live /\ Alive' = Alive /\ Busy' = Busy
      /\ DmaHeaps' = DmaHeaps /\ Heaps' = Heaps
  BY <1>4 DEF others, kernelVersion, Live, Alive, Busy, DmaHeaps, Heaps
<1>6. TypeOK'
  <2>1. /\ vm' \in [Buffers -> VmRecords] /\ buffer' \in [Buffers -> BufferRecords]
        /\ client' \in [Buffers -> ClientRecords]
    BY <1>2
  <2>2. QED
    BY <1>1, <1>5, <2>1
    DEF TypeOK, VmRecords, BufferRecords, ClientRecords
<1>7. HeapsDetected'
  BY <1>1, <1>4, <1>5 DEF HeapsDetected, HeapsOfCall, Live
<1>8. CallsReserve' /\ HandlesOwned' /\ NodesOwned'
  BY <1>1, <1>5 DEF CallsReserve, HandlesOwned, NodesOwned
<1>9. DmaBufsOwned'
  BY <1>1, <1>2, <1>4, <1>5, DmaBufsFrame
<1>10. ASSUME NEW c \in Buffers, c # b PROVE MappingHeld(c)'
  BY <1>1, <1>3, <1>5, <1>10 DEF MappingHeld
<1>11. QED
  BY <1>6, <1>7, <1>8, <1>9, <1>10 DEF IonInv

LEMMA MapHolds ==
  ASSUME IonConstants, IonInv, NEW b \in Buffers, NEW h \in Handles,
         NEW f \in FlagChoices, Map(b, h, f)
  PROVE  IonInv'
<1> DEFINE held == client[b].held
           n    == buffer[b].mapping_refcount
           flags == Requested(f)
           prot == Rights(f)
<1>1. /\ vm \in [Buffers -> VmRecords] /\ buffer \in [Buffers -> BufferRecords]
      /\ client \in [Buffers -> ClientRecords]
  BY TypeParts DEF IonInv
<1>2. vm[b] \in VmRecords /\ buffer[b] \in BufferRecords /\ client[b] \in ClientRecords
  BY <1>1
<1>3. /\ MappingHeld(b) /\ b \in Live /\ h \notin held
      /\ UNCHANGED <<others, fdTable>>
  BY DEF IonInv, Map, Usable
<1>4. /\ flags \in SUBSET Flags /\ prot \in SUBSET ReadWrite /\ prot \subseteq flags
      /\ n \in Nat /\ held \in SUBSET Handles
  <2>1. flags \in SUBSET Flags
    BY DEF IonConstants, Requested, Flags
  <2>2. prot \in SUBSET ReadWrite /\ prot \subseteq flags
    BY DEF Rights
  <2>3. QED
    BY <1>2, <2>1, <2>2 DEF BufferRecords, ClientRecords
<1>5. Cardinality({h}) = 1 /\ Cardinality(held \cup {h}) = Cardinality(held) + 1
  BY <1>3, <1>4, HolderCount
<1> HIDE DEF flags, prot
<1>6. ASSUME ~buffer[b].mapped,
             buffer' = [buffer EXCEPT ![b].map_flags = flags],
             UNCHANGED <<vm, client>>
      PROVE  IonInv'
  <2> DEFINE buf == [buffer[b] EXCEPT !.map_flags = flags]
  <2>1. /\ buf \in BufferRecords /\ buf.live = buffer[b].live /\ buf.heap = buffer[b].heap
        /\ buf.dmabuf_fd = buffer[b].dmabuf_fd /\ buf.mapped = buffer[b].mapped
        /\ buf.mapping_refcount = buffer[b].mapping_refcount
    BY <1>2, <1>4 DEF BufferRecords
  <2>2. /\ buffer' = [buffer EXCEPT ![b] = buf]
        /\ vm' = [vm EXCEPT ![b] = vm[b]] /\ client' = [client EXCEPT ![b] = client[b]]
    BY <1>1, <1>6 DEF BufferRecords
  <2> HIDE DEF buf
  <2>3. buffer'[b] = buf /\ vm'[b] = vm[b] /\ client'[b] = client[b] /\ b \in Live'
    BY <1>1, <1>3, <2>1, <2>2 DEF Live
  <2>4. client[b].held = {} /\ client[b].access = {}
    BY <1>3, <1>6 DEF MappingHeld
  <2>5. MappingHeld(b)'
    BY <1>3, <1>6, <2>1, <2>3, <2>4 DEF MappingHeld
  <2>6. QED
    BY <1>2, <1>3, <2>1, <2>2, <2>5, MappingStepHolds
<1>7. ASSUME ~buffer[b].mapped,
             buffer' = [buffer EXCEPT ![b].map_flags = flags,
                                      ![b].mapping_refcount = 1, ![b].mapped = TRUE],
             vm' = [vm EXCEPT ![b] = [maps |-> @.maps + 1, prot |-> prot]],
             client' = [client EXCEPT ![b] = [held |-> {h}, access |-> prot]]
      PROVE  IonInv'
  <2> DEFINE buf == [buffer[b] EXCEPT !.map_flags = flags, !.mapping_refcount = 1,
                                      !.mapped = TRUE]
             map == [maps |-> vm[b].maps + 1, prot |-> prot]
             cl  == [held |-> {h}, access |-> prot]
  <2>1. /\ buf \in BufferRecords /\ buf.live = buffer[b].live /\ buf.heap = buffer[b].heap
        /\ buf.dmabuf_fd = buffer[b].dmabuf_fd /\ buf.mapped
        /\ buf.mapping_refcount = 1 /\ buf.map_flags = flags
    BY <1>2, <1>4 DEF BufferRecords
  <2>2. /\ map \in VmRecords /\ cl \in ClientRecords /\ cl.held = {h} /\ cl.access = prot
        /\ map = [maps |-> 1, prot |-> prot]
    BY <1>2, <1>3, <1>4, <1>7 DEF VmRecords, ClientRecords, MappingHeld
  <2>3. /\ buffer' = [buffer EXCEPT ![b] = buf] /\ vm' = [vm EXCEPT ![b] = map]
        /\ client' = [client EXCEPT ![b] = cl]
    BY <1>1, <1>7 DEF BufferRecords
  <2> HIDE DEF buf, map, cl
  <2>4. buffer'[b] = buf /\ vm'[b] = map /\ client'[b] = cl /\ b \in Live'
    BY <1>1, <1>3, <2>1, <2>3 DEF Live
  <2>5. MappingHeld(b)'
    BY <1>4, <1>5, <2>1, <2>2, <2>4 DEF MappingHeld
  <2>6. QED
    BY <1>3, <2>1, <2>2, <2>3, <2>5, MappingStepHolds
<1>8. ASSUME buffer[b].mapped,
             buffer' = [buffer EXCEPT ![b].mapping_refcount = @ + 1],
             client' = [client EXCEPT ![b].held = @ \cup {h}],
             UNCHANGED vm
      PROVE  IonInv'
  <2> DEFINE buf == [buffer[b] EXCEPT !.mapping_refcount = n + 1]
             cl  == [client[b] EXCEPT !.held = held \cup {h}]
  <2>1. /\ buf \in BufferRecords /\ buf.live = buffer[b].live /\ buf.heap = buffer[b].heap
        /\ buf.dmabuf_fd = buffer[b].dmabuf_fd /\ buf.mapped
        /\ buf.mapping_refcount = n + 1 /\ buf.map_flags = buffer[b].map_flags
    BY <1>2, <1>4, <1>8 DEF BufferRecords
  <2>2. /\ cl \in ClientRecords /\ cl.held = held \cup {h} /\ cl.access = client[b].access
    BY <1>2 DEF ClientRecords
  <2>3. /\ buffer' = [buffer EXCEPT ![b] = buf] /\ vm' = [vm EXCEPT ![b] = vm[b]]
        /\ client' = [client EXCEPT ![b] = cl]
    BY <1>1, <1>8 DEF BufferRecords, ClientRecords
  <2> HIDE DEF buf, cl
  <2>4. buffer'[b] = buf /\ vm'[b] = vm[b] /\ client'[b] = cl /\ b \in Live'
    BY <1>1, <1>3, <2>1, <2>3 DEF Live
  <2>5. held # {} /\ held \cup {h} # {}
    BY <1>3, <1>8 DEF MappingHeld
  <2>6. n + 1 = Cardinality(held \cup {h})
    BY <1>3, <1>5 DEF MappingHeld
  <2>7. MappingHeld(b)'
    BY <1>3, <2>1, <2>2, <2>4, <2>5, <2>6 DEF MappingHeld
  <2>8. QED
    BY <1>2, <1>3, <2>1, <2>2, <2>3, <2>7, MappingStepHolds
<1>9. QED
  BY <1>6, <1>7, <1>8 DEF Map, MapFirst, MapAgain, flags, prot

LEMMA MappingOfHolders ==
  ASSUME NEW b \in Buffers, MappingHeld(b)
  PROVE  /\ buffer[b].mapped => vm[b].maps = 1
         /\ ~buffer[b].mapped => vm[b] = Unmapped
<1>1. CASE buffer[b].mapped
  <2>1. vm[b] = [maps |-> 1, prot |-> client[b].access]
    BY <1>1 DEF MappingHeld
  <2>2. QED
    BY <1>1, <2>1
<1>2. CASE ~buffer[b].mapped
  <2>1. vm[b] = [maps |-> 0, prot |-> {}]
    BY <1>2 DEF MappingHeld
  <2>2. QED
    BY <1>2, <2>1 DEF Unmapped
<1>3. QED
  BY <1>1, <1>2

LEMMA UnmapHolds ==
  ASSUME IonConstants, IonInv, NEW b \in Buffers, NEW h \in Handles, Unmap(b, h)
  PROVE  IonInv'
<1> DEFINE held == client[b].held
           n    == buffer[b].mapping_refcount
           s    == Unmapping([buf |-> buffer[b], vm |-> vm[b]])
           cl   == [client[b] EXCEPT
                      !.held = @ \ {h},
                      !.access = IF held \subseteq {h} THEN {} ELSE @]
<1>1. /\ vm \in [Buffers -> VmRecords] /\ buffer \in [Buffers -> BufferRecords]
      /\ client \in [Buffers -> ClientRecords]
  BY TypeParts DEF IonInv
<1>2. vm[b] \in VmRecords /\ buffer[b] \in BufferRecords /\ client[b] \in ClientRecords
  BY <1>1
<1>3. /\ MappingHeld(b) /\ b \in Live /\ (h \in held \/ held = {})
      /\ buffer' = [buffer EXCEPT ![b] = s.buf] /\ vm' = [vm EXCEPT ![b] = s.vm]
      /\ UNCHANGED <<others, fdTable>>
  BY DEF IonInv, Unmap, Usable
<1>4. n \in Nat /\ held \in SUBSET Handles
  BY <1>2 DEF BufferRecords, ClientRecords
<1>5. /\ Cardinality(held) = 0 <=> held = {}
      /\ h \in held => Cardinality(held \ {h}) = Cardinality(held) - 1
      /\ Cardinality(held \ {h}) = 0 <=> held \ {h} = {}
  BY <1>4, HolderCount
<1>6. n = Cardinality(held) /\ buffer[b].live
  BY <1>3 DEF MappingHeld, Live
<1>7. /\ cl \in ClientRecords
      /\ cl.held = held \ {h}
      /\ cl.access = IF held \subseteq {h} THEN {} ELSE client[b].access
  BY <1>2 DEF ClientRecords
<1>8. client' = [client EXCEPT ![b] = cl]
  BY <1>1 DEF Unmap, ClientRecords
<1> HIDE DEF cl
<1>9. CASE ~buffer[b].mapped
  <2>1. s.buf = buffer[b] /\ s.vm = vm[b] /\ held = {} /\ cl.held = {} /\ cl.access = {}
        /\ client[b].access = {}
    BY <1>3, <1>7, <1>9 DEF Unmapping, MappingHeld
  <2> HIDE DEF s
  <2>2. buffer'[b] = buffer[b] /\ vm'[b] = vm[b] /\ client'[b] = cl /\ b \in Live'
    BY <1>1, <1>3, <1>6, <1>8, <2>1 DEF Live
  <2>3. MappingHeld(b)'
    BY <1>3, <2>1, <2>2 DEF MappingHeld
  <2>4. QED
    BY <1>2, <1>3, <1>7, <1>8, <2>1, <2>3, MappingStepHolds
<1>10. CASE buffer[b].mapped /\ n # 1
  <2> DEFINE buf == [buffer[b] EXCEPT !.mapping_refcount = n - 1]
  <2>1. h \in held /\ held \ {h} # {} /\ n - 1 \in Nat /\ n - 1 = Cardinality(held \ {h})
    BY <1>3, <1>4, <1>5, <1>6, <1>10 DEF MappingHeld
  <2>2. s.buf = buf /\ s.vm = vm[b]
    BY <1>10 DEF Unmapping
  <2>3. /\ buf \in BufferRecords /\ buf.live = buffer[b].live /\ buf.heap = buffer[b].heap
        /\ buf.dmabuf_fd = buffer[b].dmabuf_fd /\ buf.mapped = buffer[b].mapped
        /\ buf.mapping_refcount = n - 1 /\ buf.map_flags = buffer[b].map_flags
    BY <1>2, <2>1 DEF BufferRecords
  <2> HIDE DEF s, buf
  <2>4. buffer'[b] = buf /\ vm'[b] = vm[b] /\ client'[b] = cl /\ b \in Live'
    BY <1>1, <1>3, <1>6, <1>8, <2>2, <2>3 DEF Live
  <2>5. cl.access = client[b].access
    BY <1>7, <2>1
  <2>6. MappingHeld(b)'
    BY <1>3, <1>7, <1>10, <2>1, <2>3, <2>4, <2>5 DEF MappingHeld
  <2>7. QED
    BY <1>2, <1>3, <1>7, <1>8, <2>2, <2>3, <2>6, MappingStepHolds
<1>11. CASE buffer[b].mapped /\ n = 1
  <2> DEFINE buf == [buffer[b] EXCEPT !.mapping_refcount = 0, !.mapped = FALSE]
             map == [maps |-> vm[b].maps - 1, prot |-> {}]
  <2>1. h \in held /\ held \ {h} = {} /\ held \subseteq {h}
    BY <1>3, <1>5, <1>6, <1>11 DEF MappingHeld
  <2>2. s.buf = buf /\ s.vm = map
    BY <1>11 DEF Unmapping
  <2>3. /\ buf \in BufferRecords /\ buf.live = buffer[b].live /\ buf.heap = buffer[b].heap
        /\ buf.dmabuf_fd = buffer[b].dmabuf_fd /\ ~buf.mapped
        /\ buf.mapping_refcount = 0
    BY <1>2 DEF BufferRecords
  <2>4. map \in VmRecords /\ map = [maps |-> 0, prot |-> {}]
    <3>1. vm[b].maps - 1 = 0
      BY <1>3, <1>11, MappingOfHolders
    <3>2. map = Unmapped
      BY <3>1, Zenon DEF Unmapped
    <3>3. QED
      BY <3>2, EmptyRecords DEF Unmapped
  <2> HIDE DEF s, buf, map
  <2>5. buffer'[b] = buf /\ vm'[b] = map /\ client'[b] = cl /\ b \in Live'
    BY <1>1, <1>3, <1>6, <1>8, <2>2, <2>3 DEF Live
  <2>6. cl.held = {} /\ cl.access = {} /\ Cardinality({}) = 0
    BY <1>7, <2>1, FS_EmptySet
  <2>7. MappingHeld(b)'
    BY <2>3, <2>4, <2>5, <2>6 DEF MappingHeld
  <2>8. QED
    BY <1>3, <1>7, <1>8, <2>2, <2>3, <2>4, <2>7, MappingStepHolds
<1>12. QED
  BY <1>9, <1>10, <1>11

\* The structure is cleared; however often the buffer was mapped, its one
\* mapping goes, and its descriptor is closed.
LEMMA DeallocateHolds ==
  ASSUME IonConstants, IonInv, NEW b \in Buffers, Deallocate(b)
  PROVE  IonInv'
<1> DEFINE fd   == buffer[b].dmabuf_fd
           last == [buffer[b] EXCEPT !.mapping_refcount = IF buffer[b].mapped THEN 1 ELSE @]
<1>1. /\ TypeOK /\ HeapsDetected /\ CallsReserve /\ DmaBufsOwned /\ HandlesOwned
      /\ NodesOwned /\ \A c \in Buffers : MappingHeld(c)
  BY DEF IonInv
<1>2. /\ vm \in [Buffers -> VmRecords] /\ buffer \in [Buffers -> BufferRecords]
      /\ client \in [Buffers -> ClientRecords] /\ call \in [Threads -> CallRecords]
      /\ fdTable \in [Fds -> {"closed", "node", "client", "dmabuf"}]
      /\ vm[b] \in VmRecords /\ buffer[b] \in BufferRecords /\ NoFd \notin Fds
  BY <1>1, TypeParts, HeapNumbers
<1>3. /\ b \in Live
      /\ buffer' = [buffer EXCEPT ![b] = NoBuffer]
      /\ client' = [client EXCEPT ![b] = NoClient]
      /\ fdTable' = Close(fd)
      /\ UNCHANGED <<heap_id_mask, heaps, legacy, userHandles, allocator, call>>
  BY DEF Deallocate, Usable, others, kernelVersion
<1>4. vm' = [vm EXCEPT ![b] = Unmapped]
  <2>1. vm' = [vm EXCEPT ![b] = Unmapping([buf |-> last, vm |-> vm[b]]).vm]
    BY <1>2 DEF Deallocate
  <2>2. CASE buffer[b].mapped
    <3>1. last.mapped /\ last.mapping_refcount = 1
      BY <1>2, <2>2 DEF BufferRecords
    <3>2. vm[b].maps - 1 = 0
      BY <1>1, <2>2, MappingOfHolders
    <3> HIDE DEF last
    <3>3. QED
      BY <2>1, <3>1, <3>2 DEF Unmapping, Unmapped
  <2>3. CASE ~buffer[b].mapped
    <3>1. ~last.mapped
      BY <1>2, <2>3 DEF BufferRecords
    <3>2. vm[b] = Unmapped
      BY <1>1, <2>3, MappingOfHolders
    <3> HIDE DEF last
    <3>3. QED
      BY <2>1, <3>1, <3>2 DEF Unmapping
  <2>4. QED
    BY <2>2, <2>3
<1>5. /\ buffer'[b] = NoBuffer /\ vm'[b] = Unmapped /\ client'[b] = NoClient
      /\ \A c \in Buffers \ {b} : buffer'[c] = buffer[c] /\ vm'[c] = vm[c]
                                    /\ client'[c] = client[c]
  BY <1>2, <1>3, <1>4
<1>6. /\ Live' = Live \ {b} /\ Alive' = Alive /\ Busy' = Busy
      /\ DmaHeaps' = DmaHeaps /\ Heaps' = Heaps
  BY <1>3, <1>5 DEF Live, Alive, Busy, DmaHeaps, Heaps, NoBuffer
<1>7. /\ fd \in Fds /\ fd # NoFd /\ fdTable[fd] = "dmabuf" /\ fdTable'[fd] = "closed"
      /\ \A x \in Fds \ {fd} : fdTable'[x] = fdTable[x]
      /\ fdTable' \in [Fds -> {"closed", "node", "client", "dmabuf"}]
  BY <1>1, <1>2, <1>3 DEF DmaBufsOwned, Close
<1>8. /\ \A c \in Live' : c \in Live /\ buffer'[c] = buffer[c] /\ buffer[c].dmabuf_fd # fd
      /\ \A t \in Threads : call[t].fd # fd
  BY <1>1, <1>3, <1>5, <1>6 DEF DmaBufsOwned, Live
<1> HIDE DEF fd
<1>9. TypeOK'
  <2>1. /\ vm' \in [Buffers -> VmRecords] /\ buffer' \in [Buffers -> BufferRecords]
        /\ client' \in [Buffers -> ClientRecords]
    BY <1>2, <1>3, <1>4, EmptyRecords
  <2>2. QED
    BY <1>1, <1>3, <1>6, <1>7, <2>1 DEF TypeOK, VmRecords, BufferRecords, ClientRecords
<1>10. HeapsDetected' /\ HandlesOwned'
  BY <1>1, <1>3, <1>6, <1>8 DEF HeapsDetected, HeapsOfCall, HandlesOwned
<1>11. CallsReserve'
  BY <1>1, <1>3, <1>6 DEF CallsReserve
<1>12. NodesOwned'
  BY <1>1, <1>3, <1>7, NodesFrame
<1>13. DmaBufsOwned'
  <2>1. \A t \in Threads : DescriptorOfCall(call[t])'
    BY <1>1, <1>3 DEF DmaBufsOwned, DescriptorOfCall
  <2>2. ASSUME NEW t \in Threads, call[t].fd # NoFd PROVE fdTable'[call[t].fd] = "dmabuf"
    <3>1. call[t].fd \in Fds /\ fdTable[call[t].fd] = "dmabuf"
      BY <1>1, <1>2, <2>2 DEF DmaBufsOwned, CallRecords
    <3>2. QED
      BY <1>7, <1>8, <3>1
  <2>3. \A c \in Live' : buffer'[c].dmabuf_fd \in Fds /\ fdTable'[buffer'[c].dmabuf_fd] = "dmabuf"
    <3>1. ASSUME NEW c \in Live'
          PROVE  /\ buffer'[c] = buffer[c] /\ buffer[c].dmabuf_fd \in Fds \ {fd}
                 /\ fdTable[buffer[c].dmabuf_fd] = "dmabuf"
      BY <1>1, <1>8 DEF DmaBufsOwned
    <3>2. ASSUME NEW x \in Fds \ {fd} PROVE fdTable'[x] = fdTable[x]
      BY <1>7, <3>2
    <3>3. ASSUME NEW c \in Live'
          PROVE  buffer'[c].dmabuf_fd \in Fds /\ fdTable'[buffer'[c].dmabuf_fd] = "dmabuf"
      <4> DEFINE x == buffer[c].dmabuf_fd
      <4>1. /\ buffer'[c] = buffer[c] /\ x \in Fds \ {fd} /\ fdTable[x] = "dmabuf"
        BY <3>1, <3>3
      <4>2. fdTable'[x] = fdTable[x]
        BY <3>2, <4>1
      <4>3. QED
        BY <4>1, <4>2
    <3>4. QED
      BY <3>3
  <2>4. \A c, d \in Live' : buffer'[c].dmabuf_fd = buffer'[d].dmabuf_fd => c = d
    BY <1>1, <1>8 DEF DmaBufsOwned
  <2>5. \A c \in Live', t \in Threads : buffer'[c].dmabuf_fd # call[t].fd
    BY <1>1, <1>8 DEF DmaBufsOwned
  <2>6. ASSUME NEW x \in Fds, fdTable'[x] = "dmabuf"
        PROVE  (\E c \in Live' : buffer'[c].dmabuf_fd = x) \/ \E t \in Threads : call[t].fd = x
    <3>1. x # fd /\ fdTable[x] = "dmabuf"
      BY <1>7, <2>6
    <3>2. ASSUME NEW c \in Live, buffer[c].dmabuf_fd = x
          PROVE  c \in Live' /\ buffer'[c].dmabuf_fd = x
      BY <1>5, <1>6, <3>1, <3>2 DEF fd, Live
    <3>3. QED
      BY <1>1, <3>1, <3>2 DEF DmaBufsOwned
  <2>7. QED
    BY <1>1, <1>3, <2>1, <2>2, <2>3, <2>4, <2>5, <2>6 DEF DmaBufsOwned
<1>14. ASSUME NEW c \in Buffers PROVE MappingHeld(c)'
  <2>1. CASE c = b
    <3>1. /\ ~buffer'[b].mapped /\ buffer'[b].mapping_refcount = 0 /\ Cardinality({}) = 0
          /\ client'[b].held = {} /\ client'[b].access = {}
      BY <1>5, FS_EmptySet DEF NoBuffer, NoClient
    <3>2. vm'[b] = [maps |-> 0, prot |-> {}]
      BY <1>5 DEF Unmapped
    <3>3. QED
      BY <2>1, <3>1, <3>2 DEF MappingHeld
  <2>2. CASE c # b
    BY <1>1, <1>5, <1>6, <2>2 DEF MappingHeld
  <2>3. QED
    BY <2>1, <2>2
<1>15. QED
  BY <1>9, <1>10, <1>11, <1>12, <1>13, <1>14 DEF IonInv

LEMMA BufferStepHolds ==
  ASSUME IonConstants, IonInv, BufferStep
  PROVE  IonInv'
BY MapHolds, UnmapHolds, DeallocateHolds DEF BufferStep

-----------------------------------------------------------------------------
(***************************************************************************)
(* Allocators come and go, and the client's own /dev/ion with them.        *)
(***************************************************************************)
\* Whatever becomes of the device's descriptors, DMA-BUFs keep theirs.
LEMMA AllocatorStepFrame ==
  ASSUME IonConstants, IonInv,
         UNCHANGED <<kernelVersion, heap_id_mask, userHandles, vm, buffer, call, client>>,
         allocator' \in [Allocators -> AllocatorRecords],
         fdTable' \in [Fds -> {"closed", "node", "client", "dmabuf"}],
         \A fd \in Fds : (fdTable'[fd] = "dmabuf") <=> (fdTable[fd] = "dmabuf"),
         NodesOwned'
  PROVE  IonInv'
<1>1. /\ TypeOK /\ HeapsDetected /\ CallsReserve /\ DmaBufsOwned /\ HandlesOwned
      /\ \A c \in Buffers : MappingHeld(c)
  BY DEF IonInv
<1>2. /\ UNCHANGED <<heap_id_mask, heaps, legacy, userHandles, vm, buffer, call, client>>
      /\ Live' = Live /\ Busy' = Busy /\ DmaHeaps' = DmaHeaps /\ Heaps' = Heaps
  BY DEF kernelVersion, Live, Busy, DmaHeaps, Heaps
<1>3. TypeOK'
  BY <1>1, <1>2 DEF TypeOK, AllocatorRecords
<1>4. HeapsDetected' /\ CallsReserve' /\ HandlesOwned'
  BY <1>1, <1>2 DEF HeapsDetected, HeapsOfCall, CallsReserve, HandlesOwned
<1>5. call \in [Threads -> CallRecords]
  BY <1>1, TypeParts
<1>6. DmaBufsOwned'
  BY <1>1, <1>2, <1>5, DmaBufsFrame
<1>7. \A c \in Buffers : MappingHeld(c)'
  BY <1>1, <1>2 DEF MappingHeld
<1>8. QED
  BY <1>3, <1>4, <1>6, <1>7 DEF IonInv

LEMMA AllocatorNewHolds ==
  ASSUME IonConstants, IonInv, NEW a \in Allocators, AllocatorNew(a)
  PROVE  IonInv'
<1>1. /\ allocator \in [Allocators -> AllocatorRecords] /\ NodesOwned
      /\ fdTable \in [Fds -> {"closed", "node", "client", "dmabuf"}]
  BY TypeParts DEF IonInv
<1>2. /\ a \notin Alive
      /\ UNCHANGED <<kernelVersion, heap_id_mask, userHandles, vm, buffer, call, client>>
  BY DEF AllocatorNew, Fresh
<1>3. ASSUME NEW fd \in FreeFds, ~IonIsOpen, fdTable' = Open(fd, "node"),
             allocator' = [allocator EXCEPT ![a] =
               [ion_fd |-> fd, internal |-> TRUE, alive |-> TRUE]]
      PROVE  IonInv'
  <2> DEFINE made == [ion_fd |-> fd, internal |-> TRUE, alive |-> TRUE]
  <2>1. /\ fd \in Fds /\ fdTable[fd] = "closed" /\ fdTable'[fd] = "node"
        /\ \A x \in Fds \ {fd} : fdTable'[x] = fdTable[x]
        /\ fdTable' \in [Fds -> {"closed", "node", "client", "dmabuf"}]
    BY <1>1, <1>3 DEF FreeFds, Open
  <2>2. /\ made \in AllocatorRecords /\ made.ion_fd = fd /\ made.internal /\ made.alive
    BY <2>1 DEF AllocatorRecords
  <2>3. allocator' = [allocator EXCEPT ![a] = made]
    BY <1>3
  <2> HIDE DEF made
  <2>4. /\ allocator'[a] = made /\ \A c \in Allocators \ {a} : allocator'[c] = allocator[c]
        /\ allocator' \in [Allocators -> AllocatorRecords]
        /\ Alive' = Alive \cup {a}
    BY <1>1, <2>2, <2>3 DEF Alive
  \* Were one alive, it would have the device open.
  <2>5. Alive = {}
    <3>1. ASSUME NEW c \in Alive PROVE FALSE
      <4>1. allocator[c].ion_fd \in Fds /\ fdTable[allocator[c].ion_fd] \in {"node", "client"}
        BY <1>1 DEF NodesOwned
      <4>2. QED
        BY <1>3, <4>1 DEF IonIsOpen
    <3>2. QED
      BY <3>1
  <2>6. NodesOwned'
    <3>1. \A x \in Fds : fdTable'[x] = "node" => x = fd
      BY <1>3, <2>1 DEF IonIsOpen
    <3>2. Alive' = {a}
      BY <2>4, <2>5
    <3>3. QED
      BY <2>1, <2>2, <2>4, <3>1, <3>2 DEF NodesOwned
  <2>7. QED
    BY <1>2, <2>1, <2>4, <2>6, AllocatorStepFrame
<1>4. CASE UNCHANGED <<fdTable, allocator>>
  <2>1. NodesOwned'
    BY <1>1, <1>4, NodesFrame
  <2>2. QED
    BY <1>1, <1>2, <1>4, <2>1, AllocatorStepFrame
<1>5. QED
  BY <1>3, <1>4 DEF AllocatorNew

LEMMA AllocatorNewFromFdHolds ==
  ASSUME IonConstants, IonInv, NEW a \in Allocators, NEW fd \in Fds, AllocatorNewFromFd(a, fd)
  PROVE  IonInv'
<1> DEFINE made == [ion_fd |-> fd, internal |-> FALSE, alive |-> TRUE]
<1>1. /\ allocator \in [Allocators -> AllocatorRecords] /\ NodesOwned
      /\ fdTable \in [Fds -> {"closed", "node", "client", "dmabuf"}]
  BY TypeParts DEF IonInv
<1>2. /\ a \notin Alive /\ fdTable[fd] = "client" /\ fdTable' = fdTable
      /\ allocator' = [allocator EXCEPT ![a] = made]
      /\ UNCHANGED <<kernelVersion, heap_id_mask, userHandles, vm, buffer, call, client>>
  BY DEF AllocatorNewFromFd, Fresh
<1>3. made \in AllocatorRecords /\ made.ion_fd = fd /\ ~made.internal /\ made.alive
  BY DEF AllocatorRecords
<1> HIDE DEF made
<1>4. /\ allocator'[a] = made /\ \A c \in Allocators \ {a} : allocator'[c] = allocator[c]
      /\ allocator' \in [Allocators -> AllocatorRecords]
      /\ Alive' = Alive \cup {a}
  BY <1>1, <1>2, <1>3 DEF Alive
<1>5. \A c \in Alive : c # a /\ allocator'[c] = allocator[c]
  BY <1>2, <1>4 DEF Alive
<1>6. \A c \in Alive : allocator[c].internal => allocator[c].ion_fd # fd
  BY <1>1, <1>2 DEF NodesOwned
<1>7. NodesOwned'
  <2>1. \A c \in Alive' :
          /\ allocator'[c].ion_fd \in Fds
          /\ fdTable'[allocator'[c].ion_fd] = IF allocator'[c].internal THEN "node" ELSE "client"
    BY <1>1, <1>2, <1>3, <1>4, <1>5 DEF NodesOwned
  <2>2. \A c, d \in Alive' :
          allocator'[c].internal /\ allocator'[d].ion_fd = allocator'[c].ion_fd => c = d
    BY <1>1, <1>3, <1>4, <1>5, <1>6 DEF NodesOwned
  <2>3. \A x \in Fds : fdTable'[x] = "node" =>
          \E c \in Alive' : allocator'[c].ion_fd = x /\ allocator'[c].internal
    BY <1>1, <1>2, <1>4, <1>5 DEF NodesOwned
  <2>4. QED
    BY <2>1, <2>2, <2>3 DEF NodesOwned
<1>8. QED
  BY <1>1, <1>2, <1>4, <1>7, AllocatorStepFrame

LEMMA AllocatorDestroyHolds ==
  ASSUME IonConstants, IonInv, NEW a \in Allocators, AllocatorDestroy(a)
  PROVE  IonInv'
<1> DEFINE fd == allocator[a].ion_fd
<1>1. /\ allocator \in [Allocators -> AllocatorRecords] /\ NodesOwned
      /\ fdTable \in [Fds -> {"closed", "node", "client", "dmabuf"}]
  BY TypeParts DEF IonInv
<1>2. /\ a \in Alive /\ allocator' = [allocator EXCEPT ![a] = NoAllocator]
      /\ fdTable' = IF allocator[a].internal THEN Close(fd) ELSE fdTable
      /\ UNCHANGED <<kernelVersion, heap_id_mask, userHandles, vm, buffer, call, client>>
  BY DEF AllocatorDestroy
<1>3. /\ Alive' = Alive \ {a} /\ \A c \in Alive' : c # a /\ allocator'[c] = allocator[c]
      /\ allocator' \in [Allocators -> AllocatorRecords]
  BY <1>1, <1>2, EmptyRecords DEF Alive, NoAllocator
<1>4. /\ fd \in Fds /\ fdTable[fd] = IF allocator[a].internal THEN "node" ELSE "client"
      /\ \A c \in Alive' : allocator[a].internal => allocator[c].ion_fd # fd
  BY <1>1, <1>2, <1>3 DEF NodesOwned
<1>5. /\ \A x \in Fds \ {fd} : fdTable'[x] = fdTable[x]
      /\ fdTable'[fd] = IF allocator[a].internal THEN "closed" ELSE "client"
      /\ fdTable' \in [Fds -> {"closed", "node", "client", "dmabuf"}]
  BY <1>1, <1>2, <1>4 DEF Close
<1> HIDE DEF fd
<1>6. NodesOwned'
  <2>1. ASSUME NEW c \in Alive'
        PROVE  /\ allocator'[c].ion_fd \in Fds
               /\ fdTable'[allocator'[c].ion_fd]
                    = IF allocator'[c].internal THEN "node" ELSE "client"
    <3>1. /\ c \in Alive /\ allocator'[c] = allocator[c] /\ allocator[c].ion_fd \in Fds
          /\ fdTable[allocator[c].ion_fd] = IF allocator[c].internal THEN "node" ELSE "client"
      BY <1>1, <1>3 DEF NodesOwned
    <3>2. fdTable'[allocator[c].ion_fd] = fdTable[allocator[c].ion_fd]
      BY <1>4, <1>5, <3>1
    <3>3. QED
      BY <3>1, <3>2
  <2>2. \A c, d \in Alive' :
          allocator'[c].internal /\ allocator'[d].ion_fd = allocator'[c].ion_fd => c = d
    BY <1>1, <1>3 DEF NodesOwned
  <2>3. ASSUME NEW x \in Fds, fdTable'[x] = "node"
        PROVE  \E c \in Alive' : allocator'[c].ion_fd = x /\ allocator'[c].internal
    <3>1. x # fd /\ fdTable[x] = "node"
      BY <1>5, <2>3
    <3>2. PICK c \in Alive : allocator[c].ion_fd = x /\ allocator[c].internal
      BY <1>1, <3>1 DEF NodesOwned
    <3>3. c # a
      BY <3>1, <3>2 DEF fd
    <3>4. QED
      BY <1>3, <3>2, <3>3
  <2>4. QED
    BY <2>1, <2>2, <2>3 DEF NodesOwned
<1>7. \A x \in Fds : (fdTable'[x] = "dmabuf") <=> (fdTable[x] = "dmabuf")
  BY <1>4, <1>5
<1>8. QED
  BY <1>2, <1>3, <1>5, <1>6, <1>7, AllocatorStepFrame

LEMMA ClientIonHolds ==
  ASSUME IonConstants, IonInv, NEW fd \in Fds, ClientOpenIon(fd) \/ ClientCloseIon(fd)
  PROVE  IonInv'
<1>1. /\ allocator \in [Allocators -> AllocatorRecords] /\ NodesOwned
      /\ fdTable \in [Fds -> {"closed", "node", "client", "dmabuf"}]
  BY TypeParts DEF IonInv
<1>2. UNCHANGED <<kernelVersion, heap_id_mask, userHandles, vm, allocator, buffer, call, client>>
  BY DEF ClientOpenIon, ClientCloseIon
<1>3. /\ \A x \in Fds \ {fd} : fdTable'[x] = fdTable[x]
      /\ {fdTable[fd], fdTable'[fd]} \subseteq {"closed", "client"}
      /\ fdTable' \in [Fds -> {"closed", "node", "client", "dmabuf"}]
  BY <1>1 DEF ClientOpenIon, ClientCloseIon, FreeFds, Open, Close
<1>4. \A a \in Alive : allocator[a].ion_fd \in Fds /\ allocator[a].ion_fd # fd
  <2>1. CASE ClientOpenIon(fd)
    BY <1>1, <2>1 DEF ClientOpenIon, FreeFds, NodesOwned
  <2>2. CASE ClientCloseIon(fd)
    BY <1>1, <2>2 DEF ClientCloseIon, NodesOwned
  <2>3. QED
    BY <2>1, <2>2
<1>5. Alive' = Alive
  BY <1>2 DEF Alive
<1>6. NodesOwned'
  <2>1. \A a \in Alive : fdTable'[allocator[a].ion_fd] = fdTable[allocator[a].ion_fd]
    BY <1>3, <1>4
  <2>2. \A x \in Fds : fdTable'[x] = "node" => fdTable[x] = "node"
    BY <1>3
  <2>3. QED
    BY <1>1, <1>2, <1>5, <2>1, <2>2 DEF NodesOwned
<1>7. \A x \in Fds : (fdTable'[x] = "dmabuf") <=> (fdTable[x] = "dmabuf")
  BY <1>3
<1>8. QED
  BY <1>1, <1>2, <1>3, <1>6, <1>7, AllocatorStepFrame

LEMMA IonInvStep == IonConstants /\ IonInv /\ [Next]_vars => IonInv'
<1> SUFFICES ASSUME IonConstants, IonInv, [Next]_vars PROVE IonInv'
  OBVIOUS
<1>1. CASE AllocatorStep
  BY <1>1, AllocatorNewHolds, AllocatorNewFromFdHolds, AllocatorDestroyHolds, ClientIonHolds
  DEF AllocatorStep
<1>2. CASE \E t \in Threads, a \in Allocators, b \in Buffers : AllocateCall(t, a, b)
  BY <1>2, AllocateCallHolds
<1>3. CASE \E t \in Threads : ThreadStep(t)
  BY <1>3, AllocateHolds
<1>4. CASE BufferStep
  BY <1>4, BufferStepHolds
<1>5. CASE UNCHANGED vars
  <2>1. /\ allocator' \in [Allocators -> AllocatorRecords] /\ NodesOwned
        /\ fdTable' \in [Fds -> {"closed", "node", "client", "dmabuf"}]
    BY <1>5, TypeParts DEF vars, IonInv
  <2>2. /\ UNCHANGED <<kernelVersion, heap_id_mask, userHandles, vm, buffer, call, client>>
        /\ UNCHANGED <<allocator, fdTable>>
    BY <1>5 DEF vars, kernelVersion
  <2>3. NodesOwned'
    BY <2>1, <2>2, NodesFrame
  <2>4. QED
    BY <2>1, <2>2, <2>3, AllocatorStepFrame
<1>6. QED
  BY <1>1, <1>2, <1>3, <1>4, <1>5 DEF Next

LEMMA SafetyOfSpec == Spec => Init /\ [][Next]_vars
BY PTL DEF Spec

LEMMA IonInvariant == Spec => []IonInv
<1>1. Init => IonInv
  BY IonInvInit, IonConstants
<1>2. IonInv /\ [Next]_vars => IonInv'
  BY IonInvStep, IonConstants
<1>3. QED
  BY <1>1, <1>2, SafetyOfSpec, PTL

-----------------------------------------------------------------------------
(***************************************************************************)
(* What follows from the invariant.                                        *)
(***************************************************************************)
\* Every structure keeps its shape, also while calls run into each other in
\* get_heap_id_mask(); no reference count is ever negative.
THEOREM IonTypesKept == Spec => []TypeOK
<1>1. IonInv => TypeOK
  BY DEF IonInv
<1>2. QED
  BY <1>1, IonInvariant, PTL

\* A client that keeps to the contract meets no failing assertion: whoever
\* asks for a physical address has a descriptor, and so has every buffer; and
\* what a redundant map asks for, having kept to the rights of the first, is
\* among the flags that the buffer remembers, also after a map that failed.
THEOREM IonAssertionsHold == Spec => []AssertionsHold
<1>1. ASSUME IonInv PROVE AssertionsHold
  <2>1. /\ DmaBufsOwned /\ Fds \subseteq Nat /\ call \in [Threads -> CallRecords]
        /\ \A b \in Buffers : MappingHeld(b)
    BY <1>1, IonConstants, TypeParts DEF IonInv, IonConstants
  <2>2. ASSUME NEW t \in Threads, At(t, "phys") PROVE call[t].fd >= 0
    <3>1. call[t].fd \in Fds
      BY <2>1, <2>2 DEF At, DmaBufsOwned, DescriptorOfCall, CallRecords
    <3>2. call[t].fd \in Nat
      BY <2>1, <3>1
    <3>3. QED
      BY <3>2
  <2>3. ASSUME NEW b \in Live
        PROVE  /\ buffer[b].dmabuf_fd >= 0
               /\ client[b].held # {} => client[b].access \subseteq buffer[b].map_flags
    <3>1. b \in Buffers /\ buffer[b].dmabuf_fd \in Nat
      BY <2>1 DEF DmaBufsOwned, Live
    <3>2. MappingHeld(b)
      BY <2>1, <3>1
    <3>3. QED
      BY <3>1, <3>2 DEF MappingHeld
  <2>4. QED
    BY <2>2, <2>3 DEF AssertionsHold, Usable
<1>2. QED
  BY <1>1, IonInvariant, PTL

\* However many threads detect the heaps at once, and whatever half-built
\* mask one takes over from another, ION_IOC_ALLOC is never given a heap
\* that is not a DMA heap, and every buffer's memory is contiguous.
THEOREM IonBuffersAreContiguous == Spec => []BuffersAreInDmaHeaps
<1>1. IonInv => BuffersAreInDmaHeaps
  BY DEF IonInv, HeapsDetected, BuffersAreInDmaHeaps
<1>2. QED
  BY <1>1, IonInvariant, PTL

\* Every DMA-BUF, ION handle and device node that is open has one owner
\* that will release it, also in the middle of a call.
THEOREM IonObjectsOwned == Spec => []KernelObjectsOwned
<1> DEFINE Owners(fd) == {b \in Live : buffer[b].dmabuf_fd = fd}
                           \cup {t \in Busy : call[t].fd = fd}
<1>1. ASSUME IonInv, NEW fd \in Fds
      PROVE  fdTable[fd] = "dmabuf" <=> Cardinality(Owners(fd)) = 1
  <2>1. DmaBufsOwned /\ NoFd \notin Fds /\ call \in [Threads -> CallRecords]
    BY <1>1, IonConstants, HeapNumbers, TypeParts DEF IonInv
  <2>2. \A t \in Threads : call[t].fd = fd => t \in Busy
    BY <2>1 DEF DmaBufsOwned, DescriptorOfCall, Busy
  <2>3. CASE fdTable[fd] = "dmabuf"
    <3>1. ASSUME NEW b \in Live, buffer[b].dmabuf_fd = fd PROVE Owners(fd) = {b}
      BY <2>1, <3>1 DEF DmaBufsOwned, Busy
    <3>2. ASSUME NEW t \in Threads, call[t].fd = fd PROVE Owners(fd) = {t}
      <4>1. t \in Owners(fd)
        BY <2>2, <3>2
      <4>2. \A b \in Live : buffer[b].dmabuf_fd # fd
        BY <2>1, <3>2 DEF DmaBufsOwned
      <4>3. \A u \in Busy : call[u].fd = fd => u = t
        BY <2>1, <3>2 DEF DmaBufsOwned, Busy
      <4>4. QED
        BY <4>1, <4>2, <4>3
    <3>3. \E x : Owners(fd) = {x}
      BY <2>1, <2>3, <3>1, <3>2 DEF DmaBufsOwned
    <3> HIDE DEF Owners
    <3>4. QED
      BY <2>3, <3>3, FS_Singleton
  <2>4. CASE fdTable[fd] # "dmabuf"
    <3>1. Owners(fd) = {}
      BY <2>1, <2>4 DEF DmaBufsOwned, Busy
    <3> HIDE DEF Owners
    <3>2. Cardinality(Owners(fd)) = 0
      BY <3>1, FS_EmptySet
    <3>3. QED
      BY <2>4, <3>2
  <2>5. QED
    BY <2>3, <2>4
<1>2. IonInv => KernelObjectsOwned
  <2>1. SUFFICES ASSUME IonInv PROVE KernelObjectsOwned
    OBVIOUS
  <2>2. \A fd \in Fds : fdTable[fd] = "dmabuf" <=> Cardinality(Owners(fd)) = 1
    BY <1>1, <2>1
  <2>3. /\ \A fd \in Fds : fdTable[fd] = "node" =>
             \E a \in Alive : allocator[a].ion_fd = fd /\ allocator[a].internal
        /\ \A a \in Alive : fdTable[allocator[a].ion_fd] \in {"node", "client"}
        /\ \A t \in userHandles : call[t].pc \in {"export", "free"}
    BY <2>1 DEF IonInv, NodesOwned, HandlesOwned
  <2>4. QED
    BY <2>2, <2>3 DEF KernelObjectsOwned
<1>3. QED
  BY <1>2, IonInvariant, PTL

\* The reference count is the number of holders, behind all of them stands
\* one mmap() with the rights of the first, and it goes with the last.
THEOREM IonMappingsHeld == Spec => []MappingsMatchHolders
<1>1. IonInv => MappingsMatchHolders
  BY DEF IonInv, MappingHeld, MappingsMatchHolders
<1>2. QED
  BY <1>1, IonInvariant, PTL

-----------------------------------------------------------------------------
(***************************************************************************)
(* What a step of allocate() does to its call: the call ends, or goes on   *)
(* for its allocator with the outcome it had, or is about to fail without  *)
(* a descriptor.                                                           *)
(***************************************************************************)
KeepsCall(t) ==
  \E r : /\ call' = [call EXCEPT ![t] = r]
         /\ r.allocator = call[t].allocator /\ r.outcome = call[t].outcome

LEMMA CallMoves ==
  ASSUME call \in [Threads -> CallRecords], NEW t \in Threads
  PROVE  /\ CheckMask(t) \/ ScanHeap(t) \/ StoreMask(t) => KeepsCall(t)
         /\ QueryHeaps(t) => \/ KeepsCall(t) \/ End(t, "errno")
                             \/ heaps = <<>> /\ End(t, "stale")
         /\ ReturnMask(t) => \/ KeepsCall(t)
                             \/ {} \in {call[t].mask, heap_id_mask} /\ End(t, "silent")
         /\ AllocIoctl(t) => KeepsCall(t) \/ End(t, "errno")
         /\ ExportHandle(t) => \/ KeepsCall(t) \/ NoExport(t, "errno")
                               \/ "export_no_fd" \in Faults /\ NoExport(t, "stale")
         /\ FreeHandle(t) => KeepsCall(t) \/ End(t, call[t].outcome)
         /\ GetPhysicalAddress(t) => \/ End(t, "ok") \/ End(t, "errno")
                                     \/ "phys_zero" \in Faults /\ End(t, "silent")
<1>0. call[t] \in CallRecords
  OBVIOUS
<1>1. ASSUME NEW mask, NEW pc,
             call' = [call EXCEPT ![t].mask = mask, ![t].pc = pc]
      PROVE  KeepsCall(t)
  <2> DEFINE r == [call[t] EXCEPT !.mask = mask, !.pc = pc]
  <2>1. call' = [call EXCEPT ![t] = r]
    BY <1>1
  <2>2. r.allocator = call[t].allocator /\ r.outcome = call[t].outcome
    BY <1>0 DEF CallRecords
  <2> HIDE DEF r
  <2>3. QED
    BY <2>1, <2>2 DEF KeepsCall
<1>2. ASSUME NEW next,
             call' = [call EXCEPT ![t].next = next]
      PROVE  KeepsCall(t)
  <2> DEFINE r == [call[t] EXCEPT !.next = next]
  <2>1. call' = [call EXCEPT ![t] = r]
    BY <1>2
  <2>2. r.allocator = call[t].allocator /\ r.outcome = call[t].outcome
    BY <1>0 DEF CallRecords
  <2> HIDE DEF r
  <2>3. QED
    BY <2>1, <2>2 DEF KeepsCall
<1>3. ASSUME NEW mask, NEW next, NEW pc,
             call' = [call EXCEPT ![t].mask = mask, ![t].next = next, ![t].pc = pc]
      PROVE  KeepsCall(t)
  <2> DEFINE r == [call[t] EXCEPT !.mask = mask, !.next = next, !.pc = pc]
  <2>1. call' = [call EXCEPT ![t] = r]
    BY <1>3
  <2>2. r.allocator = call[t].allocator /\ r.outcome = call[t].outcome
    BY <1>0 DEF CallRecords
  <2> HIDE DEF r
  <2>3. QED
    BY <2>1, <2>2 DEF KeepsCall
<1>4. ASSUME NEW heap, NEW pc,
             call' = [call EXCEPT ![t].heap = heap, ![t].pc = pc]
      PROVE  KeepsCall(t)
  <2> DEFINE r == [call[t] EXCEPT !.heap = heap, !.pc = pc]
  <2>1. call' = [call EXCEPT ![t] = r]
    BY <1>4
  <2>2. r.allocator = call[t].allocator /\ r.outcome = call[t].outcome
    BY <1>0 DEF CallRecords
  <2> HIDE DEF r
  <2>3. QED
    BY <2>1, <2>2 DEF KeepsCall
<1>5. ASSUME NEW heap, NEW fd, NEW pc,
             call' = [call EXCEPT ![t].heap = heap, ![t].fd = fd, ![t].pc = pc]
      PROVE  KeepsCall(t)
  <2> DEFINE r == [call[t] EXCEPT !.heap = heap, !.fd = fd, !.pc = pc]
  <2>1. call' = [call EXCEPT ![t] = r]
    BY <1>5
  <2>2. r.allocator = call[t].allocator /\ r.outcome = call[t].outcome
    BY <1>0 DEF CallRecords
  <2> HIDE DEF r
  <2>3. QED
    BY <2>1, <2>2 DEF KeepsCall
<1>6. ASSUME NEW fd, NEW pc,
             call' = [call EXCEPT ![t].fd = fd, ![t].pc = pc]
      PROVE  KeepsCall(t)
  <2> DEFINE r == [call[t] EXCEPT !.fd = fd, !.pc = pc]
  <2>1. call' = [call EXCEPT ![t] = r]
    BY <1>6
  <2>2. r.allocator = call[t].allocator /\ r.outcome = call[t].outcome
    BY <1>0 DEF CallRecords
  <2> HIDE DEF r
  <2>3. QED
    BY <2>1, <2>2 DEF KeepsCall
<1>7. ASSUME NEW pc,
             call' = [call EXCEPT ![t].pc = pc]
      PROVE  KeepsCall(t)
  <2> DEFINE r == [call[t] EXCEPT !.pc = pc]
  <2>1. call' = [call EXCEPT ![t] = r]
    BY <1>7
  <2>2. r.allocator = call[t].allocator /\ r.outcome = call[t].outcome
    BY <1>0 DEF CallRecords
  <2> HIDE DEF r
  <2>3. QED
    BY <2>1, <2>2 DEF KeepsCall
<1>8. CheckMask(t) => KeepsCall(t)
  BY <1>1 DEF CheckMask
<1>9. ScanHeap(t) => KeepsCall(t)
  <2>1. CASE heaps[call[t].next] = "DMA"
    BY <1>1, <2>1 DEF ScanHeap
  <2>2. CASE heaps[call[t].next] # "DMA"
    BY <1>2, <2>2 DEF ScanHeap
  <2>3. QED
    BY <2>1, <2>2
<1>10. StoreMask(t) => KeepsCall(t)
  BY <1>3 DEF StoreMask
<1>11. QueryHeaps(t) => \/ KeepsCall(t) \/ End(t, "errno")
                        \/ heaps = <<>> /\ End(t, "stale")
  BY <1>1 DEF QueryHeaps
<1>12. ReturnMask(t) => \/ KeepsCall(t)
                        \/ {} \in {call[t].mask, heap_id_mask} /\ End(t, "silent")
  <2>1. SUFFICES ASSUME NEW m \in {call[t].mask, heap_id_mask},
                        IF m = {} THEN End(t, "silent")
                        ELSE call' = [call EXCEPT ![t].mask = m, ![t].pc = "alloc"]
                 PROVE  \/ KeepsCall(t)
                        \/ {} \in {call[t].mask, heap_id_mask} /\ End(t, "silent")
    BY DEF ReturnMask
  <2>2. CASE m = {}
    BY <2>1, <2>2
  <2>3. CASE m # {}
    BY <1>1, <2>1, <2>3
  <2>4. QED
    BY <2>2, <2>3
<1>13. AllocIoctl(t) => KeepsCall(t) \/ End(t, "errno")
  BY <1>4, <1>5 DEF AllocIoctl
<1>14. ExportHandle(t) => \/ KeepsCall(t) \/ NoExport(t, "errno")
                          \/ "export_no_fd" \in Faults /\ NoExport(t, "stale")
  BY <1>6 DEF ExportHandle
<1>15. FreeHandle(t) => KeepsCall(t) \/ End(t, call[t].outcome)
  BY <1>7 DEF FreeHandle, Goto
<1>16. GetPhysicalAddress(t) => \/ End(t, "ok") \/ End(t, "errno")
                                \/ "phys_zero" \in Faults /\ End(t, "silent")
  BY DEF GetPhysicalAddress, NoPhysicalAddress
<1>17. QED
  BY <1>8, <1>9, <1>10, <1>11, <1>12, <1>13, <1>14, <1>15, <1>16

-----------------------------------------------------------------------------
(***************************************************************************)
(* Whose buffers and calls there are: a call is made on an allocator that  *)
(* stays until the call ends, a buffer belongs to the one that made it.    *)
(***************************************************************************)
OwnersNamed ==
  \A b \in Buffers : IF b \in Live THEN \E a \in Allocators : buffer[b].allocator = {a}
                                  ELSE buffer[b].allocator = {}

CallersAlive == \A t \in Busy : \E a \in Alive : call[t].allocator = {a}

OwnersInv == OwnersNamed /\ CallersAlive

LEMMA OwnersInvInit == Init => OwnersInv
  BY DEF Init, OwnersInv, OwnersNamed, CallersAlive, Live, Busy, NoBuffer, Idle

\* Steps that leave the buffers to their owners.
LEMMA NamedFrame ==
  ASSUME OwnersNamed,
         \A b \in Buffers : /\ buffer'[b].live = buffer[b].live
                            /\ buffer'[b].allocator = buffer[b].allocator
  PROVE  OwnersNamed'
  BY DEF OwnersNamed, Live

\* Steps that leave the allocators alone, and no call without its own.
LEMMA CallersFrame ==
  ASSUME CallersAlive, UNCHANGED allocator,
         \A t \in Threads : \/ call'[t].pc = "idle"
                            \/ t \in Busy /\ call'[t].allocator = call[t].allocator
  PROVE  CallersAlive'
<1>1. Alive' = Alive
  BY DEF Alive
<1>2. ASSUME NEW t \in Busy'
      PROVE  t \in Busy /\ call'[t].allocator = call[t].allocator
  BY DEF Busy
<1>3. QED
  BY <1>1, <1>2 DEF CallersAlive

LEMMA OwnersAllocatorStep ==
  ASSUME IonConstants, IonInv, OwnersInv, AllocatorStep
  PROVE  OwnersInv'
<1>1. /\ allocator \in [Allocators -> AllocatorRecords] /\ OwnersNamed /\ CallersAlive
      /\ UNCHANGED <<buffer, call>>
  BY TypeParts DEF IonInv, OwnersInv, AllocatorStep, AllocatorNew, AllocatorDestroy,
     AllocatorNewFromFd, ClientOpenIon, ClientCloseIon
<1>2. OwnersNamed'
  BY <1>1, NamedFrame
<1>3. ASSUME NEW t \in Busy, NEW a \in Alive, call[t].allocator = {a} PROVE a \in Alive'
  <2>1. a \in Allocators /\ allocator[a].alive
    BY DEF Alive
  <2>2. ASSUME NEW c \in Allocators, NEW r, r.alive, allocator' = [allocator EXCEPT ![c] = r]
        PROVE  a \in Alive'
    BY <1>1, <2>1, <2>2 DEF Alive
  <2>3. CASE \E c \in Allocators : AllocatorNew(c)
    <3>1. PICK c \in Allocators : AllocatorNew(c)
      BY <2>3
    <3>2. CASE allocator' = allocator
      BY <2>1, <3>2 DEF Alive
    <3>3. ASSUME NEW fd,
                 allocator' = [allocator EXCEPT ![c] =
                   [ion_fd |-> fd, internal |-> TRUE, alive |-> TRUE]]
          PROVE  a \in Alive'
      <4> DEFINE made == [ion_fd |-> fd, internal |-> TRUE, alive |-> TRUE]
      <4>1. made.alive /\ allocator' = [allocator EXCEPT ![c] = made]
        BY <3>3
      <4> HIDE DEF made
      <4>2. QED
        BY <2>2, <4>1
    <3>4. QED
      BY <3>1, <3>2, <3>3 DEF AllocatorNew
  <2>4. CASE \E c \in Allocators, fd \in Fds : AllocatorNewFromFd(c, fd)
    <3>1. PICK c \in Allocators, fd \in Fds : AllocatorNewFromFd(c, fd)
      BY <2>4
    <3> DEFINE made == [ion_fd |-> fd, internal |-> FALSE, alive |-> TRUE]
    <3>2. made.alive /\ allocator' = [allocator EXCEPT ![c] = made]
      BY <3>1 DEF AllocatorNewFromFd
    <3> HIDE DEF made
    <3>3. QED
      BY <2>2, <3>2
  <2>5. CASE \E c \in Allocators : AllocatorDestroy(c)
    <3>1. PICK c \in Allocators : AllocatorDestroy(c)
      BY <2>5
    <3>2. c # a /\ allocator' = [allocator EXCEPT ![c] = NoAllocator]
      BY <1>3, <3>1 DEF AllocatorDestroy
    <3>3. QED
      BY <1>1, <2>1, <3>2 DEF Alive
  <2>6. CASE \E fd \in Fds : ClientOpenIon(fd) \/ ClientCloseIon(fd)
    BY <2>1, <2>6 DEF ClientOpenIon, ClientCloseIon, Alive
  <2>7. QED
    BY <2>3, <2>4, <2>5, <2>6 DEF AllocatorStep
<1>4. CallersAlive'
  <2>1. Busy' = Busy /\ \A t \in Busy : call'[t] = call[t]
    BY <1>1 DEF Busy
  <2>2. QED
    BY <1>1, <1>3, <2>1 DEF CallersAlive
<1>5. QED
  BY <1>2, <1>4 DEF OwnersInv

LEMMA OwnersThreadStep ==
  ASSUME IonConstants, IonInv, OwnersInv, NEW t \in Threads, ThreadStep(t)
  PROVE  OwnersInv'
<1>1. /\ call \in [Threads -> CallRecords] /\ buffer \in [Buffers -> BufferRecords]
      /\ OwnersNamed /\ CallersAlive
  BY TypeParts DEF IonInv, OwnersInv
<1>2. /\ UNCHANGED allocator /\ t \in Busy
      /\ \/ call'[t].pc = "idle"
         \/ call'[t].allocator = call[t].allocator
      /\ \A u \in Threads \ {t} : call'[u] = call[u]
  <2>1. UNCHANGED allocator /\ t \in Busy
    BY DEF ThreadStep, CheckMask, QueryHeaps, ScanHeap, StoreMask, ReturnMask, AllocIoctl,
       ExportHandle, FreeHandle, GetPhysicalAddress, At, Busy
  <2>2. ASSUME NEW o, End(t, o)
        PROVE  call'[t].pc = "idle" /\ \A u \in Threads \ {t} : call'[u] = call[u]
    BY <1>1, <2>2 DEF End, Idle
  <2>3. ASSUME NEW o, NoExport(t, o)
        PROVE  /\ call'[t].allocator = call[t].allocator
               /\ \A u \in Threads \ {t} : call'[u] = call[u]
    BY <1>1, <2>3 DEF NoExport, CallRecords
  <2>4. ASSUME KeepsCall(t)
        PROVE  /\ call'[t].allocator = call[t].allocator
               /\ \A u \in Threads \ {t} : call'[u] = call[u]
    BY <1>1, <2>4 DEF KeepsCall
  <2>5. KeepsCall(t) \/ (\E o : End(t, o)) \/ (\E o : NoExport(t, o))
    BY <1>1, CallMoves DEF ThreadStep
  <2>6. QED
    BY <2>1, <2>2, <2>3, <2>4, <2>5
<1>3. CallersAlive'
  <2>1. ASSUME NEW u \in Threads
        PROVE  \/ call'[u].pc = "idle"
               \/ u \in Busy /\ call'[u].allocator = call[u].allocator
    BY <1>1, <1>2 DEF Busy
  <2>2. QED
    BY <1>1, <1>2, <2>1, CallersFrame
<1>4. CASE UNCHANGED buffer
  <2>1. OwnersNamed'
    BY <1>1, <1>4, NamedFrame
  <2>2. QED
    BY <1>3, <2>1 DEF OwnersInv
<1>5. ASSUME buffer' = [b \in Buffers |->
               IF b \in call[t].buffer
               THEN [NoBuffer EXCEPT !.live = TRUE, !.allocator = call[t].allocator,
                                     !.dmabuf_fd = call[t].fd, !.heap = call[t].heap]
               ELSE buffer[b]]
      PROVE  OwnersInv'
  <2>1. PICK a \in Alive : call[t].allocator = {a}
    BY <1>1, <1>2 DEF CallersAlive
  <2>2. a \in Allocators
    BY DEF Alive
  <2>3. ASSUME NEW b \in Buffers
        PROVE  IF b \in Live' THEN \E c \in Allocators : buffer'[b].allocator = {c}
               ELSE buffer'[b].allocator = {}
    <3>1. CASE b \in call[t].buffer
      <4>1. buffer'[b].live /\ buffer'[b].allocator = {a}
        BY <1>5, <2>1, <3>1 DEF NoBuffer
      <4>2. QED
        BY <2>2, <4>1 DEF Live
    <3>2. CASE b \notin call[t].buffer
      <4>1. buffer'[b] = buffer[b]
        BY <1>5, <3>2
      <4>2. QED
        BY <1>1, <4>1 DEF OwnersNamed, Live
    <3>3. QED
      BY <3>1, <3>2
  <2>4. QED
    BY <1>3, <2>3 DEF OwnersInv, OwnersNamed
<1>6. UNCHANGED buffer \/ GetPhysicalAddress(t)
  BY DEF ThreadStep, CheckMask, QueryHeaps, ScanHeap, StoreMask, ReturnMask, AllocIoctl,
     ExportHandle, FreeHandle
<1>7. QED
  BY <1>4, <1>5, <1>6 DEF GetPhysicalAddress, NoPhysicalAddress

LEMMA OwnersBufferStep ==
  ASSUME IonConstants, IonInv, OwnersInv, BufferStep
  PROVE  OwnersInv'
<1>1. /\ buffer \in [Buffers -> BufferRecords] /\ OwnersNamed /\ CallersAlive
  BY TypeParts DEF IonInv, OwnersInv
<1>2. UNCHANGED <<allocator, call>>
  BY DEF BufferStep, Deallocate, Unmap, Map, others
<1>3. CallersAlive'
  BY <1>1, <1>2 DEF CallersAlive, Alive, Busy
<1>4. ASSUME NEW b \in Buffers, NEW r,
             buffer' = [buffer EXCEPT ![b] = r],
             r.live = buffer[b].live, r.allocator = buffer[b].allocator
      PROVE  OwnersNamed'
  BY <1>1, <1>4, NamedFrame
<1>5. ASSUME NEW b \in Buffers, NEW h \in Handles, NEW f \in FlagChoices, Map(b, h, f)
      PROVE  OwnersNamed'
  <2>1. buffer[b] \in BufferRecords
    BY <1>1
  <2>2. ASSUME buffer' = [buffer EXCEPT ![b].map_flags = Requested(f)]
        PROVE  OwnersNamed'
    BY <1>1, <2>1, <2>2, NamedFrame DEF BufferRecords
  <2>3. ASSUME buffer' = [buffer EXCEPT ![b].map_flags = Requested(f),
                                        ![b].mapping_refcount = 1, ![b].mapped = TRUE]
        PROVE  OwnersNamed'
    BY <1>1, <2>1, <2>3, NamedFrame DEF BufferRecords
  <2>4. ASSUME buffer' = [buffer EXCEPT ![b].mapping_refcount = @ + 1]
        PROVE  OwnersNamed'
    BY <1>1, <2>1, <2>4, NamedFrame DEF BufferRecords
  <2>5. QED
    BY <1>5, <2>2, <2>3, <2>4 DEF Map, MapFirst, MapAgain
<1>6. ASSUME NEW b \in Buffers, NEW h \in Handles, Unmap(b, h)
      PROVE  OwnersNamed'
  <2> DEFINE r == Unmapping([buf |-> buffer[b], vm |-> vm[b]]).buf
  <2>1. buffer' = [buffer EXCEPT ![b] = r]
    BY <1>6 DEF Unmap
  <2>2. buffer[b] \in BufferRecords
    BY <1>1
  <2>3. r.live = buffer[b].live /\ r.allocator = buffer[b].allocator
    BY <2>2 DEF Unmapping, BufferRecords
  <2> HIDE DEF r
  <2>4. QED
    BY <1>4, <2>1, <2>3
<1>7. ASSUME NEW b \in Buffers, Deallocate(b) PROVE OwnersNamed'
  <2>1. buffer' = [buffer EXCEPT ![b] = NoBuffer]
    BY <1>7 DEF Deallocate
  <2>2. /\ buffer'[b] = NoBuffer /\ \A d \in Buffers \ {b} : buffer'[d] = buffer[d]
        /\ ~NoBuffer.live /\ NoBuffer.allocator = {}
    BY <1>1, <2>1 DEF NoBuffer
  <2>3. QED
    BY <1>1, <2>2 DEF OwnersNamed, Live
<1>8. QED
  BY <1>3, <1>5, <1>6, <1>7 DEF BufferStep, OwnersInv

LEMMA OwnersInvStep ==
  ASSUME IonConstants, IonInv, OwnersInv, [Next]_vars
  PROVE  OwnersInv'
<1>1. ASSUME NEW t \in Threads, NEW a \in Allocators, NEW b \in Buffers, AllocateCall(t, a, b)
      PROVE  OwnersInv'
  <2>1. /\ call \in [Threads -> CallRecords] /\ OwnersNamed /\ CallersAlive
        /\ a \in Alive /\ UNCHANGED <<allocator, buffer>>
    BY <1>1, TypeParts DEF IonInv, OwnersInv, AllocateCall
  <2>2. call'[t].allocator = {a} /\ \A u \in Threads \ {t} : call'[u] = call[u]
    BY <1>1, <2>1 DEF AllocateCall, Idle
  <2>3. OwnersNamed' /\ Alive' = Alive
    BY <2>1, NamedFrame DEF Alive
  <2>4. CallersAlive'
    BY <2>1, <2>2, <2>3 DEF CallersAlive, Busy
  <2>5. QED
    BY <2>3, <2>4 DEF OwnersInv
<1>2. CASE UNCHANGED vars
  BY <1>2 DEF vars, OwnersInv, OwnersNamed, CallersAlive, Live, Busy, Alive
<1>3. QED
  BY <1>1, <1>2, OwnersAllocatorStep, OwnersThreadStep, OwnersBufferStep DEF Next

LEMMA OwnersInvariant == Spec => [](IonInv /\ OwnersInv)
<1>1. Init => IonInv /\ OwnersInv
  BY IonConstants, IonInvInit, OwnersInvInit
<1>2. IonInv /\ OwnersInv /\ [Next]_vars => (IonInv /\ OwnersInv)'
  <2>1. IonInv /\ [Next]_vars => IonInv'
    BY IonInvStep, IonConstants
  <2>2. IonInv /\ OwnersInv /\ [Next]_vars => OwnersInv'
    BY OwnersInvStep, IonConstants
  <2>3. QED
    BY <2>1, <2>2
<1>3. QED
  BY <1>1, <1>2, SafetyOfSpec, PTL

-----------------------------------------------------------------------------
(***************************************************************************)
(* The contract of imxdmabuffer.h: the values that the refinement gives to *)
(* its variables, and what a step changes in them.                         *)
(***************************************************************************)
alive   == {{a} : a \in Alive}
owner   == [b \in Buffers |-> buffer[b].allocator]
maps    == [b \in Buffers |-> buffer[b].mapping_refcount]
access  == [b \in Buffers |-> vm[b].prot]
manual  == [b \in Buffers |-> FALSE]
session == [b \in Buffers |-> buffer[b].mapping_refcount > 0]
content == [b \in Buffers |-> 0]

NewView(b, n, rights) == buffer'[b].mapping_refcount = n /\ vm'[b].prot = rights
SameView(b)           == NewView(b, buffer[b].mapping_refcount, vm[b].prot)
OthersSameView(b)     == \A d \in Buffers \ {b} : SameView(d)
SameOwners            == owner' = owner /\ alive' = alive
ContractStep          == Contract!Next \/ UNCHANGED Contract!contractVars

LEMMA ContractLive == OwnersNamed => Contract!live = Live
  BY DEF OwnersNamed, Contract!live, Live

\* A step of one buffer is a step of the contract.
LEMMA OneBufferSteps ==
  ASSUME NEW b \in Buffers, Contract!BufferStep(b)
  PROVE  ContractStep
  BY DEF ContractStep, Contract!Next

\* What keeps the buffers' owners and the allocators.
LEMMA OwnersSame ==
  ASSUME UNCHANGED allocator,
         \A b \in Buffers : buffer'[b].allocator = buffer[b].allocator
  PROVE  SameOwners
  BY DEF SameOwners, owner, alive, Alive

LEMMA SetMappingStep ==
  ASSUME NEW b \in Buffers, OthersSameView(b), NEW n, NEW rights, NewView(b, n, rights),
         alive' = alive
  PROVE  /\ Contract!SetMapping(b, n, rights, FALSE, n > 0)
         /\ maps' = [maps EXCEPT ![b] = n]
         /\ maps[b] = buffer[b].mapping_refcount
<1>1. maps' = [maps EXCEPT ![b] = n] /\ maps[b] = buffer[b].mapping_refcount
  BY DEF OthersSameView, SameView, NewView, maps
<1>2. access' = [access EXCEPT ![b] = rights]
  BY DEF OthersSameView, SameView, NewView, access
<1>3. session' = [session EXCEPT ![b] = n > 0]
  BY DEF OthersSameView, SameView, NewView, session
<1>4. manual' = [manual EXCEPT ![b] = FALSE] /\ content' = content
  BY DEF manual, content
<1>5. QED
  BY <1>1, <1>2, <1>3, <1>4
  DEF Contract!SetMapping, alive, maps, access, manual, session, content

LEMMA SameMappings ==
  ASSUME \A b \in Buffers : SameView(b)
  PROVE  UNCHANGED <<maps, access, manual, session, content>>
<1>1. maps' = maps /\ access' = access /\ session' = session
  BY DEF SameView, NewView, maps, access, session
<1>2. QED
  BY <1>1 DEF manual, content

LEMMA Stutter ==
  ASSUME SameOwners, \A b \in Buffers : SameView(b)
  PROVE  ContractStep
<1>1. UNCHANGED <<maps, access, manual, session, content>>
  BY SameMappings
<1>2. QED
  BY <1>1 DEF ContractStep, Contract!contractVars, SameOwners, alive, owner, maps, access,
     manual, session, content

\* One more or one less map call on a buffer that stays mapped.
LEMMA CountStep ==
  ASSUME OwnersNamed, NEW b \in Live, SameOwners, OthersSameView(b), NEW n \in Nat,
         NewView(b, n, vm[b].prot), buffer[b].mapping_refcount \in Nat \ {0},
         n = buffer[b].mapping_refcount + 1 \/ (n = buffer[b].mapping_refcount - 1 /\ n > 0)
  PROVE  ContractStep
<1>0. b \in Buffers /\ b \in Contract!live
  BY ContractLive DEF Live
<1>1. maps' = [maps EXCEPT ![b] = n] /\ maps[b] = buffer[b].mapping_refcount
  BY <1>0, SetMappingStep DEF SameOwners
<1>2. access' = access
  BY <1>0 DEF OthersSameView, SameView, NewView, access
<1>3. session' = session
  BY <1>0 DEF OthersSameView, SameView, NewView, session
<1>4. manual' = manual /\ content' = content
  BY DEF manual, content
<1>5. UNCHANGED <<alive, owner, access, manual, session, content>>
  BY <1>2, <1>3, <1>4 DEF SameOwners
<1>6. CASE n = maps[b] + 1
  <2>1. /\ b \in Contract!live /\ maps[b] > 0
        /\ maps' = [maps EXCEPT ![b] = maps[b] + 1]
    BY <1>0, <1>1, <1>6
  <2>2. Contract!MapAgain(b)
    BY <1>5, <2>1, Zenon
    DEF Contract!MapAgain, alive, owner, maps, access, manual, session, content
  <2>3. QED
    BY <1>0, <2>2, OneBufferSteps DEF Contract!BufferStep
<1>7. CASE n = maps[b] - 1 /\ n > 0
  <2>1. /\ b \in Contract!live /\ maps[b] > 1
        /\ maps' = [maps EXCEPT ![b] = maps[b] - 1]
    BY <1>0, <1>1, <1>7
  <2>2. Contract!Unmap(b)
    BY <1>5, <2>1, Zenon
    DEF Contract!Unmap, alive, owner, maps, access, manual, session, content
  <2>3. QED
    BY <1>0, <2>2, OneBufferSteps DEF Contract!BufferStep
<1>8. QED
  BY <1>1, <1>6, <1>7

\* What clients ask for when they map, if never for nothing but MANUAL_SYNC.
RightsAsked == {"MANUAL_SYNC"} \notin FlagChoices

LEMMA RightsNotEmpty ==
  ASSUME IonConstants, RightsAsked, NEW f \in FlagChoices
  PROVE  Rights(f) # {} /\ Rights(f) \in SUBSET Contract!ReadWrite
<1>1. f \in SUBSET Flags /\ f # {"MANUAL_SYNC"}
  BY DEF IonConstants, RightsAsked
<1>2. f = {} \/ \E x \in ReadWrite : x \in f
  BY <1>1 DEF Flags
<1>3. QED
  BY <1>2 DEF Rights, Requested, ReadWrite, Contract!ReadWrite

LEMMA RefineMap ==
  ASSUME IonConstants, RightsAsked, IonInv, OwnersInv, NEW b \in Buffers, NEW h \in Handles,
         NEW f \in FlagChoices, Map(b, h, f)
  PROVE  ContractStep
<1>1. /\ vm \in [Buffers -> VmRecords] /\ buffer \in [Buffers -> BufferRecords]
      /\ client \in [Buffers -> ClientRecords]
  BY TypeParts DEF IonInv
<1>2. /\ b \in Live /\ MappingHeld(b) /\ buffer[b].mapping_refcount \in Nat
      /\ client[b].held \in SUBSET Handles
  BY <1>1 DEF Map, Usable, IonInv, BufferRecords, ClientRecords
<1>3. buffer[b].mapping_refcount = 0 <=> ~buffer[b].mapped
  BY <1>2, HolderCount DEF MappingHeld
<1>4. OwnersNamed /\ b \in Contract!live
  BY <1>2, ContractLive DEF OwnersInv
<1>5. SameOwners
  <2>1. \A d \in Buffers \ {b} : buffer'[d] = buffer[d]
    BY <1>1 DEF Map, MapFirst, MapAgain
  <2>2. buffer'[b].allocator = buffer[b].allocator
    <3>1. CASE MapFirst(b, h, f)
      BY <1>1, <3>1 DEF MapFirst, BufferRecords
    <3>2. CASE MapAgain(b, h, f)
      BY <1>1, <3>2 DEF MapAgain, BufferRecords
    <3>3. QED
      BY <3>1, <3>2 DEF Map
  <2>3. UNCHANGED allocator
    BY DEF Map, others
  <2>4. QED
    BY <2>1, <2>2, <2>3, OwnersSame
<1>6. OthersSameView(b)
  BY <1>1 DEF Map, MapFirst, MapAgain, OthersSameView, SameView, NewView
<1>7. ASSUME ~buffer[b].mapped,
             buffer' = [buffer EXCEPT ![b].map_flags = Requested(f)], UNCHANGED vm
      PROVE  ContractStep
  <2>1. SameView(b)
    BY <1>1, <1>7 DEF SameView, NewView, BufferRecords
  <2>2. QED
    BY <1>5, <1>6, <2>1, Stutter DEF OthersSameView
<1>8. ASSUME ~buffer[b].mapped,
             buffer' = [buffer EXCEPT ![b].map_flags = Requested(f),
                                      ![b].mapping_refcount = 1, ![b].mapped = TRUE],
             vm' = [vm EXCEPT ![b] = [maps |-> @.maps + 1, prot |-> Rights(f)]]
      PROVE  ContractStep
  <2> DEFINE rights == Rights(f)
  <2>1. NewView(b, 1, rights)
    BY <1>1, <1>8 DEF NewView, BufferRecords
  <2>2. rights \in SUBSET Contract!ReadWrite /\ rights # {}
    BY RightsNotEmpty
  <2> HIDE DEF rights
  <2>3. Contract!SetMapping(b, 1, rights, FALSE, 1 > 0) /\ maps[b] = 0
    BY <1>3, <1>5, <1>6, <1>8, <2>1, SetMappingStep DEF SameOwners
  <2>4. Contract!SetMapping(b, 1, rights, FALSE, ~FALSE)
    <3>1. (1 > 0) = ~FALSE
      OBVIOUS
    <3>2. QED
      BY <2>3, <3>1, Zenon
  <2>5. Contract!MapFirst(b, rights, FALSE)
    BY <1>4, <1>5, <2>2, <2>3, <2>4 DEF Contract!MapFirst, SameOwners, owner, maps
  <2>6. QED
    BY <2>2, <2>5, OneBufferSteps DEF Contract!BufferStep
<1>9. ASSUME buffer[b].mapped,
             buffer' = [buffer EXCEPT ![b].mapping_refcount = @ + 1], UNCHANGED vm
      PROVE  ContractStep
  <2> DEFINE n == buffer[b].mapping_refcount + 1
  <2>1. NewView(b, n, vm[b].prot) /\ n \in Nat /\ buffer[b].mapping_refcount \in Nat \ {0}
    BY <1>1, <1>2, <1>3, <1>9 DEF NewView, BufferRecords
  <2>2. QED
    BY <1>2, <1>4, <1>5, <1>6, <2>1, CountStep
<1>10. QED
  BY <1>7, <1>8, <1>9 DEF Map, MapFirst, MapAgain

LEMMA RefineUnmap ==
  ASSUME IonConstants, IonInv, OwnersInv, NEW b \in Buffers, NEW h \in Handles, Unmap(b, h)
  PROVE  ContractStep
<1> DEFINE s == Unmapping([buf |-> buffer[b], vm |-> vm[b]])
           n == buffer[b].mapping_refcount
<1>1. /\ vm \in [Buffers -> VmRecords] /\ buffer \in [Buffers -> BufferRecords]
      /\ client \in [Buffers -> ClientRecords]
  BY TypeParts DEF IonInv
<1>2. /\ b \in Live /\ MappingHeld(b) /\ n \in Nat
      /\ client[b].held \in SUBSET Handles
      /\ buffer' = [buffer EXCEPT ![b] = s.buf] /\ vm' = [vm EXCEPT ![b] = s.vm]
  BY <1>1 DEF Unmap, Usable, IonInv, BufferRecords, ClientRecords
<1>3. n = 0 <=> ~buffer[b].mapped
  BY <1>2, HolderCount DEF MappingHeld
<1>4. /\ s.buf.allocator = buffer[b].allocator
      /\ ~buffer[b].mapped => s.buf.mapping_refcount = n /\ s.vm = vm[b]
      /\ buffer[b].mapped /\ n # 1 => s.buf.mapping_refcount = n - 1 /\ s.vm = vm[b]
      /\ buffer[b].mapped /\ n = 1 => s.buf.mapping_refcount = 0 /\ s.vm.prot = {}
  BY <1>1 DEF Unmapping, BufferRecords
<1> HIDE DEF s
<1>5. /\ buffer'[b] = s.buf /\ vm'[b] = s.vm
      /\ \A d \in Buffers \ {b} : buffer'[d] = buffer[d] /\ vm'[d] = vm[d]
  BY <1>1, <1>2
<1>6. SameOwners /\ OthersSameView(b) /\ OwnersNamed /\ b \in Contract!live
  <2>1. UNCHANGED allocator
    BY DEF Unmap, others
  <2>2. SameOwners
    BY <1>4, <1>5, <2>1, OwnersSame
  <2>3. OthersSameView(b)
    BY <1>5 DEF OthersSameView, SameView, NewView
  <2>4. QED
    BY <1>2, <2>2, <2>3, ContractLive DEF OwnersInv
<1>7. CASE ~buffer[b].mapped
  <2>1. SameView(b)
    BY <1>4, <1>5, <1>7 DEF SameView, NewView
  <2>2. QED
    BY <1>6, <2>1, Stutter DEF OthersSameView
<1>8. CASE buffer[b].mapped /\ n # 1
  <2> DEFINE m == n - 1
  <2>1. NewView(b, m, vm[b].prot) /\ m \in Nat /\ m > 0 /\ n \in Nat \ {0}
    BY <1>2, <1>3, <1>4, <1>5, <1>8 DEF NewView
  <2>2. QED
    BY <1>2, <1>6, <2>1, CountStep
<1>9. CASE buffer[b].mapped /\ n = 1
  <2>1. NewView(b, 0, {})
    BY <1>4, <1>5, <1>9 DEF NewView
  <2>2. Contract!SetMapping(b, 0, {}, FALSE, 0 > 0) /\ maps[b] = 1
    BY <1>6, <1>9, <2>1, SetMappingStep DEF SameOwners
  <2>3. Contract!SetMapping(b, 0, {}, FALSE, FALSE)
    <3>1. (0 > 0) = FALSE
      OBVIOUS
    <3>2. QED
      BY <2>2, <3>1, Zenon
  <2>4. ~manual[b]
    BY DEF manual
  <2>5. Contract!UnmapLast(b)
    BY <1>6, <2>2, <2>3, <2>4 DEF Contract!UnmapLast, SameOwners, owner, maps, manual
  <2>6. QED
    BY <2>5, OneBufferSteps DEF Contract!BufferStep
<1>10. QED
  BY <1>7, <1>8, <1>9

LEMMA RefineDeallocate ==
  ASSUME IonConstants, IonInv, OwnersInv, NEW b \in Buffers, Deallocate(b)
  PROVE  ContractStep
<1> DEFINE last == [buffer[b] EXCEPT !.mapping_refcount = IF buffer[b].mapped THEN 1 ELSE @]
           mapping == Unmapping([buf |-> last, vm |-> vm[b]]).vm
<1>1. /\ vm \in [Buffers -> VmRecords] /\ buffer \in [Buffers -> BufferRecords]
      /\ MappingHeld(b)
  BY TypeParts DEF IonInv
<1>2. /\ b \in Live /\ buffer' = [buffer EXCEPT ![b] = NoBuffer]
      /\ vm' = [vm EXCEPT ![b] = mapping]
  BY <1>1 DEF Deallocate, Usable
<1>3. mapping.prot = {}
  <2>1. CASE buffer[b].mapped
    <3>1. last.mapped /\ last.mapping_refcount = 1
      BY <1>1, <2>1 DEF BufferRecords
    <3> HIDE DEF last
    <3>2. QED
      BY <3>1 DEF Unmapping
  <2>2. CASE ~buffer[b].mapped
    <3>1. ~last.mapped
      BY <1>1, <2>2 DEF BufferRecords
    <3> HIDE DEF last
    <3>2. mapping = Unmapped
      BY <1>1, <2>2, <3>1, MappingOfHolders DEF Unmapping
    <3>3. QED
      BY <3>2 DEF Unmapped
  <2>3. QED
    BY <2>1, <2>2
<1> HIDE DEF mapping
<1>4. /\ buffer'[b] = NoBuffer /\ vm'[b] = mapping
      /\ \A d \in Buffers \ {b} : buffer'[d] = buffer[d] /\ vm'[d] = vm[d]
  BY <1>1, <1>2
<1>5. /\ owner' = [owner EXCEPT ![b] = {}] /\ alive' = alive
      /\ OthersSameView(b) /\ b \in Contract!live
  <2>1. owner' = [owner EXCEPT ![b] = {}]
    <3>1. /\ buffer'[b].allocator = {}
          /\ \A d \in Buffers \ {b} : buffer'[d].allocator = buffer[d].allocator
      BY <1>4 DEF NoBuffer
    <3>2. QED
      BY <3>1 DEF owner
  <2>2. alive' = alive
    BY DEF Deallocate, others, alive, Alive
  <2>3. OthersSameView(b)
    BY <1>4 DEF OthersSameView, SameView, NewView
  <2>4. QED
    BY <1>2, <2>1, <2>2, <2>3, ContractLive DEF OwnersInv
<1>6. NewView(b, 0, {})
  BY <1>3, <1>4 DEF NewView, NoBuffer
<1>7. Contract!SetMapping(b, 0, {}, FALSE, 0 > 0)
  BY <1>5, <1>6, SetMappingStep
<1>8. Contract!SetMapping(b, 0, {}, FALSE, FALSE)
  <2>1. (0 > 0) = FALSE
    OBVIOUS
  <2>2. QED
    BY <1>7, <2>1, Zenon
<1>9. Contract!Deallocate(b)
  BY <1>5, <1>8 DEF Contract!Deallocate, owner
<1>10. QED
  BY <1>9, OneBufferSteps DEF Contract!BufferStep

\* Of all the steps of a call only the last is visible, and only if it makes
\* the buffer.
LEMMA RefineGetPhysicalAddress ==
  ASSUME IonConstants, IonInv, OwnersInv, NEW t \in Threads, GetPhysicalAddress(t)
  PROVE  ContractStep
<1>1. /\ buffer \in [Buffers -> BufferRecords] /\ UNCHANGED <<vm, allocator>>
  BY TypeParts DEF IonInv, GetPhysicalAddress
<1>2. CASE UNCHANGED buffer
  <2>1. SameOwners /\ \A d \in Buffers : SameView(d)
    BY <1>1, <1>2, OwnersSame DEF SameView, NewView
  <2>2. QED
    BY <2>1, Stutter
<1>3. ASSUME buffer' = [b \in Buffers |->
               IF b \in call[t].buffer
               THEN [NoBuffer EXCEPT !.live = TRUE, !.allocator = call[t].allocator,
                                     !.dmabuf_fd = call[t].fd, !.heap = call[t].heap]
               ELSE buffer[b]]
      PROVE  ContractStep
  <2>1. t \in Busy
    BY DEF GetPhysicalAddress, At, Busy
  <2>2. PICK b \in Buffers \ Live : call[t].buffer = {b}
    BY <2>1 DEF IonInv, CallsReserve
  <2>3. PICK a \in Alive : call[t].allocator = {a}
    BY <2>1 DEF OwnersInv, CallersAlive
  <2>4. buffer[b].mapping_refcount = 0
    BY <2>2, FS_EmptySet DEF IonInv, MappingHeld
  <2>5. /\ buffer'[b].allocator = {a} /\ buffer'[b].mapping_refcount = 0
        /\ \A d \in Buffers \ {b} : buffer'[d] = buffer[d]
    BY <1>3, <2>2, <2>3 DEF NoBuffer
  <2>6. UNCHANGED <<maps, access, manual, session, content>>
    <3>1. \A d \in Buffers : SameView(d)
      BY <1>1, <2>4, <2>5 DEF SameView, NewView
    <3>2. QED
      BY <3>1, SameMappings
  <2>7. owner' = [owner EXCEPT ![b] = {a}] /\ alive' = alive
    BY <1>1, <2>5 DEF owner, alive, Alive
  <2>8. b \notin Contract!live /\ {a} \in alive
    BY <2>2, ContractLive DEF OwnersInv, alive
  <2>9. content' = [content EXCEPT ![b] = 0]
    BY DEF content
  <2>10. Contract!Allocate(b, {a})
    BY <2>6, <2>7, <2>8, <2>9
    DEF Contract!Allocate, Contract!mapping, alive, owner, maps, access, manual, session,
        content
  <2>11. {a} \in {{c} : c \in Allocators}
    BY DEF Alive
  <2>12. QED
    BY <2>10, <2>11, OneBufferSteps DEF Contract!BufferStep
<1>4. QED
  BY <1>2, <1>3 DEF GetPhysicalAddress, NoPhysicalAddress

LEMMA AllocatorEffect ==
  ASSUME IonConstants, ~DestroyEarly, IonInv, AllocatorStep
  PROVE  \/ allocator' = allocator
         \/ \E a \in Allocators : a \notin Alive /\ Alive' = Alive \cup {a}
         \/ \E a \in Alive : /\ Alive' = Alive \ {a}
                            /\ \A b \in Live : a \notin buffer[b].allocator
<1>1. allocator \in [Allocators -> AllocatorRecords]
  BY TypeParts DEF IonInv
<1>2. ASSUME NEW a \in Allocators, Fresh(a), NEW r, r.alive,
             allocator' = [allocator EXCEPT ![a] = r]
      PROVE  a \notin Alive /\ Alive' = Alive \cup {a}
  BY <1>1, <1>2 DEF Alive, Fresh
<1>3. ASSUME NEW a \in Allocators, AllocatorNew(a)
      PROVE  \/ allocator' = allocator
             \/ a \notin Alive /\ Alive' = Alive \cup {a}
  <2>1. ASSUME NEW fd,
               allocator' = [allocator EXCEPT ![a] =
                 [ion_fd |-> fd, internal |-> TRUE, alive |-> TRUE]]
        PROVE  a \notin Alive /\ Alive' = Alive \cup {a}
    <3> DEFINE made == [ion_fd |-> fd, internal |-> TRUE, alive |-> TRUE]
    <3>1. made.alive /\ allocator' = [allocator EXCEPT ![a] = made] /\ Fresh(a)
      BY <1>3, <2>1 DEF AllocatorNew
    <3> HIDE DEF made
    <3>2. QED
      BY <1>2, <3>1
  <2>2. QED
    BY <1>3, <2>1 DEF AllocatorNew
<1>4. ASSUME NEW a \in Allocators, NEW fd \in Fds, AllocatorNewFromFd(a, fd)
      PROVE  a \notin Alive /\ Alive' = Alive \cup {a}
  <2> DEFINE made == [ion_fd |-> fd, internal |-> FALSE, alive |-> TRUE]
  <2>1. made.alive /\ allocator' = [allocator EXCEPT ![a] = made] /\ Fresh(a)
    BY <1>4 DEF AllocatorNewFromFd
  <2> HIDE DEF made
  <2>2. QED
    BY <1>2, <2>1
<1>5. ASSUME NEW a \in Allocators, AllocatorDestroy(a)
      PROVE  /\ a \in Alive /\ Alive' = Alive \ {a}
             /\ \A b \in Live : a \notin buffer[b].allocator
  <2>1. /\ a \in Alive /\ allocator' = [allocator EXCEPT ![a] = NoAllocator]
        /\ \A b \in Live : a \notin buffer[b].allocator
    BY <1>5 DEF AllocatorDestroy
  <2>2. QED
    BY <1>1, <2>1 DEF Alive, NoAllocator
<1>6. ASSUME NEW fd \in Fds, ClientOpenIon(fd) \/ ClientCloseIon(fd)
      PROVE  allocator' = allocator
  BY <1>6 DEF ClientOpenIon, ClientCloseIon
<1>7. QED
  BY <1>3, <1>4, <1>5, <1>6 DEF AllocatorStep

LEMMA RefineAllocators ==
  ASSUME IonConstants, ~DestroyEarly, IonInv, OwnersInv, AllocatorStep
  PROVE  ContractStep
<1>1. UNCHANGED <<vm, buffer>>
  BY DEF AllocatorStep, AllocatorNew, AllocatorDestroy, AllocatorNewFromFd, ClientOpenIon,
     ClientCloseIon
<1>2. \A b \in Buffers : SameView(b)
  BY <1>1 DEF SameView, NewView
<1>3. UNCHANGED <<maps, access, manual, session, content>>
  BY <1>2, SameMappings
<1>4. owner' = owner
  BY <1>1 DEF owner
<1>5. CASE allocator' = allocator
  <2>1. SameOwners
    BY <1>4, <1>5 DEF SameOwners, alive, Alive
  <2>2. QED
    BY <1>2, <2>1, Stutter
<1>6. ASSUME NEW a \in Allocators, a \notin Alive, Alive' = Alive \cup {a}
      PROVE  ContractStep
  <2>1. {a} \notin alive /\ alive' = alive \cup {{a}}
    BY <1>6 DEF alive
  <2>2. Contract!NewAllocator({a})
    BY <1>3, <1>4, <2>1
    DEF Contract!NewAllocator, Contract!mapping, alive, owner, maps, access, manual,
        session, content
  <2>3. QED
    BY <2>2 DEF ContractStep, Contract!Next
<1>7. ASSUME NEW a \in Alive, Alive' = Alive \ {a},
             \A b \in Live : a \notin buffer[b].allocator
      PROVE  ContractStep
  <2>1. {a} \in alive /\ alive' = alive \ {{a}} /\ a \in Allocators
    BY <1>7 DEF alive, Alive
  <2>2. \A b \in Buffers : owner[b] # {a}
    BY <1>7 DEF OwnersInv, OwnersNamed, owner
  <2>3. /\ owner' = [b \in Buffers |-> IF owner[b] # {a} THEN owner[b] ELSE {}]
        /\ maps' = [b \in Buffers |-> IF owner[b] # {a} THEN maps[b] ELSE 0]
        /\ access' = [b \in Buffers |-> IF owner[b] # {a} THEN access[b] ELSE {}]
        /\ session' = [b \in Buffers |-> owner[b] # {a} /\ session[b]]
        /\ manual' = [b \in Buffers |-> owner[b] # {a} /\ manual[b]]
    <3>1. owner' = [b \in Buffers |-> IF owner[b] # {a} THEN owner[b] ELSE {}]
      BY <1>4, <2>2 DEF owner
    <3>2. maps' = [b \in Buffers |-> IF owner[b] # {a} THEN maps[b] ELSE 0]
      BY <1>3, <2>2 DEF maps
    <3>3. access' = [b \in Buffers |-> IF owner[b] # {a} THEN access[b] ELSE {}]
      BY <1>3, <2>2 DEF access
    <3>4. session' = [b \in Buffers |-> owner[b] # {a} /\ session[b]]
      <4>1. session = [b \in Buffers |-> owner[b] # {a} /\ session[b]]
        <5> DEFINE Now(b) == buffer[b].mapping_refcount > 0
                   Kept(b) == owner[b] # {a} /\ session[b]
        <5>1. session = [b \in Buffers |-> Now(b)]
          BY DEF session
        <5>2. ASSUME NEW b \in Buffers PROVE Now(b) = Kept(b)
          <6>1. Now(b) \in BOOLEAN
            OBVIOUS
          <6> HIDE DEF Now
          <6>2. session[b] = Now(b)
            BY <5>1
          <6>3. owner[b] # {a}
            BY <2>2
          <6>4. CASE Now(b) = TRUE
            BY <6>2, <6>3, <6>4
          <6>5. CASE Now(b) = FALSE
            BY <6>2, <6>5
          <6>6. QED
            BY <6>1, <6>4, <6>5
        <5> HIDE DEF Now, Kept
        <5>3. session = [b \in Buffers |-> Kept(b)]
          BY <5>1, <5>2, Zenon
        <5>4. QED
          BY <5>3 DEF Kept
      <4>2. QED
        BY <1>3, <4>1
    <3>5. manual' = [b \in Buffers |-> owner[b] # {a} /\ manual[b]]
      BY <1>3, <2>2 DEF manual
    <3>6. QED
      BY <3>1, <3>2, <3>3, <3>4, <3>5
  <2>4. Contract!Destroy({a})
    BY <1>3, <2>1, <2>3
    DEF Contract!Destroy, alive, owner, maps, access, manual, session, content
  <2>5. QED
    BY <2>1, <2>4 DEF ContractStep, Contract!Next
<1>8. QED
  BY <1>5, <1>6, <1>7, AllocatorEffect

LEMMA RefineNext ==
  ASSUME IonConstants, ~DestroyEarly, RightsAsked, IonInv, OwnersInv, [Next]_vars
  PROVE  ContractStep
<1>1. CASE UNCHANGED <<vm, buffer, allocator>>
  <2>1. SameOwners /\ \A b \in Buffers : SameView(b)
    BY <1>1, OwnersSame DEF SameView, NewView
  <2>2. QED
    BY <2>1, Stutter
<1>2. CASE AllocatorStep
  BY <1>2, RefineAllocators
<1>3. CASE BufferStep
  BY <1>3, RefineMap, RefineUnmap, RefineDeallocate DEF BufferStep
<1>4. CASE \E t \in Threads : GetPhysicalAddress(t)
  BY <1>4, RefineGetPhysicalAddress
<1>5. \/ UNCHANGED <<vm, buffer, allocator>> \/ AllocatorStep \/ BufferStep
      \/ \E t \in Threads : GetPhysicalAddress(t)
  <2>1. \A t \in Threads, a \in Allocators, b \in Buffers :
          AllocateCall(t, a, b) => UNCHANGED <<vm, buffer, allocator>>
    BY DEF AllocateCall
  <2>2. \A t \in Threads :
          ThreadStep(t) => GetPhysicalAddress(t) \/ UNCHANGED <<vm, buffer, allocator>>
    BY DEF ThreadStep, CheckMask, QueryHeaps, ScanHeap, StoreMask, ReturnMask, AllocIoctl,
       ExportHandle, FreeHandle
  <2>3. UNCHANGED vars => UNCHANGED <<vm, buffer, allocator>>
    BY DEF vars
  <2>4. QED
    BY <2>1, <2>2, <2>3 DEF Next
<1>6. QED
  BY <1>1, <1>2, <1>3, <1>4, <1>5

LEMMA RefineInit == Init => Contract!Init
<1> SUFFICES ASSUME Init PROVE Contract!Init
  OBVIOUS
<1>1. \A b \in Buffers : /\ buffer[b].mapping_refcount = 0 /\ buffer[b].allocator = {}
                         /\ vm[b].prot = {}
  BY DEF Init, NoBuffer, Unmapped
<1>2. alive = {} /\ owner = [b \in Buffers |-> {}]
  <2>1. Alive = {}
    BY DEF Init, Alive, NoAllocator
  <2>2. QED
    BY <1>1, <2>1 DEF alive, owner
<1>3. maps = [b \in Buffers |-> 0] /\ access = [b \in Buffers |-> {}]
  BY <1>1 DEF maps, access
<1>4. session = [b \in Buffers |-> FALSE]
  <2>1. ASSUME NEW b \in Buffers PROVE (buffer[b].mapping_refcount > 0) = FALSE
    BY <1>1
  <2>2. QED
    BY <2>1 DEF session
<1>5. manual = [b \in Buffers |-> FALSE] /\ content \in [Buffers -> {0}]
  BY DEF manual, content
<1>6. QED
  BY <1>2, <1>3, <1>4, <1>5
  DEF Contract!Init, alive, owner, maps, access, manual, session, content

\* The ION allocator implements the contract of imxdmabuffer.h also while
\* any number of threads are in the middle of an allocation: a buffer comes
\* to life whole and in one step, for an allocator that is still there;
\* whatever fails on the way to it is invisible, and a failed map changes
\* nothing. It does for clients that deallocate their buffers before the
\* allocator, whose destroy() does not, as the header says, and that never map
\* for MANUAL_SYNC alone, which gives no rights.
THEOREM IonAllocatorImplementsContract ==
  ASSUME ~DestroyEarly, RightsAsked
  PROVE  Spec => ImplementsContract
<1>1. Init => Contract!Init
  BY RefineInit
<1>2. IonInv /\ OwnersInv /\ [Next]_vars => [Contract!Next]_(Contract!contractVars)
  BY IonConstants, RefineNext DEF ContractStep
<1>3. QED
  BY <1>1, <1>2, OwnersInvariant, SafetyOfSpec, PTL DEF ImplementsContract, Contract!Spec

-----------------------------------------------------------------------------
(***************************************************************************)
(* The mask. A store overwrites what other threads have stored since this  *)
(* one read the variable, but the scans all go through the heaps in the    *)
(* same order: a scan that stores a heap after the first has the first in  *)
(* its mask. So where there are two DMA heaps at most, whoever stores the  *)
(* second has both, and whoever stores the first alone has the second      *)
(* still to come.                                                          *)
(***************************************************************************)
AtMostTwoDmaHeaps ==
  \A hs \in HeapLists : \A i, j, k \in DOMAIN hs :
    hs[i] = "DMA" /\ hs[j] = "DMA" /\ hs[k] = "DMA" => i = j \/ j = k \/ i = k

OneThread == \A t, u \in Threads : t = u

First(i) == i \in DmaHeaps /\ \A j \in DmaHeaps : i <= j

\* What a scan knows of a heap: of the first, that no mask lacks only it; of
\* one it has passed, that the mask is not empty, and has it if nobody else scans.
KnowsHeap(r, i) ==
  /\ First(i) => r.mask = {} \/ i \in r.mask
  /\ i < r.next => r.mask # {} /\ heap_id_mask # {}
  /\ OneThread /\ i < r.next => i \in r.mask /\ i \in heap_id_mask

\* A scan starts at the first heap, and no mask is returned to that is empty.
CallKnows(r) ==
  /\ r.next # 0
  /\ r.pc \in {"mask", "query"} => r.next = 1
  /\ r.pc \in {"scan", "store"} => heaps # <<>> /\ \A i \in DmaHeaps : KnowsHeap(r, i)
  /\ r.pc = "return" => r.mask # {} /\ heap_id_mask # {}

ScansKnow ==
  /\ \A t \in Threads : CallKnows(call[t])
  /\ \A i \in DmaHeaps : First(i) => heap_id_mask = {} \/ i \in heap_id_mask

\* If the mask is incomplete, a scan is still to store another heap.
NoneLost ==
  \/ heap_id_mask \in {{}, DmaHeaps}
  \/ \E t \in Scanning, j \in DmaHeaps : ~First(j) /\ call[t].next <= j

LEMMA ScansKnowInit == Init => ScansKnow /\ NoneLost
<1> SUFFICES ASSUME Init PROVE ScansKnow /\ NoneLost
  OBVIOUS
<1>1. heap_id_mask = {} /\ \A t \in Threads : call[t] = Idle
  BY DEF Init
<1>2. QED
  BY <1>1 DEF ScansKnow, NoneLost, CallKnows, Idle

\* A step of one call that does not store: it knows what it must, and passes
\* no DMA heap over.
LEMMA ScanMoves ==
  ASSUME ScansKnow, call \in [Threads -> CallRecords], NEW t \in Threads, NEW r,
         call' = [call EXCEPT ![t] = r], UNCHANGED <<heaps, heap_id_mask>>,
         CallKnows(r),
         t \in Scanning =>
           \A j \in DmaHeaps : call[t].next <= j => r.pc \in {"scan", "store"} /\ r.next <= j
  PROVE  ScansKnow' /\ (NoneLost => NoneLost')
<1>1. call'[t] = r /\ \A u \in Threads \ {t} : call'[u] = call[u]
  OBVIOUS
<1>2. DmaHeaps' = DmaHeaps /\ heap_id_mask' = heap_id_mask
  BY DEF DmaHeaps, Heaps
<1>3. \A i : First(i)' <=> First(i)
  BY <1>2 DEF First
<1>4. ASSUME NEW u \in Threads PROVE CallKnows(call[u])'
  <2>1. CallKnows(call'[u])
    BY <1>1 DEF ScansKnow
  <2>2. QED
    BY <1>2, <1>3, <2>1 DEF CallKnows, KnowsHeap
<1>5. ScansKnow'
  BY <1>2, <1>3, <1>4 DEF ScansKnow
<1>6. ASSUME NoneLost PROVE NoneLost'
  <2>1. ASSUME NEW u \in Scanning, NEW j \in DmaHeaps, call[u].next <= j
        PROVE  u \in Scanning' /\ call'[u].next <= j
    BY <1>1, <2>1 DEF Scanning
  <2>2. QED
    BY <1>2, <1>3, <1>6, <2>1 DEF NoneLost
<1>7. QED
  BY <1>5, <1>6

\* The store.
LEMMA StoreKeepsScans ==
  ASSUME IonConstants, IonInv, ScansKnow, NEW t \in Threads, StoreMask(t)
  PROVE  ScansKnow' /\ (AtMostTwoDmaHeaps \/ OneThread => NoneLost')
<1> DEFINE next == call[t].next
           m    == call[t].mask \cup {next}
<1>1. /\ call \in [Threads -> CallRecords] /\ call[t] \in CallRecords
      /\ HeapsOfCall(call[t])
      /\ Heaps \subseteq Nat \ {0} /\ DmaHeaps \subseteq Heaps /\ next \in Nat
  BY CallFacts DEF CallRecords
<1>2. /\ call[t].pc = "store" /\ heap_id_mask' = m /\ heaps' = heaps
      /\ call' = [call EXCEPT ![t].mask = m, ![t].next = next + 1, ![t].pc = "scan"]
  BY <1>1 DEF StoreMask, At, kernelVersion, CallRecords
<1>3. next \in DmaHeaps /\ m \subseteq DmaHeaps /\ t \in Scanning /\ next \in m
  BY <1>1, <1>2 DEF HeapsOfCall, DetectLabels, Scanning
<1>4. /\ call'[t].mask = m /\ call'[t].next = next + 1 /\ call'[t].pc = "scan"
      /\ \A u \in Threads \ {t} : call'[u] = call[u]
  BY <1>1, <1>2 DEF CallRecords
<1>5. DmaHeaps' = DmaHeaps /\ Scanning' = Scanning
  BY <1>2, <1>4 DEF DmaHeaps, Heaps, Scanning
<1>6. \A i : First(i)' <=> First(i)
  BY <1>5 DEF First
<1>7. ASSUME NEW i \in DmaHeaps, First(i) PROVE i \in m
  <2>1. i <= next /\ i \in Nat
    BY <1>1, <1>3, <1>7 DEF First
  <2>2. next > i => i \in call[t].mask
    BY <1>1, <1>2, <1>7, <2>1 DEF ScansKnow, CallKnows, KnowsHeap
  <2>3. QED
    BY <1>1, <2>1, <2>2
<1>8. ASSUME NEW j \in DmaHeaps, OneThread, j < next + 1 PROVE j \in m
  <2>1. j < next => j \in call[t].mask
    BY <1>2, <1>8 DEF ScansKnow, CallKnows, KnowsHeap
  <2>2. QED
    BY <1>1, <1>8, <2>1
<1> HIDE DEF m
<1>9. CallKnows(call[t])'
  <2>1. ASSUME NEW i \in DmaHeaps PROVE KnowsHeap(call[t], i)'
    BY <1>2, <1>3, <1>4, <1>6, <1>7, <1>8 DEF KnowsHeap, OneThread
  <2>2. heaps' # <<>>
    BY <1>2 DEF ScansKnow, CallKnows
  <2>3. QED
    BY <1>1, <1>4, <1>5, <2>1, <2>2 DEF CallKnows
<1>10. ASSUME NEW u \in Threads, u # t PROVE CallKnows(call[u])'
  <2>1. CallKnows(call[u]) /\ call'[u] = call[u] /\ heap_id_mask' # {} /\ ~OneThread
    BY <1>2, <1>3, <1>4, <1>10 DEF ScansKnow, OneThread
  <2>2. ASSUME NEW i \in DmaHeaps, KnowsHeap(call[u], i) PROVE KnowsHeap(call[u], i)'
    BY <1>6, <2>1, <2>2 DEF KnowsHeap, OneThread
  <2>3. QED
    BY <1>2, <1>5, <2>1, <2>2 DEF CallKnows
<1>11. ScansKnow'
  BY <1>2, <1>5, <1>6, <1>7, <1>9, <1>10 DEF ScansKnow
<1>12. ASSUME AtMostTwoDmaHeaps \/ OneThread
       PROVE  m = DmaHeaps \/ \E j \in DmaHeaps : ~First(j) /\ next + 1 <= j
  <2>1. CASE First(next)
    <3>1. CASE \E j \in DmaHeaps : j # next
      <4>1. PICK j \in DmaHeaps : j # next
        BY <3>1
      <4>2. j > next /\ j \in Nat
        BY <1>1, <2>1, <4>1 DEF First
      <4>3. ~First(j) /\ next + 1 <= j
        BY <1>1, <1>3, <4>2 DEF First
      <4>4. QED
        BY <4>3
    <3>2. CASE \A j \in DmaHeaps : j = next
      BY <1>3, <3>2
    <3>3. QED
      BY <3>1, <3>2
  <2>2. CASE ~First(next) /\ AtMostTwoDmaHeaps
    <3>1. PICK k \in DmaHeaps : k < next
      BY <1>1, <1>3, <2>2 DEF First
    \* Of two heaps the lower is the first.
    <3>2. \A x, y, z \in DmaHeaps : x = y \/ y = z \/ x = z
      <4>1. heaps \in HeapLists
        BY DEF IonInv, TypeOK
      <4>2. QED
        BY <2>2, <4>1 DEF AtMostTwoDmaHeaps, DmaHeaps, Heaps
    <3>3. \A j \in DmaHeaps : j = k \/ j = next
      BY <1>1, <1>3, <3>1, <3>2
    <3>4. First(k)
      BY <1>1, <3>1, <3>3 DEF First
    <3>5. k \in m
      BY <1>7, <3>4
    <3>6. QED
      BY <1>3, <3>3, <3>5
  <2>3. CASE OneThread
    <3>1. ASSUME NEW j \in DmaHeaps, j \notin m PROVE ~First(j) /\ next + 1 <= j
      BY <1>1, <1>7, <1>8, <2>3, <3>1
    <3>2. QED
      BY <1>3, <3>1
  <2>4. QED
    BY <1>12, <2>1, <2>2, <2>3
<1>13. ASSUME AtMostTwoDmaHeaps \/ OneThread PROVE NoneLost'
  BY <1>2, <1>3, <1>4, <1>5, <1>6, <1>12, <1>13 DEF NoneLost
<1>14. QED
  BY <1>11, <1>13

LEMMA ScansStep ==
  ASSUME IonConstants, IonInv, ScansKnow, [Next]_vars
  PROVE  ScansKnow' /\ ((AtMostTwoDmaHeaps \/ OneThread) /\ NoneLost => NoneLost')
<1> DEFINE Kept == ScansKnow' /\ ((AtMostTwoDmaHeaps \/ OneThread) /\ NoneLost => NoneLost')
<1>1. /\ call \in [Threads -> CallRecords] /\ Heaps \subseteq Nat \ {0}
      /\ Heaps = 1 .. Len(heaps) /\ Len(heaps) \in Nat
      /\ DmaHeaps \subseteq Heaps
      /\ \A t \in Threads : call[t].next \in Nat
  <2>1. heaps \in Seq(HeapTypes) /\ call \in [Threads -> CallRecords]
    BY TypeParts DEF IonConstants, IonInv
  <2>2. QED
    BY <2>1 DEF Heaps, DmaHeaps, CallRecords
<1>2. CASE UNCHANGED <<heaps, heap_id_mask, call>>
  <2>1. DmaHeaps' = DmaHeaps /\ Scanning' = Scanning
    BY <1>2 DEF DmaHeaps, Heaps, Scanning
  <2>2. QED
    BY <1>2, <2>1 DEF ScansKnow, NoneLost, CallKnows, KnowsHeap, First
\* A call comes to a label outside of the scan, and has passed nothing over.
<1>3. ASSUME NEW t \in Threads, NEW r, call' = [call EXCEPT ![t] = r],
             UNCHANGED <<heaps, heap_id_mask>>, CallKnows(r), r.pc \notin {"scan", "store"},
             t \in Scanning => call[t].next \notin Heaps
      PROVE  Kept
  <2>1. t \in Scanning => \A j \in DmaHeaps : ~(call[t].next <= j)
    BY <1>1, <1>3 DEF ScansKnow, CallKnows
  <2>2. QED
    BY <1>1, <1>3, <2>1, ScanMoves
<1>4. ASSUME NEW t \in Threads, NEW outcome, End(t, outcome),
             UNCHANGED <<heaps, heap_id_mask>>,
             t \in Scanning => call[t].next \notin Heaps
      PROVE  Kept
  <2> DEFINE r == [Idle EXCEPT !.outcome = outcome]
  <2>1. call' = [call EXCEPT ![t] = r] /\ CallKnows(r) /\ r.pc \notin {"scan", "store"}
    BY <1>4 DEF End, Idle, CallKnows
  <2>2. QED
    BY <1>3, <1>4, <2>1
<1>5. ASSUME NEW t \in Threads, NEW a \in Allocators, NEW b \in Buffers, AllocateCall(t, a, b)
      PROVE  Kept
  <2> DEFINE r == [Idle EXCEPT !.pc = IF legacy THEN "alloc" ELSE "mask",
                               !.mask = IF legacy THEN DefaultMask ELSE {},
                               !.allocator = {a}, !.buffer = {b}]
  <2>1. /\ call' = [call EXCEPT ![t] = r] /\ UNCHANGED <<heaps, heap_id_mask>>
        /\ t \notin Scanning
    BY <1>5 DEF AllocateCall, At, Scanning, kernelVersion
  <2>2. CallKnows(r) /\ r.pc \notin {"scan", "store"}
    BY DEF CallKnows, Idle
  <2>3. QED
    BY <1>3, <2>1, <2>2
<1>6. ASSUME NEW t \in Threads, ThreadStep(t) PROVE Kept
  <2>1. CallKnows(call[t]) /\ call[t] \in CallRecords
    BY <1>1 DEF ScansKnow
  <2>2. CASE CheckMask(t)
    <3> DEFINE pc == IF heap_id_mask # {} THEN "return" ELSE "query"
               r  == [call[t] EXCEPT !.mask = heap_id_mask, !.pc = pc]
    <3>1. /\ call' = [call EXCEPT ![t] = r] /\ UNCHANGED <<heaps, heap_id_mask>>
          /\ t \notin Scanning
      BY <1>1, <2>1, <2>2 DEF CheckMask, At, Scanning, kernelVersion, CallRecords
    <3>2. CallKnows(r) /\ r.pc \notin {"scan", "store"}
      BY <2>1, <2>2 DEF CheckMask, At, CallKnows, CallRecords
    <3>3. QED
      BY <1>3, <3>1, <3>2
  <2>3. CASE QueryHeaps(t)
    <3>1. /\ UNCHANGED <<heaps, heap_id_mask>> /\ t \notin Scanning
          /\ call[t].next = 1 /\ call[t].pc = "query"
      BY <2>1, <2>3 DEF QueryHeaps, At, CallKnows, Scanning, kernelVersion
    <3>2. CASE /\ heaps # <<>>
               /\ call' = [call EXCEPT ![t].mask = heap_id_mask, ![t].pc = "scan"]
      <4> DEFINE r == [call[t] EXCEPT !.mask = heap_id_mask, !.pc = "scan"]
      <4>1. /\ call' = [call EXCEPT ![t] = r]
            /\ r.mask = heap_id_mask /\ r.next = 1 /\ r.pc = "scan"
        BY <1>1, <2>1, <3>1, <3>2 DEF CallRecords
      <4> HIDE DEF r
      <4>2. \A i \in DmaHeaps : KnowsHeap(r, i)
        BY <1>1, <4>1 DEF ScansKnow, KnowsHeap
      <4>3. CallKnows(r)
        BY <3>2, <4>1, <4>2 DEF CallKnows
      <4>4. QED
        BY <1>1, <3>1, <4>1, <4>3, ScanMoves
    <3>3. QED
      BY <1>4, <2>3, <3>1, <3>2 DEF QueryHeaps
  <2>4. CASE ScanHeap(t)
    <3>1. /\ UNCHANGED <<heaps, heap_id_mask>> /\ t \in Scanning
          /\ call[t].next \in Heaps /\ call[t].pc = "scan"
      BY <1>1, <2>4 DEF ScanHeap, At, Scanning, ScannedHeaps, kernelVersion
    <3>2. heaps # <<>> /\ \A i \in DmaHeaps : KnowsHeap(call[t], i)
      BY <2>1, <3>1 DEF CallKnows
    <3>3. ASSUME NEW m \in {call[t].mask, heap_id_mask},
                 call' = [call EXCEPT ![t].mask = m, ![t].pc = "store"]
          PROVE  Kept
      <4> DEFINE r == [call[t] EXCEPT !.mask = m, !.pc = "store"]
      <4>1. /\ call' = [call EXCEPT ![t] = r]
            /\ r.mask = m /\ r.next = call[t].next /\ r.pc = "store"
        BY <1>1, <2>1, <3>3 DEF CallRecords
      <4> HIDE DEF r
      <4>2. \A i \in DmaHeaps : KnowsHeap(r, i)
        BY <3>2, <4>1 DEF ScansKnow, KnowsHeap
      <4>3. CallKnows(r)
        BY <2>1, <3>2, <4>1, <4>2 DEF CallKnows
      <4>4. QED
        BY <1>1, <3>1, <4>1, <4>3, ScanMoves
    <3>4. ASSUME heaps[call[t].next] # "DMA", call' = [call EXCEPT ![t].next = @ + 1]
          PROVE  Kept
      <4> DEFINE r == [call[t] EXCEPT !.next = call[t].next + 1]
      <4>1. /\ call' = [call EXCEPT ![t] = r]
            /\ r.mask = call[t].mask /\ r.next = call[t].next + 1 /\ r.pc = "scan"
        BY <1>1, <2>1, <3>1, <3>4 DEF CallRecords
      <4> HIDE DEF r
      <4>2. \A j \in DmaHeaps : j # call[t].next
        BY <3>4 DEF DmaHeaps
      <4>3. ASSUME NEW i \in DmaHeaps PROVE KnowsHeap(r, i)
        <5>1. i < r.next => i < call[t].next
          BY <1>1, <4>1, <4>2
        <5>2. QED
          BY <3>2, <4>1, <5>1 DEF KnowsHeap
      <4>4. CallKnows(r)
        BY <1>1, <3>2, <4>1, <4>3 DEF CallKnows
      <4>5. \A j \in DmaHeaps : call[t].next <= j => r.next <= j
        BY <1>1, <4>1, <4>2
      <4>6. QED
        BY <1>1, <3>1, <4>1, <4>4, <4>5, ScanMoves
    <3>5. QED
      BY <2>4, <3>3, <3>4 DEF ScanHeap
  <2>5. CASE StoreMask(t)
    BY <2>5, StoreKeepsScans
  <2>6. CASE ReturnMask(t)
    <3>1. /\ UNCHANGED <<heaps, heap_id_mask>>
          /\ t \in Scanning => call[t].next \notin Heaps
      BY <1>1, <2>6 DEF ReturnMask, At, Scanning, ScannedHeaps, kernelVersion
    <3>2. ASSUME NEW m, call' = [call EXCEPT ![t].mask = m, ![t].pc = "alloc"]
          PROVE  Kept
      <4> DEFINE r == [call[t] EXCEPT !.mask = m, !.pc = "alloc"]
      <4>1. call' = [call EXCEPT ![t] = r] /\ r.pc = "alloc" /\ r.next = call[t].next
        BY <1>1, <2>1, <3>2 DEF CallRecords
      <4> HIDE DEF r
      <4>2. CallKnows(r)
        BY <2>1, <4>1 DEF CallKnows
      <4>3. QED
        BY <1>3, <3>1, <4>1, <4>2
    <3>3. QED
      BY <1>4, <2>6, <3>1, <3>2 DEF ReturnMask
  <2>7. CASE AllocIoctl(t) \/ ExportHandle(t) \/ FreeHandle(t) \/ GetPhysicalAddress(t)
    <3>1. UNCHANGED <<heaps, heap_id_mask>> /\ t \notin Scanning
      BY <2>7 DEF AllocIoctl, ExportHandle, FreeHandle, GetPhysicalAddress, At, Scanning,
         kernelVersion
    <3>2. ASSUME NEW outcome, End(t, outcome) PROVE Kept
      BY <1>4, <3>1, <3>2
    <3>3. ASSUME NEW r, call' = [call EXCEPT ![t] = r], r.next = call[t].next,
                 r.pc \in {"export", "free", "phys"}
          PROVE  Kept
      <4>1. CallKnows(r) /\ r.pc \notin {"scan", "store"}
        BY <2>1, <3>3 DEF CallKnows
      <4>2. QED
        BY <1>3, <3>1, <3>3, <4>1
    <3>4. ASSUME NEW pc \in {"export", "free", "phys"}, Goto(t, pc) PROVE Kept
      <4> DEFINE r == [call[t] EXCEPT !.pc = pc]
      <4>1. call' = [call EXCEPT ![t] = r] /\ r.pc = pc /\ r.next = call[t].next
        BY <1>1, <2>1, <3>4 DEF Goto, CallRecords
      <4> HIDE DEF r
      <4>2. QED
        BY <3>3, <4>1
    <3>5. CASE AllocIoctl(t)
      <4>1. ASSUME NEW heap, call' = [call EXCEPT ![t].heap = heap, ![t].pc = "export"]
            PROVE  Kept
        <5> DEFINE r == [call[t] EXCEPT !.heap = heap, !.pc = "export"]
        <5>1. call' = [call EXCEPT ![t] = r] /\ r.pc = "export" /\ r.next = call[t].next
          BY <1>1, <2>1, <4>1 DEF CallRecords
        <5> HIDE DEF r
        <5>2. QED
          BY <3>3, <5>1
      <4>2. ASSUME NEW heap, NEW fd,
                   call' = [call EXCEPT ![t].heap = heap, ![t].fd = fd, ![t].pc = "phys"]
            PROVE  Kept
        <5> DEFINE r == [call[t] EXCEPT !.heap = heap, !.fd = fd, !.pc = "phys"]
        <5>1. call' = [call EXCEPT ![t] = r] /\ r.pc = "phys" /\ r.next = call[t].next
          BY <1>1, <2>1, <4>2 DEF CallRecords
        <5> HIDE DEF r
        <5>2. QED
          BY <3>3, <5>1
      <4>3. QED
        BY <3>2, <3>5, <4>1, <4>2 DEF AllocIoctl
    <3>6. CASE ExportHandle(t)
      <4>1. ASSUME NEW fd, call' = [call EXCEPT ![t].fd = fd, ![t].pc = "free"]
            PROVE  Kept
        <5> DEFINE r == [call[t] EXCEPT !.fd = fd, !.pc = "free"]
        <5>1. call' = [call EXCEPT ![t] = r] /\ r.pc = "free" /\ r.next = call[t].next
          BY <1>1, <2>1, <4>1 DEF CallRecords
        <5> HIDE DEF r
        <5>2. QED
          BY <3>3, <5>1
      <4>2. ASSUME NEW outcome, NoExport(t, outcome) PROVE Kept
        <5> DEFINE r == [call[t] EXCEPT !.outcome = outcome, !.pc = "free"]
        <5>1. call' = [call EXCEPT ![t] = r] /\ r.pc = "free" /\ r.next = call[t].next
          BY <1>1, <2>1, <4>2 DEF NoExport, CallRecords
        <5> HIDE DEF r
        <5>2. QED
          BY <3>3, <5>1
      <4>3. QED
        BY <3>6, <4>1, <4>2 DEF ExportHandle
    <3>7. CASE FreeHandle(t)
      BY <3>2, <3>4, <3>7 DEF FreeHandle
    <3>8. CASE GetPhysicalAddress(t)
      BY <3>2, <3>8 DEF GetPhysicalAddress, NoPhysicalAddress
    <3>9. QED
      BY <2>7, <3>5, <3>6, <3>7, <3>8
  <2>8. QED
    BY <1>6, <2>2, <2>3, <2>4, <2>5, <2>6, <2>7 DEF ThreadStep
<1>7. CASE AllocatorStep
  BY <1>2, <1>7 DEF AllocatorStep, AllocatorNew, AllocatorDestroy, AllocatorNewFromFd,
     ClientOpenIon, ClientCloseIon, kernelVersion
<1>8. CASE BufferStep
  BY <1>2, <1>8 DEF BufferStep, Map, Unmap, Deallocate, others, kernelVersion
<1>9. CASE UNCHANGED vars
  BY <1>2, <1>9 DEF vars
<1>10. QED
  BY <1>5, <1>6, <1>7, <1>8, <1>9 DEF Next

\* Whenever no thread is detecting the heaps, the mask is empty or complete,
\* however many threads have detected them at once, where no kernel reports
\* more than two DMA heaps, and for any heaps where one thread allocates.
\* Two threads and three heaps are enough to lose one.
THEOREM IonMaskIsComplete ==
  ASSUME AtMostTwoDmaHeaps \/ OneThread
  PROVE  Spec => []MaskIsComplete
<1>1. Init => IonInv /\ ScansKnow /\ NoneLost
  BY IonInvInit, IonConstants, ScansKnowInit
<1>2. IonInv /\ ScansKnow /\ NoneLost /\ [Next]_vars => (IonInv /\ ScansKnow /\ NoneLost)'
  <2>1. IonInv /\ [Next]_vars => IonInv'
    BY IonInvStep, IonConstants
  <2>2. ASSUME IonInv, ScansKnow, NoneLost, [Next]_vars PROVE ScansKnow' /\ NoneLost'
    BY <2>2, ScansStep, IonConstants
  <2>3. QED
    BY <2>1, <2>2
<1>3. NoneLost => MaskIsComplete
  BY DEF NoneLost, MaskIsComplete
<1>4. QED
  BY <1>1, <1>2, <1>3, SafetyOfSpec, PTL

-----------------------------------------------------------------------------
(***************************************************************************)
(* The error pointer.                                                      *)
(***************************************************************************)
\* The heaps are not detected, or there is a DMA heap, and drivers report neither
\* address 0 nor a successful export without a descriptor.
FailuresHaveErrors ==
  /\ legacy \/ DmaHeaps # {}
  /\ Faults \cap {"phys_zero", "export_no_fd"} = {}

\* Also of a call that is still to free its handle before it fails.
NoneSilent == \A t \in Threads : call[t].outcome \notin {"stale", "silent"}

\* A call that has scanned the heaps then has a mask to return.
LEMMA MaskToReturn ==
  ASSUME IonConstants, IonInv, ScansKnow, FailuresHaveErrors, NEW t \in Threads,
         ReturnMask(t)
  PROVE  {} \notin {call[t].mask, heap_id_mask}
<1>1. CallKnows(call[t])
  BY DEF ScansKnow
<1>2. CASE At(t, "return")
  BY <1>1, <1>2 DEF At, CallKnows
<1>3. CASE At(t, "scan") /\ call[t].next \notin ScannedHeaps
  <2>1. /\ heaps \in HeapLists /\ heaps \in Seq(HeapTypes) /\ call[t].next \in Nat
    BY TypeParts DEF IonInv, IonConstants, CallRecords
  <2>2. call[t].pc = "scan" /\ heaps # <<>> /\ call[t].next # 0
    BY <1>1, <1>3 DEF At, CallKnows
  <2>3. PICK i : i \in DmaHeaps
    <3>1. ~legacy
      BY <2>2, CallFacts DEF HeapsOfCall, DetectLabels
    <3>2. QED
      BY <3>1 DEF FailuresHaveErrors
  <2>4. i < call[t].next
    BY <1>3, <2>1, <2>2, <2>3 DEF ScannedHeaps, Heaps, DmaHeaps
  <2>5. QED
    BY <1>1, <2>2, <2>3, <2>4 DEF CallKnows, KnowsHeap
<1>4. QED
  BY <1>2, <1>3 DEF ReturnMask

\* The kernel's heaps never change.
\* The kernel's heaps and version never change.
LEMMA HeapsKept == [Next]_vars => heaps' = heaps /\ legacy' = legacy
<1>1. SUFFICES ASSUME [Next]_vars PROVE heaps' = heaps /\ legacy' = legacy
  OBVIOUS
<1>2. CASE AllocatorStep
  BY <1>2 DEF AllocatorStep, AllocatorNew, AllocatorDestroy, AllocatorNewFromFd,
     ClientOpenIon, ClientCloseIon, kernelVersion
<1>3. CASE \E t \in Threads, a \in Allocators, b \in Buffers : AllocateCall(t, a, b)
  BY <1>3 DEF AllocateCall, kernelVersion
<1>4. CASE \E t \in Threads : ThreadStep(t)
  BY <1>4 DEF ThreadStep, CheckMask, QueryHeaps, ScanHeap, StoreMask, ReturnMask, AllocIoctl,
     ExportHandle, FreeHandle, GetPhysicalAddress, kernelVersion
<1>5. CASE BufferStep
  BY <1>5 DEF BufferStep, Map, Unmap, Deallocate, others, kernelVersion
<1>6. CASE UNCHANGED vars
  BY <1>6 DEF vars
<1>7. QED
  BY <1>1, <1>2, <1>3, <1>4, <1>5, <1>6 DEF Next

LEMMA ErrorsStep ==
  ASSUME IonConstants, IonInv, ScansKnow, FailuresHaveErrors, NoneSilent, [Next]_vars
  PROVE  NoneSilent'
<1>1. call \in [Threads -> CallRecords]
  BY TypeParts DEF IonInv
<1>2. CASE UNCHANGED call
  BY <1>2 DEF NoneSilent
<1>3. ASSUME NEW t \in Threads, NEW r, call' = [call EXCEPT ![t] = r],
             r.outcome \notin {"stale", "silent"}
      PROVE  NoneSilent'
  BY <1>1, <1>3 DEF NoneSilent
<1>4. ASSUME NEW t \in Threads, NEW outcome, outcome \notin {"stale", "silent"},
             End(t, outcome) \/ NoExport(t, outcome)
      PROVE  NoneSilent'
  <2>1. CASE End(t, outcome)
    <3> DEFINE r == [Idle EXCEPT !.outcome = outcome]
    <3>1. call' = [call EXCEPT ![t] = r] /\ r.outcome = outcome
      BY <2>1 DEF End, Idle
    <3> HIDE DEF r
    <3>2. QED
      BY <1>3, <1>4, <3>1
  <2>2. CASE NoExport(t, outcome)
    BY <1>1, <1>4, <2>2 DEF NoExport, CallRecords, NoneSilent
  <2>3. QED
    BY <1>4, <2>1, <2>2
<1>5. ASSUME NEW t \in Threads, KeepsCall(t) PROVE NoneSilent'
  BY <1>3, <1>5 DEF KeepsCall, NoneSilent
<1>6. ASSUME NEW t \in Threads, ThreadStep(t) PROVE NoneSilent'
  <2>1. CASE CheckMask(t) \/ ScanHeap(t) \/ StoreMask(t)
    BY <1>1, <1>5, <2>1, CallMoves
  <2>2. CASE QueryHeaps(t)
    <3>1. heaps # <<>>
      <4>1. call[t].pc \in DetectLabels
        BY <2>2 DEF QueryHeaps, At, DetectLabels
      <4>2. PICK i : i \in DmaHeaps
        BY <4>1, CallFacts DEF HeapsOfCall, FailuresHaveErrors
      <4>3. QED
        BY <4>2 DEF DmaHeaps, Heaps
    <3>2. KeepsCall(t) \/ End(t, "errno")
      BY <1>1, <2>2, <3>1, CallMoves
    <3>3. QED
      BY <1>4, <1>5, <3>2
  <2>3. CASE ReturnMask(t)
    <3>1. KeepsCall(t)
      BY <1>1, <2>3, CallMoves, MaskToReturn
    <3>2. QED
      BY <1>5, <3>1
  <2>4. CASE AllocIoctl(t)
    <3>1. KeepsCall(t) \/ End(t, "errno")
      BY <1>1, <2>4, CallMoves
    <3>2. QED
      BY <1>4, <1>5, <3>1
  <2>5. CASE ExportHandle(t)
    <3>1. KeepsCall(t) \/ NoExport(t, "errno")
      BY <1>1, <2>5, CallMoves DEF FailuresHaveErrors
    <3>2. QED
      BY <1>4, <1>5, <3>1
  <2>6. CASE FreeHandle(t)
    <3> DEFINE outcome == call[t].outcome
    <3>1. outcome \notin {"stale", "silent"}
      BY DEF NoneSilent
    <3>2. KeepsCall(t) \/ End(t, outcome)
      BY <1>1, <2>6, CallMoves
    <3> HIDE DEF outcome
    <3>3. QED
      BY <1>4, <1>5, <3>1, <3>2
  <2>7. CASE GetPhysicalAddress(t)
    <3>1. End(t, "ok") \/ End(t, "errno")
      BY <1>1, <2>7, CallMoves DEF FailuresHaveErrors
    <3>2. QED
      BY <1>4, <3>1
  <2>8. QED
    BY <1>6, <2>1, <2>2, <2>3, <2>4, <2>5, <2>6, <2>7 DEF ThreadStep
<1>7. ASSUME NEW t \in Threads, NEW a \in Allocators, NEW b \in Buffers, AllocateCall(t, a, b)
      PROVE  NoneSilent'
  BY <1>1, <1>7 DEF AllocateCall, Idle, NoneSilent
<1>8. CASE AllocatorStep
  BY <1>2, <1>8 DEF AllocatorStep, AllocatorNew, AllocatorDestroy, AllocatorNewFromFd,
     ClientOpenIon, ClientCloseIon
<1>9. CASE BufferStep
  BY <1>2, <1>9 DEF BufferStep, Map, Unmap, Deallocate, others
<1>10. CASE UNCHANGED vars
  BY <1>2, <1>10 DEF vars
<1>11. QED
  BY <1>6, <1>7, <1>8, <1>9, <1>10 DEF Next

\* Where the heaps are not detected, or the kernel has a DMA heap, and drivers
\* report neither address 0 nor an export without a descriptor, every failing
\* allocation stores the error code of the call that failed, also for a thread
\* that took its mask over from another in the middle of a scan, and also when
\* a handle is freed in between. Otherwise there are failures that leave *error
\* as it was, or store an errno that belongs to no failure.
THEOREM IonErrorsReported == Spec => []DetectionReportsErrors
<1> DEFINE Reported == FailuresHaveErrors => NoneSilent
<1>1. Init => IonInv /\ ScansKnow /\ Reported
  <2>1. Init => NoneSilent
    BY DEF Init, Idle, NoneSilent
  <2>2. QED
    BY <2>1, IonInvInit, IonConstants, ScansKnowInit
<1>2. IonInv /\ ScansKnow /\ Reported /\ [Next]_vars => (IonInv /\ ScansKnow /\ Reported)'
  <2>1. IonInv /\ [Next]_vars => IonInv'
    BY IonInvStep, IonConstants
  <2>2. ASSUME IonInv, ScansKnow, Reported, [Next]_vars PROVE ScansKnow' /\ Reported'
    <3>1. ScansKnow'
      BY <2>2, ScansStep, IonConstants
    <3>2. FailuresHaveErrors' => FailuresHaveErrors
      BY <2>2, HeapsKept DEF FailuresHaveErrors, DmaHeaps, Heaps
    <3>3. FailuresHaveErrors => NoneSilent'
      BY <2>2, ErrorsStep, IonConstants
    <3>4. QED
      BY <3>1, <3>2, <3>3
  <2>3. QED
    BY <2>1, <2>2
<1>3. Reported => DetectionReportsErrors
  BY DEF FailuresHaveErrors, NoneSilent, DetectionReportsErrors, ErrorCodeReported
<1>4. QED
  BY <1>1, <1>2, <1>3, SafetyOfSpec, PTL

=============================================================================
