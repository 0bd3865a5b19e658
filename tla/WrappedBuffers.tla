--------------------------- MODULE WrappedBuffers ---------------------------
(***************************************************************************)
(* Wrapped buffers (imxdmabuffer.c): ImxWrappedDmaBuffer structures through *)
(* which other code uses an existing buffer. Behind them is a static       *)
(* allocator that owns nothing and has no sync sessions; it calls the map  *)
(* and unmap functions that the structure holds. Here the existing buffers *)
(* are those of a dma-heap allocator, which the client goes on using       *)
(* directly, and the functions are either NULL or map that buffer.         *)
(***************************************************************************)
EXTENDS DmaHeapAllocator

CONSTANT Wrappers   \* ImxWrappedDmaBuffer structures

VARIABLE wrapper    \* [Wrappers -> wrapper structure]

wrappedVars == <<vars, wrapper>>

\* The structure: whether map and unmap are set, and the values the client
\* fills in. The memory of a buffer is known by the buffer's name.
NoWrapper == [in_use |-> FALSE, map |-> FALSE, fd |-> 0, physical_address |-> Null]

InUse     == {w \in Wrappers : wrapper[w].in_use}
Wrapped(w) == wrapper[w].physical_address

-----------------------------------------------------------------------------
(***************************************************************************)
(* What the client copies into a wrapper.                                  *)
(***************************************************************************)
GetFd(b)              == buffer[b].dmabuf_fd
GetPhysicalAddress(b) == b

-----------------------------------------------------------------------------
(***************************************************************************)
(* Calls on a wrapper.                                                     *)
(***************************************************************************)

\* imx_dma_buffer_init_wrapped_buffer() clears the structure, and the client
\* fills it in; functions it does not set stay NULL.
InitWrappedBuffer(w, b, map) ==
  /\ w \notin InUse /\ b \in Usable
  /\ wrapper' = [wrapper EXCEPT ![w] =
       [NoWrapper EXCEPT !.in_use = TRUE, !.map = map, !.fd = GetFd(b),
                         !.physical_address = GetPhysicalAddress(b)]]
  /\ UNCHANGED vars

\* Mutant: takes ownership of the descriptor.
WrappedDeallocateCloses(w) ==
  /\ w \in InUse
  /\ wrapper' = [wrapper EXCEPT ![w] = NoWrapper]
  /\ fdTable' = Close(wrapper[w].fd)
  /\ UNCHANGED <<allocator, buffer, vm, memory, client>>

\* Nothing is released; afterwards the client drops the structure.
WrappedDeallocate(w) ==
  /\ w \in InUse
  /\ wrapper' = [wrapper EXCEPT ![w] = NoWrapper]
  /\ UNCHANGED vars

\* Without a map function the call returns NULL, and *error stays as it is.
WrappedMap(w, h, f) ==
  /\ w \in InUse
  /\ IF wrapper[w].map THEN Map(Wrapped(w), h, f) ELSE UNCHANGED vars
  /\ UNCHANGED wrapper

WrappedUnmap(w, h) ==
  /\ w \in InUse
  /\ IF wrapper[w].map THEN Unmap(Wrapped(w), h) \/ UnmapIdle(Wrapped(w))
     ELSE UNCHANGED vars
  /\ UNCHANGED wrapper

\* The client opens or closes a session of a mapping it uses through the
\* wrapper; the library ignores both calls.
WrappedStartSyncSession(w) ==
  /\ wrapper[w].map /\ Wrapped(w) \in Usable /\ Holders(Wrapped(w)) # {}
  /\ client' = [client EXCEPT ![Wrapped(w)].session = TRUE]
  /\ UNCHANGED <<allocator, buffer, fdTable, vm, memory, wrapper>>

WrappedStopSyncSession(w) ==
  /\ wrapper[w].map /\ Wrapped(w) \in Usable /\ Holders(Wrapped(w)) # {}
  /\ client' = [client EXCEPT ![Wrapped(w)].session = @ /\ ~client[Wrapped(w)].manual]
  /\ UNCHANGED <<allocator, buffer, fdTable, vm, memory, wrapper>>

-----------------------------------------------------------------------------
WrappedInit == Init /\ wrapper = [w \in Wrappers |-> NoWrapper]

WrapperStep(w) ==
  \/ \E b \in Buffers, map \in BOOLEAN : InitWrappedBuffer(w, b, map)
  \/ WrappedDeallocate(w)
  \/ \E h \in Handles, f \in FlagChoices : WrappedMap(w, h, f)
  \/ \E h \in Handles : WrappedUnmap(w, h)
  \/ WrappedStartSyncSession(w)
  \/ WrappedStopSyncSession(w)

\* A call on a buffer itself, or a step of its environment. The buffer may be
\* deallocated under a wrapper, which goes on holding its descriptor.
DirectStep == Next /\ UNCHANGED wrapper

WrappedNext == DirectStep \/ \E w \in Wrappers : WrapperStep(w)

WrappedSpec == WrappedInit /\ [][WrappedNext]_wrappedVars

=============================================================================
