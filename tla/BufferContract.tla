--------------------------- MODULE BufferContract ---------------------------
(***************************************************************************)
(* What imxdmabuffer.h promises the users of a DMA buffer, whatever        *)
(* allocator is behind it. A buffer has one content. The CPU changes it in *)
(* a sync session on a writable mapping, the device outside of one, and no *)
(* call of the library ever changes it: neither side sees stale data.      *)
(* Every mapping has rights, and destroying an allocator deallocates the   *)
(* buffers it made.                                                        *)
(***************************************************************************)
EXTENDS Integers

CONSTANTS Allocators, Buffers, Values, NoAllocator

ReadWrite == {"READ", "WRITE"}

VARIABLES
  alive,    \* allocators that were created and not destroyed
  owner,    \* which allocator made a buffer, NoAllocator for no buffer
  maps,     \* outstanding map calls, per buffer
  access,   \* rights given by the first map call
  manual,   \* whether that call asked for manual sync sessions
  session,  \* whether a sync session is open
  content   \* what reading the buffer yields to whoever may access it

contractVars == <<alive, owner, maps, access, manual, session, content>>
mapping      == <<maps, access, manual, session>>

live == {b \in Buffers : owner[b] # NoAllocator}

Init ==
  /\ alive = {}
  /\ owner = [b \in Buffers |-> NoAllocator]
  /\ maps = [b \in Buffers |-> 0]
  /\ access = [b \in Buffers |-> {}]
  /\ manual = [b \in Buffers |-> FALSE]
  /\ session = [b \in Buffers |-> FALSE]
  /\ content \in [Buffers -> Values]

NewAllocator(a) ==
  /\ a \notin alive
  /\ alive' = alive \cup {a}
  /\ UNCHANGED <<owner, mapping, content>>

SetMapping(b, n, rights, man, ses) ==
  /\ maps' = [maps EXCEPT ![b] = n]
  /\ access' = [access EXCEPT ![b] = rights]
  /\ manual' = [manual EXCEPT ![b] = man]
  /\ session' = [session EXCEPT ![b] = ses]
  /\ UNCHANGED <<alive, content>>

\* New memory has any content.
Allocate(b, a) ==
  /\ b \notin live /\ a \in alive
  /\ owner' = [owner EXCEPT ![b] = a]
  /\ \E v \in Values : content' = [content EXCEPT ![b] = v]
  /\ UNCHANGED <<alive, mapping>>

\* Mapped or not, the last content reaches the memory.
Deallocate(b) ==
  /\ b \in live
  /\ owner' = [owner EXCEPT ![b] = NoAllocator]
  /\ SetMapping(b, 0, {}, FALSE, FALSE)

\* The buffers of the allocator go with it, mapped or not.
Destroy(a) ==
  LET Kept(b) == owner[b] # a
  IN  /\ a \in alive
      /\ alive' = alive \ {a}
      /\ owner' = [b \in Buffers |-> IF Kept(b) THEN owner[b] ELSE NoAllocator]
      /\ maps' = [b \in Buffers |-> IF Kept(b) THEN maps[b] ELSE 0]
      /\ access' = [b \in Buffers |-> IF Kept(b) THEN access[b] ELSE {}]
      /\ manual' = [b \in Buffers |-> Kept(b) /\ manual[b]]
      /\ session' = [b \in Buffers |-> Kept(b) /\ session[b]]
      /\ UNCHANGED content

\* A map call without flags asks for all rights, so there is none without.
MapFirst(b, rights, man) ==
  /\ b \in live /\ maps[b] = 0 /\ rights # {}
  /\ SetMapping(b, 1, rights, man, ~man)
  /\ UNCHANGED owner

MapAgain(b) ==
  /\ b \in live /\ maps[b] > 0
  /\ maps' = [maps EXCEPT ![b] = @ + 1]
  /\ UNCHANGED <<alive, owner, access, manual, session, content>>

Unmap(b) ==
  /\ b \in live /\ maps[b] > 1
  /\ maps' = [maps EXCEPT ![b] = @ - 1]
  /\ UNCHANGED <<alive, owner, access, manual, session, content>>

UnmapLast(b) ==
  /\ b \in live /\ maps[b] = 1
  /\ manual[b] => ~session[b]
  /\ SetMapping(b, 0, {}, FALSE, FALSE)
  /\ UNCHANGED owner

\* Both calls do nothing to a mapping without manual sync sessions.
SyncSession(b, open) ==
  /\ b \in live /\ maps[b] > 0 /\ manual[b]
  /\ session' = [session EXCEPT ![b] = open]
  /\ UNCHANGED <<alive, owner, maps, access, manual, content>>

CpuWrite(b, v) ==
  /\ session[b] /\ "WRITE" \in access[b]
  /\ content' = [content EXCEPT ![b] = v]
  /\ UNCHANGED <<alive, owner, mapping>>

DeviceWrite(b, v) ==
  /\ b \in live /\ ~session[b]
  /\ content' = [content EXCEPT ![b] = v]
  /\ UNCHANGED <<alive, owner, mapping>>

BufferStep(b) ==
  \/ \E a \in Allocators : Allocate(b, a)
  \/ Deallocate(b)
  \/ \E rights \in SUBSET ReadWrite, man \in BOOLEAN : MapFirst(b, rights, man)
  \/ MapAgain(b) \/ Unmap(b) \/ UnmapLast(b)
  \/ \E open \in BOOLEAN : SyncSession(b, open)
  \/ \E v \in Values : CpuWrite(b, v) \/ DeviceWrite(b, v)

Next ==
  \/ \E a \in Allocators : NewAllocator(a) \/ Destroy(a)
  \/ \E b \in Buffers : BufferStep(b)

Spec == Init /\ [][Next]_contractVars

=============================================================================
