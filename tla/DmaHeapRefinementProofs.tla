----------------------- MODULE DmaHeapRefinementProofs -----------------------
(***************************************************************************)
(* The dma-heap allocator implements the contract of imxdmabuffer.h,       *)
(* unless maps both fail and ask for manual sessions, or an allocator is   *)
(* destroyed before its buffers: initial states map to initial states, and *)
(* each step to a step of the contract or to none.                         *)
(***************************************************************************)
EXTENDS DmaHeapCoherenceProofs

\* What makes a readable session see the memory, see CpuNotStale.
SessionsReliable == "mmap" \notin Faults \/ AutomaticOnly

Inv == OwnershipInv /\ CoherenceInv

ManualMapping(b) == Mapped(b) /\ "MANUAL_SYNC" \in buffer[b].map_flags

\* The values the contract sees of b after a step.
NewView(b, maps, access, manual, session, content) ==
  /\ buffer'[b].mapping_refcount = maps
  /\ MappedRights(b)' = access
  /\ ManualMapping(b)' <=> manual
  /\ client'[b].session <=> session
  /\ VisibleContent(b)' = content

SameView(b) ==
  NewView(b, buffer[b].mapping_refcount, MappedRights(b), ManualMapping(b),
          client[b].session, VisibleContent(b))

OthersSameView(b) == \A c \in Buffers \ {b} : SameView(c)

LEMMA Booleans ==
  ASSUME RefInv, RefInv', NEW b \in Buffers
  PROVE  client[b].session \in BOOLEAN /\ client'[b].session \in BOOLEAN
BY DEF RefInv, TypeOK, ClientRecords

-----------------------------------------------------------------------------
(***************************************************************************)
(* From views to the contract's actions.                                   *)
(***************************************************************************)
\* The values the refinement gives the contract's variables; `alive` is Alive.
owner   == [b \in Buffers |-> buffer[b].allocator]
maps    == [b \in Buffers |-> buffer[b].mapping_refcount]
access  == [b \in Buffers |-> MappedRights(b)]
manual  == [b \in Buffers |-> Mapped(b) /\ "MANUAL_SYNC" \in buffer[b].map_flags]
session == [b \in Buffers |-> client[b].session]
content == [b \in Buffers |-> VisibleContent(b)]

SameOwners == owner' = owner /\ Alive' = Alive

ContractStep == Contract!Next \/ UNCHANGED Contract!contractVars

LEMMA ContractLive == Contract!live = Live
  BY DEF Contract!live, Live

\* A step of one buffer is a step of the contract.
LEMMA OneBufferSteps ==
  ASSUME NEW b \in Buffers, Contract!BufferStep(b)
  PROVE  ContractStep
  BY DEF ContractStep, Contract!Next

LEMMA ViewFunctions ==
  ASSUME RefInv, RefInv', NEW b \in Buffers, OthersSameView(b),
         NEW n, NEW rights, NEW man \in BOOLEAN, NEW ses \in BOOLEAN, NEW v,
         NewView(b, n, rights, man, ses, v)
  PROVE  /\ maps' = [maps EXCEPT ![b] = n]
         /\ access' = [access EXCEPT ![b] = rights]
         /\ manual' = [manual EXCEPT ![b] = man]
         /\ session' = [session EXCEPT ![b] = ses]
         /\ content' = [content EXCEPT ![b] = v]
         /\ maps[b] = buffer[b].mapping_refcount
         /\ access[b] = MappedRights(b)
         /\ manual[b] <=> ManualMapping(b)
         /\ session[b] <=> client[b].session
         /\ content[b] = VisibleContent(b)
<1>1. maps' = [maps EXCEPT ![b] = n] /\ maps[b] = buffer[b].mapping_refcount
  BY DEF OthersSameView, SameView, NewView, maps
<1>2. access' = [access EXCEPT ![b] = rights] /\ access[b] = MappedRights(b)
  BY DEF OthersSameView, SameView, NewView, access
<1>3. manual' = [manual EXCEPT ![b] = man]
  BY DEF OthersSameView, SameView, NewView, ManualMapping, manual
<1>4. session' = [session EXCEPT ![b] = ses]
  BY Booleans DEF OthersSameView, SameView, NewView, session
<1>5. content' = [content EXCEPT ![b] = v] /\ content[b] = VisibleContent(b)
  BY DEF OthersSameView, SameView, NewView, content
<1>6. (manual[b] <=> ManualMapping(b)) /\ (session[b] <=> client[b].session)
  BY DEF manual, session, ManualMapping
<1>7. QED
  BY <1>1, <1>2, <1>3, <1>4, <1>5, <1>6

\* Functions that a step gives the value they have.
LEMMA ViewUnchanged ==
  ASSUME RefInv, NEW b \in Buffers
  PROVE  /\ [maps EXCEPT ![b] = buffer[b].mapping_refcount] = maps
         /\ [access EXCEPT ![b] = MappedRights(b)] = access
         /\ [manual EXCEPT ![b] = ManualMapping(b)] = manual
         /\ [session EXCEPT ![b] = client[b].session] = session
         /\ [content EXCEPT ![b] = VisibleContent(b)] = content
<1>1. [maps EXCEPT ![b] = buffer[b].mapping_refcount] = maps
  BY DEF maps
<1>2. [access EXCEPT ![b] = MappedRights(b)] = access
  BY DEF access
<1>3. [manual EXCEPT ![b] = ManualMapping(b)] = manual
  BY DEF manual, ManualMapping
<1>4. [session EXCEPT ![b] = client[b].session] = session
  BY DEF session
<1>5. [content EXCEPT ![b] = VisibleContent(b)] = content
  BY DEF content
<1>6. QED
  BY <1>1, <1>2, <1>3, <1>4, <1>5

LEMMA Stutter ==
  ASSUME RefInv, RefInv', SameOwners, \A b \in Buffers : SameView(b)
  PROVE  UNCHANGED Contract!contractVars
<1>1. maps' = maps /\ access' = access /\ content' = content
  BY DEF SameView, NewView, maps, access, content
<1>2. manual' = manual
  BY DEF SameView, NewView, ManualMapping, manual
<1>3. session' = session
  BY Booleans DEF SameView, NewView, session
<1>4. QED
  BY <1>1, <1>2, <1>3
  DEF Contract!contractVars, SameOwners, owner, maps, access, manual, session, content

LEMMA SetMappingStep ==
  ASSUME RefInv, RefInv', NEW b \in Buffers, OthersSameView(b), Alive' = Alive,
         NEW n, NEW rights, NEW man \in BOOLEAN, NEW ses \in BOOLEAN,
         NewView(b, n, rights, man, ses, VisibleContent(b))
  PROVE  Contract!SetMapping(b, n, rights, man, ses)
<1>1. /\ maps' = [maps EXCEPT ![b] = n]
      /\ access' = [access EXCEPT ![b] = rights]
      /\ manual' = [manual EXCEPT ![b] = man]
      /\ session' = [session EXCEPT ![b] = ses]
      /\ content' = content
  BY ViewFunctions, ViewUnchanged
<1>2. QED
  BY <1>1 DEF Contract!SetMapping, maps, access, manual, session, content

\* One more or one less map call on a mapped buffer.
LEMMA CountStep ==
  ASSUME RefInv, RefInv', NEW b \in Live, SameOwners, OthersSameView(b), NEW n,
         NewView(b, n, MappedRights(b), ManualMapping(b), client[b].session,
                 VisibleContent(b)),
         \/ buffer[b].mapping_refcount > 0 /\ n = buffer[b].mapping_refcount + 1
         \/ buffer[b].mapping_refcount > 1 /\ n = buffer[b].mapping_refcount - 1
  PROVE  Contract!MapAgain(b) \/ Contract!Unmap(b)
<1>0. b \in Buffers /\ ManualMapping(b) \in BOOLEAN /\ client[b].session \in BOOLEAN
  BY Booleans DEF Live, ManualMapping
<1>1. /\ maps' = [maps EXCEPT ![b] = n]
      /\ UNCHANGED <<access, manual, session, content>>
      /\ maps[b] = buffer[b].mapping_refcount
  <2>1. maps' = [maps EXCEPT ![b] = n] /\ maps[b] = buffer[b].mapping_refcount
    BY <1>0 DEF OthersSameView, SameView, NewView, maps
  <2>2. access' = access /\ content' = content
    BY <1>0 DEF OthersSameView, SameView, NewView, access, content
  <2>3. manual' = manual
    BY <1>0 DEF OthersSameView, SameView, NewView, ManualMapping, manual
  <2>4. session' = session
    BY <1>0, Booleans DEF OthersSameView, SameView, NewView, session
  <2>5. QED
    BY <2>1, <2>2, <2>3, <2>4
<1>2. CASE maps[b] > 0 /\ n = maps[b] + 1
  <2>1. maps' = [maps EXCEPT ![b] = maps[b] + 1]
    BY <1>1, <1>2
  <2>2. QED
    BY <1>1, <1>2, <2>1, ContractLive
    DEF Contract!MapAgain, SameOwners, owner, maps, access, manual, session, content
<1>3. CASE maps[b] > 1 /\ n = maps[b] - 1
  <2>1. maps' = [maps EXCEPT ![b] = maps[b] - 1]
    BY <1>1, <1>3
  <2>2. QED
    BY <1>1, <1>3, <2>1, ContractLive
    DEF Contract!Unmap, SameOwners, owner, maps, access, manual, session, content
<1>4. QED
  BY <1>1, <1>2, <1>3

\* The client opens or closes a manual session.
LEMMA SessionStep ==
  ASSUME RefInv, RefInv', NEW b \in Live, SameOwners, OthersSameView(b),
         NEW open \in BOOLEAN, Mapped(b), ManualMapping(b),
         NewView(b, buffer[b].mapping_refcount, MappedRights(b), TRUE,
                 open, VisibleContent(b))
  PROVE  Contract!SyncSession(b, open)
<1>0. b \in Buffers /\ ManualMapping(b) \in BOOLEAN /\ client[b].session \in BOOLEAN
  BY Booleans DEF Live, ManualMapping
<1>1. session' = [session EXCEPT ![b] = open]
  BY <1>0, Booleans DEF OthersSameView, SameView, NewView, session
<1>2. manual' = manual /\ manual[b]
  BY <1>0 DEF OthersSameView, SameView, NewView, ManualMapping, manual
<1>3. maps' = maps /\ access' = access /\ content' = content
  BY <1>0 DEF OthersSameView, SameView, NewView, maps, access, content
<1>4. maps[b] = buffer[b].mapping_refcount
  BY <1>0 DEF maps
<1>5. maps[b] > 0
  BY <1>0, <1>4, BufferFacts DEF RefInv, TypeOK, BufferRecords
<1>6. QED
  BY <1>1, <1>2, <1>3, <1>5, ContractLive
  DEF Contract!SyncSession, SameOwners, owner, maps, access, manual, session, content

\* The content changes and nothing else.
LEMMA ContentStep ==
  ASSUME RefInv, RefInv', NEW b \in Buffers, OthersSameView(b), NEW v,
         NewView(b, buffer[b].mapping_refcount, MappedRights(b), ManualMapping(b),
                 client[b].session, v)
  PROVE  /\ content' = [content EXCEPT ![b] = v]
         /\ UNCHANGED <<maps, access, manual, session>>
<1>0. ManualMapping(b) \in BOOLEAN /\ client[b].session \in BOOLEAN
  BY Booleans DEF ManualMapping
<1>1. QED
  BY <1>0, ViewFunctions, ViewUnchanged

-----------------------------------------------------------------------------
(***************************************************************************)
(* What the views of the code's state are.                                 *)
(***************************************************************************)
Rights(b) == IF Mapped(b) THEN buffer[b].map_flags \cap ReadWrite ELSE {}

LEMMA RightsAre ==
  ASSUME MappingInv, NEW b \in Buffers
  PROVE  MappedRights(b) = Rights(b)
<1>1. CASE Mapped(b)
  <2>1. vm[buffer[b].mapped_virtual_address]
          = [buffer |-> b, prot |-> buffer[b].map_flags \cap ReadWrite]
    BY <1>1 DEF MappingInv, MappingHeld
  <2>2. vm[buffer[b].mapped_virtual_address].prot = buffer[b].map_flags \cap ReadWrite
    BY <2>1
  <2>3. QED
    BY <1>1, <2>2 DEF MappedRights, Rights
<1>2. QED
  BY <1>1 DEF MappedRights, Rights

LEMMA RightsAreNext ==
  ASSUME MappingInv', NEW b \in Buffers
  PROVE  MappedRights(b)' = Rights(b)'
<1>1. CASE Mapped(b)'
  <2>1. vm'[buffer'[b].mapped_virtual_address]
          = [buffer |-> b, prot |-> buffer'[b].map_flags \cap ReadWrite]
    BY <1>1 DEF MappingInv, MappingHeld
  <2>2. vm'[buffer'[b].mapped_virtual_address].prot
          = buffer'[b].map_flags \cap ReadWrite
    BY <2>1
  <2>3. QED
    BY <1>1, <2>2 DEF MappedRights, Rights
<1>2. QED
  BY <1>1 DEF MappedRights, Rights

\* The content is what an ioctl would leave in the memory: a dirty cache is
\* read by the session that will write it back, and a clean one is fresh.
LEMMA ContentSettled ==
  ASSUME SessionsReliable, RefInv, CoherenceInv, NEW b \in Buffers,
         b \in Usable \/ ~Mapped(b)
  PROVE  VisibleContent(b) = PhysIoctl(memory[b]).mem
<1>1. memory[b] \in Memories /\ SessionsCoherent(b)
  BY DEF RefInv, TypeOK, CoherenceInv
<1>2. PhysIoctl(memory[b]).mem = IF memory[b].dirty THEN memory[b].cache ELSE memory[b].mem
  BY <1>1, PhysIoctlResult
<1>3. memory[b].dirty => client[b].session
  BY <1>1 DEF SessionsCoherent, DirtyInSession
<1>4. client[b].session /\ "READ" \in client[b].access /\ ~memory[b].dirty
        => memory[b].cache = memory[b].mem
  BY <1>1 DEF SessionsCoherent, SessionOpen, CacheFresh, SessionsReliable
<1>5. QED
  BY <1>2, <1>3, <1>4 DEF VisibleContent

LEMMA ContentSettledNext ==
  ASSUME SessionsReliable, RefInv', CoherenceInv', NEW b \in Buffers,
         (b \in Usable \/ ~Mapped(b))'
  PROVE  VisibleContent(b)' = PhysIoctl(memory'[b]).mem
<1>1. memory'[b] \in Memories /\ SessionsCoherent(b)'
  BY DEF RefInv, TypeOK, CoherenceInv, Memories
<1>2. PhysIoctl(memory'[b]).mem
        = IF memory'[b].dirty THEN memory'[b].cache ELSE memory'[b].mem
  BY <1>1, PhysIoctlResult
<1>3. memory'[b].dirty => client'[b].session
  BY <1>1 DEF SessionsCoherent, DirtyInSession
<1>4. client'[b].session /\ "READ" \in client'[b].access /\ ~memory'[b].dirty
        => memory'[b].cache = memory'[b].mem
  BY <1>1 DEF SessionsCoherent, SessionOpen, CacheFresh, SessionsReliable, AutomaticOnly
<1>5. QED
  BY <1>2, <1>3, <1>4 DEF VisibleContent

\* A call that does at most the ioctl changes no content.
LEMMA ContentKept ==
  ASSUME SessionsReliable, Inv, Inv', NEW b \in Buffers,
         b \in Usable \/ ~Mapped(b), (b \in Usable \/ ~Mapped(b))',
         memory'[b] = memory[b] \/ memory'[b] = PhysIoctl(memory[b])
  PROVE  VisibleContent(b)' = VisibleContent(b)
<1>1. /\ VisibleContent(b) = PhysIoctl(memory[b]).mem
      /\ VisibleContent(b)' = PhysIoctl(memory'[b]).mem
  BY ContentSettled, ContentSettledNext DEF Inv, OwnershipInv
<1>2. memory[b] \in Memories
  BY DEF Inv, OwnershipInv, RefInv, TypeOK
<1>3. PhysIoctl(PhysIoctl(memory[b])).mem = PhysIoctl(memory[b]).mem
  BY <1>2, PhysIoctlResult
<1>4. QED
  BY <1>1, <1>3

\* A buffer that a step leaves alone looks the same.
LEMMA SameViewFrame ==
  ASSUME Inv, Inv', NEW b \in Buffers,
         buffer'[b] = buffer[b], memory'[b] = memory[b], client'[b] = client[b]
  PROVE  SameView(b)
<1>1. Rights(b)' = Rights(b) /\ (ManualMapping(b)' <=> ManualMapping(b))
  BY DEF Rights, ManualMapping, Mapped
<1>2. MappedRights(b) = Rights(b) /\ MappedRights(b)' = Rights(b)'
  <2>1. MappedRights(b) = Rights(b)
    BY RightsAre DEF Inv, OwnershipInv
  <2>2. MappedRights(b)' = Rights(b)'
    BY RightsAreNext DEF Inv, OwnershipInv
  <2>3. QED
    BY <2>1, <2>2
<1>3. VisibleContent(b)' = VisibleContent(b)
  BY DEF VisibleContent
<1>4. QED
  BY <1>1, <1>2, <1>3 DEF SameView, NewView

LEMMA OthersLookTheSame ==
  ASSUME Inv, Inv', NEW b \in Buffers, OthersUnchanged(b)
  PROVE  OthersSameView(b)
BY SameViewFrame DEF OthersSameView, OthersUnchanged

\* b itself, after a step that sets these fields.
LEMMA NewViewIs ==
  ASSUME SessionsReliable, Inv, Inv', NEW b \in Buffers,
         b \in Usable \/ ~Mapped(b), (b \in Usable \/ ~Mapped(b))',
         memory'[b] = memory[b] \/ memory'[b] = PhysIoctl(memory[b])
  PROVE  NewView(b, buffer'[b].mapping_refcount, Rights(b)', ManualMapping(b)',
                 client'[b].session, VisibleContent(b))
<1>1. MappedRights(b)' = Rights(b)'
  BY RightsAreNext DEF Inv, OwnershipInv
<1>2. QED
  BY <1>1, ContentKept DEF NewView

-----------------------------------------------------------------------------
(***************************************************************************)
(* The steps.                                                              *)
(***************************************************************************)
LEMMA LiveKept ==
  ASSUME RefInv, NEW b \in Buffers, MappingStep(b)
  PROVE  SameOwners /\ ((b \in Usable)' <=> b \in Usable)
<1>1. (b \in Usable)' <=> b \in Usable
  BY OwnerFrame
<1>2. SameOwners
  BY MappingStepOwners DEF OwnersUnchanged, SameOwners, owner, Alive
<1>3. QED
  BY <1>1, <1>2

\* A step that leaves b as it looks, and the others alone.
LEMMA NothingSeen ==
  ASSUME RefInv, RefInv', NEW b \in Buffers, SameOwners, OthersSameView(b), SameView(b)
  PROVE  ContractStep
BY Stutter DEF OthersSameView, ContractStep

LEMMA RefineMapFirst ==
  ASSUME SessionsReliable, Inv, Inv', NEW b \in Buffers, NEW h \in Handles,
         NEW f \in FlagChoices, Map(b, h, f), MapFirst(b, h, f)
  PROVE  ContractStep
<1>0. RefInv /\ RefInv' /\ b \in Live /\ b \in Usable /\ ~Mapped(b)
  BY DEF Inv, OwnershipInv, Map, MapFirst, Usable
<1>1. PICK p \in Addrs \cup {Null}, s \in Contexts :
        /\ Store(b, s)
        /\ MapEffect(s, Context(b), b, MappingFlags(f), p)
        /\ MapSync(s, Context(b), MappingFlags(f), OwnerIsCached(b))
        /\ client' = IF p = Null THEN client
                     ELSE [client EXCEPT ![b] = FirstHolder(b, h, f, p)]
  BY <1>0, MapFirstEffect
<1>2. /\ buffer'[b] = s.buf /\ memory'[b] = s.mem
      /\ OthersUnchanged(b)
  BY <1>0, <1>1, StoreEffect DEF OthersUnchanged, RefInv, TypeOK
<1>3. Context(b).buf = buffer[b] /\ Context(b).mem = memory[b]
  BY DEF Context
<1>4. memory'[b] = memory[b] \/ memory'[b] = PhysIoctl(memory[b])
  BY <1>1, <1>2, <1>3 DEF MapSync
<1>5. SameOwners /\ (b \in Usable)'
  BY <1>0, LiveKept DEF MappingStep
<1>6. NewView(b, buffer'[b].mapping_refcount, Rights(b)', ManualMapping(b)',
              client'[b].session, VisibleContent(b))
  BY <1>0, <1>4, <1>5, NewViewIs
<1>7. OthersSameView(b)
  BY <1>2, OthersLookTheSame
<1>8. CASE p = Null
  <2>1. /\ buffer'[b].mapping_refcount = buffer[b].mapping_refcount
        /\ ~Mapped(b)'
        /\ client'[b] = client[b]
    BY <1>0, <1>1, <1>2, <1>3, <1>8 DEF MapEffect, Mapped
  <2>2. Rights(b)' = Rights(b) /\ ~ManualMapping(b)' /\ ~ManualMapping(b)
    BY <1>0, <2>1 DEF Rights, ManualMapping
  <2>3. MappedRights(b) = Rights(b)
    BY RightsAre DEF Inv, OwnershipInv
  <2>4. SameView(b)
    BY <1>6, <2>1, <2>2, <2>3 DEF SameView, NewView
  <2>5. QED
    BY <1>0, <1>5, <1>7, <2>4, NothingSeen
<1>9. CASE p # Null
  <2> DEFINE rights == MappingFlags(f) \cap ReadWrite
             man == "MANUAL_SYNC" \in f
  <2>1. client'[b] = FirstHolder(b, h, f, p)
    BY <1>0, <1>1, <1>9 DEF RefInv, TypeOK
  <2>2. client'[b].session = ("MANUAL_SYNC" \notin f)
    BY <2>1 DEF FirstHolder
  <2>3. /\ buffer'[b].mapping_refcount = 1
        /\ buffer'[b].map_flags = MappingFlags(f)
        /\ Mapped(b)'
    BY <1>1, <1>2, <1>9 DEF MapEffect, Mapped
  <2>4. Rights(b)' = rights /\ (ManualMapping(b)' <=> man)
    BY <2>3, FlagsType DEF Rights, ManualMapping
  <2>5. NewView(b, 1, rights, man, ~man, VisibleContent(b))
    BY <1>6, <2>2, <2>3, <2>4 DEF NewView
  <2>6. /\ rights \in SUBSET ReadWrite /\ rights # {}
        /\ man \in BOOLEAN /\ (~man) \in BOOLEAN
    BY DEF MappingFlags, ReadWrite
  <2> HIDE DEF rights, man
  <2>7. Contract!SetMapping(b, 1, rights, man, ~man)
    BY <1>0, <1>5, <1>7, <2>5, <2>6, SetMappingStep DEF SameOwners
  <2>8. buffer[b].mapping_refcount = 0
    BY <1>0, BufferFacts
  <2>9. Contract!MapFirst(b, rights, man)
    BY <1>0, <1>5, <2>6, <2>7, <2>8, ContractLive
    DEF Contract!MapFirst, SameOwners, owner
  <2>10. QED
    BY <2>6, <2>9, OneBufferSteps DEF Contract!BufferStep, Contract!ReadWrite, ReadWrite
<1>10. QED
  BY <1>8, <1>9

LEMMA RefineMapAgain ==
  ASSUME SessionsReliable, Inv, Inv', NEW b \in Buffers, NEW h \in Handles,
         NEW f \in FlagChoices, Map(b, h, f), MapAgain(b, h, f)
  PROVE  ContractStep
<1>0. RefInv /\ RefInv' /\ buffer[b] \in BufferRecords /\ client[b] \in ClientRecords
  BY DEF Inv, OwnershipInv, RefInv, TypeOK
<1>1. /\ Mapped(b) /\ b \in Usable
      /\ OthersUnchanged(b)
      /\ UNCHANGED memory
  BY <1>0, MapAgainEffect DEF OthersUnchanged
<1>2. /\ buffer'[b].mapping_refcount = buffer[b].mapping_refcount + 1
      /\ buffer'[b].mapped_virtual_address = buffer[b].mapped_virtual_address
      /\ buffer'[b].map_flags = buffer[b].map_flags
  BY <1>0, MapAgainEffect DEF BufferRecords
<1>3. client'[b].session = client[b].session
  <2>1. client'[b] = [client[b] EXCEPT
          !.held = [client[b].held EXCEPT ![h] = buffer[b].mapped_virtual_address]]
    BY <1>0, MapAgainEffect
  <2>2. QED
    BY <1>0, <2>1 DEF ClientRecords
<1>4. SameOwners /\ (b \in Usable)' /\ b \in Live
  BY <1>0, <1>1, LiveKept DEF MappingStep, Usable
<1>5. NewView(b, buffer'[b].mapping_refcount, Rights(b)', ManualMapping(b)',
              client'[b].session, VisibleContent(b))
  BY <1>1, <1>4, NewViewIs
<1>6. Rights(b)' = Rights(b) /\ (ManualMapping(b)' <=> ManualMapping(b))
  BY <1>2 DEF Rights, ManualMapping, Mapped
<1>7. MappedRights(b) = Rights(b)
  BY RightsAre DEF Inv, OwnershipInv
<1>8. NewView(b, buffer[b].mapping_refcount + 1, MappedRights(b), ManualMapping(b),
              client[b].session, VisibleContent(b))
  BY <1>2, <1>3, <1>5, <1>6, <1>7 DEF NewView
<1>9. buffer[b].mapping_refcount > 0
  BY <1>0, <1>1, BufferFacts DEF BufferRecords
<1>10. OthersSameView(b)
  BY <1>1, OthersLookTheSame
<1>11. Contract!MapAgain(b) \/ Contract!Unmap(b)
  BY <1>0, <1>4, <1>8, <1>9, <1>10, CountStep
<1>12. QED
  BY <1>11, OneBufferSteps DEF Contract!BufferStep

\* The last unmap ends the mapping for the contract too.
LEMMA RefineUnmap ==
  ASSUME SessionsReliable, Inv, Inv', NEW b \in Buffers, NEW h \in Handles,
         Unmap(b, h)
  PROVE  ContractStep
<1>0. /\ RefInv /\ RefInv' /\ MappingInv
      /\ buffer[b] \in BufferRecords /\ client[b] \in ClientRecords
  BY DEF Inv, OwnershipInv, RefInv, TypeOK
<1>1. PICK s \in Contexts :
        /\ Store(b, s)
        /\ UnmapEffect(s, Context(b))
        /\ UnmapSync(s, Context(b), OwnerIsCached(b))
  BY <1>0, UnmapStepEffect
<1>2. /\ buffer'[b] = s.buf /\ memory'[b] = s.mem
      /\ OthersUnchanged(b)
      /\ b \in Usable /\ h \in Holders(b)
  BY <1>0, <1>1, StoreEffect, UnmapClient DEF OthersUnchanged
<1>3. Context(b).buf = buffer[b] /\ Context(b).mem = memory[b]
  BY DEF Context
<1>4. memory'[b] = memory[b] \/ memory'[b] = PhysIoctl(memory[b])
  BY <1>1, <1>2, <1>3 DEF UnmapSync
<1>5. SameOwners /\ (b \in Usable)' /\ b \in Live
  BY <1>0, <1>2, LiveKept DEF MappingStep, Usable
<1>6. NewView(b, buffer'[b].mapping_refcount, Rights(b)', ManualMapping(b)',
              client'[b].session, VisibleContent(b))
  BY <1>2, <1>4, <1>5, NewViewIs
<1>7. OthersSameView(b)
  BY <1>2, OthersLookTheSame
<1>8. buffer'[b].mapping_refcount = buffer[b].mapping_refcount - 1
  BY <1>1, <1>2, <1>3 DEF UnmapEffect
<1>9. Mapped(b) /\ buffer[b].mapping_refcount \in Nat \ {0}
  BY <1>0, <1>2, BufferFacts DEF BufferRecords
<1>10. CASE buffer[b].mapping_refcount # 1
  <2>1. /\ buffer'[b].mapped_virtual_address = buffer[b].mapped_virtual_address
        /\ buffer'[b].map_flags = buffer[b].map_flags
    BY <1>1, <1>2, <1>3, <1>10 DEF UnmapEffect
  <2>2. client'[b].session = client[b].session
    <3>1. client'[b] = [client[b] EXCEPT !.held = [client[b].held EXCEPT ![h] = Null]]
      BY <1>0, <1>10, UnmapClient
    <3>2. QED
      BY <1>0, <3>1 DEF ClientRecords
  <2>3. Rights(b)' = Rights(b) /\ (ManualMapping(b)' <=> ManualMapping(b))
    BY <2>1 DEF Rights, ManualMapping, Mapped
  <2>4. MappedRights(b) = Rights(b)
    BY <1>0, RightsAre
  <2>5. NewView(b, buffer[b].mapping_refcount - 1, MappedRights(b), ManualMapping(b),
                client[b].session, VisibleContent(b))
    BY <1>6, <1>8, <2>2, <2>3, <2>4 DEF NewView
  <2>6. buffer[b].mapping_refcount > 1
    BY <1>9, <1>10
  <2>7. Contract!MapAgain(b) \/ Contract!Unmap(b)
    BY <1>0, <1>5, <1>7, <2>5, <2>6, CountStep
  <2>8. QED
    BY <2>7, OneBufferSteps DEF Contract!BufferStep
<1>11. CASE buffer[b].mapping_refcount = 1
  <2>1. buffer'[b].mapping_refcount = 0 /\ ~Mapped(b)'
    BY <1>1, <1>2, <1>3, <1>8, <1>11 DEF UnmapEffect, Mapped
  <2>2. client'[b] = NoClient /\ ~(client[b].manual /\ client[b].session)
    BY <1>0, <1>11, UnmapClient DEF Unmap
  <2>3. Rights(b)' = {} /\ ~ManualMapping(b)' /\ client'[b].session = FALSE
    BY <2>1, <2>2 DEF Rights, ManualMapping, NoClient
  <2>4. NewView(b, 0, {}, FALSE, FALSE, VisibleContent(b))
    BY <1>6, <2>1, <2>3 DEF NewView
  <2>5. Contract!SetMapping(b, 0, {}, FALSE, FALSE)
    BY <1>0, <1>5, <1>7, <2>4, SetMappingStep DEF SameOwners
  <2>6. Mapped(b) /\ "MANUAL_SYNC" \in buffer[b].map_flags => ~client[b].session
    BY <1>0, <2>2 DEF MappingInv, MappingHeld
  <2>7. Contract!UnmapLast(b)
    BY <1>5, <1>11, <2>5, <2>6, ContractLive DEF Contract!UnmapLast, SameOwners, owner
  <2>8. QED
    BY <2>7, OneBufferSteps DEF Contract!BufferStep
<1>12. QED
  BY <1>10, <1>11

LEMMA RefineUnmapIdle ==
  ASSUME SessionsReliable, Inv, Inv', NEW b \in Buffers, UnmapIdle(b)
  PROVE  ContractStep
<1>0. RefInv /\ RefInv'
  BY DEF Inv, OwnershipInv
<1>1. UnmapCall(Context(b), OwnerIsCached(b)) = Context(b)
  BY <1>0, BufferFacts DEF UnmapIdle, UnmapCall, Context, Mapped
<1>2. Store(b, Context(b)) /\ UNCHANGED <<allocator, client>> /\ Context(b) \in Contexts
  BY <1>0, <1>1, BufferFacts DEF UnmapIdle
<1>3. buffer'[b] = buffer[b] /\ memory'[b] = memory[b] /\ OthersUnchanged(b)
  BY <1>0, <1>2, StoreEffect DEF OthersUnchanged, Context
<1>4. SameOwners
  BY <1>0, LiveKept DEF MappingStep
<1>5. SameView(b)
  BY <1>2, <1>3, SameViewFrame
<1>6. QED
  BY <1>0, <1>3, <1>4, <1>5, OthersLookTheSame, NothingSeen

\* A session call: it concerns the contract if the mapping is a manual one.
LEMMA RefineSessionCall ==
  ASSUME SessionsReliable, Inv, Inv', NEW b \in Buffers,
         Holders(b) # {}, b \in Usable, NEW s \in Contexts, NEW ioctl, NEW started,
         Store(b, s), SessionCallEffect(s, Context(b), ioctl, started),
         NEW open \in BOOLEAN, client' = [client EXCEPT ![b].session = open],
         ~client[b].manual => (open <=> client[b].session),
         MappingStep(b)
  PROVE  ContractStep
<1>0. /\ RefInv /\ RefInv' /\ MappingInv /\ CoherenceInv
      /\ client[b] \in ClientRecords
  BY DEF Inv, OwnershipInv, RefInv, TypeOK
<1>1. /\ Mapped(b)
      /\ Context(b).buf = buffer[b] /\ Context(b).mem = memory[b]
      /\ client[b].manual <=> IsManual(Context(b))
  BY <1>0, MappedFacts
<1>2. /\ buffer'[b] = s.buf /\ memory'[b] = s.mem
      /\ OthersUnchanged(b)
  BY <1>0, StoreEffect DEF OthersUnchanged, RefInv, TypeOK
<1>3. memory'[b] = memory[b] \/ memory'[b] = PhysIoctl(memory[b])
  BY <1>1, <1>2 DEF SessionCallEffect
<1>4. SameOwners /\ (b \in Usable)' /\ b \in Live
  BY <1>0, LiveKept DEF Usable
<1>5. NewView(b, buffer'[b].mapping_refcount, Rights(b)', ManualMapping(b)',
              client'[b].session, VisibleContent(b))
  BY <1>3, <1>4, NewViewIs
<1>6. OthersSameView(b)
  BY <1>2, OthersLookTheSame
<1>7. /\ buffer'[b].mapping_refcount = buffer[b].mapping_refcount
      /\ buffer'[b].mapped_virtual_address = buffer[b].mapped_virtual_address
      /\ buffer'[b].map_flags = buffer[b].map_flags
  BY <1>1, <1>2 DEF SessionCallEffect, SameMapping
<1>8. Rights(b)' = MappedRights(b) /\ (ManualMapping(b)' <=> ManualMapping(b))
  BY <1>0, <1>7, RightsAre DEF Rights, ManualMapping, Mapped
<1>9. client'[b].session = open
  BY <1>0 DEF RefInv, TypeOK, ClientRecords
<1>10. NewView(b, buffer[b].mapping_refcount, MappedRights(b), ManualMapping(b),
               open, VisibleContent(b))
  BY <1>5, <1>7, <1>8, <1>9 DEF NewView
<1>11. CASE client[b].manual
  <2>1. ManualMapping(b)
    BY <1>1, <1>11 DEF ManualMapping, IsManual
  <2>2. Contract!SyncSession(b, open)
    BY <1>0, <1>1, <1>4, <1>6, <1>10, <2>1, SessionStep
  <2>3. QED
    BY <2>2, OneBufferSteps DEF Contract!BufferStep
<1>12. CASE ~client[b].manual
  <2>1. SameView(b)
    BY <1>10, <1>12 DEF SameView, NewView
  <2>2. QED
    BY <1>0, <1>4, <1>6, <2>1, NothingSeen
<1>13. QED
  BY <1>11, <1>12

LEMMA RefineStartSync ==
  ASSUME SessionsReliable, Inv, Inv', NEW b \in Buffers, StartSyncSession(b)
  PROVE  ContractStep
<1> DEFINE k == Context(b)
           c == OwnerIsCached(b)
           s == IF c THEN StartSync(k) ELSE k
<1>1. RefInv /\ MappingInv /\ CoherenceInv /\ MappingStep(b)
  BY DEF Inv, OwnershipInv, MappingStep
<1>2. b \in Usable /\ Holders(b) # {} /\ k \in Contexts /\ c \in BOOLEAN
  BY <1>1, BufferFacts DEF StartSyncSession
<1>3. Store(b, s) /\ client' = [client EXCEPT ![b].session = TRUE]
  BY DEF StartSyncSession
<1>4. ~client[b].manual => client[b].session
  BY <1>1, <1>2, MappedFacts DEF SessionsCoherent, SessionOpen
<1>5. s = IF c THEN StartSync(k) ELSE k
  OBVIOUS
<1> HIDE DEF s, c, k
<1>6. s \in Contexts /\ \E ioctl, started : SessionCallEffect(s, k, ioctl, started)
  BY <1>2, <1>5, StartSyncResult
<1>7. QED
  BY <1>1, <1>2, <1>3, <1>4, <1>6, RefineSessionCall DEF k

LEMMA RefineStopSync ==
  ASSUME SessionsReliable, Inv, Inv', NEW b \in Buffers, StopSyncSession(b)
  PROVE  ContractStep
<1> DEFINE k == Context(b)
           c == OwnerIsCached(b)
           s == IF c THEN StopSync(k) ELSE k
           open == client[b].session /\ ~client[b].manual
<1>1. RefInv /\ MappingInv /\ CoherenceInv /\ MappingStep(b)
  BY DEF Inv, OwnershipInv, MappingStep
<1>2. b \in Usable /\ Holders(b) # {} /\ k \in Contexts /\ c \in BOOLEAN
  BY <1>1, BufferFacts DEF StopSyncSession
<1>3. Store(b, s) /\ client' = [client EXCEPT ![b].session = open]
  BY <1>1 DEF StopSyncSession, RefInv, TypeOK
<1>4. open \in BOOLEAN /\ (~client[b].manual => (open <=> client[b].session))
  OBVIOUS
<1>5. s = IF c THEN StopSync(k) ELSE k
  OBVIOUS
<1> HIDE DEF s, c, k, open
<1>6. s \in Contexts /\ \E ioctl, started : SessionCallEffect(s, k, ioctl, started)
  BY <1>2, <1>5, StopSyncCallResult
<1>7. QED
  BY <1>1, <1>2, <1>3, <1>4, <1>6, RefineSessionCall DEF k

\* Deallocation keeps the content, which whoever shares the memory may read.
LEMMA RefineDeallocate ==
  ASSUME SessionsReliable, Inv, Inv', NEW b \in Buffers, Deallocate(b)
  PROVE  ContractStep
<1>0. RefInv /\ RefInv' /\ b \in Live /\ b \in Usable
  BY DEF Inv, OwnershipInv, Deallocate, Usable
<1>1. PICK s \in Contexts :
        Store(b, s) /\ DeallocateEffect(s, Context(b), OwnerIsCached(b))
  BY <1>0, DeallocateStepEffect
<1>2. /\ buffer'[b] = NoBuffer /\ client'[b] = NoClient /\ memory'[b] = s.mem
      /\ OthersUnchanged(b)
  BY <1>0, <1>1, StoreEffect
  DEF Deallocate, DeallocateEffect, OthersUnchanged, RefInv, TypeOK
<1>3. memory'[b] = memory[b] \/ memory'[b] = PhysIoctl(memory[b])
  BY <1>1, <1>2 DEF DeallocateEffect, Context
<1>4. /\ ~Mapped(b)'
      /\ buffer'[b].mapping_refcount = 0
      /\ client'[b].session = FALSE
      /\ buffer'[b].allocator = Null
  BY <1>2 DEF Mapped, NoBuffer, NoClient
<1>5. owner' = [owner EXCEPT ![b] = Null] /\ Alive' = Alive
  BY <1>0, <1>2, <1>4 DEF owner, Alive, OthersUnchanged, Deallocate
<1>6. NewView(b, buffer'[b].mapping_refcount, Rights(b)', ManualMapping(b)',
              client'[b].session, VisibleContent(b))
  BY <1>0, <1>3, <1>4, NewViewIs
<1>7. NewView(b, 0, {}, FALSE, FALSE, VisibleContent(b))
  BY <1>4, <1>6 DEF NewView, Rights, ManualMapping
<1>8. OthersSameView(b)
  BY <1>2, OthersLookTheSame
<1>9. Contract!SetMapping(b, 0, {}, FALSE, FALSE)
  BY <1>0, <1>5, <1>7, <1>8, SetMappingStep
<1>10. Contract!Deallocate(b)
  BY <1>0, <1>5, <1>9, ContractLive DEF Contract!Deallocate, owner
<1>11. QED
  BY <1>10, OneBufferSteps DEF Contract!BufferStep

\* New memory has the content that it happens to have.
LEMMA RefineAllocate ==
  ASSUME SessionsReliable, Inv, Inv', NEW b \in Buffers, NEW a \in Allocators,
         Allocate(b, a)
  PROVE  ContractStep
<1>0. /\ RefInv /\ RefInv' /\ MappingInv /\ CoherenceInv /\ CoherenceInv'
      /\ b \notin Live /\ a \in Alive /\ Alive' = Alive
      /\ client' = client
  BY DEF Inv, OwnershipInv, Allocate, Alive
<1>1. CASE AllocateFails
  <2>1. UNCHANGED <<buffer, memory, client>>
    BY <1>0, <1>1 DEF AllocateFails
  <2>2. \A c \in Buffers : SameView(c)
    BY <2>1, SameViewFrame
  <2>3. SameOwners
    BY <1>0, <2>1 DEF SameOwners, owner
  <2>4. QED
    BY <1>0, <2>2, <2>3, Stutter DEF ContractStep
<1>2. CASE AllocateSucceeds(b, a)
  <2>1. PICK v \in Values, w \in Values :
          memory' = [memory EXCEPT ![b] = [mem |-> v, cache |-> w, dirty |-> FALSE]]
    BY <1>2 DEF AllocateSucceeds
  <2>2. /\ memory'[b].mem = v
        /\ OthersUnchanged(b)
        /\ buffer'[b].allocator = a
        /\ buffer'[b].mapped_virtual_address = Null
        /\ buffer'[b].mapping_refcount = 0
    BY <1>0, <1>2, <2>1
    DEF AllocateSucceeds, OthersUnchanged, NoBuffer, RefInv, TypeOK
  <2>3. owner' = [owner EXCEPT ![b] = a]
    BY <1>0, <2>2 DEF owner, OthersUnchanged
  <2>4. ~Mapped(b) /\ ~Mapped(b)' /\ buffer[b].mapping_refcount = 0
    BY <1>0, <2>2, BufferFacts DEF RefInv, MappedAreLive, Mapped
  <2>5. ~client[b].session
    BY <1>0, <2>4, NoSessionUnmapped DEF CoherenceInv
  <2>6. VisibleContent(b)' = v
    BY <1>0, <2>2, <2>5 DEF VisibleContent
  <2>7. /\ ~ManualMapping(b) /\ ~ManualMapping(b)'
        /\ MappedRights(b) = {} /\ MappedRights(b)' = {}
    BY <2>4 DEF ManualMapping, MappedRights
  <2>8. NewView(b, buffer[b].mapping_refcount, MappedRights(b), ManualMapping(b),
                client[b].session, v)
    BY <1>0, <2>2, <2>4, <2>6, <2>7 DEF NewView
  <2>9. /\ content' = [content EXCEPT ![b] = v]
        /\ UNCHANGED <<maps, access, manual, session>>
    BY <1>0, <2>2, <2>8, OthersLookTheSame, ContentStep
  <2>10. Contract!Allocate(b, a)
    BY <1>0, <2>3, <2>9, ContractLive
    DEF Contract!Allocate, Contract!mapping, owner, maps, access, manual, session, content
  <2>11. QED
    BY <2>10, OneBufferSteps DEF Contract!BufferStep
<1>3. QED
  BY <1>1, <1>2 DEF Allocate

LEMMA AllocatorStepSeen ==
  ASSUME Inv, Inv', NEW a \in Allocators, AllocatorStep(a)
  PROVE  /\ UNCHANGED <<owner, maps, access, manual, session, content>>
         /\ \A b \in Buffers : SameView(b)
<1>1. UNCHANGED <<buffer, memory, client>>
  BY DEF AllocatorStep, AllocatorNew, AllocatorNewFromFd, AllocatorDestroy
<1>2. \A b \in Buffers : SameView(b)
  BY <1>1, SameViewFrame
<1>3. maps' = maps /\ access' = access /\ content' = content
  BY <1>2 DEF SameView, NewView, maps, access, content
<1>4. owner' = owner /\ manual' = manual /\ session' = session
  BY <1>1 DEF owner, manual, session, Mapped
<1>5. QED
  BY <1>2, <1>3, <1>4

\* An allocator is created, or destroyed when it has no buffers.
LEMMA AllocatorEffect ==
  ASSUME ~DestroyEarly, RefInv, NEW a \in Allocators, AllocatorStep(a)
  PROVE  \/ Alive' = Alive
         \/ a \notin Alive /\ Alive' = Alive \cup {a}
         \/ /\ a \in Alive /\ Alive' = Alive \ {a}
            /\ \A b \in Live : buffer[b].allocator # a
<1>0. allocator \in [Allocators -> AllocatorRecords]
  BY DEF RefInv, TypeOK
<1>1. ASSUME NEW r \in AllocatorRecords, r.alive, a \notin Alive,
             allocator' = [allocator EXCEPT ![a] = r]
      PROVE  Alive' = Alive \cup {a}
  BY <1>0, <1>1 DEF Alive
<1>2. CASE AllocatorNew(a)
  <2>1. CASE allocator' = allocator
    BY <2>1 DEF Alive
  <2>2. ASSUME NEW fd \in FreeFds,
               allocator' = [allocator EXCEPT ![a] =
                 [dma_heap_fd |-> fd, internal |-> TRUE,
                  is_cached |-> BuildIsCached, alive |-> TRUE]]
        PROVE  a \notin Alive /\ Alive' = Alive \cup {a}
    <3>1. a \notin Alive /\ fd \in Fds
      BY <1>2 DEF AllocatorNew, Fresh, FreeFds
    <3> DEFINE new == [dma_heap_fd |-> fd, internal |-> TRUE,
                       is_cached |-> BuildIsCached, alive |-> TRUE]
    <3>2. new \in AllocatorRecords /\ new.alive
      BY <3>1, ConstantsAssumption DEF AllocatorRecords
    <3>3. allocator' = [allocator EXCEPT ![a] = new]
      BY <2>2
    <3> HIDE DEF new
    <3>4. QED
      BY <1>1, <3>1, <3>2, <3>3
  <2>3. QED
    BY <1>2, <2>1, <2>2 DEF AllocatorNew
<1>3. CASE \E fd \in Fds : AllocatorNewFromFd(a, fd)
  <2>1. PICK fd \in Fds : AllocatorNewFromFd(a, fd)
    BY <1>3
  <2>2. a \notin Alive /\ HeapIsCached(fd) \in BOOLEAN
    BY <2>1, ConstantsAssumption DEF AllocatorNewFromFd, Fresh, HeapIsCached
  <2> DEFINE new == [dma_heap_fd |-> fd, internal |-> FALSE,
                     is_cached |-> HeapIsCached(fd), alive |-> TRUE]
  <2>3. new \in AllocatorRecords /\ new.alive
    BY <2>2 DEF AllocatorRecords
  <2>4. allocator' = [allocator EXCEPT ![a] = new]
    BY <2>1 DEF AllocatorNewFromFd
  <2> HIDE DEF new
  <2>5. QED
    BY <1>1, <2>2, <2>3, <2>4
<1>4. CASE AllocatorDestroy(a)
  <2>1. /\ a \in Alive /\ allocator' = [allocator EXCEPT ![a] = NoAllocator]
        /\ \A b \in Live : buffer[b].allocator # a
    BY <1>4 DEF AllocatorDestroy
  <2>2. QED
    BY <1>0, <2>1 DEF Alive, NoAllocator
<1>5. QED
  BY <1>2, <1>3, <1>4 DEF AllocatorStep

\* For the contract too an allocator comes or goes, and no buffer with it.
LEMMA RefineAllocator ==
  ASSUME ~DestroyEarly, Inv, Inv', NEW a \in Allocators, AllocatorStep(a)
  PROVE  ContractStep
<1>1. /\ UNCHANGED <<owner, maps, access, manual, session, content>>
      /\ \A b \in Buffers : SameView(b)
      /\ RefInv /\ RefInv'
  BY AllocatorStepSeen DEF Inv, OwnershipInv
<1>2. CASE Alive' = Alive
  BY <1>1, <1>2, Stutter DEF SameOwners, ContractStep
<1>3. CASE a \notin Alive /\ Alive' = Alive \cup {a}
  <2>1. Contract!NewAllocator(a)
    BY <1>1, <1>3
    DEF Contract!NewAllocator, Contract!mapping, owner, maps, access, manual, session,
        content
  <2>2. QED
    BY <2>1 DEF ContractStep, Contract!Next
<1>4. CASE /\ a \in Alive /\ Alive' = Alive \ {a}
           /\ \A b \in Live : buffer[b].allocator # a
  <2>1. \A b \in Buffers : owner[b] # a
    <3>1. a # Null
      BY ConstantsAssumption
    <3>2. QED
      BY <1>4, <3>1 DEF owner, Live
  <2>2. /\ owner' = [b \in Buffers |-> IF owner[b] # a THEN owner[b] ELSE Null]
        /\ maps' = [b \in Buffers |-> IF owner[b] # a THEN maps[b] ELSE 0]
        /\ access' = [b \in Buffers |-> IF owner[b] # a THEN access[b] ELSE {}]
        /\ manual' = [b \in Buffers |-> owner[b] # a /\ manual[b]]
        /\ session' = [b \in Buffers |-> owner[b] # a /\ session[b]]
    <3>1. owner' = [b \in Buffers |-> IF owner[b] # a THEN owner[b] ELSE Null]
      BY <1>1, <2>1 DEF owner
    <3>2. maps' = [b \in Buffers |-> IF owner[b] # a THEN maps[b] ELSE 0]
      BY <1>1, <2>1 DEF maps
    <3>3. access' = [b \in Buffers |-> IF owner[b] # a THEN access[b] ELSE {}]
      BY <1>1, <2>1 DEF access
    <3>4. manual' = [b \in Buffers |-> owner[b] # a /\ manual[b]]
      <4>1. \A b \in Buffers : manual[b] \in BOOLEAN
        BY DEF manual
      <4>2. \A b \in Buffers : (owner[b] # a /\ manual[b]) = manual[b]
        BY <2>1, <4>1
      <4>3. manual = [b \in Buffers |-> manual[b]]
        BY DEF manual
      <4>4. QED
        BY <1>1, <4>2, <4>3, Zenon
    <3>5. session' = [b \in Buffers |-> owner[b] # a /\ session[b]]
      <4>1. \A b \in Buffers : session[b] \in BOOLEAN
        BY <1>1, Booleans DEF session
      <4>2. \A b \in Buffers : (owner[b] # a /\ session[b]) = session[b]
        BY <2>1, <4>1
      <4>3. session = [b \in Buffers |-> session[b]]
        BY DEF session
      <4>4. QED
        BY <1>1, <4>2, <4>3, Zenon
    <3>6. QED
      BY <3>1, <3>2, <3>3, <3>4, <3>5
  <2>3. content' = content
    BY <1>1
  <2>4. Contract!Destroy(a)
    BY <1>4, <2>2, <2>3
    DEF Contract!Destroy, owner, maps, access, manual, session, content
  <2>5. QED
    BY <2>4 DEF ContractStep, Contract!Next
<1>5. QED
  BY <1>1, <1>2, <1>3, <1>4, AllocatorEffect

\* The CPU and the device change the content; heaps and the cache's own
\* activity are invisible.
LEMMA AccessEffect ==
  ASSUME Inv, Inv', NEW b \in Buffers, NEW m, Access(b, m)
  PROVE  /\ UNCHANGED <<allocator, buffer, vm, client>>
         /\ memory'[b] = m
         /\ OthersSameView(b)
         /\ SameOwners /\ Usable' = Usable /\ b \in Usable /\ b \in Live
         /\ (Mapped(b)' <=> Mapped(b)) /\ MappedRights(b)' = MappedRights(b)
         /\ ManualMapping(b)' <=> ManualMapping(b)
<1>1. /\ UNCHANGED <<allocator, buffer, vm, client>>
      /\ memory'[b] = m
      /\ OthersUnchanged(b)
      /\ b \in Usable
  BY DEF Access, OthersUnchanged, Inv, OwnershipInv, RefInv, TypeOK
<1>2. QED
  BY <1>1, OthersLookTheSame
  DEF SameOwners, owner, Live, Usable, Alive, Mapped, MappedRights, ManualMapping

LEMMA RefineAccess ==
  ASSUME SessionsReliable, Inv, Inv', NEW b \in Buffers,
         \E v \in Values : CpuWrite(b, v) \/ DeviceWrite(b, v)
  PROVE  ContractStep
<1>0. /\ RefInv /\ RefInv' /\ MappingInv /\ CoherenceInv
      /\ memory[b] \in Memories
  BY DEF Inv, OwnershipInv, RefInv, TypeOK
<1>1. ASSUME NEW v \in Values, NEW m, Access(b, m), VisibleContent(b)' = v
      PROVE  /\ content' = [content EXCEPT ![b] = v]
             /\ UNCHANGED <<maps, access, manual, session>>
             /\ SameOwners /\ b \in Live
             /\ access[b] = MappedRights(b)
             /\ session[b] <=> client[b].session
  <2>1. NewView(b, buffer[b].mapping_refcount, MappedRights(b), ManualMapping(b),
                client[b].session, v)
    BY <1>1, AccessEffect DEF NewView
  <2>2. OthersSameView(b) /\ SameOwners /\ b \in Live
    BY <1>1, AccessEffect
  <2>3. access[b] = MappedRights(b) /\ (session[b] <=> client[b].session)
    BY DEF access, session
  <2>4. QED
    BY <1>0, <2>1, <2>2, <2>3, ContentStep
<1>2. ASSUME NEW v \in Values, CpuWrite(b, v) PROVE ContractStep
  <2> DEFINE m == IF MemoryIsCached(b)
                  THEN [memory[b] EXCEPT !.cache = v, !.dirty = TRUE]
                  ELSE [mem |-> v, cache |-> v, dirty |-> FALSE]
  <2>1. Access(b, m) /\ client[b].session /\ "WRITE" \in client[b].access
    BY <1>2 DEF CpuWrite
  <2>2. m.cache = v /\ (m.dirty \/ m.mem = v)
    BY <1>0 DEF Memories
  <2> HIDE DEF m
  <2>3. VisibleContent(b)' = v
    BY <2>1, <2>2, AccessEffect DEF VisibleContent
  <2>4. "WRITE" \in MappedRights(b)
    <3>1. Mapped(b)
      BY <1>0, <2>1 DEF CoherenceInv, SessionsCoherent, SessionOpen
    <3>2. QED
      BY <1>0, <2>1, <3>1, RightsAre DEF Rights, MappingInv, MappingHeld
  <2>5. Contract!CpuWrite(b, v)
    BY <1>1, <2>1, <2>3, <2>4
    DEF Contract!CpuWrite, Contract!mapping, SameOwners, owner, maps, access, manual,
        session, content
  <2>6. QED
    BY <2>5, OneBufferSteps DEF Contract!BufferStep
<1>3. ASSUME NEW v \in Values, DeviceWrite(b, v) PROVE ContractStep
  <2> DEFINE m == IF MemoryIsCached(b)
                  THEN [memory[b] EXCEPT !.mem = v]
                  ELSE [mem |-> v, cache |-> v, dirty |-> FALSE]
  <2>1. Access(b, m) /\ ~client[b].session
    BY <1>3 DEF DeviceWrite
  <2>2. m.mem = v
    BY <1>0 DEF Memories
  <2> HIDE DEF m
  <2>3. VisibleContent(b)' = v
    BY <2>1, <2>2, AccessEffect DEF VisibleContent
  <2>4. Contract!DeviceWrite(b, v)
    BY <1>1, <2>1, <2>3, ContractLive
    DEF Contract!DeviceWrite, Contract!mapping, SameOwners, owner, maps, access, manual,
        session, content
  <2>5. QED
    BY <2>4, OneBufferSteps DEF Contract!BufferStep
<1>4. QED
  BY <1>2, <1>3

LEMMA RefineEvict ==
  ASSUME SessionsReliable, Inv, Inv', NEW b \in Buffers, CacheEvict(b)
  PROVE  ContractStep
<1>1. Access(b, PhysIoctl(memory[b]))
  BY DEF CacheEvict
<1>2. VisibleContent(b)' = VisibleContent(b)
  BY <1>1, AccessEffect, ContentKept
<1>3. SameView(b) /\ OthersSameView(b) /\ SameOwners
  BY <1>1, <1>2, AccessEffect DEF SameView, NewView
<1>4. QED
  BY <1>3, NothingSeen DEF Inv, OwnershipInv

LEMMA RefineEnvironment ==
  ASSUME SessionsReliable, Inv, Inv', EnvironmentStep
  PROVE  ContractStep
<1>1. CASE UNCHANGED <<allocator, buffer, memory, client>>
  <2>1. SameOwners /\ \A c \in Buffers : SameView(c)
    BY <1>1, SameViewFrame DEF SameOwners, owner, Alive
  <2>2. QED
    BY <2>1, Stutter DEF ContractStep, Inv, OwnershipInv
<1>2. QED
  BY <1>1, RefineAccess, RefineEvict DEF EnvironmentStep, ClientOpenHeap, ClientCloseHeap

LEMMA RefineNext ==
  ASSUME SessionsReliable, ~DestroyEarly, Inv, Inv', [Next]_vars
  PROVE  ContractStep
<1>1. CASE UNCHANGED vars
  <2>1. SameOwners /\ \A c \in Buffers : SameView(c)
    BY <1>1, SameViewFrame DEF SameOwners, owner, Alive, vars
  <2>2. QED
    BY <2>1, Stutter DEF ContractStep, Inv, OwnershipInv
<1>2. ASSUME NEW b \in Buffers, MappingStep(b) PROVE ContractStep
  BY <1>2, RefineMapFirst, RefineMapAgain, RefineUnmap, RefineUnmapIdle,
     RefineStartSync, RefineStopSync DEF MappingStep, Map
<1>3. ASSUME NEW b \in Buffers, BufferStep(b) PROVE ContractStep
  BY <1>2, <1>3, BufferStepCases, RefineAllocate, RefineDeallocate
<1>4. QED
  BY <1>1, <1>3, RefineAllocator, RefineEnvironment DEF Next

LEMMA RefineInit == Init => Contract!Init
<1> SUFFICES ASSUME Init PROVE Contract!Init
  OBVIOUS
<1>1. \A b \in Buffers : buffer[b] = NoBuffer /\ client[b] = NoClient
  BY DEF Init
<1>2. \A b \in Buffers : ~Mapped(b) /\ ~client[b].session
  BY <1>1 DEF Mapped, NoBuffer, NoClient
<1>3. Alive = {} /\ owner = [b \in Buffers |-> Null]
  <2>1. Alive = {}
    BY DEF Init, Alive, NoAllocator
  <2>2. owner = [b \in Buffers |-> Null]
    BY <1>1 DEF owner, NoBuffer
  <2>3. QED
    BY <2>1, <2>2
<1>4. maps = [b \in Buffers |-> 0]
  BY <1>1 DEF maps, NoBuffer
<1>5. access = [b \in Buffers |-> {}]
  BY <1>2 DEF access, MappedRights
<1>6. manual = [b \in Buffers |-> FALSE]
  BY <1>2 DEF manual
<1>7. session = [b \in Buffers |-> FALSE]
  <2>1. ASSUME NEW b \in Buffers PROVE client[b].session = FALSE
    BY <1>1 DEF NoClient
  <2>2. QED
    BY <2>1 DEF session
<1>8. content \in [Buffers -> Values]
  <2>1. ASSUME NEW b \in Buffers PROVE VisibleContent(b) \in Values
    <3>1. PICK v \in Values : memory[b] = [mem |-> v, cache |-> v, dirty |-> FALSE]
      BY DEF Init
    <3>2. QED
      BY <1>2, <3>1 DEF VisibleContent
  <2>2. QED
    BY <2>1 DEF content
<1>9. QED
  BY <1>3, <1>4, <1>5, <1>6, <1>7, <1>8
  DEF Contract!Init, owner, maps, access, manual, session, content

\* The allocator implements the contract of imxdmabuffer.h: what a buffer
\* holds, who may use it and how long a session lasts follow the contract
\* through redundant maps, failed calls, cache activity and deallocation of
\* mapped buffers, unless maps both fail and ask for manual sessions, or an
\* allocator is destroyed before its buffers. There the contract is broken.
THEOREM AllocatorImplementsContract ==
  ASSUME SessionsReliable, ~DestroyEarly
  PROVE  Spec => ImplementsContract
<1>1. Init => Contract!Init
  BY RefineInit
<1>2. Inv /\ Inv' /\ [Next]_vars => [Contract!Next]_(Contract!contractVars)
  BY RefineNext DEF ContractStep
<1>3. Spec => []Inv
  BY CoherenceInvariant DEF Inv
<1>4. QED
  BY <1>1, <1>2, <1>3, PTL DEF Spec, ImplementsContract, Contract!Spec

=============================================================================
