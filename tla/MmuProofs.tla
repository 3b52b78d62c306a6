------------------------------- MODULE MmuProofs -------------------------------
(***************************************************************************)
(* The tables of mmu.c agree for every size of memory and address space,   *)
(* and mmu.c makes the same choices as its first version.                  *)
(***************************************************************************)
EXTENDS Mmu, FiniteSetTheorems, SequenceTheorems, TLAPS

(* The hand goes round. *)
LEMMA HandStep ==
  ASSUME NEW i \in Frame
  PROVE  /\ (i + 1) % numFrames \in Frame
         /\ (i + 1) % numFrames = IF i = numFrames - 1 THEN 0 ELSE i + 1
<1>1. numFrames \in Nat \ {0} /\ i \in Nat /\ i < numFrames
  BY MmuAssumption DEF Frame
<1>2. CASE i = numFrames - 1
  <2>1. i + 1 = numFrames
    BY <1>1, <1>2
  <2>2. numFrames % numFrames = 0
    BY <1>1
  <2> QED
    BY <1>1, <1>2, <2>1, <2>2 DEF Frame
<1>3. CASE i # numFrames - 1
  <2>1. i + 1 \in Nat /\ i + 1 < numFrames
    BY <1>1, <1>3
  <2>2. (i + 1) % numFrames = i + 1
    BY <1>1, <2>1
  <2> QED
    BY <1>1, <1>3, <2>1, <2>2 DEF Frame
<1> QED
  BY <1>2, <1>3

LEMMA MmuInvInit == Init => MmuInv
BY MmuAssumption
DEF Init, MmuInv, MmuTypeOK, TablesAgree, HandAtFree, Faulting, Page, Frame,
    NullPages, NOT_MAPPED, NOT_VALID, FREE

(* An access and the end of the trace leave the mapping alone. *)
LEMMA MmuInvAccess ==
  ASSUME MmuInv, Access
  PROVE  MmuInv'
<1> USE MmuAssumption DEF MmuInv, MmuTypeOK, Faulting, tables, statistics
<1>1. ASSUME NEW p \in Page, InvalidPage(p) PROVE MmuInv'
  BY <1>1 DEF InvalidPage, TablesAgree, HandAtFree
<1>2. ASSUME NEW p \in Page, Hit(p) PROVE MmuInv'
  <2>1. pageTable[p] \in Frame
    BY <1>2 DEF Hit
  <2> QED
    BY <1>2, <2>1 DEF Hit, Reads, TablesAgree, HandAtFree
<1>3. ASSUME NEW p \in Page, PageFault(p) PROVE MmuInv'
  BY <1>3 DEF PageFault, TablesAgree, HandAtFree
<1>4. ASSUME EndOfTrace PROVE MmuInv'
  BY <1>4 DEF EndOfTrace, TablesAgree, HandAtFree
<1> QED
  BY <1>1, <1>2, <1>3, <1>4 DEF Access

(* Mapping the page of a fault keeps the tables each other's inverse. *)
LEMMA MapPageAgrees ==
  ASSUME MmuInv, Faulting, NEW f \in Frame, MapPage(f)
  PROVE  /\ pageTable' \in [Page -> Frame \cup {NOT_MAPPED, NOT_VALID}]
         /\ frameTable' = [frameTable EXCEPT ![f] = page]
         /\ frameTable' \in [Frame -> Page \cup {FREE}]
         /\ access' \in [Frame -> {0, 1}]
         /\ count' \in Nat /\ pagefaults' \in Nat /\ swapouts' \in Nat
         /\ page' \in Page /\ pc' = "run"
         /\ page # FREE
         /\ \A p \in Page \cap NullPages : pageTable'[p] = NOT_VALID
         /\ TablesAgree'
<1> USE MmuAssumption DEF MmuInv, MmuTypeOK
<1>1. page \in Page /\ pageTable[page] = NOT_MAPPED /\ page # FREE
  BY DEF Faulting, Page, FREE
<1>2. \A g \in Frame : frameTable[g] # page
  BY <1>1 DEF TablesAgree, NOT_MAPPED, Page, Frame
<1>3. pageTable' = [Unmapped(f) EXCEPT ![page] = f] /\ frameTable' = [frameTable EXCEPT ![f] = page]
  BY DEF MapPage
<1>4. Unmapped(f) \in [Page -> Frame \cup {NOT_MAPPED, NOT_VALID}]
  BY DEF Unmapped
<1>5. \A p \in Page : Unmapped(f)[p] = IF frameTable[f] # FREE /\ p = frameTable[f]
                                       THEN NOT_MAPPED ELSE pageTable[p]
  BY DEF Unmapped
<1>6. \A p \in Page \cap NullPages : pageTable'[p] = NOT_VALID
  <2> TAKE p \in Page \cap NullPages
  <2>1. pageTable[p] = NOT_VALID /\ NOT_VALID # NOT_MAPPED /\ NOT_VALID \notin Frame
    BY DEF NOT_VALID, NOT_MAPPED, Frame
  <2>2. p # page
    BY <1>1, <2>1
  <2>3. ~(frameTable[f] # FREE /\ p = frameTable[f])
    BY <2>1 DEF TablesAgree
  <2> QED
    BY <1>3, <1>4, <1>5, <2>1, <2>2, <2>3
<1>7. TablesAgree'
  <2>1. ASSUME NEW p \in Page, pageTable'[p] \in Frame PROVE frameTable'[pageTable'[p]] = p
    <3>1. CASE p = page
      BY <1>1, <1>3, <1>4, <3>1
    <3>2. CASE p # page
      <4>1. pageTable'[p] = pageTable[p] /\ ~(frameTable[f] # FREE /\ p = frameTable[f])
        BY <1>3, <1>4, <1>5, <2>1, <3>2 DEF NOT_MAPPED, Frame
      <4>2. frameTable[pageTable[p]] = p
        BY <2>1, <4>1 DEF TablesAgree
      <4>3. pageTable[p] # f
        BY <4>1, <4>2 DEF Page, FREE
      <4> QED
        BY <1>3, <2>1, <4>1, <4>2, <4>3
    <3> QED
      BY <3>1, <3>2
  <2>2. ASSUME NEW g \in Frame, frameTable'[g] # FREE PROVE pageTable'[frameTable'[g]] = g
    <3>1. CASE g = f
      BY <1>1, <1>3, <1>4, <3>1
    <3>2. CASE g # f
      <4>1. frameTable'[g] = frameTable[g] /\ frameTable[g] # page /\ frameTable[g] \in Page
        BY <1>2, <1>3, <2>2, <3>2
      <4>2. pageTable[frameTable[g]] = g
        BY <2>2, <4>1 DEF TablesAgree
      <4>3. ~(frameTable[f] # FREE /\ frameTable[g] = frameTable[f])
        BY <3>2, <4>2 DEF TablesAgree
      <4> QED
        BY <1>3, <1>4, <1>5, <4>1, <4>2, <4>3
    <3> QED
      BY <3>1, <3>2
  <2> QED
    BY <2>1, <2>2 DEF TablesAgree
<1>8. count' \in Nat /\ pagefaults' \in Nat /\ swapouts' \in Nat /\ page' \in Page /\ pc' = "run"
  BY <1>1 DEF MapPage
<1> QED
  BY <1>1, <1>3, <1>4, <1>6, <1>7, <1>8 DEF MapPage

LEMMA MmuInvFault ==
  ASSUME MmuInv, os_handle_pagefault
  PROVE  MmuInv'
<1> USE MmuAssumption
<1>1. frame_index \in Frame /\ frame_index' = (frame_index + 1) % numFrames
  BY DEF MmuInv, MmuTypeOK, os_handle_pagefault, UseFree, Spare, Evict, Advance
<1>2. frame_index' \in Frame
  BY <1>1, HandStep
<1>3. frame_index' = IF frame_index = numFrames - 1 THEN 0 ELSE frame_index + 1
  BY <1>1, HandStep
<1>4. ASSUME UseFree PROVE MmuInv'
  <2>1. Faulting /\ MapPage(frame_index) /\ frameTable[frame_index] = FREE
    BY <1>4 DEF UseFree
  <2>2. HandAtFree'
    <3> SUFFICES ASSUME NEW f \in Frame, NEW g \in Frame, frameTable'[f] = FREE
                 PROVE  frameTable'[g] # FREE <=> g < frame_index'
      BY DEF HandAtFree
    <3>1. frameTable' = [frameTable EXCEPT ![frame_index] = page] /\ page # FREE
      BY <1>1, <2>1, MapPageAgrees
    <3>2. f # frame_index /\ frameTable[f] = FREE
      BY <1>1, <3>1 DEF MmuInv, MmuTypeOK
    <3>3. \A h \in Frame : frameTable[h] # FREE <=> h < frame_index
      BY <3>2 DEF MmuInv, HandAtFree
    <3>4. f > frame_index
      BY <1>1, <3>2, <3>3 DEF Frame
    <3>5. frame_index' = frame_index + 1
      BY <1>1, <1>3, <3>4 DEF Frame
    <3> QED
      BY <1>1, <3>1, <3>3, <3>5 DEF MmuInv, MmuTypeOK, Frame
  <2> QED
    BY <1>1, <1>2, <2>1, <2>2, MapPageAgrees DEF MmuInv, MmuTypeOK, Faulting
<1>5. ASSUME frameTable[frame_index] # FREE PROVE \A f \in Frame : frameTable[f] # FREE
  BY <1>1, <1>5 DEF MmuInv, HandAtFree, Frame
<1>6. ASSUME Spare PROVE MmuInv'
  <2>1. HandAtFree'
    BY <1>1, <1>5, <1>6 DEF Spare, HandAtFree
  <2> QED
    BY <1>1, <1>2, <1>6, <2>1 DEF Spare, MmuInv, MmuTypeOK, TablesAgree, Faulting, statistics
<1>7. ASSUME Evict PROVE MmuInv'
  <2>1. Faulting /\ MapPage(frame_index) /\ frameTable[frame_index] # FREE
    BY <1>7 DEF Evict
  <2>2. \A f \in Frame : frameTable'[f] # FREE
    <3>1. frameTable' = [frameTable EXCEPT ![frame_index] = page] /\ page # FREE
      BY <1>1, <2>1, MapPageAgrees
    <3> QED
      BY <1>1, <1>5, <2>1, <3>1 DEF MmuInv, MmuTypeOK
  <2> QED
    BY <1>1, <1>2, <2>1, <2>2, MapPageAgrees DEF MmuInv, MmuTypeOK, HandAtFree, Faulting
<1> QED
  BY <1>4, <1>6, <1>7 DEF os_handle_pagefault

(* The inductive invariant of mmu.c, for every number of frames and pages:  *)
(* the tables are inverse to each other, the hand is at the first free      *)
(* frame while there is one, null pages stay invalid and the page of a      *)
(* fault is in no frame.                                                    *)
THEOREM MmuInvAlways == Spec => []MmuInv
<1>1. MmuInv /\ UNCHANGED mmuVars => MmuInv'
  BY DEF MmuInv, MmuTypeOK, TablesAgree, HandAtFree, Faulting, mmuVars, tables, statistics
<1>2. MmuInv /\ [Next]_mmuVars => MmuInv'
  BY <1>1, MmuInvAccess, MmuInvFault DEF Next
<1> QED
  BY MmuInvInit, <1>2, PTL DEF Spec

-----------------------------------------------------------------------------
(* The hand of the first version. *)
LEMMA OldestSame ==
  ASSUME UNCHANGED <<frameTable, frame_index>>
  PROVE  Oldest' = Oldest
BY DEF Oldest, Full, InMemory

LEMMA FullHand ==
  ASSUME MmuInv, frameTable[frame_index] # FREE
  PROVE  Oldest = frame_index /\ First!NoneFree
<1>1. frame_index \in Frame
  BY DEF MmuInv, MmuTypeOK
<1>2. \A f \in Frame : frameTable[f] # FREE
  BY <1>1 DEF MmuInv, HandAtFree, Frame
<1> QED
  BY <1>2 DEF Oldest, Full, InMemory, First!NoneFree, First!Frame, First!FREE, Frame, FREE

LEMMA FirstAccess ==
  ASSUME Access
  PROVE  First!Access
<1> USE DEF tables, First!tables, statistics, First!statistics, Reads, First!Reads,
            Page, First!Page, NOT_VALID, First!NOT_VALID, NOT_MAPPED, First!NOT_MAPPED
<1>1. UNCHANGED <<frameTable, frame_index>>
  BY DEF Access, InvalidPage, Hit, PageFault, EndOfTrace
<1>2. Oldest' = Oldest
  BY <1>1, OldestSame
<1>3. ASSUME NEW p \in Page, InvalidPage(p) PROVE First!InvalidPage(p)
  BY <1>2, <1>3 DEF InvalidPage, First!InvalidPage
<1>4. ASSUME NEW p \in Page, Hit(p) PROVE First!Hit(p)
  BY <1>2, <1>4 DEF Hit, First!Hit
<1>5. ASSUME NEW p \in Page, PageFault(p) PROVE First!PageFault(p)
  BY <1>2, <1>5 DEF PageFault, First!PageFault
<1>6. ASSUME EndOfTrace PROVE First!EndOfTrace
  BY <1>2, <1>6 DEF EndOfTrace, First!EndOfTrace
<1> QED
  BY <1>3, <1>4, <1>5, <1>6 DEF Access, First!Access

LEMMA SameMapPage ==
  ASSUME NEW f \in Frame, MapPage(f)
  PROVE  First!MapPage(f)
BY DEF MapPage, First!MapPage, Unmapped, First!Unmapped, FREE, First!FREE,
       NOT_MAPPED, First!NOT_MAPPED

LEMMA FirstFault ==
  ASSUME MmuInv, os_handle_pagefault
  PROVE  First!os_handle_pagefault
<1> USE MmuAssumption
<1>1. frame_index \in Frame /\ frame_index' = (frame_index + 1) % numFrames
  BY DEF MmuInv, MmuTypeOK, os_handle_pagefault, UseFree, Spare, Evict, Advance
<1>2. frame_index' = IF frame_index = numFrames - 1 THEN 0 ELSE frame_index + 1
  BY <1>1, HandStep
<1>3. ASSUME UseFree PROVE First!UseFirstFree
  <2>1. Faulting /\ MapPage(frame_index) /\ frameTable[frame_index] = FREE
    BY <1>3 DEF UseFree
  <2>2. \A g \in Frame : frameTable[g] # FREE <=> g < frame_index
    BY <1>1, <2>1 DEF MmuInv, HandAtFree
  <2>3. \A g \in 0 .. frame_index - 1 : frameTable[g] # FREE
    BY <1>1, <2>2 DEF Frame
  <2>4. frameTable' = [frameTable EXCEPT ![frame_index] = page]
    BY <2>1 DEF MapPage
  <2>5. Oldest = 0
    BY <1>1, <2>1 DEF Oldest, Full, InMemory
  <2>6. Oldest' = 0
    <3>1. CASE frame_index = numFrames - 1
      BY <1>2, <3>1 DEF Oldest
    <3>2. CASE frame_index # numFrames - 1
      <4>1. frame_index + 1 \in Frame
        BY <1>1, <3>2 DEF Frame
      <4>2. frameTable[frame_index + 1] = FREE
        BY <1>1, <2>2, <4>1 DEF Frame
      <4>3. frameTable'[frame_index + 1] = FREE
        BY <1>1, <2>4, <4>1, <4>2 DEF MmuInv, MmuTypeOK, Frame
      <4> QED
        BY <4>1, <4>3 DEF Oldest, Full, InMemory
    <3> QED
      BY <3>1, <3>2
  <2>7. First!MapPage(frame_index)
    BY <1>1, <2>1, SameMapPage
  <2> QED
    BY <1>1, <2>1, <2>3, <2>5, <2>6, <2>7
    DEF First!UseFirstFree, Faulting, First!Faulting, Frame, First!Frame, FREE, First!FREE
<1>4. ASSUME Spare PROVE First!Spare
  <2>1. Faulting /\ frameTable[frame_index] # FREE /\ frameTable' = frameTable
    BY <1>4 DEF Spare
  <2>2. Oldest = frame_index /\ First!NoneFree
    BY <2>1, FullHand
  <2>3. Full
    BY <2>2 DEF Full, InMemory, First!NoneFree, First!Frame, First!FREE, Frame, FREE
  <2>4. Oldest' = frame_index'
    BY <2>1, <2>3 DEF Oldest, Full, InMemory
  <2> QED
    BY <1>4, <2>2, <2>4 DEF Spare, First!Spare, Faulting, First!Faulting, Advance,
                            First!Advance, statistics, First!statistics
<1>5. ASSUME Evict PROVE First!Evict
  <2>1. Faulting /\ MapPage(frame_index) /\ frameTable[frame_index] # FREE
    BY <1>5 DEF Evict
  <2>2. Oldest = frame_index /\ First!NoneFree
    BY <2>1, FullHand
  <2>3. \A f \in Frame : frameTable[f] # FREE
    BY <2>2 DEF First!NoneFree, First!Frame, First!FREE, Frame, FREE
  <2>4. page # FREE /\ frameTable' = [frameTable EXCEPT ![frame_index] = page]
    BY <1>1, <2>1, MapPageAgrees
  <2>5. \A f \in Frame : frameTable'[f] # FREE
    BY <2>3, <2>4 DEF MmuInv, MmuTypeOK
  <2>6. Oldest' = frame_index'
    BY <2>5 DEF Oldest, Full, InMemory
  <2>7. First!MapPage(frame_index)
    BY <1>1, <2>1, SameMapPage
  <2> QED
    BY <1>5, <2>1, <2>2, <2>6, <2>7 DEF Evict, First!Evict, First!Faulting, Faulting,
                                        Advance, First!Advance
<1> QED
  BY <1>3, <1>4, <1>5 DEF os_handle_pagefault, First!os_handle_pagefault

(* mmu.c, which has no separate search for a free frame, gives every page   *)
(* the frame its first version gives it, for every size of the memory.      *)
THEOREM SameAsFirstVersion == Spec => ImplementsFirstVersion
<1>1. Init => First!Init
  BY DEF Init, First!Init, Oldest, Page, First!Page, Frame, First!Frame, NullPages,
         First!NullPages, NOT_VALID, First!NOT_VALID, NOT_MAPPED, First!NOT_MAPPED,
         FREE, First!FREE
<1>2. MmuInv /\ Next => First!Next
  BY FirstAccess, FirstFault DEF Next, First!Next
<1>3. UNCHANGED mmuVars => UNCHANGED First!mmuVars
  BY OldestSame DEF mmuVars, First!mmuVars, tables, First!tables, statistics, First!statistics
<1>4. MmuInv /\ [Next]_mmuVars => [First!Next]_(First!mmuVars)
  BY <1>2, <1>3
<1> QED
  BY <1>1, <1>4, MmuInvAlways, PTL DEF Spec, First!Spec, ImplementsFirstVersion

-----------------------------------------------------------------------------
(* The statistics, and the frames in memory. *)
LEMMA MemoryFinite ==
  /\ IsFiniteSet(Frame) /\ Cardinality(Frame) = numFrames
  /\ IsFiniteSet(InMemory) /\ Cardinality(InMemory) \in Nat
<1>1. IsFiniteSet(Frame) /\ Cardinality(Frame) = numFrames
  BY MmuAssumption, FS_Interval DEF Frame
<1>2. InMemory \in SUBSET Frame
  BY DEF InMemory
<1>3. IsFiniteSet(InMemory)
  BY <1>1, <1>2, FS_Subset
<1> QED BY <1>1, <1>3, FS_CardinalityType

(* A fault that takes a free frame adds it, one that evicts adds none. *)
LEMMA MemoryAfter ==
  ASSUME MmuInv, Faulting, MapPage(frame_index)
  PROVE  InMemory' = InMemory \cup {frame_index}
<1>1. frame_index \in Frame /\ frameTable \in [Frame -> Page \cup {FREE}]
  BY DEF MmuInv, MmuTypeOK
<1>2. frameTable' = [frameTable EXCEPT ![frame_index] = page] /\ page # FREE
  BY <1>1, MapPageAgrees
<1> QED BY <1>1, <1>2 DEF InMemory

LEMMA StatisticsStep ==
  ASSUME MmuInv, StatisticsAgree, Next
  PROVE  StatisticsAgree'
<1> DEFINE inMemory == Cardinality(InMemory)
<1>1. inMemory \in Nat
  BY MemoryFinite
<1>2. pagefaults \in Nat /\ swapouts \in Nat /\ frame_index \in Frame
  BY DEF MmuInv, MmuTypeOK
<1>3. pagefaults = swapouts + inMemory + (IF Faulting THEN 1 ELSE 0)
  BY DEF StatisticsAgree
<1> HIDE DEF inMemory
<1>4. CASE Access
  <2>1. InMemory' = InMemory /\ inMemory' = inMemory
    BY <1>4 DEF Access, InvalidPage, Hit, PageFault, EndOfTrace, tables, InMemory, inMemory
  <2>2. /\ swapouts' = swapouts /\ ~Faulting
        /\ \/ pagefaults' = pagefaults /\ ~Faulting'
           \/ pagefaults' = pagefaults + 1 /\ Faulting'
    BY <1>4 DEF Access, InvalidPage, Hit, PageFault, EndOfTrace, Reads, Faulting, statistics
  <2>3. pagefaults' = swapouts' + inMemory' + (IF Faulting' THEN 1 ELSE 0)
    BY <1>1, <1>2, <1>3, <2>1, <2>2
  <2> QED BY <2>3 DEF StatisticsAgree, inMemory
<1>5. CASE Spare
  <2>1. InMemory' = InMemory /\ inMemory' = inMemory
    BY <1>5 DEF Spare, InMemory, inMemory
  <2>2. swapouts' = swapouts /\ pagefaults' = pagefaults /\ Faulting' = Faulting
    BY <1>5 DEF Spare, Faulting, statistics
  <2> QED BY <1>3, <2>1, <2>2 DEF StatisticsAgree, inMemory
<1>6. CASE UseFree \/ Evict
  <2>1. Faulting /\ MapPage(frame_index)
    BY <1>6 DEF UseFree, Evict
  <2>2. InMemory' = InMemory \cup {frame_index}
    BY <2>1, MemoryAfter
  <2>3. inMemory' = IF frame_index \in InMemory THEN inMemory ELSE inMemory + 1
    BY <2>2, MemoryFinite, FS_AddElement DEF inMemory
  <2>4. /\ pagefaults' = pagefaults /\ ~Faulting'
        /\ swapouts' = swapouts + (IF frame_index \in InMemory THEN 1 ELSE 0)
    BY <1>2, <2>1 DEF MapPage, Faulting, InMemory
  <2>5. pagefaults' = swapouts' + inMemory' + (IF Faulting' THEN 1 ELSE 0)
    BY <1>1, <1>2, <1>3, <2>1, <2>3, <2>4
  <2> QED BY <2>5 DEF StatisticsAgree, inMemory
<1> QED BY <1>4, <1>5, <1>6 DEF Next, os_handle_pagefault

(* The numbers mmu.c prints fit together: every page fault brought a page   *)
(* in, and every page that is not in memory any more was a swapout.         *)
THEOREM StatisticsFit == Spec => []StatisticsAgree
<1>1. Init => StatisticsAgree
  <2> SUFFICES ASSUME Init PROVE StatisticsAgree
    OBVIOUS
  <2>1. InMemory = {} /\ ~Faulting /\ pagefaults = 0 /\ swapouts = 0
    BY DEF Init, InMemory, Faulting
  <2> QED BY <2>1, FS_EmptySet DEF StatisticsAgree
<1>2. MmuInv /\ StatisticsAgree /\ [Next]_mmuVars => StatisticsAgree'
  <2>1. StatisticsAgree /\ UNCHANGED mmuVars => StatisticsAgree'
    BY DEF StatisticsAgree, InMemory, Faulting, mmuVars, tables, statistics
  <2> QED BY <2>1, StatisticsStep
<1> QED BY <1>1, <1>2, MmuInvAlways, PTL DEF Spec

-----------------------------------------------------------------------------
(* FIFO with second chance.  The frames from the hand on are the queue.     *)
QueueNow == [k \in 1 .. Cardinality(InMemory) |-> frameTable[(Oldest + k - 1) % numFrames]]

ReferencedNow == {frameTable[f] : f \in {g \in Frame : access[g] = 1}}

(* Only pages in memory are accessed. *)
AccessedUsed == \A f \in Frame : access[f] = 1 => frameTable[f] # FREE

ChanceInv == MmuInv /\ AccessedUsed

LEMMA AccessedUsedStep ==
  ASSUME ChanceInv, Next
  PROVE  AccessedUsed'
<1>1. /\ frame_index \in Frame /\ frameTable \in [Frame -> Page \cup {FREE}]
      /\ access \in [Frame -> {0, 1}] /\ pageTable \in [Page -> Frame \cup {NOT_MAPPED, NOT_VALID}]
      /\ TablesAgree /\ AccessedUsed
  BY DEF ChanceInv, MmuInv, MmuTypeOK
<1>2. CASE UNCHANGED <<frameTable, access>>
  BY <1>1, <1>2 DEF AccessedUsed
<1>3. ASSUME NEW p \in Page, Hit(p) PROVE AccessedUsed'
  <2>1. pageTable[p] \in Frame /\ frameTable' = frameTable
        /\ access' = [access EXCEPT ![pageTable[p]] = 1]
    BY <1>1, <1>3 DEF Hit
  <2>2. frameTable[pageTable[p]] = p /\ p # FREE
    BY <1>1, <2>1 DEF TablesAgree, Page, FREE
  <2> QED BY <1>1, <2>1, <2>2 DEF AccessedUsed
<1>4. CASE UseFree \/ Evict
  <2>1. Faulting /\ MapPage(frame_index) /\ MmuInv
    BY <1>4 DEF UseFree, Evict, ChanceInv
  <2>2. /\ frameTable' = [frameTable EXCEPT ![frame_index] = page] /\ page # FREE
        /\ access' = [access EXCEPT ![frame_index] = 0]
    BY <1>1, <2>1, MapPageAgrees DEF MapPage
  <2> QED BY <1>1, <2>2 DEF AccessedUsed
<1>5. CASE Spare
  BY <1>1, <1>5 DEF Spare, AccessedUsed
<1>6. Access => UNCHANGED <<frameTable, access>> \/ \E p \in Page : Hit(p)
  BY DEF Access, InvalidPage, PageFault, EndOfTrace, tables
<1> QED BY <1>2, <1>3, <1>4, <1>5, <1>6 DEF Next, os_handle_pagefault

LEMMA ChanceInvAlways == Spec => []ChanceInv
<1>1. Init => ChanceInv
  <2>1. Init => AccessedUsed
    BY DEF Init, AccessedUsed
  <2> QED BY <2>1, MmuInvInit DEF ChanceInv
<1>2. ChanceInv /\ [Next]_mmuVars => ChanceInv'
  <2>1. ChanceInv /\ Next => ChanceInv'
    BY AccessedUsedStep, MmuInvAccess, MmuInvFault DEF ChanceInv, Next
  <2>2. MmuInv /\ UNCHANGED mmuVars => MmuInv'
    BY DEF MmuInv, MmuTypeOK, TablesAgree, HandAtFree, Faulting, mmuVars, tables, statistics
  <2>3. AccessedUsed /\ UNCHANGED mmuVars => AccessedUsed'
    BY DEF AccessedUsed, mmuVars, tables
  <2> QED BY <2>1, <2>2, <2>3 DEF ChanceInv
<1> QED BY <1>1, <1>2, PTL DEF Spec

(* Indices of the ring of frames. *)
LEMMA RoundOnce ==
  ASSUME NEW i \in Nat, i < 2 * numFrames
  PROVE  /\ i % numFrames = IF i < numFrames THEN i ELSE i - numFrames
         /\ i % numFrames \in Frame
<1>1. numFrames \in Nat \ {0}
  BY MmuAssumption
<1>2. CASE i < numFrames
  BY <1>1, <1>2 DEF Frame
<1>3. CASE i >= numFrames
  <2>1. i - numFrames \in 0 .. numFrames - 1
    BY <1>1, <1>3
  <2>2. i = 1 * numFrames + (i - numFrames)
    BY <1>1
  <2>3. i % numFrames = i - numFrames
    BY <1>1, <2>1, <2>2
  <2> QED BY <1>1, <1>3, <2>1, <2>3 DEF Frame
<1> QED BY <1>1, <1>2, <1>3

(* While a frame is free the used ones are those below the hand. *)
LEMMA QueueFilling ==
  ASSUME MmuInv, frameTable[frame_index] = FREE
  PROVE  /\ InMemory = 0 .. frame_index - 1 /\ Cardinality(InMemory) = frame_index
         /\ QueueNow = [k \in 1 .. frame_index |-> frameTable[k - 1]]
<1>1. frame_index \in Frame /\ frame_index \in Nat /\ frame_index < numFrames
  BY MmuAssumption DEF MmuInv, MmuTypeOK, Frame
<1>2. \A g \in Frame : frameTable[g] # FREE <=> g < frame_index
  BY <1>1 DEF MmuInv, HandAtFree
<1>3. InMemory = 0 .. frame_index - 1
  BY <1>1, <1>2, MmuAssumption DEF InMemory, Frame
<1>4. Cardinality(InMemory) = frame_index
  BY <1>1, <1>3, FS_Interval
<1>5. Oldest = 0
  BY <1>1 DEF Oldest, Full, InMemory
<1>6. \A k \in 1 .. frame_index : (0 + k - 1) % numFrames = k - 1
  BY <1>1, MmuAssumption
<1> QED BY <1>3, <1>4, <1>5, <1>6 DEF QueueNow

(* When none is the queue goes round from the hand. *)
LEMMA QueueFull ==
  ASSUME MmuInv, Full
  PROVE  /\ Cardinality(InMemory) = numFrames
         /\ QueueNow = [k \in 1 .. numFrames |-> frameTable[(frame_index + k - 1) % numFrames]]
<1>1. Cardinality(InMemory) = numFrames
  BY MemoryFinite DEF Full
<1>2. Oldest = frame_index
  BY DEF Oldest
<1> QED BY <1>1, <1>2 DEF QueueNow

LEMMA FullOrNot ==
  ASSUME MmuInv
  PROVE  Full <=> frameTable[frame_index] # FREE
<1>1. frame_index \in Frame
  BY DEF MmuInv, MmuTypeOK
<1>2. frameTable[frame_index] # FREE => \A f \in Frame : frameTable[f] # FREE
  BY <1>1 DEF MmuInv, HandAtFree, Frame
<1> QED BY <1>1, <1>2 DEF Full, InMemory

(* The pages in the queue are those that are mapped. *)
LEMMA InQueue ==
  ASSUME MmuInv, NEW p \in Page
  PROVE  p \in {QueueNow[k] : k \in 1 .. Len(QueueNow)} <=> pageTable[p] \in Frame
<1>1. /\ frame_index \in Frame /\ frameTable \in [Frame -> Page \cup {FREE}]
      /\ frame_index \in Nat /\ frame_index < numFrames /\ numFrames \in Nat \ {0}
  BY MmuAssumption DEF MmuInv, MmuTypeOK, Frame
<1>2. pageTable[p] \in Frame <=> \E f \in Frame : frameTable[f] = p
  BY DEF MmuInv, TablesAgree, Page, FREE
<1> DEFINE n == Cardinality(InMemory)
<1>3. Len(QueueNow) = n /\ DOMAIN QueueNow = 1 .. n
  BY MemoryFinite DEF QueueNow
<1>4. CASE frameTable[frame_index] = FREE
  <2>1. n = frame_index /\ QueueNow = [k \in 1 .. frame_index |-> frameTable[k - 1]]
    BY <1>4, QueueFilling
  <2>2. \A f \in Frame : frameTable[f] = p => f + 1 \in 1 .. frame_index
    <3>1. \A f \in Frame : frameTable[f] # FREE <=> f < frame_index
      BY <1>1, <1>4 DEF MmuInv, HandAtFree
    <3>2. p # FREE
      BY DEF Page, FREE
    <3> QED BY <1>1, <3>1, <3>2 DEF Frame
  <2>3. \A k \in 1 .. frame_index : k - 1 \in Frame
    BY <1>1 DEF Frame
  <2>4. \A f \in Frame : (f + 1) - 1 = f
    BY DEF Frame
  <2> HIDE DEF n
  <2>5. ASSUME NEW f \in Frame, frameTable[f] = p
        PROVE  \E k \in 1 .. frame_index : QueueNow[k] = p
    <3>1. f + 1 \in 1 .. frame_index /\ (f + 1) - 1 = f
      BY <2>2, <2>4, <2>5
    <3>2. QueueNow[f + 1] = p
      BY <2>1, <2>5, <3>1
    <3> QED BY <3>1, <3>2
  <2>6. ASSUME NEW k \in 1 .. frame_index, QueueNow[k] = p
        PROVE  \E f \in Frame : frameTable[f] = p
    BY <2>1, <2>3, <2>6
  <2> QED BY <1>2, <1>3, <2>1, <2>5, <2>6
<1>5. CASE frameTable[frame_index] # FREE
  <2>1. /\ n = numFrames
        /\ QueueNow = [k \in 1 .. numFrames |-> frameTable[(frame_index + k - 1) % numFrames]]
    BY <1>5, FullOrNot, QueueFull
  <2> HIDE DEF n
  <2>2. ASSUME NEW k \in 1 .. numFrames
        PROVE  (frame_index + k - 1) % numFrames \in Frame
    <3>1. frame_index + k - 1 \in Nat /\ frame_index + k - 1 < 2 * numFrames
      BY <1>1
    <3> QED BY <3>1, RoundOnce
  <2>3. ASSUME NEW f \in Frame, frameTable[f] = p
        PROVE  \E k \in 1 .. numFrames : QueueNow[k] = p
    <3> DEFINE k == IF f >= frame_index THEN f - frame_index + 1
                    ELSE f + numFrames - frame_index + 1
    <3>1. f \in Nat /\ f < numFrames
      BY <1>1 DEF Frame
    <3>2. k \in 1 .. numFrames /\ frame_index + k - 1 = (IF f >= frame_index THEN f ELSE f + numFrames)
      BY <1>1, <3>1
    <3> HIDE DEF k
    <3>3. frame_index + k - 1 \in Nat /\ frame_index + k - 1 < 2 * numFrames
      BY <1>1, <3>1, <3>2
    <3>4. (frame_index + k - 1) % numFrames = f
      BY <1>1, <3>1, <3>2, <3>3, RoundOnce
    <3>5. QueueNow[k] = p
      BY <2>1, <2>3, <3>2, <3>4
    <3> QED BY <3>2, <3>5
  <2>4. ASSUME NEW k \in 1 .. numFrames, QueueNow[k] = p
        PROVE  \E f \in Frame : frameTable[f] = p
    BY <2>1, <2>2, <2>4
  <2> QED BY <1>2, <1>3, <2>1, <2>3, <2>4
<1> QED BY <1>4, <1>5

(* A fault changes the queue at its ends only. *)
LEMMA QueueLoads ==
  ASSUME ChanceInv, UseFree
  PROVE  /\ Len(QueueNow) < numFrames /\ QueueNow' = Append(QueueNow, page)
         /\ ReferencedNow' = ReferencedNow
<1> DEFINE fi == frame_index
<1>1. /\ MmuInv /\ AccessedUsed /\ Faulting /\ MapPage(fi) /\ frameTable[fi] = FREE
  BY DEF ChanceInv, UseFree
<1>2. /\ fi \in Frame /\ frameTable \in [Frame -> Page \cup {FREE}] /\ access \in [Frame -> {0, 1}]
      /\ fi \in Nat /\ fi < numFrames /\ numFrames \in Nat \ {0} /\ page \in Page
  BY <1>1, MmuAssumption DEF MmuInv, MmuTypeOK, Frame
<1>3. /\ frameTable' = [frameTable EXCEPT ![fi] = page] /\ page # FREE
      /\ access' = [access EXCEPT ![fi] = 0]
  BY <1>1, <1>2, MapPageAgrees DEF MapPage
<1>4. /\ InMemory = 0 .. fi - 1 /\ QueueNow = [k \in 1 .. fi |-> frameTable[k - 1]]
  BY <1>1, QueueFilling
<1>5. InMemory' = 0 .. fi
  <2>1. InMemory' = InMemory \cup {fi}
    BY <1>1, MemoryAfter
  <2> HIDE DEF fi
  <2> QED BY <1>2, <1>4, <2>1
<1>6. Cardinality(InMemory') = fi + 1
  BY <1>2, <1>5, FS_Interval
<1>7. fi' = (fi + 1) % numFrames
  BY DEF UseFree, Advance
<1>8. Oldest' = 0
  <2>1. CASE fi = numFrames - 1
    BY <1>2, <1>7, <2>1, HandStep DEF Oldest
  <2>2. CASE fi # numFrames - 1
    <3>1. fi + 1 \in Frame /\ fi + 1 \notin InMemory'
      BY <1>2, <1>5, <2>2 DEF Frame
    <3> QED BY <3>1 DEF Oldest, Full, Frame
  <2> QED BY <2>1, <2>2
<1> HIDE DEF fi
<1>9. QueueNow' = [k \in 1 .. fi + 1 |-> frameTable'[(0 + k - 1) % numFrames]]
  BY <1>6, <1>8 DEF QueueNow
<1>10. \A k \in 1 .. fi + 1 : (0 + k - 1) % numFrames = k - 1
  BY <1>2
<1>11. QueueNow' = [k \in 1 .. fi + 1 |-> frameTable'[k - 1]]
  BY <1>9, <1>10
<1>12. QueueNow \in Seq(Page \cup {FREE}) /\ Len(QueueNow) = fi
  <2>1. \A k \in 1 .. fi : frameTable[k - 1] \in Page \cup {FREE}
    BY <1>2 DEF Frame
  <2>2. QueueNow \in [1 .. fi -> Page \cup {FREE}]
    BY <1>4, <2>1
  <2> QED BY <1>2, <1>4, <2>2
<1>13. page \in Page \cup {FREE}
  BY <1>2
<1>14. \A k \in 1 .. fi + 1 : frameTable'[k - 1] = IF k = fi + 1 THEN page ELSE QueueNow[k]
  <2> TAKE k \in 1 .. fi + 1
  <2>1. CASE k = fi + 1
    BY <1>2, <1>3, <2>1
  <2>2. CASE k # fi + 1
    <3>1. k \in 1 .. fi /\ k - 1 \in Frame /\ k - 1 # fi
      BY <1>2, <2>2 DEF Frame
    <3> QED BY <1>2, <1>3, <1>4, <2>2, <3>1
  <2> QED BY <2>1, <2>2
<1>15. QueueNow' = Append(QueueNow, page)
  <2> DEFINE S == Page \cup {FREE}
             a == Append(QueueNow, page)
  <2> HIDE DEF S
  <2>1. QueueNow \in Seq(S) /\ page \in S
    BY <1>12, <1>13 DEF S
  <2>2. /\ a \in Seq(S) /\ Len(a) = fi + 1
        /\ \A k \in 1 .. fi : a[k] = QueueNow[k]
        /\ a[fi + 1] = page
    BY <1>12, <2>1, AppendProperties
  <2> HIDE DEF a
  <2>3. \A k \in 1 .. fi + 1 : frameTable'[k - 1] = a[k]
    BY <1>2, <1>14, <2>2
  <2>4. \A k \in 1 .. fi + 1 : a[k] \in S
    BY <2>2
  <2>5. QueueNow' \in Seq(S) /\ Len(QueueNow') = fi + 1
    <3>1. QueueNow' \in [1 .. fi + 1 -> S]
      BY <1>11, <2>3, <2>4
    <3> QED BY <1>2, <1>11, <3>1
  <2>6. \A k \in 1 .. fi + 1 : QueueNow'[k] = a[k]
    BY <1>11, <2>3
  <2>7. QueueNow' = a
    BY <2>2, <2>5, <2>6, SeqEqual
  <2> QED BY <2>7 DEF a
<1>16. ReferencedNow' = ReferencedNow
  <2>1. access[fi] # 1
    BY <1>1, <1>2 DEF AccessedUsed, fi
  <2>2. \A g \in Frame : access'[g] = 1 <=> access[g] = 1
    BY <1>2, <1>3, <2>1
  <2>3. \A g \in Frame : access[g] = 1 => frameTable'[g] = frameTable[g]
    BY <1>2, <1>3, <2>1
  <2> QED BY <2>2, <2>3 DEF ReferencedNow
<1> QED BY <1>2, <1>12, <1>15, <1>16

(* The ring after the hand has moved by one. *)
LEMMA QueueTurns ==
  ASSUME MmuInv, Full, Full', Advance, NEW last,
         frameTable' \in [Frame -> Page \cup {FREE}],
         frameTable'[frame_index] = last,
         \A f \in Frame : f # frame_index => frameTable'[f] = frameTable[f]
  PROVE  /\ Len(QueueNow) = numFrames
         /\ Head(QueueNow) = frameTable[frame_index]
         /\ QueueNow' = Append(Tail(QueueNow), last)
<1> DEFINE fi == frame_index
           next == (fi + 1) % numFrames
<1>1. /\ fi \in Frame /\ frameTable \in [Frame -> Page \cup {FREE}]
      /\ fi \in Nat /\ fi < numFrames /\ numFrames \in Nat \ {0}
  BY MmuAssumption DEF MmuInv, MmuTypeOK, Frame
<1>2. next \in Frame /\ next = IF fi = numFrames - 1 THEN 0 ELSE fi + 1
  BY <1>1, HandStep
<1>3. fi' = next
  BY DEF Advance
<1>4. QueueNow = [k \in 1 .. numFrames |-> frameTable[(fi + k - 1) % numFrames]]
  BY QueueFull
<1>5. QueueNow' = [k \in 1 .. numFrames |-> frameTable'[(next + k - 1) % numFrames]]
  <2>1. InMemory' = Frame /\ Oldest' = next
    BY <1>3 DEF Full, Oldest
  <2>2. Cardinality(InMemory') = numFrames
    BY <2>1, MemoryFinite
  <2> HIDE DEF next
  <2> QED BY <2>1, <2>2 DEF QueueNow
<1> HIDE DEF fi, next
<1>6. \A k \in 1 .. numFrames : (fi + k - 1) % numFrames \in Frame
  <2> TAKE k \in 1 .. numFrames
  <2>1. fi + k - 1 \in Nat /\ fi + k - 1 < 2 * numFrames
    BY <1>1
  <2> QED BY <2>1, RoundOnce
<1>7. QueueNow \in Seq(Page \cup {FREE}) /\ Len(QueueNow) = numFrames
  <2>1. QueueNow \in [1 .. numFrames -> Page \cup {FREE}]
    BY <1>1, <1>4, <1>6
  <2> QED BY <1>1, <1>4, <2>1
<1>8. Head(QueueNow) = frameTable[fi]
  <2>1. (fi + 1 - 1) % numFrames = fi
    BY <1>1
  <2>2. Head(QueueNow) = QueueNow[1]
    BY <1>1, <1>7
  <2> QED BY <1>1, <1>4, <2>1, <2>2
<1> DEFINE turned == Append(Tail(QueueNow), last)
           S == Page \cup {FREE}
<1>9. /\ turned \in Seq(S) /\ Len(turned) = numFrames
      /\ \A k \in 1 .. numFrames : turned[k] = IF k = numFrames THEN last ELSE QueueNow[k + 1]
  <2>1. QueueNow # <<>>
    BY <1>1, <1>7
  <2>2. last \in S
    BY <1>1 DEF fi
  <2>3. QueueNow \in Seq(S)
    BY <1>7
  <2> HIDE DEF S
  <2> DEFINE rest == Tail(QueueNow)
  <2>4. /\ rest \in Seq(S) /\ Len(rest) = numFrames - 1
        /\ \A k \in 1 .. Len(rest) : rest[k] = QueueNow[k + 1]
    BY <1>7, <2>1, <2>3, HeadTailProperties
  <2>5. /\ turned \in Seq(S) /\ Len(turned) = Len(rest) + 1
        /\ \A k \in 1 .. Len(rest) : turned[k] = rest[k]
        /\ turned[Len(rest) + 1] = last
    BY <2>2, <2>4, AppendProperties
  <2> HIDE DEF turned, rest
  <2> QED BY <1>1, <2>4, <2>5
<1>10. \A k \in 1 .. numFrames :
         frameTable'[(next + k - 1) % numFrames] = IF k = numFrames THEN last ELSE QueueNow[k + 1]
  <2> TAKE k \in 1 .. numFrames
  <2>1. next \in Nat /\ next + k - 1 \in Nat /\ next + k - 1 < 2 * numFrames
    BY <1>1, <1>2 DEF Frame
  <2>2. (next + k - 1) % numFrames = IF next + k - 1 < numFrames THEN next + k - 1
                                     ELSE next + k - 1 - numFrames
    <3>1. PICK i \in Nat : i = next + k - 1
      BY <2>1
    <3>2. i % numFrames = IF i < numFrames THEN i ELSE i - numFrames
      BY <2>1, <3>1, RoundOnce
    <3> QED BY <1>1, <2>1, <3>1, <3>2
  <2>3. CASE k = numFrames
    <3>1. (next + k - 1) % numFrames = fi
      BY <1>1, <1>2, <2>1, <2>2, <2>3
    <3> QED BY <2>3, <3>1 DEF fi
  <2>4. CASE k # numFrames
    <3>1. k + 1 \in 1 .. numFrames /\ fi + (k + 1) - 1 \in Nat /\ fi + (k + 1) - 1 < 2 * numFrames
      BY <1>1, <2>4
    <3>2. (fi + (k + 1) - 1) % numFrames = IF fi + (k + 1) - 1 < numFrames THEN fi + (k + 1) - 1
                                           ELSE fi + (k + 1) - 1 - numFrames
      <4>1. PICK i \in Nat : i = fi + (k + 1) - 1
        BY <3>1
      <4>2. i % numFrames = IF i < numFrames THEN i ELSE i - numFrames
        BY <3>1, <4>1, RoundOnce
      <4> QED BY <1>1, <3>1, <4>1, <4>2
    <3>3. (fi + (k + 1) - 1) % numFrames = (next + k - 1) % numFrames
      BY <1>1, <1>2, <2>1, <2>2, <3>1, <3>2
    <3>4. (fi + (k + 1) - 1) % numFrames # fi /\ (fi + (k + 1) - 1) % numFrames \in Frame
      <4>1. (fi + (k + 1) - 1) % numFrames \in Frame
        BY <1>6, <3>1
      <4>2. (fi + (k + 1) - 1) % numFrames # fi
        BY <1>1, <2>4, <3>1, <3>2
      <4> QED BY <1>1, <3>1, <4>1, <4>2
    <3>5. QueueNow[k + 1] = frameTable[(fi + (k + 1) - 1) % numFrames]
      BY <1>4, <3>1
    <3>6. frameTable'[(fi + (k + 1) - 1) % numFrames] = frameTable[(fi + (k + 1) - 1) % numFrames]
      BY <3>4 DEF fi
    <3> QED BY <2>4, <3>3, <3>5, <3>6
  <2> QED BY <2>3, <2>4
<1>11. QueueNow' = turned
  <2> HIDE DEF turned, S
  <2>1. \A k \in 1 .. numFrames :
          frameTable'[(next + k - 1) % numFrames] = turned[k] /\ turned[k] \in S
    BY <1>9, <1>10
  <2>2. QueueNow' \in Seq(S) /\ Len(QueueNow') = numFrames
    <3>1. QueueNow' \in [1 .. numFrames -> S]
      BY <1>5, <2>1
    <3> QED BY <1>1, <1>5, <3>1
  <2>3. \A k \in 1 .. numFrames : QueueNow'[k] = turned[k]
    BY <1>5, <2>1
  <2> QED BY <1>9, <2>2, <2>3, SeqEqual
<1> QED BY <1>7, <1>8, <1>11 DEF turned, fi

(* Every step of mmu.c is one of FIFO with second chance. *)
WantedNow == IF Faulting THEN {page} ELSE {}
EndedNow  == pc = "done"

LEMMA ChanceStart == Init => Queue!Init
<1> SUFFICES ASSUME Init PROVE Queue!Init
  OBVIOUS
<1>1. InMemory = {}
  BY DEF Init, InMemory
<1>2. Cardinality(InMemory) = 0
  BY <1>1, FS_EmptySet
<1>3. QueueNow = <<>>
  BY <1>2 DEF QueueNow
<1>4. ReferencedNow = {}
  BY DEF Init, ReferencedNow
<1>5. WantedNow = {} /\ ~EndedNow
  BY DEF Init, WantedNow, EndedNow, Faulting
<1> QED BY <1>3, <1>4, <1>5 DEF Queue!Init, QueueNow, ReferencedNow, WantedNow, EndedNow

LEMMA ChanceAccess ==
  ASSUME ChanceInv, Access
  PROVE  Queue!Next
<1>1. /\ MmuInv /\ frameTable \in [Frame -> Page \cup {FREE}] /\ access \in [Frame -> {0, 1}]
      /\ pageTable \in [Page -> Frame \cup {NOT_MAPPED, NOT_VALID}]
  BY DEF ChanceInv, MmuInv, MmuTypeOK
<1>2. frameTable' = frameTable /\ frame_index' = frame_index
  BY DEF Access, InvalidPage, Hit, PageFault, EndOfTrace, tables
<1>3. QueueNow' = QueueNow
  BY <1>2 DEF QueueNow, InMemory, Oldest, Full
<1>4. pc = "run" /\ WantedNow = {} /\ ~EndedNow
  BY DEF Access, InvalidPage, Hit, PageFault, EndOfTrace, Reads, WantedNow, EndedNow, Faulting
<1>5. ASSUME access' = access, pc' = "done" PROVE Queue!End
  <2>1. ReferencedNow' = ReferencedNow /\ WantedNow' = WantedNow /\ EndedNow'
    BY <1>2, <1>4, <1>5 DEF ReferencedNow, WantedNow, EndedNow, Faulting
  <2> QED BY <1>3, <1>4, <2>1 DEF Queue!End, Queue!Ready, QueueNow, ReferencedNow, WantedNow,
                                  EndedNow
<1>6. ASSUME NEW p \in Page, Hit(p)
      PROVE  p \in Page \ NullPages /\ Queue!Reference(p)
  <2>1. pageTable[p] \in Frame /\ pc' = pc
        /\ access' = [access EXCEPT ![pageTable[p]] = 1]
    BY <1>1, <1>6 DEF Hit
  <2>2. p \notin NullPages
    BY <1>1, <1>6 DEF MmuInv, Hit
  <2>3. p \in {QueueNow[k] : k \in 1 .. Len(QueueNow)}
    BY <1>1, <2>1, InQueue
  <2>4. frameTable[pageTable[p]] = p
    BY <1>1, <2>1 DEF MmuInv, TablesAgree
  <2>5. ReferencedNow' = ReferencedNow \cup {p}
    BY <1>1, <1>2, <2>1, <2>4 DEF ReferencedNow
  <2>6. WantedNow' = WantedNow /\ EndedNow' = EndedNow
    BY <1>4, <2>1 DEF WantedNow, EndedNow, Faulting
  <2>7. Queue!Reference(p)
    BY <1>3, <1>4, <2>3, <2>5, <2>6
    DEF Queue!Reference, Queue!Ready, Queue!Resident, QueueNow, ReferencedNow, WantedNow, EndedNow
  <2> QED BY <2>2, <2>7
<1>7. ASSUME NEW p \in Page, PageFault(p)
      PROVE  p \in Page \ NullPages /\ Queue!Fault(p)
  <2>1. /\ pageTable[p] = NOT_MAPPED /\ pageTable[p] \notin Frame /\ NOT_MAPPED # NOT_VALID
        /\ access' = access /\ page' = p /\ pc' = "fault"
    BY <1>7 DEF PageFault, NOT_MAPPED, NOT_VALID, Frame, tables
  <2>2. p \notin NullPages
    BY <1>1, <2>1 DEF MmuInv
  <2>3. p \notin {QueueNow[k] : k \in 1 .. Len(QueueNow)}
    BY <1>1, <2>1, InQueue
  <2>4. ReferencedNow' = ReferencedNow
    BY <1>2, <2>1 DEF ReferencedNow
  <2>5. WantedNow' = {p} /\ EndedNow' = EndedNow
    BY <1>4, <2>1 DEF WantedNow, EndedNow, Faulting
  <2>6. Queue!Fault(p)
    BY <1>3, <1>4, <2>3, <2>4, <2>5
    DEF Queue!Fault, Queue!Ready, Queue!Resident, QueueNow, ReferencedNow, WantedNow, EndedNow
  <2> QED BY <2>2, <2>6
<1>8. Access => \/ access' = access /\ pc' = "done"
                \/ \E p \in Page : Hit(p) \/ PageFault(p)
  BY DEF Access, InvalidPage, EndOfTrace, tables
<1> QED BY <1>5, <1>6, <1>7, <1>8 DEF Queue!Next

LEMMA ChanceFault ==
  ASSUME ChanceInv, os_handle_pagefault
  PROVE  Queue!Next
<1> DEFINE fi == frame_index
<1>1. /\ MmuInv /\ AccessedUsed /\ fi \in Frame /\ frameTable \in [Frame -> Page \cup {FREE}]
      /\ access \in [Frame -> {0, 1}] /\ page \in Page
  BY DEF ChanceInv, MmuInv, MmuTypeOK
<1>2. Faulting /\ pc = "fault" /\ WantedNow = {page} /\ ~EndedNow
  BY DEF os_handle_pagefault, UseFree, Spare, Evict, Faulting, WantedNow, EndedNow
<1>3. ASSUME MapPage(fi) PROVE WantedNow' = {} /\ EndedNow' = EndedNow
  BY <1>2, <1>3 DEF MapPage, WantedNow, EndedNow, Faulting
<1>4. CASE UseFree
  <2>1. /\ Len(QueueNow) < numFrames /\ QueueNow' = Append(QueueNow, page)
        /\ ReferencedNow' = ReferencedNow
    BY <1>4, QueueLoads
  <2>2. WantedNow' = {} /\ EndedNow' = EndedNow
    BY <1>3, <1>4 DEF UseFree
  <2>3. \E p \in WantedNow : QueueNow' = Append(QueueNow, p)
    BY <1>2, <2>1
  <2>4. Queue!Load
    BY <2>1, <2>2, <2>3 DEF Queue!Load, QueueNow, ReferencedNow, WantedNow, EndedNow
  <2> QED BY <2>4 DEF Queue!Next
<1>5. ASSUME frameTable[fi] # FREE
      PROVE  /\ Full
             /\ fi' = (fi + 1) % numFrames => Advance
             /\ frameTable[fi] \in Page
             /\ \A g \in Frame : frameTable[g] = frameTable[fi] => g = fi
  <2>1. Full
    BY <1>1, <1>5, FullOrNot
  <2>2. \A g \in Frame : frameTable[g] = frameTable[fi] => g = fi
    BY <1>1, <1>5 DEF MmuInv, TablesAgree
  <2> QED BY <1>1, <1>5, <2>1, <2>2 DEF Advance
<1>6. CASE Spare
  <2>1. /\ frameTable[fi] # FREE /\ access[fi] = 1 /\ access' = [access EXCEPT ![fi] = 0]
        /\ Advance /\ frameTable' = frameTable /\ pc' = pc /\ page' = page
    BY <1>6 DEF Spare
  <2>2. Full /\ Full'
    BY <1>5, <2>1 DEF Full, InMemory
  <2>3. /\ Len(QueueNow) = numFrames /\ Head(QueueNow) = frameTable[fi]
        /\ QueueNow' = Append(Tail(QueueNow), Head(QueueNow))
    <3>1. /\ Len(QueueNow) = numFrames
          /\ Head(QueueNow) = frameTable[frame_index]
          /\ QueueNow' = Append(Tail(QueueNow), frameTable[fi])
      BY <1>1, <2>1, <2>2, QueueTurns
    <3> QED BY <3>1
  <2>4. frameTable[fi] \in ReferencedNow
    BY <1>1, <2>1 DEF ReferencedNow
  <2>5. ReferencedNow' = ReferencedNow \ {frameTable[fi]}
    <3>1. \A g \in Frame : access'[g] = 1 <=> access[g] = 1 /\ g # fi
      BY <1>1, <2>1
    <3>2. \A g \in Frame : g # fi => frameTable[g] # frameTable[fi]
      BY <1>5, <2>1
    <3> QED BY <2>1, <3>1, <3>2 DEF ReferencedNow
  <2>6. WantedNow' = WantedNow /\ EndedNow' = EndedNow /\ WantedNow # {}
    BY <1>2, <2>1 DEF WantedNow, EndedNow, Faulting
  <2>7. Queue!Spare
    BY <2>3, <2>4, <2>5, <2>6 DEF Queue!Spare, QueueNow, ReferencedNow, WantedNow, EndedNow
  <2> QED BY <2>7 DEF Queue!Next
<1>7. CASE Evict
  <2>1. frameTable[fi] # FREE /\ access[fi] # 1 /\ MapPage(fi) /\ Advance
    BY <1>7 DEF Evict
  <2>2. /\ frameTable' = [frameTable EXCEPT ![fi] = page] /\ page # FREE
        /\ frameTable' \in [Frame -> Page \cup {FREE}]
        /\ access' = [access EXCEPT ![fi] = 0]
    BY <1>1, <1>2, <2>1, MapPageAgrees DEF MapPage
  <2>3. Full /\ Full'
    <3>1. Full
      BY <1>5, <2>1
    <3>2. \A f \in Frame : frameTable'[f] # FREE
      BY <1>1, <2>2, <3>1 DEF Full, InMemory
    <3> QED BY <3>1, <3>2 DEF Full, InMemory
  <2>4. /\ frameTable'[fi] = page
        /\ \A f \in Frame : f # fi => frameTable'[f] = frameTable[f]
    BY <1>1, <2>2
  <2>5. /\ Len(QueueNow) = numFrames /\ Head(QueueNow) = frameTable[fi]
        /\ QueueNow' = Append(Tail(QueueNow), page)
    BY <1>1, <2>1, <2>2, <2>3, <2>4, QueueTurns
  <2>6. frameTable[fi] \notin ReferencedNow
    BY <1>5, <2>1 DEF ReferencedNow
  <2>7. ReferencedNow' = ReferencedNow
    <3>1. \A g \in Frame : access'[g] = 1 <=> access[g] = 1
      BY <1>1, <2>1, <2>2
    <3>2. \A g \in Frame : access[g] = 1 => frameTable'[g] = frameTable[g]
      BY <2>1, <2>4
    <3> QED BY <3>1, <3>2 DEF ReferencedNow
  <2>8. WantedNow' = {} /\ EndedNow' = EndedNow
    BY <1>3, <2>1
  <2>9. \E p \in WantedNow : QueueNow' = Append(Tail(QueueNow), p)
    BY <1>2, <2>5
  <2>10. Queue!Replace
    BY <2>5, <2>6, <2>7, <2>8, <2>9
    DEF Queue!Replace, QueueNow, ReferencedNow, WantedNow, EndedNow
  <2> QED BY <2>10 DEF Queue!Next
<1> QED BY <1>4, <1>6, <1>7 DEF os_handle_pagefault

(* mmu.c replaces pages by FIFO with second chance, as its comment says:    *)
(* for every number of frames and pages, each of its steps is a step of     *)
(* SecondChance or changes nothing there.                                   *)
THEOREM FifoWithSecondChance == Spec => ImplementsSecondChance
<1>1. ChanceInv /\ Next => Queue!Next
  BY ChanceAccess, ChanceFault DEF Next
<1>2. UNCHANGED mmuVars => UNCHANGED Queue!vars
  <2> SUFFICES ASSUME UNCHANGED mmuVars PROVE UNCHANGED Queue!vars
    OBVIOUS
  <2>1. QueueNow' = QueueNow
    BY DEF QueueNow, InMemory, Oldest, Full, mmuVars, tables
  <2>2. ReferencedNow' = ReferencedNow /\ WantedNow' = WantedNow /\ EndedNow' = EndedNow
    BY DEF ReferencedNow, WantedNow, EndedNow, Faulting, mmuVars, tables
  <2> QED BY <2>1, <2>2 DEF Queue!vars, QueueNow, ReferencedNow, WantedNow, EndedNow
<1>3. ChanceInv /\ [Next]_mmuVars => [Queue!Next]_(Queue!vars)
  BY <1>1, <1>2
<1> QED BY <1>3, ChanceStart, ChanceInvAlways, PTL DEF Spec, Queue!Spec, ImplementsSecondChance
=============================================================================
