--------------------------------- MODULE Mmu ---------------------------------
(***************************************************************************)
(* mmu.c: a page fault looks at the frames from frame_index on until it    *)
(* meets one that is free or has not been accessed lately.                 *)
(***************************************************************************)
EXTENDS PageTables, FiniteSets

Faulting == pc = "fault"

(* Mutant: a free frame does not move the hand.                             *)
UseFreeInPlace ==
  /\ Faulting
  /\ frameTable[frame_index] = FREE
  /\ MapPage(frame_index)
  /\ frame_index' = IF frame_index = numFrames - 1 THEN frame_index ELSE frame_index + 1

(* Mutant: the page of a free frame is swapped out, too.                    *)
UseFreeSwapped ==
  /\ Faulting
  /\ frameTable[frame_index] = FREE
  /\ frameTable' = [frameTable EXCEPT ![frame_index] = page]
  /\ pageTable' = [pageTable EXCEPT ![page] = frame_index]
  /\ swapouts' = swapouts + 1
  /\ count' = count + 1
  /\ pc' = "run"
  /\ Advance
  /\ UNCHANGED <<access, pagefaults, page>>

UseFree ==
  /\ Faulting
  /\ frameTable[frame_index] = FREE
  /\ MapPage(frame_index)
  /\ Advance

(* Mutant: the access bit stays set.                                        *)
SpareForEver ==
  /\ Faulting
  /\ frameTable[frame_index] # FREE
  /\ access[frame_index] = 1
  /\ Advance
  /\ UNCHANGED <<pageTable, frameTable, access, statistics, pc, page>>

Spare ==
  /\ Faulting
  /\ frameTable[frame_index] # FREE
  /\ access[frame_index] = 1
  /\ access' = [access EXCEPT ![frame_index] = 0]
  /\ Advance
  /\ UNCHANGED <<pageTable, frameTable, statistics, pc, page>>

(* Mutant: the page that leaves is still mapped.                            *)
EvictMapped ==
  /\ Faulting
  /\ frameTable[frame_index] # FREE
  /\ access[frame_index] # 1
  /\ frameTable' = [frameTable EXCEPT ![frame_index] = page]
  /\ pageTable' = [pageTable EXCEPT ![page] = frame_index]
  /\ swapouts' = swapouts + 1
  /\ count' = count + 1
  /\ pc' = "run"
  /\ Advance
  /\ UNCHANGED <<access, pagefaults, page>>

Evict ==
  /\ Faulting
  /\ frameTable[frame_index] # FREE
  /\ access[frame_index] # 1
  /\ MapPage(frame_index)
  /\ Advance

os_handle_pagefault == UseFree \/ Spare \/ Evict

Next == Access \/ os_handle_pagefault

Spec     == Init /\ [][Next]_mmuVars
FairSpec == Spec /\ WF_mmuVars(os_handle_pagefault)

-----------------------------------------------------------------------------
(* Every variable has its type. *)
MmuTypeOK ==
  /\ pageTable \in [Page -> Frame \cup {NOT_MAPPED, NOT_VALID}]
  /\ frameTable \in [Frame -> Page \cup {FREE}]
  /\ access \in [Frame -> {0, 1}]
  /\ frame_index \in Frame
  /\ count \in Nat /\ pagefaults \in Nat /\ swapouts \in Nat
  /\ pc \in {"run", "fault", "done"}
  /\ page \in Page

(* The page table and the frame table are each other's inverse, so no frame *)
(* backs two pages and no page is mapped to a frame that was given away.    *)
TablesAgree ==
  /\ \A p \in Page : pageTable[p] \in Frame => frameTable[pageTable[p]] = p
  /\ \A f \in Frame : frameTable[f] # FREE => pageTable[frameTable[f]] = f

(* While frames are free the hand is at the first of them, so it never      *)
(* meets a used frame before a free one.  With it TablesAgree is inductive: *)
(* the page of a fault is in no frame.                                      *)
HandAtFree ==
  \A f, g \in Frame : frameTable[f] = FREE => (frameTable[g] # FREE <=> g < frame_index)

(* The invariant of mmu.c: its tables agree, so translateOneAddr never      *)
(* yields a frame that holds another page; the hand is at the first free    *)
(* frame; and a page that faults has no frame yet.                          *)
MmuInv ==
  /\ MmuTypeOK
  /\ TablesAgree
  /\ HandAtFree
  /\ \A p \in Page \cap NullPages : pageTable[p] = NOT_VALID
  /\ Faulting => pageTable[page] = NOT_MAPPED

InMemory == {f \in Frame : frameTable[f] # FREE}

(* Every page fault brought a page in, and the pages that were swapped out  *)
(* are those that are not in memory any more.                               *)
StatisticsAgree ==
  pagefaults = swapouts + Cardinality(InMemory) + (IF Faulting THEN 1 ELSE 0)

(* The simulation never hangs in the while(1) of os_handle_pagefault.       *)
FaultEnds == Faulting ~> ~Faulting

-----------------------------------------------------------------------------
(* The frames in the order in which the hand will meet them. *)
Full   == InMemory = Frame
Oldest == IF Full THEN frame_index ELSE 0

(* The comment "FIFO with second chance": the pages are in a queue in the   *)
(* order they came to memory or were last spared.                           *)
Queue == INSTANCE SecondChance WITH
  Pages      <- Page \ NullPages,
  queue      <- [k \in 1 .. Cardinality(InMemory) |-> frameTable[(Oldest + k - 1) % numFrames]],
  referenced <- {frameTable[f] : f \in {g \in Frame : access[g] = 1}},
  wanted     <- IF Faulting THEN {page} ELSE {},
  ended      <- pc = "done"

(* mmu.c replaces pages in the order FIFO with second chance prescribes.    *)
ImplementsSecondChance == Queue!Spec

(* Until the memory is full the first version leaves its hand at frame 0.   *)
First == INSTANCE MmuFirst WITH frame_index <- Oldest

(* Leaving out the search for a free frame changed nothing: the two         *)
(* versions of the program choose the same frame for every page.            *)
ImplementsFirstVersion == First!Spec
=============================================================================
