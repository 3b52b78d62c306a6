------------------------------- MODULE MmuFirst -------------------------------
(***************************************************************************)
(* mmu1ªversão.c: a page fault takes the first free frame of the memory;   *)
(* only when there is none does it look at the access bits from            *)
(* frame_index on.                                                         *)
(***************************************************************************)
EXTENDS PageTables

Faulting == pc = "fault"

UseFirstFree ==
  /\ Faulting
  /\ \E f \in Frame :
       /\ frameTable[f] = FREE
       /\ \A g \in 0 .. f - 1 : frameTable[g] # FREE
       /\ MapPage(f)
  /\ UNCHANGED frame_index

NoneFree == \A f \in Frame : frameTable[f] # FREE

Spare ==
  /\ Faulting
  /\ NoneFree
  /\ access[frame_index] = 1
  /\ access' = [access EXCEPT ![frame_index] = 0]
  /\ Advance
  /\ UNCHANGED <<pageTable, frameTable, statistics, pc, page>>

Evict ==
  /\ Faulting
  /\ NoneFree
  /\ access[frame_index] # 1
  /\ MapPage(frame_index)
  /\ Advance

os_handle_pagefault == UseFirstFree \/ Spare \/ Evict

Next == Access \/ os_handle_pagefault

Spec == Init /\ [][Next]_mmuVars
=============================================================================
