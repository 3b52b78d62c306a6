------------------------------ MODULE PageTables ------------------------------
(***************************************************************************)
(* The on-demand paging simulator of HM3: the tables, and the accesses     *)
(* that the MMU and the operating system handle the same way in both       *)
(* versions of the program.  What differs, the choice of a frame in        *)
(* os_handle_pagefault, is in Mmu (mmu.c) and MmuFirst (mmu1ªversão.c).    *)
(*                                                                         *)
(* An address is its page: the offset is carried over unchanged.           *)
(***************************************************************************)
EXTENDS Integers

CONSTANTS
  MAX_VIRTUAL_PAGES,
  numFrames,     \* the memory to simulate, argument of the program
  MaxAccesses    \* bound: the longest trace

ASSUME MmuAssumption ==
  /\ MAX_VIRTUAL_PAGES \in Nat \ {0}
  /\ numFrames \in Nat \ {0}
  /\ MaxAccesses \in Nat

Page  == 0 .. MAX_VIRTUAL_PAGES - 1
Frame == 0 .. numFrames - 1

NOT_MAPPED == -1
NOT_VALID  == -2
FREE       == -1

VARIABLES
  pageTable, frameTable, access, frame_index,
  count, pagefaults, swapouts,   \* statistics
  pc,                            \* "run", "fault" or "done"
  page                           \* the argument of os_handle_pagefault

tables     == <<pageTable, frameTable, access, frame_index>>
statistics == <<count, pagefaults, swapouts>>
mmuVars    == <<tables, statistics, pc, page>>

NullPages == {0, MAX_VIRTUAL_PAGES - 1}

(* initTabs *)
Init ==
  /\ pageTable = [p \in Page |-> IF p \in NullPages THEN NOT_VALID ELSE NOT_MAPPED]
  /\ frameTable = [f \in Frame |-> FREE]
  /\ access = [f \in Frame |-> 0]
  /\ frame_index = 0
  /\ count = 0 /\ pagefaults = 0 /\ swapouts = 0
  /\ pc = "run" /\ page = 0

-----------------------------------------------------------------------------
(* simulateAllSteps, and translateOneAddr of an address in page p           *)

Reads(p) == pc = "run" /\ count < MaxAccesses /\ p \in Page

(* The simulated process ends with a segmentation fault.                    *)
InvalidPage(p) ==
  /\ Reads(p)
  /\ pageTable[p] = NOT_VALID
  /\ pc' = "done"
  /\ UNCHANGED <<tables, statistics, page>>

Hit(p) ==
  /\ Reads(p)
  /\ pageTable[p] \notin {NOT_VALID, NOT_MAPPED}
  /\ access' = [access EXCEPT ![pageTable[p]] = 1]
  /\ count' = count + 1
  /\ UNCHANGED <<pageTable, frameTable, frame_index, pagefaults, swapouts, pc, page>>

PageFault(p) ==
  /\ Reads(p)
  /\ pageTable[p] = NOT_MAPPED
  /\ page' = p
  /\ pc' = "fault"
  /\ pagefaults' = pagefaults + 1
  /\ UNCHANGED <<tables, count, swapouts>>

EndOfTrace ==
  /\ pc = "run"
  /\ pc' = "done"
  /\ UNCHANGED <<tables, statistics, page>>

Access ==
  \/ \E p \in Page : InvalidPage(p) \/ Hit(p) \/ PageFault(p)
  \/ EndOfTrace

-----------------------------------------------------------------------------
(* os_handle_pagefault: the page goes to frame f, in the place of the one   *)
(* that is there, if any; translateOneAddr then returns.                    *)

Advance == frame_index' = (frame_index + 1) % numFrames

Unmapped(f) ==
  IF frameTable[f] = FREE THEN pageTable ELSE [pageTable EXCEPT ![frameTable[f]] = NOT_MAPPED]

MapPage(f) ==
  /\ frameTable' = [frameTable EXCEPT ![f] = page]
  /\ pageTable' = [Unmapped(f) EXCEPT ![page] = f]
  /\ access' = [access EXCEPT ![f] = 0]
  /\ swapouts' = swapouts + (IF frameTable[f] = FREE THEN 0 ELSE 1)
  /\ count' = count + 1
  /\ pc' = "run"
  /\ UNCHANGED <<pagefaults, page>>
=============================================================================
