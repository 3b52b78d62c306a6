----------------------------- MODULE SecondChance -----------------------------
(***************************************************************************)
(* Page replacement by FIFO with second chance, as an operating systems    *)
(* course states it: the pages in memory queue up in the order they came,  *)
(* and one that was referenced since goes back to the end of the queue     *)
(* instead of leaving.                                                     *)
(***************************************************************************)
EXTENDS Naturals, Sequences

CONSTANTS
  Pages,       \* the pages of the process
  numFrames    \* how many of them fit in memory

VARIABLES
  queue,        \* the pages in memory, the next to leave first
  referenced,   \* those that have their second chance
  wanted,       \* the page a fault is to bring in, if any
  ended

vars == <<queue, referenced, wanted, ended>>

Resident == {queue[k] : k \in 1 .. Len(queue)}

Init ==
  /\ queue = <<>>
  /\ referenced = {}
  /\ wanted = {}
  /\ ~ended

Ready == ~ended /\ wanted = {}

Reference(p) ==
  /\ Ready
  /\ p \in Resident
  /\ referenced' = referenced \cup {p}
  /\ UNCHANGED <<queue, wanted, ended>>

Fault(p) ==
  /\ Ready
  /\ p \notin Resident
  /\ wanted' = {p}
  /\ UNCHANGED <<queue, referenced, ended>>

Load ==
  /\ Len(queue) < numFrames
  /\ \E p \in wanted : queue' = Append(queue, p)
  /\ wanted' = {}
  /\ UNCHANGED <<referenced, ended>>

Spare ==
  /\ wanted # {}
  /\ Len(queue) = numFrames
  /\ Head(queue) \in referenced
  /\ queue' = Append(Tail(queue), Head(queue))
  /\ referenced' = referenced \ {Head(queue)}
  /\ UNCHANGED <<wanted, ended>>

Replace ==
  /\ Len(queue) = numFrames
  /\ Head(queue) \notin referenced
  /\ \E p \in wanted : queue' = Append(Tail(queue), p)
  /\ wanted' = {}
  /\ UNCHANGED <<referenced, ended>>

End ==
  /\ Ready
  /\ ended' = TRUE
  /\ UNCHANGED <<queue, referenced, wanted>>

Next ==
  \/ \E p \in Pages : Reference(p) \/ Fault(p)
  \/ Load \/ Spare \/ Replace
  \/ End

Spec == Init /\ [][Next]_vars
=============================================================================
