--------------------------- MODULE QueueProperties ---------------------------
(***************************************************************************)
(* Why blockqueue.c is a queue.                                            *)
(***************************************************************************)
EXTENDS BlockQueue

QueueTypeOK ==
  /\ buffer \in [Index -> Blocks \cup {NoBlock}]
  /\ used \in 0 .. maxsize
  /\ pidx \in Index /\ gidx \in Index
  /\ empty \in 0 .. maxsize /\ full \in 0 .. maxsize /\ m \in 0 .. 1
  /\ at \in [Threads -> Statement]
  /\ held \in [Threads -> Blocks \cup {NoBlock}]

At(S) == {t \in Threads : at[t] \in S}

Inside == At({"put_copy", "put_index", "put_leave",
              "take_copy", "take_index", "take_leave"})

(* At most one thread is between sem_wait(&m) and sem_post(&m).             *)
MutualExclusion == Cardinality(Inside) + m = 1

(* Every slot is free, in use, or on its way between the two: a thread that *)
(* has waited for one of the semaphores has not yet posted the other.       *)
SlotsAccounted ==
  /\ empty + used + Cardinality(At({"put_enter", "put_copy", "put_index"}))
           + Cardinality(At({"take_leave", "post_empty"})) = maxsize
  /\ full + Cardinality(At({"put_leave", "post_full"}))
          + Cardinality(At({"take_enter", "take_copy", "take_index"})) = used

(* The asserts of putInBuffer and getFromBuffer hold, and the loop on       *)
(* EMPTYBUF, which would spin with m taken, is never entered.               *)
NoOverrun ==
  \A t \in Threads : /\ at[t] = "put_copy" => used < maxsize
                     /\ at[t] = "take_copy" => used > 0

(* The put index is used slots ahead of the get index.                      *)
IndicesAgree == pidx = (gidx + used) % maxsize

(* What is true of the queue between any two statements: no thread loses a  *)
(* slot or is in the buffer together with another.                          *)
QueueInv == QueueTypeOK /\ MutualExclusion /\ SlotsAccounted /\ IndicesAgree

(* The refinement mapping: the slots in use, from the get index on.  A put  *)
(* or a take happens when it moves its index.                               *)
Fifo == INSTANCE BlockFifo WITH
  queue <- [k \in 1 .. used |-> buffer[(gidx + k - 1) % maxsize]],
  call  <- [t \in Threads |->
              CASE at[t] = "out" -> [op |-> "none"]
                [] at[t] \in {"wait_empty", "put_enter", "put_copy", "put_index"} ->
                     [op |-> "put", block |-> held[t]]
                [] at[t] \in {"put_leave", "post_full"} -> [op |-> "put_done"]
                [] at[t] \in {"wait_full", "take_enter", "take_copy", "take_index"} ->
                     [op |-> "take"]
                [] OTHER -> [op |-> "take_done", block |-> held[t]]]

(* The blocks come out once each and in the order they went in, and never   *)
(* more than maxsize are inside, whatever the threads' interleaving.        *)
ImplementsFifo == Fifo!Spec
=============================================================================
