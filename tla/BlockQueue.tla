------------------------------ MODULE BlockQueue ------------------------------
(***************************************************************************)
(* blockqueue.c: a circular buffer of data blocks that threads share under *)
(* three POSIX semaphores.  Each statement that another thread can observe *)
(* is a step: the waits, the copy of the block, the update of the indices  *)
(* and the posts.                                                          *)
(*                                                                         *)
(* A block of data is one value; NoBlock is what malloc left in a slot.    *)
(***************************************************************************)
EXTENDS Naturals, FiniteSets

CONSTANTS
  Producers, Consumers,  \* the threads
  Blocks,                \* the blocks of data
  NoBlock,
  maxsize                \* argument of queue_init

ASSUME QueueAssumption ==
  /\ maxsize \in Nat \ {0}
  /\ NoBlock \notin Blocks
  /\ Producers \cap Consumers = {}
  /\ IsFiniteSet(Producers) /\ IsFiniteSet(Consumers)

Threads == Producers \cup Consumers
Index   == 0 .. maxsize - 1

VARIABLES
  buffer, used, pidx, gidx,   \* the circular buffer
  empty, full, m,             \* the semaphores
  at,                         \* the statement each thread is at
  held                        \* the block in its argument

queueVars == <<buffer, used, pidx, gidx, empty, full, m, at, held>>

Statement == {"out", "wait_empty", "put_enter", "put_copy", "put_index",
              "put_leave", "post_full",
              "wait_full", "take_enter", "take_copy", "take_index",
              "take_leave", "post_empty"}

(* queue_init *)
QueueInit ==
  /\ buffer = [i \in Index |-> NoBlock]
  /\ used = 0 /\ pidx = 0 /\ gidx = 0
  /\ empty = maxsize /\ full = 0 /\ m = 1
  /\ at = [t \in Threads |-> "out"]
  /\ held = [t \in Threads |-> NoBlock]

Goes(t, from, to) ==
  /\ at[t] = from
  /\ at' = [at EXCEPT ![t] = to]

Slots == <<buffer, used, pidx, gidx>>

(* Mutant: no sem_wait(&m).                                                 *)
EnterAnytime(t, from, to) ==
  /\ Goes(t, from, to)
  /\ UNCHANGED <<Slots, empty, full, m, held>>

(* Mutual exclusion of the buffer, for both calls. *)
Enter(t, from, to) ==
  /\ Goes(t, from, to)
  /\ m > 0
  /\ m' = m - 1
  /\ UNCHANGED <<Slots, empty, full, held>>

Leave(t, from, to) ==
  /\ Goes(t, from, to)
  /\ m' = m + 1
  /\ UNCHANGED <<Slots, empty, full, held>>

-----------------------------------------------------------------------------
(* queue_put *)

CallPut(t, d) ==
  /\ Goes(t, "out", "wait_empty")
  /\ held' = [held EXCEPT ![t] = d]
  /\ UNCHANGED <<Slots, empty, full, m>>

WaitEmpty(t) ==
  /\ Goes(t, "wait_empty", "put_enter")
  /\ empty > 0
  /\ empty' = empty - 1
  /\ UNCHANGED <<Slots, full, m, held>>

PutEnter(t) == Enter(t, "put_enter", "put_copy")

(* putInBuffer; the assert is NoOverrun. *)
PutCopy(t) ==
  /\ Goes(t, "put_copy", "put_index")
  /\ used < maxsize
  /\ buffer' = [buffer EXCEPT ![pidx] = held[t]]
  /\ UNCHANGED <<used, pidx, gidx, empty, full, m, held>>

PutIndex(t) ==
  /\ Goes(t, "put_index", "put_leave")
  /\ pidx' = (pidx + 1) % maxsize
  /\ used' = used + 1
  /\ UNCHANGED <<buffer, gidx, empty, full, m, held>>

PutLeave(t) == Leave(t, "put_leave", "post_full")

(* Mutant: the posts of the two calls are swapped.                          *)
PostFullWrong(t) ==
  /\ Goes(t, "post_full", "out")
  /\ empty' = empty + 1
  /\ UNCHANGED <<Slots, full, m, held>>

PostFull(t) ==
  /\ Goes(t, "post_full", "out")
  /\ full' = full + 1
  /\ UNCHANGED <<Slots, empty, m, held>>

-----------------------------------------------------------------------------
(* queue_take *)

CallTake(t) ==
  /\ Goes(t, "out", "wait_full")
  /\ UNCHANGED <<Slots, empty, full, m, held>>

(* Mutant: no sem_wait(&full), only the loop on EMPTYBUF.                   *)
WaitNothing(t) ==
  /\ Goes(t, "wait_full", "take_enter")
  /\ UNCHANGED <<Slots, empty, full, m, held>>

WaitFull(t) ==
  /\ Goes(t, "wait_full", "take_enter")
  /\ full > 0
  /\ full' = full - 1
  /\ UNCHANGED <<Slots, empty, m, held>>

TakeEnter(t) == Enter(t, "take_enter", "take_copy")

(* The loop while the buffer is empty does not let go of m: the thread      *)
(* stays here until used > 0.  Then getFromBuffer.                          *)
TakeCopy(t) ==
  /\ Goes(t, "take_copy", "take_index")
  /\ used > 0
  /\ held' = [held EXCEPT ![t] = buffer[gidx]]
  /\ UNCHANGED <<Slots, empty, full, m>>

(* Mutant: the get index does not wrap around.                              *)
TakeIndexStuck(t) ==
  /\ Goes(t, "take_index", "take_leave")
  /\ gidx' = IF gidx = maxsize - 1 THEN gidx ELSE gidx + 1
  /\ used' = used - 1
  /\ UNCHANGED <<buffer, pidx, empty, full, m, held>>

TakeIndex(t) ==
  /\ Goes(t, "take_index", "take_leave")
  /\ gidx' = (gidx + 1) % maxsize
  /\ used' = used - 1
  /\ UNCHANGED <<buffer, pidx, empty, full, m, held>>

TakeLeave(t) == Leave(t, "take_leave", "post_empty")

PostEmpty(t) ==
  /\ Goes(t, "post_empty", "out")
  /\ empty' = empty + 1
  /\ UNCHANGED <<Slots, full, m, held>>

-----------------------------------------------------------------------------
(* The steps of a thread inside queue_put or queue_take. *)
PutStep(t) ==
  \/ WaitEmpty(t) \/ PutEnter(t) \/ PutCopy(t)
  \/ PutIndex(t) \/ PutLeave(t) \/ PostFull(t)

TakeStep(t) ==
  \/ WaitFull(t) \/ TakeEnter(t) \/ TakeCopy(t)
  \/ TakeIndex(t) \/ TakeLeave(t) \/ PostEmpty(t)

(* Clients that put and take forever. *)
QueueNext ==
  \/ \E t \in Producers : PutStep(t) \/ \E d \in Blocks : CallPut(t, d)
  \/ \E t \in Consumers : TakeStep(t) \/ CallTake(t)

QueueSpec == QueueInit /\ [][QueueNext]_queueVars
=============================================================================
