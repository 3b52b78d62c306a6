------------------------------ MODULE BlockFifo ------------------------------
(***************************************************************************)
(* What blockqueue.h promises to the threads that share the queue: every   *)
(* queue_put and every queue_take happens at one moment between its call   *)
(* and its return, on a first-in first-out queue of bounded length.        *)
(***************************************************************************)
EXTENDS Naturals, Sequences

CONSTANTS
  Threads,
  Blocks,     \* what is put in the queue
  maxsize     \* its length at most

VARIABLES
  queue,
  call        \* what each thread is doing with the queue

vars == <<queue, call>>

Out           == [op |-> "none"]
Putting(d)    == [op |-> "put", block |-> d]
PutDone       == [op |-> "put_done"]
Taking        == [op |-> "take"]
TakeDone(d)   == [op |-> "take_done", block |-> d]

Init ==
  /\ queue = <<>>
  /\ call = [t \in Threads |-> Out]

Becomes(t, old, new) == call[t] = old /\ call' = [call EXCEPT ![t] = new]

CallPut(t, d) == Becomes(t, Out, Putting(d)) /\ UNCHANGED queue

Put(t, d) ==
  /\ Len(queue) < maxsize
  /\ queue' = Append(queue, d)
  /\ Becomes(t, Putting(d), PutDone)

ReturnPut(t) == Becomes(t, PutDone, Out) /\ UNCHANGED queue

CallTake(t) == Becomes(t, Out, Taking) /\ UNCHANGED queue

Take(t) ==
  /\ queue # <<>>
  /\ queue' = Tail(queue)
  /\ Becomes(t, Taking, TakeDone(Head(queue)))

ReturnTake(t) ==
  /\ \E d \in Blocks : Becomes(t, TakeDone(d), Out)
  /\ UNCHANGED queue

Next ==
  \E t \in Threads :
    \/ \E d \in Blocks : CallPut(t, d) \/ Put(t, d)
    \/ ReturnPut(t)
    \/ CallTake(t) \/ Take(t) \/ ReturnTake(t)

Spec == Init /\ [][Next]_vars
=============================================================================
