------------------------------ MODULE CountThrees ------------------------------
(***************************************************************************)
(* lab-04p.c: threads that count the threes of an array, a slice each, in  *)
(* one counter under a mutex.                                              *)
(***************************************************************************)
EXTENDS Naturals, FiniteSets

CONSTANTS
  SIZE,      \* length of the array
  Arguments  \* the numbers of threads the program is started with

ASSUME CountAssumption == SIZE \in Nat /\ Arguments \subseteq Nat \ {0}

VARIABLES
  array,
  nthreads,
  count,
  m,         \* TRUE while a thread holds it
  counting,  \* where each thread is
  pos,       \* its i
  loaded,    \* what it read of count
  count3s,   \* where main is: creating, then joining,
  tid        \*   thread number tid

countVars == <<array, nthreads, count, m, counting, pos, loaded, count3s, tid>>

Ids == 0 .. nthreads - 1
length_per_thread == SIZE \div nthreads

(* rand() % 4 fills the array; 0 stands for what is not 3.                  *)
CountInit ==
  /\ array \in [0 .. SIZE - 1 -> {0, 3}]
  /\ nthreads \in Arguments
  /\ count = 0
  /\ m = FALSE
  /\ counting = [t \in Ids |-> "none"]
  /\ pos = [t \in Ids |-> 0]
  /\ loaded = [t \in Ids |-> 0]
  /\ count3s = "start" /\ tid = 0

-----------------------------------------------------------------------------
(* count3s_thread *)

Goes(t, from, to) == counting[t] = from /\ counting' = [counting EXCEPT ![t] = to]

(* Mutant: the slices overlap by one.                                       *)
StartShort(t) == IF t = 0 THEN 0 ELSE t * length_per_thread - 1

Start(t) == t * length_per_thread

Passes(t) ==
  /\ counting[t] = "loop" /\ pos[t] < length_per_thread
  /\ array[Start(t) + pos[t]] # 3
  /\ pos' = [pos EXCEPT ![t] = @ + 1]
  /\ UNCHANGED <<array, nthreads, count, m, counting, loaded, count3s, tid>>

(* Mutant: no mutex.                                                        *)
FindsUnlocked(t) ==
  /\ pos[t] < length_per_thread
  /\ array[Start(t) + pos[t]] = 3
  /\ Goes(t, "loop", "load")
  /\ UNCHANGED <<array, nthreads, count, m, pos, loaded, count3s, tid>>

Finds(t) ==
  /\ pos[t] < length_per_thread
  /\ array[Start(t) + pos[t]] = 3
  /\ Goes(t, "loop", "load")
  /\ ~m /\ m' = TRUE
  /\ UNCHANGED <<array, nthreads, count, pos, loaded, count3s, tid>>

(* count++ is a read and a write.                                           *)
Loads(t) ==
  /\ Goes(t, "load", "store")
  /\ loaded' = [loaded EXCEPT ![t] = count]
  /\ UNCHANGED <<array, nthreads, count, m, pos, count3s, tid>>

Stores(t) ==
  /\ Goes(t, "store", "unlock")
  /\ count' = loaded[t] + 1
  /\ UNCHANGED <<array, nthreads, m, pos, loaded, count3s, tid>>

Releases(t) ==
  /\ Goes(t, "unlock", "loop")
  /\ m' = FALSE
  /\ pos' = [pos EXCEPT ![t] = @ + 1]
  /\ UNCHANGED <<array, nthreads, count, loaded, count3s, tid>>

Ends(t) ==
  /\ pos[t] = length_per_thread
  /\ Goes(t, "loop", "done")
  /\ UNCHANGED <<array, nthreads, count, m, pos, loaded, count3s, tid>>

-----------------------------------------------------------------------------
(* main, and count3s, which it calls if the slices are of equal length *)

Starts ==
  /\ count3s = "start"
  /\ count3s' = IF SIZE % nthreads = 0 THEN "create" ELSE "refused"
  /\ UNCHANGED <<array, nthreads, count, m, counting, pos, loaded, tid>>

CreatesOne ==
  /\ count3s = "create"
  /\ Goes(tid, "none", "loop")
  /\ IF tid + 1 < nthreads THEN tid' = tid + 1 /\ UNCHANGED count3s
                           ELSE tid' = 0 /\ count3s' = "join"
  /\ UNCHANGED <<array, nthreads, count, m, pos, loaded>>

JoinsOne ==
  /\ count3s = "join" /\ counting[tid] = "done"
  /\ IF tid + 1 < nthreads THEN tid' = tid + 1 /\ UNCHANGED count3s
                           ELSE tid' = 0 /\ count3s' = "returned"
  /\ UNCHANGED <<array, nthreads, count, m, counting, pos, loaded>>

-----------------------------------------------------------------------------
Counter(t) == Passes(t) \/ Finds(t) \/ Loads(t) \/ Stores(t) \/ Releases(t) \/ Ends(t)

CountMain == Starts \/ CreatesOne \/ JoinsOne

CountNext == CountMain \/ \E t \in Ids : Counter(t)

CountSpec == CountInit /\ [][CountNext]_countVars

-----------------------------------------------------------------------------
(* count3s of lab-04s.c, the program with one thread. *)
SequentialCount == Cardinality({n \in 0 .. SIZE - 1 : array[n] = 3})

(* The threads find what one thread finds: their slices cover the array     *)
(* once, and no count++ is lost.                                            *)
CountExact == count3s = "returned" => count = SequentialCount
=============================================================================
