--------------------------------- MODULE Turns ---------------------------------
(***************************************************************************)
(* conta.c of HM2: threads that count from 0 to num, each line of the      *)
(* output by the thread whose turn it is.  current_thread is read and      *)
(* written with the mutex taken; id_threads is written by main without it, *)
(* while the first threads already run.                                    *)
(*                                                                         *)
(* A char is a number below CharValues.  Nothing is freed before           *)
(* id_threads is allocated, so its bytes are fresh ones of the system: 0.  *)
(***************************************************************************)
EXTENDS Naturals, Sequences

CONSTANTS
  nrThreads, num,   \* the arguments of the program
  CharA,            \* 'A'
  CharValues        \* 256

ASSUME TurnAssumption ==
  /\ nrThreads \in Nat \ {0} /\ num \in Nat
  /\ CharA \in Nat \ {0} /\ CharValues \in Nat \ {0}

(* The letters are different from each other and from '\0'.                 *)
ASSUME EnoughLetters == CharA + nrThreads <= CharValues

Thread == 0 .. nrThreads - 1

VARIABLES
  current_thread,   \* whose turn it is
  id_threads,
  exmut,            \* TRUE while a thread holds it
  turn,             \* where each thread is
  i,                \* how far it has counted
  lines,            \* the output: letter and number of each line
  counts,           \* where main is: creating, then joining,
  k                 \*   thread number k

turnVars == <<current_thread, id_threads, exmut, turn, i, lines, counts, k>>

TurnInit ==
  /\ current_thread = 0
  /\ id_threads = [t \in Thread |-> 0]
  /\ exmut = FALSE
  /\ turn = [t \in Thread |-> "none"]
  /\ i = [t \in Thread |-> 0]
  /\ lines = <<>>
  /\ counts = "letter" /\ k = 0

(* Mutant: the letters go round after two.                                  *)
LetterOfTwo(t) == (CharA + (t % 2)) % CharValues

Letter(t) == (CharA + t) % CharValues

-----------------------------------------------------------------------------
(* counts_thread.  Its letter was stored before the thread was created.     *)

TurnLocks(t) ==
  /\ turn[t] = "loop" /\ i[t] <= num
  /\ ~exmut /\ exmut' = TRUE
  /\ turn' = [turn EXCEPT ![t] = "compare"]
  /\ UNCHANGED <<current_thread, id_threads, i, lines, counts, k>>

(* aux == id_threads[current_thread]; i grows at the end of the loop.       *)
SaysHello(t) ==
  /\ turn[t] = "compare"
  /\ id_threads[t] = id_threads[current_thread]
  /\ lines' = Append(lines, <<id_threads[t], i[t]>>)
  /\ current_thread' = (current_thread + 1) % nrThreads
  /\ i' = [i EXCEPT ![t] = @ + 1]
  /\ turn' = [turn EXCEPT ![t] = "unlock"]
  /\ UNCHANGED <<id_threads, exmut, counts, k>>

(* Mutant: without i--, a number is skipped.                                *)
SkipsNumber(t) ==
  /\ turn[t] = "compare"
  /\ id_threads[t] # id_threads[current_thread]
  /\ i' = [i EXCEPT ![t] = @ + 1]
  /\ turn' = [turn EXCEPT ![t] = "unlock"]
  /\ UNCHANGED <<current_thread, id_threads, exmut, lines, counts, k>>

(* i-- undoes the i++ of the loop.                                          *)
NotItsTurn(t) ==
  /\ turn[t] = "compare"
  /\ id_threads[t] # id_threads[current_thread]
  /\ turn' = [turn EXCEPT ![t] = "unlock"]
  /\ UNCHANGED <<current_thread, id_threads, exmut, i, lines, counts, k>>

TurnUnlocks(t) ==
  /\ turn[t] = "unlock"
  /\ exmut' = FALSE
  /\ turn' = [turn EXCEPT ![t] = "loop"]
  /\ UNCHANGED <<current_thread, id_threads, i, lines, counts, k>>

Returns(t) ==
  /\ turn[t] = "loop" /\ i[t] > num
  /\ turn' = [turn EXCEPT ![t] = "done"]
  /\ UNCHANGED <<current_thread, id_threads, exmut, i, lines, counts, k>>

-----------------------------------------------------------------------------
(* counts *)

StoresLetter ==
  /\ counts = "letter"
  /\ id_threads' = [id_threads EXCEPT ![k] = Letter(k)]
  /\ counts' = "create"
  /\ UNCHANGED <<current_thread, exmut, turn, i, lines, k>>

CreatesThread ==
  /\ counts = "create"
  /\ turn' = [turn EXCEPT ![k] = "loop"]
  /\ IF k + 1 < nrThreads THEN k' = k + 1 /\ counts' = "letter"
                          ELSE k' = 0     /\ counts' = "join"
  /\ UNCHANGED <<current_thread, id_threads, exmut, i, lines>>

JoinsThread ==
  /\ counts = "join" /\ turn[k] = "done"
  /\ IF k + 1 < nrThreads THEN k' = k + 1 /\ counts' = "join"
                          ELSE k' = 0     /\ counts' = "returned"
  /\ UNCHANGED <<current_thread, id_threads, exmut, turn, i, lines>>

-----------------------------------------------------------------------------
Inside(t) == SaysHello(t) \/ NotItsTurn(t) \/ TurnUnlocks(t) \/ Returns(t)

TurnMain == StoresLetter \/ CreatesThread \/ JoinsThread

TurnNext == TurnMain \/ \E t \in Thread : TurnLocks(t) \/ Inside(t)

(* A thread whose turn it is not takes the mutex again at once.  Strong     *)
(* fairness of TurnLocks is what the program needs of pthread_mutex_lock:   *)
(* that the others do not win every time.                                   *)
TurnFairness ==
  /\ WF_turnVars(TurnMain)
  /\ \A t \in Thread : WF_turnVars(Inside(t)) /\ SF_turnVars(TurnLocks(t))

TurnSpec == TurnInit /\ [][TurnNext]_turnVars /\ TurnFairness

-----------------------------------------------------------------------------
(* The output is A: 0, B: 0, ..., A: 1, B: 1, ...: every line is by the     *)
(* thread whose turn it is and no number is skipped or repeated, although   *)
(* letters are stored while others are compared.                            *)
InTurn ==
  \A n \in 1 .. Len(lines) :
    lines[n] = <<Letter((n - 1) % nrThreads), (n - 1) \div nrThreads>>

(* Once the threads are created all of them count to num, and the program   *)
(* ends: no thread takes the last turn away from another.                   *)
AllCounted ==
  counts = "join" ~> /\ counts = "returned"
                     /\ Len(lines) = nrThreads * (num + 1)
=============================================================================
