----------------------------- MODULE ProgramProofs -----------------------------
(***************************************************************************)
(* The programs with threads, for any number of them: the output of        *)
(* conta.c, the count of lab-04p.c and the waits of demo.c.                *)
(***************************************************************************)
EXTENDS CharBufferProperties, Turns, CountThrees, FiniteSetTheorems, RingProofs

-----------------------------------------------------------------------------
(* conta.c *)

LEMMA DivMod ==
  ASSUME NEW n \in Nat \ {0}, NEW q \in Nat, NEW r \in 0 .. n - 1
  PROVE  (n * q + r) \div n = q /\ (n * q + r) % n = r
<1>1. (n * q + r) \div n = q
  OBVIOUS
<1>2. (n * q + r) % n = r
  OBVIOUS
<1> QED BY <1>1, <1>2

LEMMA NextTurn ==
  ASSUME NEW n \in Nat \ {0}, NEW r \in 0 .. n - 1
  PROVE  (r + 1) % n = IF r + 1 = n THEN 0 ELSE r + 1
  OBVIOUS

LEMMA Letters ==
  /\ \A t \in Thread : Letter(t) = CharA + t /\ Letter(t) # 0
  /\ \A t, u \in Thread : Letter(t) = Letter(u) => t = u
<1>1. \A t \in Thread : Letter(t) = CharA + t
  BY TurnAssumption, EnoughLetters DEF Thread, Letter
<1> QED BY <1>1, TurnAssumption DEF Thread

Line == Nat \X Nat

TurnTypeOK ==
  /\ current_thread \in Thread /\ k \in Thread
  /\ id_threads \in [Thread -> Nat]
  /\ turn \in [Thread -> {"none", "loop", "compare", "unlock", "done"}]
  /\ i \in [Thread -> Nat]
  /\ lines \in Seq(Line)
  /\ counts \in {"letter", "create", "join", "returned"}

(* A letter that is not stored yet is the zero of fresh memory, and no      *)
(* thread runs without its own.                                             *)
LettersStored ==
  /\ \A t \in Thread : id_threads[t] \in {0, Letter(t)}
  /\ \A t \in Thread : turn[t] # "none" => id_threads[t] = Letter(t)
  /\ counts = "create" => id_threads[k] = Letter(k)

(* In the round number q, the threads before the current one have counted   *)
(* once more than the others.                                               *)
Round(q) ==
  /\ Len(lines) = nrThreads * q + current_thread
  /\ \A t \in Thread : i[t] = IF t < current_thread THEN q + 1 ELSE q

TurnInv == TurnTypeOK /\ LettersStored /\ InTurn /\ \E q \in Nat : Round(q)

LEMMA TurnStart == TurnInit => TurnInv
<1> SUFFICES ASSUME TurnInit PROVE TurnInv
  OBVIOUS
<1>1. 0 \in Thread
  BY TurnAssumption DEF Thread
<1>2. TurnTypeOK /\ LettersStored /\ InTurn
  BY <1>1 DEF TurnInit, TurnTypeOK, LettersStored, InTurn
<1>3. Round(0)
  BY TurnAssumption DEF TurnInit, Round, Thread
<1> QED BY <1>2, <1>3 DEF TurnInv

(* The thread whose letter is that of the current one is the current one.   *)
LEMMA HelloInTurn ==
  ASSUME TurnInv, NEW t \in Thread, SaysHello(t)
  PROVE  TurnInv'
<1>1. TurnTypeOK /\ LettersStored /\ InTurn
  BY DEF TurnInv
<1>2. t = current_thread
  <2>1. id_threads[t] = Letter(t) /\ id_threads[current_thread] \in {0, Letter(current_thread)}
        /\ id_threads[t] = id_threads[current_thread]
    BY <1>1 DEF SaysHello, LettersStored, TurnTypeOK
  <2> QED BY <1>1, <2>1, Letters DEF TurnTypeOK
<1>3. PICK q \in Nat : Round(q)
  BY DEF TurnInv
<1>4. i[t] = q /\ id_threads[t] = Letter(t) /\ Letter(t) \in Nat
  BY <1>1, <1>2, <1>3, Letters, TurnAssumption DEF Round, LettersStored, SaysHello, Thread
<1>5. lines' = Append(lines, <<Letter(t), q>>) /\ <<Letter(t), q>> \in Line
  BY <1>4 DEF SaysHello, Line
<1>6. lines' \in Seq(Line) /\ Len(lines') = Len(lines) + 1
      /\ lines'[Len(lines) + 1] = <<Letter(t), q>>
      /\ \A n \in 1 .. Len(lines) : lines'[n] = lines[n]
  BY <1>1, <1>5, AppendProperties DEF TurnTypeOK
<1>7. Len(lines) = nrThreads * q + t /\ t \in 0 .. nrThreads - 1 /\ Len(lines) \in Nat
  BY <1>1, <1>2, <1>3 DEF Round, Thread, TurnTypeOK
<1>8. current_thread' = IF t + 1 = nrThreads THEN 0 ELSE t + 1
  BY <1>2, <1>7, NextTurn, TurnAssumption DEF SaysHello
<1>9. i' = [i EXCEPT ![t] = q + 1]
  BY <1>4 DEF SaysHello
<1>10. TurnTypeOK'
  <2>1. current_thread' \in Thread
    BY <1>7, <1>8, TurnAssumption DEF Thread
  <2>2. i' \in [Thread -> Nat]
    BY <1>1, <1>9 DEF TurnTypeOK
  <2> QED BY <1>1, <1>6, <2>1, <2>2 DEF TurnTypeOK, SaysHello
<1>11. LettersStored'
  BY <1>1 DEF LettersStored, SaysHello, TurnTypeOK
<1>12. InTurn'
  <2> SUFFICES ASSUME NEW n \in 1 .. Len(lines) + 1
               PROVE  lines'[n] = <<Letter((n - 1) % nrThreads), (n - 1) \div nrThreads>>
    BY <1>6 DEF InTurn, Letter
  <2>1. CASE n \in 1 .. Len(lines)
    BY <1>1, <1>6, <2>1 DEF InTurn
  <2>2. CASE n = Len(lines) + 1
    <3>1. n - 1 = nrThreads * q + t
      BY <1>7, <2>2
    <3>2. (n - 1) % nrThreads = t /\ (n - 1) \div nrThreads = q
      BY <1>7, <3>1, DivMod, TurnAssumption
    <3> QED BY <1>6, <2>2, <3>2
  <2> QED BY <1>7, <2>1, <2>2
<1>13. \E r \in Nat : Round(r)'
  <2>1. CASE t + 1 = nrThreads
    <3>1. Len(lines') = nrThreads * (q + 1) + 0
      BY <1>6, <1>7, <2>1, TurnAssumption
    <3>2. \A u \in Thread : i'[u] = q + 1
      BY <1>1, <1>2, <1>3, <1>9, <2>1 DEF Round, Thread, TurnTypeOK
    <3>3. Round(q + 1)'
      BY <1>8, <2>1, <3>1, <3>2, TurnAssumption DEF Round, Thread
    <3> QED BY <3>3
  <2>2. CASE t + 1 # nrThreads
    <3>1. Len(lines') = nrThreads * q + (t + 1)
      BY <1>6, <1>7, TurnAssumption
    <3>2. \A u \in Thread : i'[u] = IF u < t + 1 THEN q + 1 ELSE q
      BY <1>1, <1>2, <1>3, <1>9, TurnAssumption DEF Round, Thread, TurnTypeOK
    <3>3. Round(q)'
      BY <1>8, <2>2, <3>1, <3>2 DEF Round
    <3> QED BY <3>3
  <2> QED BY <2>1, <2>2
<1> QED BY <1>10, <1>11, <1>12, <1>13 DEF TurnInv

(* Every other step of a thread writes no line and changes no letter.       *)
LEMMA QuietInTurn ==
  ASSUME TurnInv, UNCHANGED <<current_thread, id_threads, i, lines>>,
         k' \in Thread, counts' \in {"letter", "create", "join", "returned"},
         turn' \in [Thread -> {"none", "loop", "compare", "unlock", "done"}],
         \A t \in Thread : turn'[t] # "none" => id_threads[t] = Letter(t),
         counts' = "create" => id_threads[k'] = Letter(k')
  PROVE  TurnInv'
<1>1. TurnTypeOK' /\ LettersStored' /\ InTurn'
  BY DEF TurnInv, TurnTypeOK, LettersStored, InTurn, Letter
<1>2. \E q \in Nat : Round(q)'
  BY DEF TurnInv, Round
<1> QED BY <1>1, <1>2 DEF TurnInv

LEMMA TurnStep == TurnInv /\ [TurnNext]_turnVars => TurnInv'
<1> SUFFICES ASSUME TurnInv, [TurnNext]_turnVars PROVE TurnInv'
  OBVIOUS
<1>1. TurnTypeOK /\ LettersStored
  BY DEF TurnInv
<1>2. ASSUME NEW t \in Thread,
             TurnLocks(t) \/ NotItsTurn(t) \/ TurnUnlocks(t) \/ Returns(t)
      PROVE  TurnInv'
  <2>1. turn[t] # "none" /\ UNCHANGED <<current_thread, id_threads, i, lines, counts, k>>
    BY <1>2 DEF TurnLocks, NotItsTurn, TurnUnlocks, Returns
  <2>2. \E s \in {"loop", "compare", "unlock", "done"} : turn' = [turn EXCEPT ![t] = s]
    BY <1>2 DEF TurnLocks, NotItsTurn, TurnUnlocks, Returns
  <2> QED BY <1>1, <2>1, <2>2, QuietInTurn DEF TurnTypeOK, LettersStored
<1>3. ASSUME NEW t \in Thread, SaysHello(t) PROVE TurnInv'
  BY <1>3, HelloInTurn
<1>4. CASE StoresLetter
  <2>1. Letter(k) \in Nat
    BY <1>1, Letters, TurnAssumption DEF TurnTypeOK, Thread
  <2>2. TurnTypeOK' /\ LettersStored'
    BY <1>1, <1>4, <2>1 DEF StoresLetter, TurnTypeOK, LettersStored, Letter
  <2>3. InTurn' /\ \E q \in Nat : Round(q)'
    BY <1>4 DEF TurnInv, StoresLetter, InTurn, Round, Letter
  <2> QED BY <2>2, <2>3 DEF TurnInv
<1>5. CASE CreatesThread
  <2>1. k' \in Thread /\ counts' \in {"letter", "join"}
    BY <1>1, <1>5, TurnAssumption DEF CreatesThread, TurnTypeOK, Thread
  <2>2. /\ turn' \in [Thread -> {"none", "loop", "compare", "unlock", "done"}]
        /\ \A t \in Thread : turn'[t] # "none" => id_threads[t] = Letter(t)
        /\ UNCHANGED <<current_thread, id_threads, i, lines>>
    BY <1>1, <1>5 DEF CreatesThread, TurnTypeOK, LettersStored
  <2> QED BY <2>1, <2>2, QuietInTurn
<1>6. CASE JoinsThread
  <2>1. k' \in Thread /\ counts' \in {"join", "returned"}
    BY <1>1, <1>6, TurnAssumption DEF JoinsThread, TurnTypeOK, Thread
  <2>2. UNCHANGED <<current_thread, id_threads, i, lines, turn>>
    BY <1>6 DEF JoinsThread
  <2> QED BY <1>1, <2>1, <2>2, QuietInTurn DEF TurnTypeOK, LettersStored
<1>7. CASE UNCHANGED turnVars
  BY <1>1, <1>7, QuietInTurn DEF turnVars, TurnTypeOK, LettersStored
<1> QED
  BY <1>2, <1>3, <1>4, <1>5, <1>6, <1>7 DEF TurnNext, TurnMain, Inside

(* For any number of threads that have letters of their own, and however    *)
(* far they count, the lines of the output are by the threads in turn and   *)
(* no number is skipped or repeated.                                        *)
THEOREM OutputInTurn == TurnSpec => []InTurn
<1>1. TurnInv => InTurn
  BY DEF TurnInv
<1> QED BY <1>1, TurnStart, TurnStep, PTL DEF TurnSpec

-----------------------------------------------------------------------------
(* lab-04p.c *)

CountTypeOK ==
  /\ nthreads \in Nat \ {0}
  /\ array \in [0 .. SIZE - 1 -> {0, 3}]
  /\ count \in Nat
  /\ counting \in [Ids -> {"none", "loop", "load", "store", "unlock", "done"}]
  /\ pos \in [Ids -> Nat]
  /\ loaded \in [Ids -> Nat]
  /\ count3s \in {"start", "refused", "create", "join", "returned"}
  /\ tid \in Ids

(* A thread stays in its slice, and holds the mutex only for a three.       *)
InSlice(t) ==
  /\ pos[t] <= length_per_thread
  /\ counting[t] = "done" => pos[t] = length_per_thread
  /\ counting[t] \in {"load", "store", "unlock"} =>
       pos[t] < length_per_thread /\ array[Start(t) + pos[t]] = 3
  /\ counting[t] # "none" => SIZE = nthreads * length_per_thread

Holding == {t \in Ids : counting[t] \in {"load", "store", "unlock"}}

OneHolds ==
  /\ Holding # {} => m
  /\ \A t, u \in Holding : t = u
  /\ \A t \in Ids : counting[t] = "store" => loaded[t] = count

Joined ==
  /\ count3s \in {"create", "join", "returned"} => SIZE = nthreads * length_per_thread
  /\ count3s = "join" => \A t \in Ids : t < tid => counting[t] = "done"
  /\ count3s = "returned" => \A t \in Ids : counting[t] = "done"

(* The threes that are in count: those each thread has passed, and the one  *)
(* it has just counted.                                                     *)
Reached(t) == IF counting[t] = "unlock" THEN pos[t] + 1 ELSE pos[t]

Counted ==
  {n \in 0 .. SIZE - 1 :
     array[n] = 3 /\ n % length_per_thread < Reached(n \div length_per_thread)}

CountInv ==
  /\ CountTypeOK /\ (\A t \in Ids : InSlice(t)) /\ OneHolds /\ Joined
  /\ SIZE = nthreads * length_per_thread => count = Cardinality(Counted)

LEMMA Division ==
  ASSUME NEW n \in Nat \ {0}, NEW x \in Nat
  PROVE  x = (x \div n) * n + (x % n)
  OBVIOUS

LEMMA Quotient ==
  ASSUME NEW n \in Nat \ {0}, NEW x \in Nat
  PROVE  x \div n \in Nat
  OBVIOUS

(* Every position of the array is one of one slice. *)
LEMMA Slices ==
  ASSUME NEW len \in Nat, NEW n \in Nat \ {0}, SIZE = n * len
  PROVE  /\ \A t \in 0 .. n - 1, o \in 0 .. len - 1 :
              /\ t * len + o \in 0 .. SIZE - 1
              /\ (t * len + o) \div len = t /\ (t * len + o) % len = o
         /\ \A x \in 0 .. SIZE - 1 :
              /\ x \div len \in 0 .. n - 1 /\ x % len \in 0 .. len - 1
<1>1. ASSUME NEW t \in 0 .. n - 1, NEW o \in 0 .. len - 1
      PROVE  /\ t * len + o \in 0 .. SIZE - 1
             /\ (t * len + o) \div len = t /\ (t * len + o) % len = o
  <2>1. (len * t + o) \div len = t /\ (len * t + o) % len = o /\ len * t = t * len
    BY DivMod
  <2>2. (t + 1) * len <= n * len
    OBVIOUS
  <2>3. (t + 1) * len = t * len + len /\ t * len \in Nat /\ n * len \in Nat
    OBVIOUS
  <2>4. t * len + o \in 0 .. SIZE - 1
    BY <2>2, <2>3
  <2> QED BY <2>1, <2>4
<1>2. ASSUME NEW x \in 0 .. SIZE - 1
      PROVE  /\ x \div len \in 0 .. n - 1 /\ x % len \in 0 .. len - 1
  <2>1. len # 0
    BY <1>2
  <2>2. x % len \in 0 .. len - 1 /\ x \div len \in Nat
    BY <2>1
  <2>3. x \div len < n
    BY <2>1, <2>2, Division
  <2>4. PICK q \in Nat : q = x \div len
    BY <2>2
  <2>5. q \in 0 .. n - 1
    BY <2>3, <2>4
  <2>6. x \div len \in 0 .. n - 1
    BY <2>4, <2>5
  <2> QED BY <2>2, <2>6
<1> QED BY <1>1, <1>2

LEMMA LengthType ==
  ASSUME CountTypeOK
  PROVE  length_per_thread \in Nat
  BY Quotient, CountAssumption DEF CountTypeOK, length_per_thread

LEMMA CountedFinite ==
  ASSUME NEW S, S \subseteq 0 .. SIZE - 1
  PROVE  IsFiniteSet(S) /\ Cardinality(S) \in Nat
<1>1. IsFiniteSet(0 .. SIZE - 1)
  BY FS_Interval, CountAssumption
<1> QED BY <1>1, FS_Subset, FS_CardinalityType

(* Where thread t looks. *)
LEMMA Looks ==
  ASSUME CountTypeOK, SIZE = nthreads * length_per_thread,
         NEW t \in Ids, pos[t] < length_per_thread
  PROVE  /\ Start(t) + pos[t] \in 0 .. SIZE - 1
         /\ (Start(t) + pos[t]) \div length_per_thread = t
         /\ (Start(t) + pos[t]) % length_per_thread = pos[t]
         /\ \A x \in 0 .. SIZE - 1 :
              x \div length_per_thread = t /\ x % length_per_thread = pos[t] =>
                x = Start(t) + pos[t]
<1> DEFINE len == length_per_thread
<1>1. len \in Nat \ {0} /\ nthreads \in Nat \ {0} /\ pos[t] \in 0 .. len - 1
  BY LengthType DEF CountTypeOK
<1>2. Start(t) = t * len
  BY DEF Start
<1>3. t \in 0 .. nthreads - 1
  BY DEF Ids
<1> HIDE DEF len
<1>4. t * len + pos[t] \in 0 .. SIZE - 1 /\ (t * len + pos[t]) \div len = t
      /\ (t * len + pos[t]) % len = pos[t]
  BY <1>1, <1>3, Slices DEF len
<1>5. ASSUME NEW x \in 0 .. SIZE - 1, x \div len = t, x % len = pos[t]
      PROVE  x = t * len + pos[t]
  <2>1. x \in Nat
    BY CountAssumption
  <2>2. x = (x \div len) * len + (x % len)
    BY <1>1, <2>1, Division
  <2> QED BY <1>5, <2>2
<1> QED BY <1>2, <1>4, <1>5 DEF len

(* Steps that no thread counts in. *)
LEMMA CountedKept ==
  ASSUME CountInv, SIZE = nthreads * length_per_thread, UNCHANGED <<array, nthreads>>,
         \A t \in Ids : Reached(t)' = Reached(t)
  PROVE  Counted' = Counted
<1>1. length_per_thread' = length_per_thread
  BY DEF length_per_thread
<1>2. \A x \in 0 .. SIZE - 1 : x \div length_per_thread \in Ids
  BY Slices, LengthType DEF CountInv, CountTypeOK, Ids
<1> QED BY <1>1, <1>2 DEF Counted

LEMMA CountStart == CountInit => CountInv
<1> SUFFICES ASSUME CountInit PROVE CountInv
  OBVIOUS
<1>1. nthreads \in Nat \ {0} /\ SIZE \in Nat
  BY CountAssumption DEF CountInit
<1>2. CountTypeOK
  BY <1>1 DEF CountInit, CountTypeOK, Ids
<1>3. length_per_thread \in Nat
  BY <1>2, LengthType
<1>4. (\A t \in Ids : InSlice(t)) /\ OneHolds /\ Joined
  BY <1>3 DEF CountInit, InSlice, OneHolds, Holding, Joined
<1>5. ASSUME SIZE = nthreads * length_per_thread PROVE count = Cardinality(Counted)
  <2>1. \A x \in 0 .. SIZE - 1 : x \div length_per_thread \in Ids
                                 /\ x % length_per_thread \in Nat
    <3> DEFINE len == length_per_thread
    <3>1. \A x \in 0 .. SIZE - 1 : x \div len \in 0 .. nthreads - 1 /\ x % len \in 0 .. len - 1
      BY <1>1, <1>3, <1>5, Slices, Zenon
    <3> QED BY <1>3, <3>1 DEF Ids
  <2>2. Counted = {}
    BY <2>1 DEF Counted, CountInit, Reached
  <2> QED BY <2>2, FS_EmptySet DEF CountInit
<1> QED BY <1>2, <1>4, <1>5 DEF CountInv

(* count++ adds the three that the thread has found, which no other thread  *)
(* counts: none of them holds the mutex and its slice is its own.           *)
LEMMA StoresCounts ==
  ASSUME CountInv, NEW t \in Ids, Stores(t)
  PROVE  CountInv'
<1>1. CountTypeOK /\ InSlice(t) /\ OneHolds /\ Joined
  BY DEF CountInv
<1>2. counting[t] = "store" /\ counting' = [counting EXCEPT ![t] = "unlock"]
      /\ count' = loaded[t] + 1 /\ UNCHANGED <<array, nthreads, m, pos, loaded, count3s, tid>>
  BY DEF Stores, Goes
<1>3. length_per_thread' = length_per_thread /\ Ids' = Ids
  BY <1>2 DEF length_per_thread, Ids
<1>4. /\ SIZE = nthreads * length_per_thread /\ pos[t] < length_per_thread
      /\ array[Start(t) + pos[t]] = 3 /\ loaded[t] = count
  BY <1>1, <1>2 DEF InSlice, OneHolds
<1> DEFINE x == Start(t) + pos[t]
<1>5. /\ x \in 0 .. SIZE - 1 /\ x \div length_per_thread = t
      /\ x % length_per_thread = pos[t]
      /\ \A y \in 0 .. SIZE - 1 :
           y \div length_per_thread = t /\ y % length_per_thread = pos[t] => y = x
  BY <1>1, <1>4, Looks
<1> HIDE DEF x
<1>6. \A y \in 0 .. SIZE - 1 : y \div length_per_thread \in Ids
                             /\ y % length_per_thread \in Nat
  <2> DEFINE len == length_per_thread
  <2>1. \A y \in 0 .. SIZE - 1 : y \div len \in 0 .. nthreads - 1 /\ y % len \in 0 .. len - 1
    BY <1>1, <1>4, Slices, LengthType, Zenon DEF CountTypeOK
  <2>2. len \in Nat
    BY <1>1, LengthType
  <2> QED BY <2>1, <2>2 DEF Ids
<1>7. \A u \in Ids : Reached(u)' = IF u = t THEN pos[t] + 1 ELSE Reached(u)
  BY <1>1, <1>2, <1>3 DEF Reached, CountTypeOK
<1>8. Reached(t) = pos[t] /\ pos[t] \in Nat
  BY <1>1, <1>2 DEF Reached, CountTypeOK
<1>9. x \notin Counted
  BY <1>5, <1>8 DEF Counted
<1>10. Counted' = Counted \cup {x}
  <2>1. ASSUME NEW y \in 0 .. SIZE - 1
        PROVE  y \in Counted' <=> y \in Counted \cup {x}
    <3>1. CASE y \div length_per_thread = t
      <4>1. y \in Counted' <=> array[y] = 3 /\ y % length_per_thread < pos[t] + 1
        BY <1>2, <1>3, <1>7, <3>1 DEF Counted
      <4>2. y \in Counted <=> array[y] = 3 /\ y % length_per_thread < pos[t]
        BY <1>8, <3>1 DEF Counted
      <4>3. y % length_per_thread < pos[t] + 1 <=>
              y % length_per_thread < pos[t] \/ y % length_per_thread = pos[t]
        BY <1>6, <1>8
      <4> QED BY <1>4, <1>5, <3>1, <4>1, <4>2, <4>3 DEF x
    <3>2. CASE y \div length_per_thread # t
      BY <1>2, <1>3, <1>5, <1>6, <1>7, <3>2 DEF Counted
    <3> QED BY <3>1, <3>2
  <2> QED BY <1>5, <2>1 DEF Counted
<1>11. count' = Cardinality(Counted')
  <2>1. IsFiniteSet(Counted) /\ Cardinality(Counted \cup {x}) = Cardinality(Counted) + 1
    BY <1>9, CountedFinite, FS_AddElement DEF Counted
  <2> QED BY <1>2, <1>4, <1>10, <2>1 DEF CountInv
<1>12. CountTypeOK'
  BY <1>1, <1>2, <1>3, <1>4 DEF CountTypeOK
<1>13. \A u \in Ids : InSlice(u)'
  BY <1>1, <1>2, <1>3, <1>4 DEF CountInv, InSlice, CountTypeOK, Start
<1>14. OneHolds'
  BY <1>1, <1>2, <1>3 DEF OneHolds, Holding, CountTypeOK
<1>15. Joined'
  BY <1>1, <1>2, <1>3 DEF Joined, CountTypeOK
<1> QED BY <1>3, <1>11, <1>12, <1>13, <1>14, <1>15 DEF CountInv

(* A number that is not 3 is passed without being counted. *)
LEMMA PassesKeeps ==
  ASSUME CountInv, NEW t \in Ids, Passes(t)
  PROVE  CountInv'
<1>1. CountTypeOK /\ InSlice(t) /\ OneHolds /\ Joined
  BY DEF CountInv
<1>2. counting[t] = "loop" /\ pos' = [pos EXCEPT ![t] = pos[t] + 1]
      /\ pos[t] < length_per_thread /\ array[Start(t) + pos[t]] # 3
      /\ UNCHANGED <<array, nthreads, count, m, counting, loaded, count3s, tid>>
  BY DEF Passes
<1>3. length_per_thread' = length_per_thread /\ Ids' = Ids /\ pos[t] \in Nat
      /\ length_per_thread \in Nat
  BY <1>1, <1>2, LengthType DEF length_per_thread, Ids, CountTypeOK
<1>4. SIZE = nthreads * length_per_thread
  BY <1>1, <1>2 DEF InSlice
<1> DEFINE x == Start(t) + pos[t]
<1>5. /\ x \div length_per_thread = t
      /\ \A y \in 0 .. SIZE - 1 :
           y \div length_per_thread = t /\ y % length_per_thread = pos[t] => y = x
  BY <1>1, <1>2, <1>4, Looks
<1> HIDE DEF x
<1>6. \A y \in 0 .. SIZE - 1 : y \div length_per_thread \in Ids
                             /\ y % length_per_thread \in Nat
  <2> DEFINE len == length_per_thread
  <2>1. \A y \in 0 .. SIZE - 1 : y \div len \in 0 .. nthreads - 1 /\ y % len \in 0 .. len - 1
    BY <1>1, <1>4, Slices, LengthType, Zenon DEF CountTypeOK
  <2> QED BY <1>3, <2>1 DEF Ids
<1>7. \A u \in Ids : Reached(u)' = IF u = t THEN pos[t] + 1 ELSE Reached(u)
  BY <1>1, <1>2, <1>3 DEF Reached, CountTypeOK
<1>8. Reached(t) = pos[t]
  BY <1>2 DEF Reached
<1>9. Counted' = Counted
  <2>1. ASSUME NEW y \in 0 .. SIZE - 1 PROVE y \in Counted' <=> y \in Counted
    <3>1. CASE y \div length_per_thread = t
      <4>1. y \in Counted' <=> array[y] = 3 /\ y % length_per_thread < pos[t] + 1
        BY <1>2, <1>3, <1>7, <3>1 DEF Counted
      <4>2. y \in Counted <=> array[y] = 3 /\ y % length_per_thread < pos[t]
        BY <1>8, <3>1 DEF Counted
      <4>3. y % length_per_thread < pos[t] + 1 <=>
              y % length_per_thread < pos[t] \/ y % length_per_thread = pos[t]
        BY <1>3, <1>6
      <4> QED BY <1>2, <1>5, <3>1, <4>1, <4>2, <4>3 DEF x
    <3>2. CASE y \div length_per_thread # t
      BY <1>2, <1>3, <1>6, <1>7, <3>2 DEF Counted
    <3> QED BY <3>1, <3>2
  <2> QED BY <2>1 DEF Counted
<1>10. SIZE = nthreads * length_per_thread => count' = Cardinality(Counted')
  BY <1>2, <1>9 DEF CountInv
<1>11. CountTypeOK'
  BY <1>1, <1>2, <1>3 DEF CountTypeOK
<1>12. \A u \in Ids : InSlice(u)'
  BY <1>1, <1>2, <1>3 DEF CountInv, InSlice, CountTypeOK, Start
<1>13. OneHolds'
  BY <1>1, <1>2, <1>3 DEF OneHolds, Holding, CountTypeOK
<1>14. Joined'
  BY <1>1, <1>2, <1>3 DEF Joined, CountTypeOK
<1> QED BY <1>2, <1>3, <1>10, <1>11, <1>12, <1>13, <1>14 DEF CountInv

(* The other steps of a thread: it takes the mutex, reads count, releases   *)
(* the mutex or returns.                                                    *)
LEMMA ThreadKeeps ==
  ASSUME CountInv, NEW t \in Ids, Finds(t) \/ Loads(t) \/ Releases(t) \/ Ends(t)
  PROVE  CountInv'
<1>1. CountTypeOK /\ InSlice(t) /\ OneHolds /\ Joined
  BY DEF CountInv
<1>2. UNCHANGED <<array, nthreads, count, count3s, tid>> /\ counting[t] # "none"
  BY DEF Finds, Loads, Releases, Ends, Goes
<1>3. length_per_thread' = length_per_thread /\ Ids' = Ids /\ Start(t)' = Start(t)
  BY <1>2 DEF length_per_thread, Ids, Start
<1>4. SIZE = nthreads * length_per_thread
  BY <1>1, <1>2 DEF InSlice
<1>5. length_per_thread \in Nat
  BY <1>1, LengthType
<1>6. \A u \in Ids : Reached(u)' = Reached(u)
  BY <1>1, <1>3 DEF Finds, Loads, Releases, Ends, Goes, Reached, CountTypeOK
<1>7. count' = Cardinality(Counted)'
  BY <1>2, <1>4, <1>6, CountedKept DEF CountInv
<1>8. CountTypeOK'
  <2>1. \E s \in {"loop", "load", "store", "unlock", "done"} : counting' = [counting EXCEPT ![t] = s]
    BY DEF Finds, Loads, Releases, Ends, Goes
  <2>2. pos' = pos \/ pos' = [pos EXCEPT ![t] = pos[t] + 1]
    BY DEF Finds, Loads, Releases, Ends
  <2>3. loaded' = loaded \/ loaded' = [loaded EXCEPT ![t] = count]
    BY DEF Finds, Loads, Releases, Ends
  <2>4. pos' \in [Ids -> Nat] /\ loaded' \in [Ids -> Nat]
    <3>1. pos \in [Ids -> Nat] /\ loaded \in [Ids -> Nat] /\ count \in Nat
      BY <1>1 DEF CountTypeOK
    <3>2. pos' \in [Ids -> Nat]
      BY <2>2, <3>1
    <3> QED BY <2>3, <3>1, <3>2
  <2> QED BY <1>1, <1>2, <1>3, <2>1, <2>4 DEF CountTypeOK
<1>9. \A u \in Ids : InSlice(u)'
  BY <1>1, <1>2, <1>3, <1>4, <1>5
  DEF CountInv, InSlice, CountTypeOK, Start, Finds, Loads, Releases, Ends, Goes
<1>10. OneHolds'
  <2>1. CASE Finds(t)
    BY <1>1, <1>2, <1>3, <2>1 DEF OneHolds, Holding, CountTypeOK, Finds, Goes
  <2>2. CASE Loads(t)
    BY <1>1, <1>2, <1>3, <2>2 DEF OneHolds, Holding, CountTypeOK, Loads, Goes
  <2>3. CASE Releases(t)
    BY <1>1, <1>2, <1>3, <2>3 DEF OneHolds, Holding, CountTypeOK, Releases, Goes
  <2>4. CASE Ends(t)
    BY <1>1, <1>2, <1>3, <2>4 DEF OneHolds, Holding, CountTypeOK, Ends, Goes
  <2> QED BY <2>1, <2>2, <2>3, <2>4
<1>11. Joined'
  BY <1>1, <1>2, <1>3 DEF Joined, CountTypeOK, Finds, Loads, Releases, Ends, Goes
<1> QED BY <1>3, <1>7, <1>8, <1>9, <1>10, <1>11 DEF CountInv

LEMMA MainKeeps ==
  ASSUME CountInv, CountMain
  PROVE  CountInv'
<1>1. CountTypeOK /\ (\A t \in Ids : InSlice(t)) /\ OneHolds /\ Joined
  BY DEF CountInv
<1>2. UNCHANGED <<array, nthreads, count, m, pos, loaded>>
  BY DEF CountMain, Starts, CreatesOne, JoinsOne
<1>3. length_per_thread' = length_per_thread /\ Ids' = Ids
  BY <1>2 DEF length_per_thread, Ids
<1>4. length_per_thread \in Nat /\ nthreads \in Nat \ {0} /\ Ids = 0 .. nthreads - 1
  BY <1>1, LengthType DEF CountTypeOK, Ids
<1>5. CASE Starts
  <2>1. counting' = counting /\ tid' = tid
    BY <1>5 DEF Starts
  <2>2. count3s' = "create" => SIZE = nthreads * length_per_thread
    <3>1. SIZE % nthreads = 0 => SIZE = (SIZE \div nthreads) * nthreads
      BY <1>4, CountAssumption
    <3> QED BY <1>4, <1>5, <3>1 DEF Starts, length_per_thread
  <2>3. count3s' \in {"create", "refused"}
    BY <1>5 DEF Starts
  <2>4. Counted' = Counted
    BY <1>2, <1>3, <2>1 DEF Counted, Reached
  <2> QED BY <1>1, <1>2, <1>3, <2>1, <2>2, <2>3, <2>4
          DEF CountInv, CountTypeOK, InSlice, Start, OneHolds, Holding, Joined
<1>6. CASE CreatesOne
  <2>1. SIZE = nthreads * length_per_thread /\ counting[tid] = "none" /\ tid \in Ids
        /\ counting' = [counting EXCEPT ![tid] = "loop"]
    BY <1>1, <1>6 DEF Joined, CreatesOne, Goes, CountTypeOK
  <2>2. tid' \in Ids /\ count3s' \in {"create", "join"} /\ (count3s' = "join" => tid' = 0)
    BY <1>1, <1>4, <1>6 DEF CreatesOne, CountTypeOK
  <2>3. \A u \in Ids : Reached(u)' = Reached(u)
    BY <1>1, <1>2, <2>1 DEF Reached, CountTypeOK
  <2>4. Counted' = Counted
    BY <1>2, <2>1, <2>3, CountedKept
  <2>5. CountTypeOK'
    BY <1>1, <1>2, <1>3, <2>1, <2>2 DEF CountTypeOK
  <2>6. \A u \in Ids : InSlice(u)'
    BY <1>1, <1>2, <1>3, <2>1 DEF InSlice, CountTypeOK, Start
  <2>7. OneHolds'
    BY <1>1, <1>2, <1>3, <2>1 DEF OneHolds, Holding, CountTypeOK
  <2>8. Joined'
    BY <1>2, <1>3, <1>4, <2>1, <2>2 DEF Joined
  <2> QED BY <1>2, <1>3, <2>1, <2>4, <2>5, <2>6, <2>7, <2>8 DEF CountInv
<1>7. CASE JoinsOne
  <2>1. counting' = counting /\ counting[tid] = "done" /\ count3s = "join" /\ tid \in Ids
    BY <1>1, <1>7 DEF JoinsOne, CountTypeOK
  <2>2. tid' \in Ids /\ count3s' \in {"join", "returned"}
    BY <1>1, <1>4, <1>7 DEF JoinsOne, CountTypeOK
  <2>3. \/ count3s' = "join" /\ tid' = tid + 1
        \/ count3s' = "returned" /\ tid + 1 = nthreads
    BY <1>4, <1>7, <2>1 DEF JoinsOne
  <2>4. \A u \in Ids : u < tid + 1 => counting[u] = "done"
    BY <1>1, <1>4, <2>1 DEF Joined
  <2>5. Joined'
    BY <1>1, <1>2, <1>3, <1>4, <2>1, <2>3, <2>4 DEF Joined
  <2>6. Counted' = Counted
    BY <1>2, <1>3, <2>1 DEF Counted, Reached
  <2> QED BY <1>1, <1>2, <1>3, <2>1, <2>2, <2>5, <2>6
          DEF CountInv, CountTypeOK, InSlice, Start, OneHolds, Holding
<1> QED BY <1>5, <1>6, <1>7 DEF CountMain

LEMMA CountStep == CountInv /\ [CountNext]_countVars => CountInv'
<1> SUFFICES ASSUME CountInv, [CountNext]_countVars PROVE CountInv'
  OBVIOUS
<1>1. CASE UNCHANGED countVars
  BY <1>1 DEF countVars, CountInv, CountTypeOK, InSlice, OneHolds, Holding, Joined, Counted,
              Reached, Ids, Start, length_per_thread
<1> QED
  BY <1>1, StoresCounts, PassesKeeps, ThreadKeeps, MainKeeps DEF CountNext, Counter

(* For any array, and any number of threads the program accepts, it finds   *)
(* as many threes as one thread does.                                       *)
THEOREM ParallelCountExact == CountSpec => []CountExact
<1>1. CountInv => CountExact
  <2> SUFFICES ASSUME CountInv, count3s = "returned" PROVE count = SequentialCount
    BY DEF CountExact
  <2>1. CountTypeOK /\ SIZE = nthreads * length_per_thread /\ \A t \in Ids : counting[t] = "done"
    BY DEF CountInv, Joined
  <2>2. \A t \in Ids : Reached(t) = length_per_thread
    BY <2>1 DEF CountInv, InSlice, Reached
  <2>3. length_per_thread \in Nat
    BY <2>1, LengthType
  <2>4. \A x \in 0 .. SIZE - 1 : /\ x \div length_per_thread \in Ids
                                 /\ x % length_per_thread < length_per_thread
    <3> DEFINE len == length_per_thread
    <3>1. \A x \in 0 .. SIZE - 1 : x \div len \in 0 .. nthreads - 1 /\ x % len \in 0 .. len - 1
      BY <2>1, <2>3, Slices, Zenon DEF CountTypeOK
    <3> QED BY <2>3, <3>1 DEF Ids
  <2>5. Counted = {x \in 0 .. SIZE - 1 : array[x] = 3}
    BY <2>2, <2>4 DEF Counted
  <2> QED BY <2>1, <2>5 DEF CountInv, SequentialCount
<1> QED BY <1>1, CountStart, CountStep, PTL DEF CountSpec

-----------------------------------------------------------------------------
(* demo.c *)

Doing == {"none", "out", "lock", "test", "wait", "wake", "use", "signal", "unlock",
          "print", "done"}
Locked == {"test", "use", "signal", "unlock"}

CharTypeOK ==
  /\ buffer \in [0 .. N - 1 -> Chars]
  /\ ocupados \in 0 .. N /\ c \in 0 .. N - 1 /\ p \in 0 .. N - 1
  /\ doing \in [CharThreads -> Doing]
  /\ chr \in [CharThreads -> Chars]
  /\ sent \in 0 .. Len(Sent)

(* The threads are in turn between the lock and the unlock, where what the  *)
(* test has found stays true.                                               *)
OneInside ==
  \A t \in CharThreads :
    /\ doing[t] \in Locked => mtx /\ doing[Other(t)] \notin Locked
    /\ doing[t] = "use" => ~MustWait(t)

CharInv == CharTypeOK /\ OneInside /\ NoLostWakeup /\ p = (c + ocupados) % N

LEMMA SentType == Len(Sent) \in Nat /\ \A n \in 1 .. Len(Sent) : Sent[n] \in Chars
<1>1. Text \in [1 .. Len(Text) -> Chars \ {NUL}] /\ Len(Text) \in Nat
  BY CharAssumption, LenProperties
<1>2. Text \in Seq(Chars)
  BY <1>1
<1>3. Sent \in Seq(Chars)
  BY <1>2, CharAssumption, AppendProperties DEF Sent
<1> QED BY <1>3

LEMMA CharStart == CharInit => CharInv
<1> SUFFICES ASSUME CharInit PROVE CharInv
  OBVIOUS
<1>1. CharTypeOK
  BY CharAssumption, SentType DEF CharInit, CharTypeOK, CharThreads, Doing
<1>2. OneInside /\ NoLostWakeup
  BY DEF CharInit, OneInside, NoLostWakeup, CharThreads, Locked
<1>3. p = (c + ocupados) % N
  BY CharAssumption DEF CharInit
<1> QED BY <1>1, <1>2, <1>3 DEF CharInv

LEMMA Others == /\ \A t \in CharThreads : Other(t) \in CharThreads /\ Other(t) # t
                                        /\ Other(Other(t)) = t
                /\ Other("produtor") = "consumidor" /\ Other("consumidor") = "produtor"
                /\ CharThreads = {"produtor", "consumidor"}
  BY DEF CharThreads, Other

(* The steps that leave the ring alone: those of the mutex, the condition   *)
(* variables and the loops.                                                 *)
LEMMA LocksKeep ==
  ASSUME CharInv, NEW t \in CharThreads, Locks(t)
  PROVE  CharInv'
<1>1. CharTypeOK /\ OneInside /\ NoLostWakeup
  BY DEF CharInv
<1>2. ~mtx /\ mtx' /\ doing[t] \in {"lock", "wake"} /\ doing' = [doing EXCEPT ![t] = "test"]
      /\ UNCHANGED <<ring, chr, sent>>
  BY DEF Locks, Moves
<1>3. \A u \in CharThreads : doing[u] \notin Locked
  BY <1>1, <1>2 DEF OneInside
<1>4. CharTypeOK' /\ p' = (c' + ocupados') % N
  BY <1>1, <1>2 DEF CharInv, CharTypeOK, ring, Doing
<1>5. OneInside'
  BY <1>1, <1>2, <1>3, Others DEF OneInside, CharTypeOK, MustWait, ring, Locked
<1>6. NoLostWakeup'
  BY <1>1, <1>2, Others DEF NoLostWakeup, CharTypeOK, ring
<1> QED BY <1>4, <1>5, <1>6 DEF CharInv

LEMMA ThreadStepKeeps ==
  ASSUME CharInv, NEW t \in CharThreads, ThreadStep(t) \/ WakesUnasked(t)
  PROVE  CharInv'
<1>1. CharTypeOK /\ OneInside /\ NoLostWakeup
  BY DEF CharInv
<1>2. UNCHANGED <<ring, chr, sent>>
  BY DEF ThreadStep, Waits, Proceeds, Signals, Unlocks, WakesUnasked
<1>3. p' = (c' + ocupados') % N
  BY <1>2 DEF CharInv, ring
<1>4. CASE Waits(t)
  <2>1. CharTypeOK'
    BY <1>1, <1>2, <1>4 DEF CharTypeOK, ring, Doing, Waits, Moves
  <2>2. OneInside'
    BY <1>1, <1>2, <1>4, Others DEF OneInside, CharTypeOK, MustWait, ring, Locked, Waits, Moves
  <2>3. NoLostWakeup'
    BY <1>1, <1>2, <1>4, Others DEF NoLostWakeup, CharTypeOK, ring, Waits, Moves, MustWait
  <2> QED BY <1>3, <2>1, <2>2, <2>3 DEF CharInv
<1>5. CASE Proceeds(t)
  <2>1. CharTypeOK'
    BY <1>1, <1>2, <1>5 DEF CharTypeOK, ring, Doing, Proceeds, Moves
  <2>2. OneInside'
    BY <1>1, <1>2, <1>5, Others DEF OneInside, CharTypeOK, MustWait, ring, Locked, Proceeds, Moves
  <2>3. NoLostWakeup'
    BY <1>1, <1>2, <1>5, Others DEF NoLostWakeup, CharTypeOK, ring, Proceeds, Moves
  <2> QED BY <1>3, <2>1, <2>2, <2>3 DEF CharInv
<1>6. CASE Signals(t)
  <2>1. doing[t] = "signal" /\ mtx' = mtx
        /\ \A u \in CharThreads : doing'[u] = IF u = t THEN "unlock"
             ELSE IF doing[u] = "wait" THEN "wake" ELSE doing[u]
    BY <1>1, <1>6, Others DEF Signals, CharTypeOK
  <2>2. CharTypeOK'
    BY <1>1, <1>2, <1>6 DEF CharTypeOK, ring, Doing, Signals
  <2>3. OneInside'
    BY <1>1, <1>2, <2>1, Others DEF OneInside, MustWait, ring, Locked
  <2>4. NoLostWakeup'
    BY <1>1, <1>2, <2>1, Others DEF NoLostWakeup, ring
  <2> QED BY <1>3, <2>2, <2>3, <2>4 DEF CharInv
<1>7. CASE Unlocks(t)
  <2>1. doing[t] = "unlock" /\ \E s \in {"out", "print"} : doing' = [doing EXCEPT ![t] = s]
    BY <1>7 DEF Unlocks, Moves
  <2>2. CharTypeOK'
    BY <1>1, <1>2, <2>1 DEF CharTypeOK, ring, Doing
  <2>3. OneInside'
    BY <1>1, <1>2, <2>1, Others DEF OneInside, CharTypeOK, MustWait, ring, Locked
  <2>4. NoLostWakeup'
    BY <1>1, <1>2, <2>1, Others DEF NoLostWakeup, CharTypeOK, ring
  <2> QED BY <1>3, <2>2, <2>3, <2>4 DEF CharInv
<1>8. CASE WakesUnasked(t)
  <2>1. CharTypeOK'
    BY <1>1, <1>2, <1>8 DEF CharTypeOK, ring, Doing, WakesUnasked, Moves
  <2>2. OneInside'
    BY <1>1, <1>2, <1>8, Others
    DEF OneInside, CharTypeOK, MustWait, ring, Locked, WakesUnasked, Moves
  <2>3. NoLostWakeup'
    BY <1>1, <1>2, <1>8, Others DEF NoLostWakeup, CharTypeOK, ring, WakesUnasked, Moves
  <2> QED BY <1>3, <2>1, <2>2, <2>3 DEF CharInv
<1> QED BY <1>4, <1>5, <1>6, <1>7, <1>8 DEF ThreadStep

(* The loops of the threads, and main: the thread does not use the ring.    *)
LEMMA LoopKeeps ==
  ASSUME CharInv, NEW t \in CharThreads, NEW from \in {"none", "out", "print"},
         NEW to \in {"out", "lock", "done"}, Moves(t, from, to),
         UNCHANGED <<ring, mtx>>, chr' \in [CharThreads -> Chars], sent' \in 0 .. Len(Sent)
  PROVE  CharInv'
<1>1. CharTypeOK /\ OneInside /\ NoLostWakeup
  BY DEF CharInv
<1>2. doing[t] = from /\ doing' = [doing EXCEPT ![t] = to]
  BY DEF Moves
<1>3. CharTypeOK' /\ p' = (c' + ocupados') % N
  BY <1>1, <1>2 DEF CharInv, CharTypeOK, ring, Doing
<1>4. OneInside'
  BY <1>1, <1>2, Others DEF OneInside, CharTypeOK, MustWait, ring, Locked
<1>5. NoLostWakeup'
  BY <1>1, <1>2, Others DEF NoLostWakeup, CharTypeOK, ring
<1> QED BY <1>3, <1>4, <1>5 DEF CharInv

LEMMA PutKeeps ==
  ASSUME CharInv, putInBuffer
  PROVE  CharInv'
<1>1. CharTypeOK /\ OneInside /\ NoLostWakeup
  BY DEF CharInv
<1>2. doing["produtor"] = "use" /\ doing' = [doing EXCEPT !["produtor"] = "signal"]
      /\ UNCHANGED <<c, mtx, chr, sent>>
      /\ buffer' = [buffer EXCEPT ![p] = chr["produtor"]]
      /\ p' = (p + 1) % N /\ ocupados' = ocupados + 1
  BY DEF putInBuffer, Moves
<1>3. ocupados \in 0 .. N - 1 /\ c \in 0 .. N - 1 /\ p = (c + ocupados) % N
  <2>1. ocupados # N
    BY <1>1, <1>2, Others DEF OneInside, MustWait
  <2> QED BY <1>1, <2>1, CharAssumption DEF CharInv, CharTypeOK
<1>4. p' = (c' + ocupados') % N /\ p' \in 0 .. N - 1 /\ ocupados' \in 0 .. N
  <2>1. (((c + ocupados) % N) + 1) % N = (c + (ocupados + 1)) % N
    BY <1>3, WrapsNext, CharAssumption
  <2>2. p' = (c' + ocupados') % N
    BY <1>2, <1>3, <2>1
  <2>3. p' \in 0 .. N - 1
    BY <1>1, <1>2, CharAssumption DEF CharTypeOK
  <2>4. ocupados' \in 0 .. N
    BY <1>2, <1>3, CharAssumption
  <2> QED BY <2>2, <2>3, <2>4
<1>5. CharTypeOK'
  BY <1>1, <1>2, <1>4, Others DEF CharTypeOK, Doing
<1>6. OneInside'
  <2>1. doing["consumidor"] \notin Locked /\ mtx
    BY <1>1, <1>2, Others DEF OneInside, Locked
  <2> QED BY <1>1, <1>2, <2>1, Others DEF OneInside, CharTypeOK, Locked
<1>7. NoLostWakeup'
  BY <1>1, <1>2, Others DEF NoLostWakeup, CharTypeOK
<1> QED BY <1>4, <1>5, <1>6, <1>7 DEF CharInv

LEMMA GetKeeps ==
  ASSUME CharInv, getFromBuffer
  PROVE  CharInv'
<1>1. CharTypeOK /\ OneInside /\ NoLostWakeup
  BY DEF CharInv
<1>2. doing["consumidor"] = "use" /\ doing' = [doing EXCEPT !["consumidor"] = "signal"]
      /\ UNCHANGED <<buffer, p, mtx, sent>>
      /\ chr' = [chr EXCEPT !["consumidor"] = buffer[c]]
      /\ c' = (c + 1) % N /\ ocupados' = ocupados - 1
  BY DEF getFromBuffer, Moves
<1>3. ocupados \in 1 .. N /\ ocupados - 1 \in 0 .. N - 1 /\ (ocupados - 1) + 1 = ocupados
      /\ c \in 0 .. N - 1 /\ p = (c + ocupados) % N
  <2>1. ocupados # 0
    BY <1>1, <1>2, Others DEF OneInside, MustWait
  <2>2. ocupados \in 1 .. N
    BY <1>1, <2>1, CharAssumption DEF CharTypeOK
  <2>3. ocupados - 1 \in 0 .. N - 1 /\ (ocupados - 1) + 1 = ocupados
    BY <2>2, CharAssumption
  <2> QED BY <1>1, <2>2, <2>3 DEF CharInv, CharTypeOK
<1>4. p' = (c' + ocupados') % N /\ c' \in 0 .. N - 1 /\ ocupados' \in 0 .. N
  <2>1. (((c + 1) % N) + (ocupados - 1)) % N = (c + ((ocupados - 1) + 1)) % N
    BY <1>3, WrapsNext, CharAssumption
  <2>2. p' = (c' + ocupados') % N
    BY <1>2, <1>3, <2>1
  <2>3. c' \in 0 .. N - 1
    BY <1>1, <1>2, CharAssumption DEF CharTypeOK
  <2>4. ocupados' \in 0 .. N
    BY <1>2, <1>3, CharAssumption
  <2> QED BY <2>2, <2>3, <2>4
<1>5. CharTypeOK'
  BY <1>1, <1>2, <1>4, Others DEF CharTypeOK, Doing
<1>6. OneInside'
  <2>1. doing["produtor"] \notin Locked /\ mtx
    BY <1>1, <1>2, Others DEF OneInside, Locked
  <2> QED BY <1>1, <1>2, <2>1, Others DEF OneInside, CharTypeOK, Locked
<1>7. NoLostWakeup'
  BY <1>1, <1>2, Others DEF NoLostWakeup, CharTypeOK
<1> QED BY <1>4, <1>5, <1>6, <1>7 DEF CharInv

LEMMA CharStep == CharInv /\ [CharNext]_charVars => CharInv'
<1> SUFFICES ASSUME CharInv, [CharNext]_charVars PROVE CharInv'
  OBVIOUS
<1>1. CharTypeOK /\ OneInside /\ NoLostWakeup
  BY DEF CharInv
<1>2. CASE Sends
  <2>1. sent + 1 \in 1 .. Len(Sent) /\ Sent[sent + 1] \in Chars
    BY <1>1, <1>2, SentType DEF Sends, CharTypeOK
  <2>2. chr' \in [CharThreads -> Chars] /\ sent' \in 0 .. Len(Sent)
    <3>1. chr' \in [CharThreads -> Chars]
      BY <1>1, <1>2, <2>1 DEF Sends, CharTypeOK
    <3>2. sent + 1 \in 0 .. Len(Sent)
      BY <2>1, SentType
    <3> QED BY <1>2, <3>1, <3>2 DEF Sends
  <2> QED BY <1>2, <2>2, LoopKeeps, Others DEF Sends
<1>3. CASE SentAll
  BY <1>1, <1>3, LoopKeeps, Others DEF SentAll, CharTypeOK
<1>4. CASE Receives
  BY <1>1, <1>4, LoopKeeps, Others DEF Receives, CharTypeOK
<1>5. CASE PrintsChar
  BY <1>1, <1>5, LoopKeeps, Others DEF PrintsChar, CharTypeOK
<1>6. CASE Stops
  BY <1>1, <1>6, LoopKeeps, Others DEF Stops, CharTypeOK
<1>7. CASE CreatesConsumidor \/ CreatesProdutor
  BY <1>1, <1>7, LoopKeeps, Others
  DEF CreatesConsumidor, CreatesProdutor, DemoStep, CharTypeOK
<1>8. CASE UNCHANGED charVars \/ JoinsConsumidor \/ JoinsProdutor
  <2>1. UNCHANGED <<ring, mtx, doing, chr, sent>>
    BY <1>8 DEF charVars, JoinsConsumidor, JoinsProdutor, DemoStep
  <2> QED BY <1>1, <2>1
          DEF ring, CharInv, CharTypeOK, OneInside, NoLostWakeup, MustWait
<1> QED
  BY <1>2, <1>3, <1>4, <1>5, <1>6, <1>7, <1>8, LocksKeep, ThreadStepKeeps, PutKeeps, GetKeeps,
     Others DEF CharNext, Produtor, Consumidor, DemoMain

(* No signal is lost, for any text and any size of the buffer, even if the  *)
(* threads wake up unasked: the two never wait for each other.              *)
THEOREM SignalsNeverLost == CharSpec => []NoLostWakeup
<1>1. CharInv => NoLostWakeup
  BY DEF CharInv
<1> QED BY <1>1, CharStart, CharStep, PTL DEF CharSpec

(* The refinement: the mapping of CharBufferProperties, one thread at a     *)
(* time.                                                                    *)
CharCallOf(t, s, d) ==
  CASE s \in {"none", "out", "print", "done"} -> [op |-> "none"]
    [] s \in {"lock", "test", "wait", "wake", "use"} ->
         IF t = "produtor" THEN [op |-> "put", block |-> d] ELSE [op |-> "take"]
    [] OTHER -> IF t = "produtor" THEN [op |-> "put_done"]
                                  ELSE [op |-> "take_done", block |-> d]

CharCalls == [t \in CharThreads |-> CharCallOf(t, doing[t], chr[t])]
CharQueue == Ring(buffer, c, ocupados, N)

LEMMA CharCallOfEach ==
  ASSUME NEW d
  PROVE  /\ \A t \in CharThreads, s \in {"none", "out", "print", "done"} :
              CharCallOf(t, s, d) = CharFifo!Out
         /\ \A s \in {"lock", "test", "wait", "wake", "use"} :
              /\ CharCallOf("produtor", s, d) = CharFifo!Putting(d)
              /\ CharCallOf("consumidor", s, d) = CharFifo!Taking
         /\ \A s \in {"signal", "unlock"} :
              /\ CharCallOf("produtor", s, d) = CharFifo!PutDone
              /\ CharCallOf("consumidor", s, d) = CharFifo!TakeDone(d)
  BY DEF CharCallOf, CharFifo!Out, CharFifo!Putting, CharFifo!PutDone, CharFifo!Taking,
         CharFifo!TakeDone

CharMoves(t, new) == CharCalls' = [CharCalls EXCEPT ![t] = new]

LEMMA MovesMoves ==
  ASSUME CharTypeOK, NEW t \in CharThreads, NEW from, NEW to, Moves(t, from, to),
         \A u \in CharThreads \ {t} : chr'[u] = chr[u]
  PROVE  /\ CharCalls[t] = CharCallOf(t, from, chr[t])
         /\ CharMoves(t, CharCallOf(t, to, chr'[t]))
<1>1. \A u \in CharThreads : doing'[u] = IF u = t THEN to ELSE doing[u]
  BY DEF Moves, CharTypeOK
<1>2. CharCalls' = [u \in CharThreads |-> CharCallOf(u, doing'[u], chr'[u])]
  BY DEF CharCalls
<1>3. [CharCalls EXCEPT ![t] = CharCallOf(t, to, chr'[t])]
        = [u \in CharThreads |-> IF u = t THEN CharCallOf(t, to, chr'[t])
                                         ELSE CharCallOf(u, doing[u], chr[u])]
  BY DEF CharCalls
<1>4. CharCalls' = [u \in CharThreads |-> IF u = t THEN CharCallOf(t, to, chr'[t])
                                                  ELSE CharCallOf(u, doing[u], chr[u])]
  BY <1>1, <1>2
<1>5. CharCalls[t] = CharCallOf(t, from, chr[t])
  BY DEF CharCalls, Moves
<1> QED BY <1>3, <1>4, <1>5 DEF CharMoves

LEMMA CharFifoNext ==
  ASSUME NEW t \in CharThreads,
         \/ \E d \in Chars : /\ CharCalls[t] = CharFifo!Out /\ CharMoves(t, CharFifo!Putting(d))
                             /\ CharQueue' = CharQueue
         \/ \E d \in Chars : /\ Len(CharQueue) < N /\ CharQueue' = Append(CharQueue, d)
                             /\ CharCalls[t] = CharFifo!Putting(d)
                             /\ CharMoves(t, CharFifo!PutDone)
         \/ /\ CharCalls[t] = CharFifo!PutDone /\ CharMoves(t, CharFifo!Out)
            /\ CharQueue' = CharQueue
         \/ /\ CharCalls[t] = CharFifo!Out /\ CharMoves(t, CharFifo!Taking)
            /\ CharQueue' = CharQueue
         \/ /\ CharQueue # <<>> /\ CharQueue' = Tail(CharQueue)
            /\ CharCalls[t] = CharFifo!Taking
            /\ CharMoves(t, CharFifo!TakeDone(Head(CharQueue)))
         \/ \E d \in Chars : /\ CharCalls[t] = CharFifo!TakeDone(d)
                             /\ CharMoves(t, CharFifo!Out) /\ CharQueue' = CharQueue
  PROVE  CharFifo!Next
  BY DEF CharFifo!Next, CharFifo!CallPut, CharFifo!Put, CharFifo!ReturnPut, CharFifo!CallTake,
         CharFifo!Take, CharFifo!ReturnTake, CharFifo!Becomes, CharCalls, CharQueue, CharMoves,
         CharCallOf, Ring

(* The steps that neither begin, make nor end a call. *)
LEMMA CharStutters ==
  ASSUME CharTypeOK, UNCHANGED ring, doing' \in [CharThreads -> Doing],
         \A u \in CharThreads : CharCallOf(u, doing[u], chr[u]) = CharCallOf(u, doing'[u], chr'[u])
  PROVE  UNCHANGED CharFifo!vars
<1>1. CharCalls' = CharCalls
  BY DEF CharCalls
<1>2. CharQueue' = CharQueue
  BY DEF CharQueue, ring
<1> QED BY <1>1, <1>2 DEF CharFifo!vars, CharCalls, CharQueue, CharCallOf, Ring

LEMMA CharFifoStep == CharInv /\ CharInv' /\ [CharNext]_charVars => [CharFifo!Next]_(CharFifo!vars)
<1> SUFFICES ASSUME CharInv, CharInv', [CharNext]_charVars
             PROVE  CharFifo!Next \/ UNCHANGED CharFifo!vars
  OBVIOUS
<1>1. CharTypeOK /\ OneInside /\ p = (c + ocupados) % N
  BY DEF CharInv
<1>2. doing' \in [CharThreads -> Doing]
  BY DEF CharInv, CharTypeOK
<1>3. CASE Sends
  <2>1. Moves("produtor", "out", "lock")
        /\ UNCHANGED ring
    BY <1>3 DEF Sends
  <2>2. PICK d \in Chars : chr' = [chr EXCEPT !["produtor"] = d]
    <3>1. sent + 1 \in 1 .. Len(Sent)
      BY <1>1, <1>3, SentType DEF Sends, CharTypeOK
    <3> QED BY <1>3, <3>1, SentType DEF Sends
  <2>3. chr'["produtor"] = d /\ \A u \in CharThreads \ {"produtor"} : chr'[u] = chr[u]
    BY <1>1, <2>2, Others DEF CharTypeOK
  <2>4. CharCalls["produtor"] = CharFifo!Out /\ CharMoves("produtor", CharFifo!Putting(d))
    BY <1>1, <2>1, <2>3, MovesMoves, CharCallOfEach, Others
  <2>5. CharQueue' = CharQueue
    BY <2>1 DEF CharQueue, ring
  <2> QED BY <2>4, <2>5, CharFifoNext, Others
<1>4. CASE Receives
  <2>1. Moves("consumidor", "out", "lock")
        /\ chr' = chr /\ UNCHANGED ring
    BY <1>4 DEF Receives
  <2>2. CharCalls["consumidor"] = CharFifo!Out /\ CharMoves("consumidor", CharFifo!Taking)
    BY <1>1, <2>1, MovesMoves, CharCallOfEach, Others
  <2>3. CharQueue' = CharQueue
    BY <2>1 DEF CharQueue, ring
  <2> QED BY <2>2, <2>3, CharFifoNext, Others
<1>5. CASE putInBuffer
  <2>1. Moves("produtor", "use", "signal")
        /\ chr' = chr /\ c' = c /\ ocupados' = ocupados + 1
        /\ buffer' = [buffer EXCEPT ![p] = chr["produtor"]]
    BY <1>5 DEF putInBuffer
  <2>2. ocupados \in 0 .. N - 1 /\ c \in 0 .. N - 1 /\ ocupados \in 0 .. N
    <3>1. ocupados # N
      BY <1>1, <2>1, Others DEF OneInside, MustWait, Moves
    <3> QED BY <1>1, <3>1, CharAssumption DEF CharTypeOK
  <2>3. chr["produtor"] \in Chars /\ buffer'[(c + ocupados) % N] = chr["produtor"]
    BY <1>1, <2>1, Others DEF CharTypeOK
  <2>4. InSet(buffer', c, ocupados + 1, N, Chars) /\ InSet(buffer, c, ocupados, N, Chars)
    <3>1. N \in Nat \ {0} /\ ocupados + 1 \in 0 .. N
      BY <2>2, CharAssumption
    <3>2. buffer \in [0 .. N - 1 -> Chars] /\ buffer' \in [0 .. N - 1 -> Chars]
      BY <1>1 DEF CharInv, CharTypeOK
    <3> QED BY <2>2, <3>1, <3>2, AllInSet
(* The slot that is written is none of those in use. *)
  <2>5. Ring(buffer', c, ocupados, N) = CharQueue
    <3>1. ASSUME NEW n \in 1 .. ocupados
          PROVE  buffer'[(c + n - 1) % N] = buffer[(c + n - 1) % N]
      <4>1. n - 1 \in 0 .. N /\ n - 1 < ocupados /\ c + n - 1 = c + (n - 1)
        BY <2>2, CharAssumption
      <4>2. /\ (c + (n - 1)) % N = IF c + (n - 1) < N THEN c + (n - 1) ELSE c + (n - 1) - N
            /\ p = IF c + ocupados < N THEN c + ocupados ELSE c + ocupados - N
        BY <1>1, <2>2, <4>1, Wraps, CharAssumption
      <4>3. (c + (n - 1)) % N # p
        BY <2>2, <4>1, <4>2, CharAssumption
      <4>4. (c + (n - 1)) % N \in 0 .. N - 1
        BY <2>2, <4>1, CharAssumption
      <4> QED BY <1>1, <2>1, <4>1, <4>3, <4>4 DEF CharTypeOK
    <3> QED BY <3>1 DEF CharQueue, Ring
  <2>6. Len(CharQueue) < N
    <3>1. Len(CharQueue) = ocupados
      BY <2>2, <2>4, RingIsSeq, CharAssumption DEF CharQueue
    <3> QED BY <2>2, <3>1, CharAssumption
  <2>7. CharQueue' = Append(CharQueue, chr["produtor"])
    <3>1. N \in Nat \ {0}
      BY CharAssumption
    <3>2. PICK slots : slots = buffer'
      OBVIOUS
    <3>3. Ring(slots, c, ocupados + 1, N)
            = Append(Ring(slots, c, ocupados, N), slots[(c + ocupados) % N])
      BY <2>2, <2>4, <3>1, <3>2, RingPut, Zenon
    <3>4. CharQueue' = Ring(slots, c, ocupados + 1, N)
      BY <2>1, <3>2 DEF CharQueue
    <3> QED BY <2>3, <2>5, <3>2, <3>3, <3>4
  <2>8. CharCalls["produtor"] = CharFifo!Putting(chr["produtor"])
        /\ CharMoves("produtor", CharFifo!PutDone)
    BY <1>1, <2>1, MovesMoves, CharCallOfEach, Others
  <2> QED BY <2>3, <2>6, <2>7, <2>8, CharFifoNext, Others
<1>6. CASE getFromBuffer
  <2>1. Moves("consumidor", "use", "signal")
        /\ chr' = [chr EXCEPT !["consumidor"] = buffer[c]]
        /\ c' = (c + 1) % N /\ ocupados' = ocupados - 1 /\ buffer' = buffer
    BY <1>6 DEF getFromBuffer
  <2>2. ocupados \in 1 .. N /\ c \in 0 .. N - 1 /\ ocupados \in 0 .. N /\ 1 \in 1 .. ocupados
    <3>1. ocupados # 0
      BY <1>1, <2>1, Others DEF OneInside, MustWait, Moves
    <3> QED BY <1>1, <3>1, CharAssumption DEF CharTypeOK
  <2>3. chr'["consumidor"] = buffer[c]
        /\ \A u \in CharThreads \ {"consumidor"} : chr'[u] = chr[u]
    BY <1>1, <2>1, Others DEF CharTypeOK
  <2>4. N \in Nat \ {0}
    BY CharAssumption
  <2>5. InSet(buffer, c, ocupados, N, Chars)
    BY <1>1, <2>2, <2>4, AllInSet DEF CharTypeOK
  <2>6. CharQueue \in Seq(Chars) /\ Len(CharQueue) = ocupados
    BY <2>2, <2>4, <2>5, RingIsSeq DEF CharQueue
  <2>7. Ring(buffer, c, ocupados, N) # <<>>
    BY <2>2, <2>6 DEF CharQueue
  <2>8. Tail(Ring(buffer, c, ocupados, N)) = Ring(buffer, (c + 1) % N, ocupados - 1, N)
    <3>1. ocupados \in 1 .. N /\ c \in 0 .. N - 1
      BY <2>2
    <3> QED BY <2>4, <2>5, <3>1, RingTake, Zenon
  <2>9. Ring(buffer, c, ocupados, N)[1] = buffer[c]
    BY <2>2, <2>4 DEF Ring
  <2>10. Head(CharQueue) = CharQueue[1]
    BY <2>2, <2>6
  <2>11. CharQueue # <<>> /\ CharQueue' = Tail(CharQueue) /\ Head(CharQueue) = buffer[c]
    BY <2>1, <2>7, <2>8, <2>9, <2>10 DEF CharQueue
  <2>12. CharCalls["consumidor"] = CharFifo!Taking
         /\ CharMoves("consumidor", CharFifo!TakeDone(buffer[c]))
    BY <1>1, <2>1, <2>3, MovesMoves, CharCallOfEach, Others
  <2> QED BY <2>11, <2>12, CharFifoNext, Others
<1>7. CASE Unlocks("produtor")
  <2>1. Moves("produtor", "unlock", "out")
        /\ chr' = chr /\ UNCHANGED ring
    BY <1>7 DEF Unlocks
  <2>2. CharCalls["produtor"] = CharFifo!PutDone /\ CharMoves("produtor", CharFifo!Out)
    BY <1>1, <2>1, MovesMoves, CharCallOfEach, Others
  <2>3. CharQueue' = CharQueue
    BY <2>1 DEF CharQueue, ring
  <2> QED BY <2>2, <2>3, CharFifoNext, Others
<1>8. CASE Unlocks("consumidor")
  <2>1. Moves("consumidor", "unlock", "print")
        /\ chr' = chr /\ UNCHANGED ring
    BY <1>8 DEF Unlocks
  <2>2. /\ CharCalls["consumidor"] = CharFifo!TakeDone(chr["consumidor"])
        /\ CharMoves("consumidor", CharFifo!Out)
    BY <1>1, <2>1, MovesMoves, CharCallOfEach, Others
  <2>3. CharQueue' = CharQueue /\ chr["consumidor"] \in Chars
    BY <1>1, <2>1, Others DEF CharQueue, ring, CharTypeOK
  <2> QED BY <2>2, <2>3, CharFifoNext, Others
(* The lock, the waits, the signal and the loops do not show. *)
<1>9. ASSUME NEW t \in CharThreads, NEW s \in Doing,
             doing' = [doing EXCEPT ![t] = s], UNCHANGED <<ring, chr>>,
             CharCallOf(t, doing[t], chr[t]) = CharCallOf(t, s, chr[t])
      PROVE  UNCHANGED CharFifo!vars
  <2>1. \A u \in CharThreads : doing'[u] = IF u = t THEN s ELSE doing[u]
    BY <1>1, <1>9 DEF CharTypeOK
  <2> QED BY <1>1, <1>2, <1>9, <2>1, CharStutters
<1>10. ASSUME NEW t \in CharThreads, Locks(t) \/ Waits(t) \/ Proceeds(t) \/ WakesUnasked(t)
      PROVE  UNCHANGED CharFifo!vars
  BY <1>9, <1>10, CharCallOfEach, Others
  DEF Locks, Waits, Proceeds, WakesUnasked, Moves, Doing
<1>11. ASSUME NEW t \in CharThreads, Signals(t) PROVE UNCHANGED CharFifo!vars
  <2>1. doing[t] = "signal" /\ UNCHANGED <<ring, chr>>
        /\ \A u \in CharThreads : doing'[u] = IF u = t THEN "unlock"
             ELSE IF doing[u] = "wait" THEN "wake" ELSE doing[u]
    BY <1>1, <1>11, Others DEF Signals, CharTypeOK
  <2> QED BY <1>1, <1>2, <2>1, CharStutters, CharCallOfEach, Others
<1>12. CASE SentAll \/ PrintsChar \/ Stops \/ CreatesConsumidor \/ CreatesProdutor
  BY <1>9, <1>12, CharCallOfEach, Others
  DEF SentAll, PrintsChar, Stops, CreatesConsumidor, CreatesProdutor, DemoStep, Moves, Doing
<1>13. CASE UNCHANGED charVars \/ JoinsConsumidor \/ JoinsProdutor
  <2>1. UNCHANGED <<ring, doing, chr>>
    BY <1>13 DEF charVars, JoinsConsumidor, JoinsProdutor, DemoStep
  <2> QED BY <1>1, <1>2, <2>1, CharStutters
<1> QED
  BY <1>3, <1>4, <1>5, <1>6, <1>7, <1>8, <1>10, <1>11, <1>12, <1>13, Others
  DEF CharNext, Produtor, Consumidor, DemoMain, ThreadStep

LEMMA CharFifoStart == CharInit => CharFifo!Init
<1> SUFFICES ASSUME CharInit PROVE CharFifo!Init
  OBVIOUS
<1>1. CharCalls = [t \in CharThreads |-> CharFifo!Out]
  BY CharCallOfEach DEF CharInit, CharCalls
<1>2. CharQueue = <<>>
  BY DEF CharInit, CharQueue, Ring
<1> QED BY <1>1, <1>2 DEF CharFifo!Init, CharCalls, CharQueue, CharCallOf, Ring

(* produz and consome are the put and the take of BlockFifo, for any text   *)
(* and any size of the buffer, even if the threads wake up unasked.         *)
THEOREM CharsAreFifo == CharSpec => CharsImplementFifo
  BY CharFifoStart, CharFifoStep, CharStart, CharStep, PTL
  DEF CharSpec, CharsImplementFifo, CharFifo!Spec
=============================================================================
