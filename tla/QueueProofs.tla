------------------------------ MODULE QueueProofs ------------------------------
(***************************************************************************)
(* The queue of blocks is a bounded first-in first-out queue, for any      *)
(* number of threads and any size.                                         *)
(***************************************************************************)
EXTENDS QueueProperties, FiniteSetTheorems, RingProofs

LEMMA ThreadsFinite == IsFiniteSet(Threads)
  BY QueueAssumption, FS_Union DEF Threads

LEMMA AtFinite ==
  ASSUME NEW S
  PROVE  /\ IsFiniteSet(At(S)) /\ Cardinality(At(S)) \in Nat
         /\ Cardinality(At(S)') \in Nat
<1>1. At(S) \subseteq Threads /\ At(S)' \subseteq Threads
  BY DEF At
<1> QED BY <1>1, ThreadsFinite, FS_Subset, FS_CardinalityType

One(x, S) == IF x \in S THEN 1 ELSE 0

(* A step of one thread moves it between the sets of threads at some        *)
(* statement.                                                               *)
LEMMA GoesCounts ==
  ASSUME NEW t \in Threads, at \in [Threads -> Statement],
         NEW from, NEW to \in Statement, Goes(t, from, to), NEW S
  PROVE  Cardinality(At(S)') + One(from, S) = Cardinality(At(S)) + One(to, S)
<1>1. at[t] = from /\ at' = [at EXCEPT ![t] = to]
  BY DEF Goes
<1>2. At(S)' = {u \in Threads : at'[u] \in S}
  BY DEF At
<1>3. CASE from \in S /\ to \in S
  <2>1. At(S)' = At(S)
    BY <1>1, <1>2, <1>3 DEF At
  <2> QED BY <1>3, <2>1, AtFinite DEF One
<1>4. CASE from \notin S /\ to \notin S
  <2>1. At(S)' = At(S)
    BY <1>1, <1>2, <1>4 DEF At
  <2> QED BY <1>4, <2>1, AtFinite DEF One
<1>5. CASE from \notin S /\ to \in S
  <2>1. At(S)' = At(S) \cup {t} /\ t \notin At(S)
    BY <1>1, <1>2, <1>5 DEF At
  <2>2. Cardinality(At(S) \cup {t}) = Cardinality(At(S)) + 1
    BY <2>1, AtFinite, FS_AddElement
  <2> QED BY <1>5, <2>1, <2>2, AtFinite DEF One
<1>6. CASE from \in S /\ to \notin S
  <2>1. At(S)' = At(S) \ {t} /\ t \in At(S)
    BY <1>1, <1>2, <1>6 DEF At
  <2>2. Cardinality(At(S) \ {t}) = Cardinality(At(S)) - 1
    BY <2>1, AtFinite, FS_RemoveElement
  <2> QED BY <1>6, <2>1, <2>2, AtFinite DEF One
<1> QED BY <1>3, <1>4, <1>5, <1>6

-----------------------------------------------------------------------------
(* The sets of threads that the semaphores count.                           *)
Filling  == {"put_enter", "put_copy", "put_index"}     \* waited for empty
Emptied  == {"take_leave", "post_empty"}               \* will post empty
Filled   == {"put_leave", "post_full"}                 \* will post full
Emptying == {"take_enter", "take_copy", "take_index"}  \* waited for full
InBuffer == {"put_copy", "put_index", "put_leave",
             "take_copy", "take_index", "take_leave"}  \* waited for m

LEMMA SumOfSlots ==
  /\ SlotsAccounted <=>
       /\ empty + used + Cardinality(At(Filling)) + Cardinality(At(Emptied)) = maxsize
       /\ full + Cardinality(At(Filled)) + Cardinality(At(Emptying)) = used
  /\ MutualExclusion <=> Cardinality(At(InBuffer)) + m = 1
  BY DEF SlotsAccounted, MutualExclusion, Inside, Filling, Emptied, Filled, Emptying, InBuffer

LEMMA SumMoves ==
  ASSUME NEW r \in Nat, NEW f \in Nat, NEW g \in Nat,
         NEW r1 \in Nat, NEW f1 \in Nat, NEW g1 \in Nat,
         NEW a \in Nat, NEW b \in Nat, NEW a1 \in Nat, NEW b1 \in Nat,
         NEW v \in Nat, NEW v1 \in Nat,
         f1 + a = f + a1, g1 + b = g + b1, r1 + a1 + b1 + v = r + a + b + v1
  PROVE  r1 + f1 + g1 + v = r + f + g + v1
  OBVIOUS

(* A step that moves a thread, and the semaphores and used with it, keeps   *)
(* the sums.                                                                *)
LEMMA SumsKept ==
  ASSUME QueueInv, NEW t \in Threads, NEW from, NEW to \in Statement, Goes(t, from, to),
         NEW e \in Nat, NEW f \in Nat, NEW u \in Nat, NEW mm \in Nat,
         empty' = e, full' = f, used' = u, m' = mm,
         e + u + One(to, Filling) + One(to, Emptied)
           = empty + used + One(from, Filling) + One(from, Emptied),
         f + One(to, Filled) + One(to, Emptying) + used
           = full + One(from, Filled) + One(from, Emptying) + u,
         mm + One(to, InBuffer) = m + One(from, InBuffer)
  PROVE  /\ SlotsAccounted' /\ MutualExclusion'
         /\ e \in 0 .. maxsize /\ f \in 0 .. maxsize
         /\ u \in 0 .. maxsize /\ mm \in 0 .. 1
<1> DEFINE C(S) == Cardinality(At(S))
           D(S) == Cardinality(At(S)')
<1>1. /\ at \in [Threads -> Statement] /\ empty \in Nat /\ full \in Nat /\ used \in Nat
      /\ m \in Nat /\ maxsize \in Nat
  BY QueueAssumption DEF QueueInv, QueueTypeOK
<1>2. \A S : D(S) + One(from, S) = C(S) + One(to, S)
  BY <1>1, GoesCounts
<1>3. \A S : C(S) \in Nat /\ D(S) \in Nat /\ One(from, S) \in Nat /\ One(to, S) \in Nat
  BY AtFinite DEF One
<1>4. /\ empty + used + C(Filling) + C(Emptied) = maxsize
      /\ full + C(Filled) + C(Emptying) = used
      /\ C(InBuffer) + m = 1
  BY SumOfSlots DEF QueueInv
<1>5. /\ SlotsAccounted' <=> /\ e + u + D(Filling) + D(Emptied) = maxsize
                            /\ f + D(Filled) + D(Emptying) = u
      /\ MutualExclusion' <=> D(InBuffer) + mm = 1
  BY DEF SlotsAccounted, MutualExclusion, Inside, Filling, Emptied, Filled, Emptying, InBuffer
<1> HIDE DEF C, D
<1>6. e + u + D(Filling) + D(Emptied) = maxsize
  <2>1. e + u \in Nat /\ empty + used \in Nat
    BY <1>1
  <2>2. e + u + D(Filling) + D(Emptied) + 0 = empty + used + C(Filling) + C(Emptied) + 0
    BY <1>2, <1>3, <2>1, SumMoves
  <2> QED BY <1>1, <1>3, <1>4, <2>2
<1>7. f + D(Filled) + D(Emptying) = u
  <2>1. f + D(Filled) + D(Emptying) + used = full + C(Filled) + C(Emptying) + u
    BY <1>1, <1>2, <1>3, SumMoves
  <2>2. f + D(Filled) + D(Emptying) + used = used + u
    BY <1>4, <2>1
  <2>3. f + D(Filled) + D(Emptying) \in Nat
    BY <1>3
  <2> QED BY <1>1, <2>2, <2>3
<1>8. D(InBuffer) + mm = 1
  BY <1>1, <1>2, <1>3, <1>4
<1> QED BY <1>1, <1>3, <1>5, <1>6, <1>7, <1>8

(* A thread that has waited for empty finds room, one that has waited for   *)
(* full finds a block.                                                      *)
LEMMA RoomAndBlock ==
  ASSUME QueueInv, NEW t \in Threads
  PROVE  /\ at[t] \in Filling => used < maxsize
         /\ at[t] \in Emptying => used > 0
<1>1. \A S : at[t] \in S => Cardinality(At(S)) > 0
  <2> SUFFICES ASSUME NEW S, at[t] \in S PROVE Cardinality(At(S)) > 0
    OBVIOUS
  <2>1. t \in At(S)
    BY DEF At
  <2> QED BY <2>1, AtFinite, FS_EmptySet
<1>2. \A S : Cardinality(At(S)) \in Nat
  BY AtFinite
<1>3. /\ empty + used + Cardinality(At(Filling)) + Cardinality(At(Emptied)) = maxsize
      /\ full + Cardinality(At(Filled)) + Cardinality(At(Emptying)) = used
  BY SumOfSlots DEF QueueInv
<1>4. empty \in Nat /\ full \in Nat /\ used \in Nat /\ maxsize \in Nat
  BY QueueAssumption DEF QueueInv, QueueTypeOK
<1> QED BY <1>1, <1>2, <1>3, <1>4

(* One thread at a time is in the buffer.                                   *)
LEMMA Alone ==
  ASSUME QueueInv, NEW t \in Threads, NEW u \in Threads,
         at[t] \in InBuffer, at[u] \in InBuffer
  PROVE  t = u
<1>1. Cardinality(At(InBuffer)) <= 1
  BY SumOfSlots, AtFinite DEF QueueInv, QueueTypeOK
<1>2. t \in At(InBuffer) /\ u \in At(InBuffer)
  BY DEF At
<1>3. Cardinality(At(InBuffer)) = 1
  BY <1>1, <1>2, AtFinite, FS_EmptySet
<1>4. \E x : At(InBuffer) = {x}
  BY <1>3, AtFinite, FS_Singleton
<1> QED BY <1>2, <1>4

-----------------------------------------------------------------------------
WithBlock == {"wait_empty", "put_enter", "put_copy", "put_index",
              "take_leave", "post_empty"}

(* What the slots and the arguments hold between two statements.            *)
Contents ==
  /\ \A t \in Threads :
       /\ at[t] \in WithBlock => held[t] \in Blocks
       /\ at[t] = "put_index" => buffer[pidx] = held[t]
       /\ at[t] = "take_index" => held[t] = buffer[gidx]
  /\ InSet(buffer, gidx, used, maxsize, Blocks)

QueueIInv == QueueInv /\ Contents

LEMMA QueueStart == QueueInit => QueueIInv
<1> SUFFICES ASSUME QueueInit PROVE QueueIInv
  OBVIOUS
<1>1. QueueTypeOK
  BY QueueAssumption DEF QueueInit, QueueTypeOK, Index, Statement
<1>2. \A S : "out" \notin S => Cardinality(At(S)) = 0
  <2> SUFFICES ASSUME NEW S, "out" \notin S PROVE At(S) = {}
    BY FS_EmptySet
  <2> QED BY DEF At, QueueInit
<1>3. Cardinality(At(Filling)) = 0 /\ Cardinality(At(Emptied)) = 0
      /\ Cardinality(At(Filled)) = 0 /\ Cardinality(At(Emptying)) = 0
      /\ Cardinality(At(InBuffer)) = 0
  BY <1>2 DEF Filling, Emptied, Filled, Emptying, InBuffer
<1>4. SlotsAccounted /\ MutualExclusion
  BY <1>3, SumOfSlots, QueueAssumption DEF QueueInit
<1>5. IndicesAgree
  BY QueueAssumption DEF QueueInit, IndicesAgree
<1>6. Contents
  BY DEF QueueInit, Contents, WithBlock, InSet
<1> QED BY <1>1, <1>4, <1>5, <1>6 DEF QueueIInv, QueueInv

(* The waits and the posts, and the calls of queue_take.                    *)
LEMMA QuietStep ==
  ASSUME QueueIInv, NEW t \in Threads, NEW from, NEW to \in Statement, Goes(t, from, to),
         UNCHANGED <<Slots, held>>,
         to \in WithBlock => from \in WithBlock, to \notin {"put_index", "take_index"},
         NEW e \in Nat, NEW f \in Nat, NEW mm \in Nat,
         empty' = e, full' = f, m' = mm,
         e + One(to, Filling) + One(to, Emptied)
           = empty + One(from, Filling) + One(from, Emptied),
         f + One(to, Filled) + One(to, Emptying)
           = full + One(from, Filled) + One(from, Emptying),
         mm + One(to, InBuffer) = m + One(from, InBuffer)
  PROVE  QueueIInv'
<1>1. QueueTypeOK /\ IndicesAgree /\ Contents
  BY DEF QueueIInv, QueueInv
<1>2. used' = used /\ used \in Nat /\ empty \in Nat /\ full \in Nat
  BY <1>1, QueueAssumption DEF Slots, QueueTypeOK
<1>3. /\ SlotsAccounted' /\ MutualExclusion'
      /\ e \in 0 .. maxsize /\ f \in 0 .. maxsize /\ mm \in 0 .. 1
  <2>1. e + used + One(to, Filling) + One(to, Emptied)
          = empty + used + One(from, Filling) + One(from, Emptied)
    BY <1>2 DEF One
  <2>2. f + One(to, Filled) + One(to, Emptying) + used
          = full + One(from, Filled) + One(from, Emptying) + used
    BY <1>2 DEF One
  <2> QED BY <1>2, <2>1, <2>2, SumsKept DEF QueueIInv
<1>4. QueueTypeOK'
  BY <1>1, <1>3 DEF QueueTypeOK, Goes, Slots
<1>5. IndicesAgree'
  BY <1>1 DEF IndicesAgree, Slots
<1>6. Contents'
  BY <1>1 DEF Contents, Goes, Slots, QueueTypeOK
<1> QED BY <1>3, <1>4, <1>5, <1>6 DEF QueueIInv, QueueInv

LEMMA CallPutKeeps ==
  ASSUME QueueIInv, NEW t \in Threads, NEW d \in Blocks, CallPut(t, d)
  PROVE  QueueIInv'
<1>1. QueueTypeOK /\ IndicesAgree /\ Contents
  BY DEF QueueIInv, QueueInv
<1>2. SlotsAccounted' /\ MutualExclusion'
  BY <1>1, SumsKept, QueueAssumption
  DEF QueueIInv, QueueTypeOK, CallPut, Slots, Statement, One, Filling, Emptied, Filled,
      Emptying, InBuffer
<1>3. QueueTypeOK'
  BY <1>1 DEF QueueTypeOK, CallPut, Goes, Slots, Statement
<1>4. IndicesAgree'
  BY <1>1 DEF IndicesAgree, CallPut, Slots
<1>5. Contents'
  BY <1>1 DEF Contents, CallPut, Goes, Slots, QueueTypeOK, WithBlock
<1> QED BY <1>2, <1>3, <1>4, <1>5 DEF QueueIInv, QueueInv

(* The slot at the put index is none of those in use.                       *)
LEMMA FreeSlot ==
  ASSUME QueueTypeOK, IndicesAgree, used < maxsize, NEW k \in 0 .. used - 1
  PROVE  (gidx + k) % maxsize # pidx /\ (gidx + k) % maxsize \in Index
<1>1. gidx \in 0 .. maxsize - 1 /\ k \in 0 .. maxsize /\ used \in 0 .. maxsize
  BY QueueAssumption DEF QueueTypeOK, Index
<1>2. /\ (gidx + k) % maxsize = IF gidx + k < maxsize THEN gidx + k ELSE gidx + k - maxsize
      /\ pidx = IF gidx + used < maxsize THEN gidx + used ELSE gidx + used - maxsize
  BY <1>1, Wraps, QueueAssumption DEF IndicesAgree
<1> QED BY <1>1, <1>2, QueueAssumption DEF Index

LEMMA PutCopyKeeps ==
  ASSUME QueueIInv, NEW t \in Threads, PutCopy(t)
  PROVE  QueueIInv'
<1>1. QueueTypeOK /\ IndicesAgree /\ Contents
  BY DEF QueueIInv, QueueInv
<1>2. SlotsAccounted' /\ MutualExclusion'
  BY <1>1, SumsKept, QueueAssumption
  DEF QueueIInv, QueueTypeOK, PutCopy, Statement, One, Filling, Emptied, Filled,
      Emptying, InBuffer
<1>3. QueueTypeOK'
  BY <1>1 DEF QueueTypeOK, PutCopy, Goes, Statement, Contents, WithBlock
<1>4. IndicesAgree'
  BY <1>1 DEF IndicesAgree, PutCopy
<1>5. Contents'
  <2>1. ASSUME NEW u \in Threads
        PROVE  /\ at'[u] \in WithBlock => held'[u] \in Blocks
               /\ at'[u] = "put_index" => buffer'[pidx'] = held'[u]
               /\ at'[u] = "take_index" => held'[u] = buffer'[gidx']
    <3>1. CASE u = t
      BY <1>1, <3>1 DEF Contents, PutCopy, Goes, QueueTypeOK, WithBlock
    <3>2. CASE u # t
      <4>1. at'[u] = at[u] /\ held' = held
        BY <1>1, <3>2 DEF PutCopy, Goes, QueueTypeOK
      <4>2. at[u] \notin {"put_index", "take_index"}
        BY <3>2, Alone DEF QueueIInv, PutCopy, Goes, InBuffer
      <4> QED BY <1>1, <4>1, <4>2 DEF Contents
    <3> QED BY <3>1, <3>2
  <2>2. ASSUME NEW k \in 0 .. used' - 1 PROVE buffer'[(gidx' + k) % maxsize] \in Blocks
    <3>1. k \in 0 .. used - 1 /\ used < maxsize /\ gidx' = gidx
      BY DEF PutCopy
    <3>2. buffer'[(gidx + k) % maxsize] = buffer[(gidx + k) % maxsize]
      BY <1>1, <3>1, FreeSlot DEF PutCopy, QueueTypeOK
    <3> QED BY <1>1, <3>1, <3>2 DEF Contents, InSet
  <2> QED BY <2>1, <2>2 DEF Contents, InSet
<1> QED BY <1>2, <1>3, <1>4, <1>5 DEF QueueIInv, QueueInv

LEMMA PutIndexKeeps ==
  ASSUME QueueIInv, NEW t \in Threads, PutIndex(t)
  PROVE  QueueIInv'
<1>1. QueueTypeOK /\ IndicesAgree /\ Contents
  BY DEF QueueIInv, QueueInv
<1>2. used < maxsize /\ used \in Nat /\ used' = used + 1
  BY <1>1, RoomAndBlock DEF QueueIInv, PutIndex, Goes, Filling, QueueTypeOK
<1>3. SlotsAccounted' /\ MutualExclusion'
  BY <1>1, <1>2, SumsKept, QueueAssumption
  DEF QueueIInv, QueueTypeOK, PutIndex, Statement, One, Filling, Emptied, Filled,
      Emptying, InBuffer
<1>4. pidx' \in Index
  BY <1>1, QueueAssumption DEF PutIndex, QueueTypeOK, Index
<1>5. QueueTypeOK'
  BY <1>1, <1>2, <1>4, QueueAssumption DEF QueueTypeOK, PutIndex, Goes, Statement
<1>6. IndicesAgree'
  <2>1. pidx' = (pidx + 1) % maxsize /\ pidx = (gidx + used) % maxsize /\ gidx' = gidx
    BY <1>1 DEF PutIndex, IndicesAgree
  <2>2. gidx \in 0 .. maxsize - 1 /\ used \in 0 .. maxsize - 1
    BY <1>1, <1>2, QueueAssumption DEF QueueTypeOK, Index
  <2>3. (((gidx + used) % maxsize) + 1) % maxsize = (gidx + (used + 1)) % maxsize
    BY <2>2, WrapsNext, QueueAssumption
  <2> QED BY <1>2, <2>1, <2>3 DEF IndicesAgree
<1>7. Contents'
  <2>1. ASSUME NEW u \in Threads
        PROVE  /\ at'[u] \in WithBlock => held'[u] \in Blocks
               /\ at'[u] = "put_index" => buffer'[pidx'] = held'[u]
               /\ at'[u] = "take_index" => held'[u] = buffer'[gidx']
    <3>1. CASE u = t
      BY <1>1, <3>1 DEF Contents, PutIndex, Goes, QueueTypeOK, WithBlock
    <3>2. CASE u # t
      <4>1. at'[u] = at[u] /\ held' = held
        BY <1>1, <3>2 DEF PutIndex, Goes, QueueTypeOK
      <4>2. at[u] \notin {"put_index", "take_index"}
        BY <3>2, Alone DEF QueueIInv, PutIndex, Goes, InBuffer
      <4> QED BY <1>1, <4>1, <4>2 DEF Contents
    <3> QED BY <3>1, <3>2
  <2>2. ASSUME NEW k \in 0 .. used' - 1 PROVE buffer'[(gidx' + k) % maxsize] \in Blocks
    <3>1. buffer' = buffer /\ gidx' = gidx /\ k \in 0 .. used
      BY <1>2 DEF PutIndex
    <3>2. buffer[pidx] \in Blocks
      BY <1>1 DEF Contents, PutIndex, Goes, WithBlock
    <3>3. CASE k = used
      BY <1>1, <3>1, <3>2, <3>3 DEF IndicesAgree
    <3>4. CASE k # used
      BY <1>1, <1>2, <3>1, <3>4 DEF Contents, InSet
    <3> QED BY <3>3, <3>4
  <2> QED BY <2>1, <2>2 DEF Contents, InSet
<1> QED BY <1>3, <1>5, <1>6, <1>7 DEF QueueIInv, QueueInv

LEMMA TakeCopyKeeps ==
  ASSUME QueueIInv, NEW t \in Threads, TakeCopy(t)
  PROVE  QueueIInv'
<1>1. QueueTypeOK /\ IndicesAgree /\ Contents
  BY DEF QueueIInv, QueueInv
<1>2. SlotsAccounted' /\ MutualExclusion'
  BY <1>1, SumsKept, QueueAssumption
  DEF QueueIInv, QueueTypeOK, TakeCopy, Slots, Statement, One, Filling, Emptied, Filled,
      Emptying, InBuffer
<1>3. QueueTypeOK'
  BY <1>1 DEF QueueTypeOK, TakeCopy, Goes, Slots, Statement, Index
<1>4. IndicesAgree'
  BY <1>1 DEF IndicesAgree, TakeCopy, Slots
<1>5. Contents'
  BY <1>1 DEF Contents, TakeCopy, Goes, Slots, QueueTypeOK, WithBlock
<1> QED BY <1>2, <1>3, <1>4, <1>5 DEF QueueIInv, QueueInv

LEMMA TakeIndexKeeps ==
  ASSUME QueueIInv, NEW t \in Threads, TakeIndex(t)
  PROVE  QueueIInv'
<1>1. QueueTypeOK /\ IndicesAgree /\ Contents
  BY DEF QueueIInv, QueueInv
<1>2. used > 0 /\ used \in Nat /\ used' = used - 1 /\ used - 1 \in Nat
  BY <1>1, RoomAndBlock, QueueAssumption
  DEF QueueIInv, TakeIndex, Goes, Emptying, QueueTypeOK
<1>3. SlotsAccounted' /\ MutualExclusion'
  BY <1>1, <1>2, SumsKept, QueueAssumption
  DEF QueueIInv, QueueTypeOK, TakeIndex, Statement, One, Filling, Emptied, Filled,
      Emptying, InBuffer
<1>4. gidx' \in Index
  BY <1>1, QueueAssumption DEF TakeIndex, QueueTypeOK, Index
<1>5. QueueTypeOK'
  BY <1>1, <1>2, <1>4, QueueAssumption DEF QueueTypeOK, TakeIndex, Goes, Statement
<1>6. /\ IndicesAgree'
      /\ InSet(buffer, gidx', used', maxsize, Blocks)
  <2>1. gidx \in 0 .. maxsize - 1 /\ used \in 1 .. maxsize
        /\ used - 1 \in 0 .. maxsize - 1 /\ (used - 1) + 1 = used
    BY <1>1, <1>2, QueueAssumption DEF QueueTypeOK, Index
  <2>2. gidx' = (gidx + 1) % maxsize /\ pidx' = pidx
    BY DEF TakeIndex
  <2>3. InSet(buffer, (gidx + 1) % maxsize, used - 1, maxsize, Blocks)
    BY <1>1, <2>1, RingTake, QueueAssumption DEF Contents
  <2>4. (((gidx + 1) % maxsize) + (used - 1)) % maxsize = (gidx + used) % maxsize
    BY <2>1, WrapsNext, QueueAssumption
  <2> QED BY <1>1, <1>2, <2>2, <2>3, <2>4 DEF IndicesAgree
<1>7. Contents'
  <2>1. ASSUME NEW u \in Threads
        PROVE  /\ at'[u] \in WithBlock => held'[u] \in Blocks
               /\ at'[u] = "put_index" => buffer'[pidx'] = held'[u]
               /\ at'[u] = "take_index" => held'[u] = buffer'[gidx']
    <3>1. CASE u = t
      <4>1. buffer[(gidx + 0) % maxsize] \in Blocks
        BY <1>1, <1>2 DEF Contents, InSet
      <4>2. (gidx + 0) % maxsize = gidx
        BY <1>1, QueueAssumption DEF QueueTypeOK, Index
      <4>3. held[t] \in Blocks /\ at'[t] = "take_leave" /\ held' = held
        BY <1>1, <4>1, <4>2 DEF Contents, TakeIndex, Goes, QueueTypeOK
      <4> QED BY <3>1, <4>3
    <3>2. CASE u # t
      <4>1. at'[u] = at[u] /\ held' = held
        BY <1>1, <3>2 DEF TakeIndex, Goes, QueueTypeOK
      <4>2. at[u] \notin {"put_index", "take_index"}
        BY <3>2, Alone DEF QueueIInv, TakeIndex, Goes, InBuffer
      <4> QED BY <1>1, <4>1, <4>2 DEF Contents
    <3> QED BY <3>1, <3>2
  <2>2. buffer' = buffer
    BY DEF TakeIndex
  <2> QED BY <1>6, <2>1, <2>2 DEF Contents
<1> QED BY <1>3, <1>5, <1>6, <1>7 DEF QueueIInv, QueueInv

-----------------------------------------------------------------------------
LEMMA QueueKeeps == QueueIInv /\ [QueueNext]_queueVars => QueueIInv'
<1> SUFFICES ASSUME QueueIInv, [QueueNext]_queueVars PROVE QueueIInv'
  OBVIOUS
<1>1. empty \in Nat /\ full \in Nat /\ m \in Nat
  BY QueueAssumption DEF QueueIInv, QueueInv, QueueTypeOK
<1> USE DEF Statement, WithBlock, One, Filling, Emptied, Filled, Emptying, InBuffer
<1>2. ASSUME NEW t \in Threads, NEW d \in Blocks, CallPut(t, d) PROVE QueueIInv'
  BY <1>2, CallPutKeeps
<1>3. ASSUME NEW t \in Threads, WaitEmpty(t) PROVE QueueIInv'
  BY <1>1, <1>3, QuietStep DEF WaitEmpty
<1>4. ASSUME NEW t \in Threads, PutEnter(t) PROVE QueueIInv'
  BY <1>1, <1>4, QuietStep DEF PutEnter, Enter
<1>5. ASSUME NEW t \in Threads, PutCopy(t) PROVE QueueIInv'
  BY <1>5, PutCopyKeeps
<1>6. ASSUME NEW t \in Threads, PutIndex(t) PROVE QueueIInv'
  BY <1>6, PutIndexKeeps
<1>7. ASSUME NEW t \in Threads, PutLeave(t) PROVE QueueIInv'
  BY <1>1, <1>7, QuietStep DEF PutLeave, Leave
<1>8. ASSUME NEW t \in Threads, PostFull(t) PROVE QueueIInv'
  BY <1>1, <1>8, QuietStep DEF PostFull
<1>9. ASSUME NEW t \in Threads, CallTake(t) PROVE QueueIInv'
  BY <1>1, <1>9, QuietStep DEF CallTake
<1>10. ASSUME NEW t \in Threads, WaitFull(t) PROVE QueueIInv'
  BY <1>1, <1>10, QuietStep DEF WaitFull
<1>11. ASSUME NEW t \in Threads, TakeEnter(t) PROVE QueueIInv'
  BY <1>1, <1>11, QuietStep DEF TakeEnter, Enter
<1>12. ASSUME NEW t \in Threads, TakeCopy(t) PROVE QueueIInv'
  BY <1>12, TakeCopyKeeps
<1>13. ASSUME NEW t \in Threads, TakeIndex(t) PROVE QueueIInv'
  BY <1>13, TakeIndexKeeps
<1>14. ASSUME NEW t \in Threads, TakeLeave(t) PROVE QueueIInv'
  BY <1>1, <1>14, QuietStep DEF TakeLeave, Leave
<1>15. ASSUME NEW t \in Threads, PostEmpty(t) PROVE QueueIInv'
  BY <1>1, <1>15, QuietStep DEF PostEmpty
<1>16. CASE UNCHANGED queueVars
  BY <1>16 DEF queueVars, QueueIInv, QueueInv, QueueTypeOK, MutualExclusion, SlotsAccounted,
               IndicesAgree, Contents, At, Inside
<1> QED
  BY <1>2, <1>3, <1>4, <1>5, <1>6, <1>7, <1>8, <1>9, <1>10, <1>11, <1>12, <1>13, <1>14,
     <1>15, <1>16 DEF QueueNext, PutStep, TakeStep, Threads

(* No slot is lost and no two threads are in the buffer at a time, for any  *)
(* number of producers and consumers and any size of the queue.             *)
THEOREM QueueConsistent == QueueSpec => []QueueInv
<1>1. QueueIInv => QueueInv
  BY DEF QueueIInv
<1> QED BY <1>1, QueueStart, QueueKeeps, PTL DEF QueueSpec

(* The asserts of putInBuffer and getFromBuffer never fail.                 *)
THEOREM QueueNeverOverrun == QueueSpec => []NoOverrun
<1>1. QueueInv => NoOverrun
  BY RoomAndBlock DEF NoOverrun, Filling, Emptying
<1> QED BY <1>1, QueueConsistent, PTL

-----------------------------------------------------------------------------
(* The refinement: the mapping of QueueProperties, one thread at a time.    *)
CallOf(s, d) ==
  CASE s = "out" -> [op |-> "none"]
    [] s \in {"wait_empty", "put_enter", "put_copy", "put_index"} ->
         [op |-> "put", block |-> d]
    [] s \in {"put_leave", "post_full"} -> [op |-> "put_done"]
    [] s \in {"wait_full", "take_enter", "take_copy", "take_index"} -> [op |-> "take"]
    [] OTHER -> [op |-> "take_done", block |-> d]

Calls  == [t \in Threads |-> CallOf(at[t], held[t])]
Queued == Ring(buffer, gidx, used, maxsize)

LEMMA CallOfEach ==
  ASSUME NEW d
  PROVE  /\ CallOf("out", d) = Fifo!Out
         /\ \A s \in {"wait_empty", "put_enter", "put_copy", "put_index"} :
              CallOf(s, d) = Fifo!Putting(d)
         /\ \A s \in {"put_leave", "post_full"} : CallOf(s, d) = Fifo!PutDone
         /\ \A s \in {"wait_full", "take_enter", "take_copy", "take_index"} :
              CallOf(s, d) = Fifo!Taking
         /\ \A s \in {"take_leave", "post_empty"} : CallOf(s, d) = Fifo!TakeDone(d)
  BY DEF CallOf, Fifo!Out, Fifo!Putting, Fifo!PutDone, Fifo!Taking, Fifo!TakeDone

(* A step of the abstract queue, on the mapped state. *)
Moves(t, new) == Calls' = [Calls EXCEPT ![t] = new]

LEMMA GoesMoves ==
  ASSUME QueueTypeOK, NEW t \in Threads, NEW from, NEW to, Goes(t, from, to),
         \A u \in Threads \ {t} : held'[u] = held[u]
  PROVE  Calls[t] = CallOf(from, held[t]) /\ Moves(t, CallOf(to, held'[t]))
<1>1. \A u \in Threads : at'[u] = IF u = t THEN to ELSE at[u]
  BY DEF Goes, QueueTypeOK
<1>2. Calls' = [u \in Threads |-> CallOf(at'[u], held'[u])]
  BY DEF Calls
<1>3. [Calls EXCEPT ![t] = CallOf(to, held'[t])]
        = [u \in Threads |-> IF u = t THEN CallOf(to, held'[t]) ELSE CallOf(at[u], held[u])]
  BY DEF Calls
<1>4. Calls' = [u \in Threads |-> IF u = t THEN CallOf(to, held'[t])
                                           ELSE CallOf(at[u], held[u])]
  BY <1>1, <1>2
<1>5. Calls[t] = CallOf(from, held[t])
  BY DEF Calls, Goes
<1> QED BY <1>3, <1>4, <1>5 DEF Moves

LEMMA FifoNext ==
  ASSUME NEW t \in Threads,
         \/ \E d \in Blocks : Calls[t] = Fifo!Out /\ Moves(t, Fifo!Putting(d)) /\ Queued' = Queued
         \/ \E d \in Blocks : /\ Len(Queued) < maxsize /\ Queued' = Append(Queued, d)
                              /\ Calls[t] = Fifo!Putting(d) /\ Moves(t, Fifo!PutDone)
         \/ Calls[t] = Fifo!PutDone /\ Moves(t, Fifo!Out) /\ Queued' = Queued
         \/ Calls[t] = Fifo!Out /\ Moves(t, Fifo!Taking) /\ Queued' = Queued
         \/ /\ Queued # <<>> /\ Queued' = Tail(Queued)
            /\ Calls[t] = Fifo!Taking /\ Moves(t, Fifo!TakeDone(Head(Queued)))
         \/ \E d \in Blocks : Calls[t] = Fifo!TakeDone(d) /\ Moves(t, Fifo!Out)
                              /\ Queued' = Queued
  PROVE  Fifo!Next
  BY DEF Fifo!Next, Fifo!CallPut, Fifo!Put, Fifo!ReturnPut, Fifo!CallTake, Fifo!Take,
         Fifo!ReturnTake, Fifo!Becomes, Calls, Queued, Moves, CallOf, Ring

(* The statements that the clients do not see. *)
LEMMA Stutters ==
  ASSUME QueueTypeOK, NEW t \in Threads, NEW from, NEW to, Goes(t, from, to),
         CallOf(from, held[t]) = CallOf(to, held'[t]),
         \A u \in Threads \ {t} : held'[u] = held[u], Queued' = Queued
  PROVE  UNCHANGED Fifo!vars
<1>1. Calls[t] = CallOf(from, held[t]) /\ Moves(t, CallOf(to, held'[t]))
  BY GoesMoves
<1>2. Calls' = Calls
  BY <1>1 DEF Moves, Calls
<1> QED BY <1>2 DEF Fifo!vars, Calls, Queued, CallOf, Ring

(* The copied block is not in the queue until the put index moves.          *)
LEMMA QueuedCopies ==
  ASSUME QueueIInv, NEW t \in Threads, PutCopy(t)
  PROVE  Queued' = Queued
<1>1. QueueTypeOK /\ Contents /\ IndicesAgree
  BY DEF QueueIInv, QueueInv
<1>2. gidx' = gidx /\ used' = used /\ used < maxsize /\ used \in Nat
  BY <1>1, QueueAssumption DEF PutCopy, QueueTypeOK
<1>3. ASSUME NEW k \in 1 .. used
      PROVE  buffer'[(gidx + k - 1) % maxsize] = buffer[(gidx + k - 1) % maxsize]
  <2>1. k - 1 \in 0 .. used - 1 /\ gidx + k - 1 = gidx + (k - 1)
    BY <1>1, <1>2, QueueAssumption DEF QueueTypeOK, Index
  <2>2. (gidx + (k - 1)) % maxsize # pidx /\ (gidx + (k - 1)) % maxsize \in Index
    BY <1>1, <1>2, <2>1, FreeSlot
  <2> QED BY <1>1, <2>1, <2>2 DEF PutCopy, QueueTypeOK
<1> QED BY <1>2, <1>3 DEF Queued, Ring

LEMMA QueuedPut ==
  ASSUME QueueIInv, NEW t \in Threads, PutIndex(t)
  PROVE  /\ held[t] \in Blocks
         /\ Len(Queued) < maxsize
         /\ Queued' = Append(Queued, held[t])
<1>1. QueueTypeOK /\ Contents /\ IndicesAgree
  BY DEF QueueIInv, QueueInv
<1>2. Goes(t, "put_index", "put_leave") /\ held' = held
      /\ gidx' = gidx /\ used' = used + 1 /\ buffer' = buffer
  BY DEF PutIndex
<1>3. used \in 0 .. maxsize - 1 /\ gidx \in 0 .. maxsize - 1
  BY <1>1, <1>2, RoomAndBlock, QueueAssumption
  DEF QueueIInv, Goes, Filling, QueueTypeOK, Index
<1>4. buffer[(gidx + used) % maxsize] = held[t] /\ held[t] \in Blocks
  BY <1>1, <1>2 DEF Contents, IndicesAgree, Goes, WithBlock
<1>5. InSet(buffer, gidx, used + 1, maxsize, Blocks)
  BY <1>1, <1>3, <1>4 DEF Contents, InSet
<1>6. InSet(buffer, gidx, used, maxsize, Blocks) /\ used \in 0 .. maxsize
  <2>1. used \in 0 .. maxsize
    BY <1>3, QueueAssumption
  <2> QED BY <1>1, <2>1 DEF Contents
<1>7. Len(Queued) < maxsize
  BY <1>3, <1>6, RingIsSeq, QueueAssumption DEF Queued
<1>8. Queued' = Append(Queued, held[t])
  <2>1. maxsize \in Nat \ {0}
    BY QueueAssumption
  <2>2. Ring(buffer, gidx, used + 1, maxsize)
          = Append(Ring(buffer, gidx, used, maxsize), buffer[(gidx + used) % maxsize])
    BY <1>3, <1>5, <2>1, RingPut, Zenon
  <2> QED BY <1>2, <1>4, <2>2 DEF Queued
<1> QED BY <1>4, <1>7, <1>8

LEMMA QueuedTake ==
  ASSUME QueueIInv, NEW t \in Threads, TakeIndex(t)
  PROVE  /\ Queued # <<>> /\ Head(Queued) = held[t]
         /\ Queued' = Tail(Queued)
<1>1. QueueTypeOK /\ Contents
  BY DEF QueueIInv, QueueInv
<1>2. Goes(t, "take_index", "take_leave") /\ held' = held
      /\ gidx' = (gidx + 1) % maxsize /\ used' = used - 1 /\ buffer' = buffer
  BY DEF TakeIndex
<1>3. used \in 1 .. maxsize /\ gidx \in 0 .. maxsize - 1
  BY <1>1, <1>2, RoomAndBlock, QueueAssumption
  DEF QueueIInv, Goes, Emptying, QueueTypeOK, Index
<1>4. InSet(buffer, gidx, used, maxsize, Blocks)
  BY <1>1 DEF Contents
<1>5. maxsize \in Nat \ {0}
  BY QueueAssumption
<1>6. used \in 0 .. maxsize /\ 1 \in 1 .. used
  BY <1>3, <1>5
<1>7. Queued \in Seq(Blocks) /\ Len(Queued) = used
  BY <1>3, <1>4, <1>5, <1>6, RingIsSeq DEF Queued
<1>8. Ring(buffer, gidx, used, maxsize) # <<>>
  BY <1>3, <1>4, <1>5, RingTake, Zenon
<1>9. Ring(buffer, gidx, used, maxsize)[1] = buffer[gidx]
  BY <1>3, <1>5, <1>6 DEF Ring
<1>10. Tail(Ring(buffer, gidx, used, maxsize))
         = Ring(buffer, (gidx + 1) % maxsize, used - 1, maxsize)
  BY <1>3, <1>4, <1>5, RingTake, Zenon
<1>11. Head(Queued) = Queued[1]
  BY <1>6, <1>7
<1>12. held[t] = buffer[gidx]
  BY <1>1, <1>2 DEF Contents, Goes
<1> QED BY <1>2, <1>8, <1>9, <1>10, <1>11, <1>12 DEF Queued

LEMMA FifoStep == QueueIInv /\ [QueueNext]_queueVars => [Fifo!Next]_(Fifo!vars)
<1> SUFFICES ASSUME QueueIInv, [QueueNext]_queueVars PROVE Fifo!Next \/ UNCHANGED Fifo!vars
  OBVIOUS
<1>1. QueueTypeOK /\ Contents /\ IndicesAgree
  BY DEF QueueIInv, QueueInv
<1>2. ASSUME NEW t \in Threads, NEW d \in Blocks, CallPut(t, d) PROVE Fifo!Next
  <2>1. Goes(t, "out", "wait_empty") /\ held'[t] = d /\ Queued' = Queued
        /\ \A u \in Threads \ {t} : held'[u] = held[u]
    BY <1>1, <1>2 DEF CallPut, Slots, Queued, QueueTypeOK
  <2>2. Calls[t] = Fifo!Out /\ Moves(t, Fifo!Putting(d))
    BY <1>1, <2>1, GoesMoves, CallOfEach
  <2> QED BY <2>1, <2>2, FifoNext
<1>3. ASSUME NEW t \in Threads, WaitEmpty(t) \/ PutEnter(t) PROVE UNCHANGED Fifo!vars
  BY <1>1, <1>3, Stutters, CallOfEach DEF WaitEmpty, PutEnter, Enter, Slots, Queued
<1>4. ASSUME NEW t \in Threads, WaitFull(t) \/ TakeEnter(t) PROVE UNCHANGED Fifo!vars
  BY <1>1, <1>4, Stutters, CallOfEach DEF WaitFull, TakeEnter, Enter, Slots, Queued
<1>5. ASSUME NEW t \in Threads, PutLeave(t) \/ TakeLeave(t) PROVE UNCHANGED Fifo!vars
  BY <1>1, <1>5, Stutters, CallOfEach DEF PutLeave, TakeLeave, Leave, Slots, Queued
<1>6. ASSUME NEW t \in Threads, CallTake(t) PROVE Fifo!Next
  <2>1. Goes(t, "out", "wait_full") /\ held' = held /\ Queued' = Queued
    BY <1>6 DEF CallTake, Slots, Queued
  <2>2. Calls[t] = Fifo!Out /\ Moves(t, Fifo!Taking)
    BY <1>1, <2>1, GoesMoves, CallOfEach
  <2> QED BY <2>1, <2>2, FifoNext
<1>7. ASSUME NEW t \in Threads, PostFull(t) PROVE Fifo!Next
  <2>1. Goes(t, "post_full", "out") /\ held' = held /\ Queued' = Queued
    BY <1>7 DEF PostFull, Slots, Queued
  <2>2. Calls[t] = Fifo!PutDone /\ Moves(t, Fifo!Out)
    BY <1>1, <2>1, GoesMoves, CallOfEach
  <2> QED BY <2>1, <2>2, FifoNext
<1>8. ASSUME NEW t \in Threads, PostEmpty(t) PROVE Fifo!Next
  <2>1. Goes(t, "post_empty", "out") /\ held' = held /\ Queued' = Queued
    BY <1>8 DEF PostEmpty, Slots, Queued
  <2>2. held[t] \in Blocks
    BY <1>1, <2>1 DEF Contents, WithBlock, Goes
  <2>3. Calls[t] = Fifo!TakeDone(held[t]) /\ Moves(t, Fifo!Out)
    BY <1>1, <2>1, GoesMoves, CallOfEach
  <2> QED BY <2>1, <2>2, <2>3, FifoNext
<1>9. ASSUME NEW t \in Threads, TakeCopy(t) PROVE UNCHANGED Fifo!vars
  <2>1. Goes(t, "take_copy", "take_index") /\ Queued' = Queued
        /\ \A u \in Threads \ {t} : held'[u] = held[u]
    BY <1>1, <1>9 DEF TakeCopy, Slots, Queued, QueueTypeOK
  <2>2. CallOf("take_copy", held[t]) = CallOf("take_index", held'[t])
    BY CallOfEach
  <2> QED BY <1>1, <2>1, <2>2, Stutters
<1>10. ASSUME NEW t \in Threads, PutCopy(t) PROVE UNCHANGED Fifo!vars
  <2>1. Goes(t, "put_copy", "put_index") /\ held' = held
    BY <1>10 DEF PutCopy
  <2>2. Queued' = Queued
    BY <1>10, QueuedCopies
  <2> QED BY <1>1, <2>1, <2>2, Stutters, CallOfEach
<1>11. ASSUME NEW t \in Threads, PutIndex(t) PROVE Fifo!Next
  <2>1. Goes(t, "put_index", "put_leave") /\ held' = held
    BY <1>11 DEF PutIndex
  <2>2. held[t] \in Blocks /\ Len(Queued) < maxsize /\ Queued' = Append(Queued, held[t])
    BY <1>11, QueuedPut
  <2>3. Calls[t] = Fifo!Putting(held[t]) /\ Moves(t, Fifo!PutDone)
    BY <1>1, <2>1, GoesMoves, CallOfEach
  <2> QED BY <2>2, <2>3, FifoNext
<1>12. ASSUME NEW t \in Threads, TakeIndex(t) PROVE Fifo!Next
  <2>1. Goes(t, "take_index", "take_leave") /\ held' = held
    BY <1>12 DEF TakeIndex
  <2>2. Queued # <<>> /\ Head(Queued) = held[t] /\ Queued' = Tail(Queued)
    BY <1>12, QueuedTake
  <2>3. Calls[t] = Fifo!Taking /\ Moves(t, Fifo!TakeDone(Head(Queued)))
    BY <1>1, <2>1, <2>2, GoesMoves, CallOfEach
  <2> QED BY <2>2, <2>3, FifoNext
<1>13. CASE UNCHANGED queueVars
  BY <1>13 DEF queueVars, Fifo!vars
<1> QED
  BY <1>2, <1>3, <1>4, <1>5, <1>6, <1>7, <1>8, <1>9, <1>10, <1>11, <1>12, <1>13
  DEF QueueNext, PutStep, TakeStep, Threads

LEMMA FifoStart == QueueInit => Fifo!Init
<1> SUFFICES ASSUME QueueInit PROVE Fifo!Init
  OBVIOUS
<1>1. Calls = [t \in Threads |-> Fifo!Out]
  BY CallOfEach DEF QueueInit, Calls
<1>2. Queued = <<>>
  BY DEF QueueInit, Queued, Ring
<1> QED BY <1>1, <1>2 DEF Fifo!Init, Calls, Queued, CallOf, Ring

(* The blocks come out once each and in the order they went in, and never   *)
(* more than maxsize are inside: for any number of threads, any blocks and  *)
(* any size, queue_put and queue_take are those of BlockFifo.               *)
THEOREM QueueImplementsFifo == QueueSpec => ImplementsFifo
  BY FifoStart, FifoStep, QueueStart, QueueKeeps, PTL
  DEF QueueSpec, ImplementsFifo, Fifo!Spec
=============================================================================
