------------------------------- MODULE RingProofs -------------------------------
(***************************************************************************)
(* The circular buffers of labs 5 and 6 as sequences: what a put and a     *)
(* take of one element do to the sequence of the slots in use.             *)
(***************************************************************************)
EXTENDS Integers, Sequences, SequenceTheorems, TLAPS

(* The remainders a circular buffer takes, without %. *)
LEMMA Wraps ==
  ASSUME NEW size \in Nat \ {0}, NEW a \in 0 .. size - 1, NEW b \in 0 .. size
  PROVE  (a + b) % size = IF a + b < size THEN a + b ELSE a + b - size
<1>1. a + b \in 0 .. 2 * size - 1
  OBVIOUS
<1> QED BY <1>1

(* Moving on by one before or after the other steps is the same. *)
LEMMA WrapsNext ==
  ASSUME NEW size \in Nat \ {0}, NEW a \in 0 .. size - 1, NEW b \in 0 .. size - 1
  PROVE  /\ (((a + 1) % size) + b) % size = (a + (b + 1)) % size
         /\ (((a + b) % size) + 1) % size = (a + (b + 1)) % size
<1> DEFINE h == (a + 1) % size
           i == (a + b) % size
<1>1. 1 \in 0 .. size /\ b \in 0 .. size /\ b + 1 \in 0 .. size
      /\ h \in 0 .. size - 1 /\ i \in 0 .. size - 1
  OBVIOUS
<1>2. /\ h = IF a + 1 < size THEN a + 1 ELSE a + 1 - size
      /\ i = IF a + b < size THEN a + b ELSE a + b - size
  BY <1>1, Wraps
<1> HIDE DEF h, i
<1>3. (a + (b + 1)) % size = IF a + (b + 1) < size THEN a + (b + 1) ELSE a + (b + 1) - size
  BY <1>1, Wraps
<1>4. (h + b) % size = IF h + b < size THEN h + b ELSE h + b - size
  BY <1>1, Wraps
<1>5. (i + 1) % size = IF i + 1 < size THEN i + 1 ELSE i + 1 - size
  BY <1>1, Wraps
<1>6. (h + b) % size = (a + (b + 1)) % size
  BY <1>1, <1>2, <1>3, <1>4
<1>7. (i + 1) % size = (a + (b + 1)) % size
  BY <1>1, <1>2, <1>3, <1>5
<1> QED BY <1>6, <1>7 DEF h, i

(* The slots in use, from index g on. *)
Ring(slots, g, used, size) == [k \in 1 .. used |-> slots[(g + k - 1) % size]]

InSet(slots, g, used, size, S) == \A k \in 0 .. used - 1 : slots[(g + k) % size] \in S

LEMMA AllInSet ==
  ASSUME NEW size \in Nat \ {0}, NEW S, NEW slots \in [0 .. size - 1 -> S],
         NEW g \in 0 .. size - 1, NEW used \in 0 .. size
  PROVE  InSet(slots, g, used, size, S)
<1> SUFFICES ASSUME NEW k \in 0 .. used - 1 PROVE slots[(g + k) % size] \in S
  BY DEF InSet
<1>1. (g + k) % size \in 0 .. size - 1
  OBVIOUS
<1> QED BY <1>1

LEMMA RingIsSeq ==
  ASSUME NEW size \in Nat \ {0}, NEW S, NEW slots, NEW g \in 0 .. size - 1,
         NEW used \in 0 .. size, InSet(slots, g, used, size, S)
  PROVE  /\ Ring(slots, g, used, size) \in Seq(S)
         /\ Len(Ring(slots, g, used, size)) = used
<1>1. ASSUME NEW k \in 1 .. used PROVE slots[(g + k - 1) % size] \in S
  <2>1. k - 1 \in 0 .. used - 1 /\ g + k - 1 = g + (k - 1)
    OBVIOUS
  <2> QED BY <2>1 DEF InSet
<1>2. Ring(slots, g, used, size) \in [1 .. used -> S]
  BY <1>1 DEF Ring
<1> QED BY <1>2

(* An element is put in the slot after those in use. *)
LEMMA RingPut ==
  ASSUME NEW size \in Nat \ {0}, NEW S, NEW slots, NEW g \in 0 .. size - 1,
         NEW used \in 0 .. size - 1, InSet(slots, g, used + 1, size, S)
  PROVE  Ring(slots, g, used + 1, size)
           = Append(Ring(slots, g, used, size), slots[(g + used) % size])
<1> DEFINE old == Ring(slots, g, used, size)
           new == Ring(slots, g, used + 1, size)
           last == slots[(g + used) % size]
<1>1. old \in Seq(S) /\ Len(old) = used
  <2>1. used \in 0 .. size /\ 0 .. used - 1 \subseteq 0 .. (used + 1) - 1
    OBVIOUS
  <2>2. InSet(slots, g, used, size, S)
    BY <2>1 DEF InSet
  <2> QED BY <2>1, <2>2, RingIsSeq
<1>2. new \in Seq(S) /\ Len(new) = used + 1
  <2>1. used + 1 \in 0 .. size 
    OBVIOUS
  <2> QED BY <2>1, RingIsSeq
<1>3. last \in S
  BY DEF InSet
<1>4. \A k \in 1 .. used : new[k] = old[k]
  BY DEF Ring
<1>5. new[used + 1] = last
  <2>1. g + (used + 1) - 1 = g + used
    OBVIOUS
  <2> QED BY <2>1 DEF Ring
<1> HIDE DEF old, new, last
<1>6. Append(old, last) \in Seq(S) /\ Len(Append(old, last)) = used + 1
      /\ (\A k \in 1 .. used : Append(old, last)[k] = old[k])
      /\ Append(old, last)[used + 1] = last
  BY <1>1, <1>3, AppendProperties
<1>7. \A k \in 1 .. Len(new) : new[k] = Append(old, last)[k]
  BY <1>2, <1>4, <1>5, <1>6
<1>8. new = Append(old, last)
  BY <1>2, <1>6, <1>7, SeqEqual
<1> QED BY <1>8 DEF old, new, last

(* An element is taken from the first slot in use. *)
LEMMA RingTake ==
  ASSUME NEW size \in Nat \ {0}, NEW S, NEW slots, NEW g \in 0 .. size - 1,
         NEW used \in 1 .. size, InSet(slots, g, used, size, S)
  PROVE  /\ Ring(slots, g, used, size) # <<>>
         /\ Tail(Ring(slots, g, used, size)) = Ring(slots, (g + 1) % size, used - 1, size)
         /\ InSet(slots, (g + 1) % size, used - 1, size, S)
<1> DEFINE old == Ring(slots, g, used, size)
           h == (g + 1) % size
           new == Ring(slots, h, used - 1, size)
<1>1. old \in Seq(S) /\ Len(old) = used
  <2>1. used \in 0 .. size
    OBVIOUS
  <2> QED BY <2>1, RingIsSeq
<1>2. h \in 0 .. size - 1
  OBVIOUS
(* From the next index on, each slot is one nearer.                         *)
<1>3. \A k \in 0 .. used - 1 : (h + k) % size = (g + (k + 1)) % size
  <2> SUFFICES ASSUME NEW k \in 0 .. used - 1
               PROVE  (h + k) % size = (g + (k + 1)) % size
    OBVIOUS
  <2>1. k \in 0 .. size - 1
    OBVIOUS
  <2> QED BY <2>1, WrapsNext
<1> HIDE DEF h
<1>4. InSet(slots, h, used - 1, size, S)
  <2> SUFFICES ASSUME NEW k \in 0 .. (used - 1) - 1 PROVE slots[(h + k) % size] \in S
    BY DEF InSet
  <2>1. k + 1 \in 0 .. used - 1 /\ k \in 0 .. used - 1
    OBVIOUS
  <2> QED BY <1>3, <2>1 DEF InSet
<1>5. new \in Seq(S) /\ Len(new) = used - 1
  <2>1. used - 1 \in 0 .. size
    OBVIOUS
  <2> QED BY <1>2, <1>4, <2>1, RingIsSeq
<1>6. old # <<>>
  BY <1>1
<1>7. \A k \in 1 .. used - 1 : new[k] = old[k + 1]
  <2> SUFFICES ASSUME NEW k \in 1 .. used - 1 PROVE new[k] = old[k + 1]
    OBVIOUS
  <2>1. k - 1 \in 0 .. used - 1 /\ k + 1 \in 1 .. used
        /\ h + k - 1 = h + (k - 1) /\ g + (k + 1) - 1 = g + ((k - 1) + 1)
    BY <1>2
  <2> QED BY <1>3, <2>1 DEF Ring
<1> HIDE DEF old, new
<1>8. Tail(old) \in Seq(S) /\ Len(Tail(old)) = used - 1
      /\ \A k \in 1 .. used - 1 : Tail(old)[k] = old[k + 1]
  BY <1>1, <1>6, HeadTailProperties
<1>9. Tail(old) = new
  <2>1. \A k \in 1 .. Len(Tail(old)) : Tail(old)[k] = new[k]
    BY <1>7, <1>8
  <2> QED BY <1>5, <1>8, <2>1, SeqEqual
<1> QED BY <1>4, <1>6, <1>9 DEF old, new, h
=============================================================================
