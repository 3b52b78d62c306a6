------------------------------- MODULE CopyProofs -------------------------------
(***************************************************************************)
(* The two programs that copy files.  mtcopy.c copies in order, for every  *)
(* file, any set of blocks and any size of the queue, and whatever call of *)
(* the C library fails.  Of the queue it uses what QueueProofs shows:      *)
(* QueuedPut, QueuedTake and that no other statement changes what is       *)
(* queued.  The copy commands of fso-sh.c copy what they report, for every *)
(* file and any size of the buffer.                                        *)
(***************************************************************************)
EXTENDS QueueProofs, MtCopy, FsoShell

(* Blocks read, blocks written, and the i-th block the reader sends. *)
Reads     == Len(file) - Len(unread)
Writes    == Len(output) + Len(unflushed)
Sent(r, i) == IF i <= r THEN file[i] ELSE EndBlock

(* A block that is in neither the queue nor a file: in the hands of the     *)
(* reader until the put index moves, in those of the writer after the get   *)
(* index has.                                                               *)
Giving == IF at[reader] \in {"wait_empty", "put_enter", "put_copy", "put_index"} THEN 1 ELSE 0
Taken  == IF \/ at[writer] \in {"take_leave", "post_empty"}
             \/ at[writer] = "out" /\ wr = "fwrite"
          THEN 1 ELSE 0
Ended  == IF rd \in {"fclose", "done"} THEN 1 ELSE 0

CopyTypeOK ==
  /\ file \in Seq(Blocks \ {EndBlock})
  /\ unread \in Seq(Blocks \ {EndBlock})
  /\ output \in Seq(Blocks) /\ unflushed \in Seq(Blocks)
  /\ rd \in {"none", "fopen", "fread", "fclose", "done"}
  /\ wr \in {"none", "fopen", "take", "fwrite", "done"}

(* Where the threads are.                                                   *)
Control ==
  /\ mn = "create_reader" => rd = "none"
  /\ mn \in {"create_reader", "create_writer"} => wr = "none"
  /\ at[writer] # "out" => wr = "fwrite"
  /\ exit = "success" => wr = "done"

(* What is left of the input is its end.                                    *)
Unread ==
  /\ Len(unread) <= Len(file)
  /\ \A k \in 1 .. Len(unread) : unread[k] = file[Reads + k]
  /\ Ended = 1 /\ ~failed => unread = <<>>

(* s is what follows the first n elements of f.                             *)
Follows(s, f, n) == \A k \in 1 .. Len(s) : s[k] = f[n + k]

(* The output file and the stdio buffer are its beginning.                  *)
Copied ==
  /\ Writes <= Len(file)
  /\ Follows(output, file, 0)
  /\ Follows(unflushed, file, Len(output))
  /\ wr = "done" => unflushed = <<>> /\ (~failed => Len(output) = Len(file))

(* In between are the blocks the writer has taken, those in the queue and   *)
(* the one the reader is putting there, in this order.                      *)
Flow ==
  /\ Writes + Taken + used + Giving = Reads + Ended
  /\ Taken = 1 => held[writer] = Sent(Reads, Writes + 1)
  /\ \A k \in 1 .. used : Queued[k] = Sent(Reads, Writes + Taken + k)
  /\ Giving = 1 => held[reader] = Sent(Reads, Writes + Taken + used + 1)

CopyInv ==
  /\ QueueIInv /\ CopyTypeOK /\ Control /\ Unread /\ Copied
  /\ Running /\ wr # "done" => Flow

LEMMA TwoThreads ==
  /\ reader \in Threads /\ writer \in Threads /\ reader # writer
  /\ EndBlock \in Blocks
  BY CopyAssumption, QueueAssumption DEF Threads

LEMMA QueuedIsSeq ==
  ASSUME QueueIInv
  PROVE  Queued \in Seq(Blocks) /\ Len(Queued) = used /\ used \in Nat
<1>1. /\ gidx \in 0 .. maxsize - 1 /\ used \in 0 .. maxsize
      /\ InSet(buffer, gidx, used, maxsize, Blocks)
  BY DEF QueueIInv, QueueInv, QueueTypeOK, Contents, Index
<1>2. maxsize \in Nat \ {0}
  BY QueueAssumption
<1> QED BY <1>1, <1>2, RingIsSeq DEF Queued

(* The positions of the copy are numbers. *)
LEMMA Positions ==
  ASSUME CopyTypeOK, Unread
  PROVE  /\ Len(file) \in Nat /\ Len(unread) \in Nat /\ Len(output) \in Nat
         /\ Len(unflushed) \in Nat
         /\ Reads \in Nat /\ Writes \in Nat
         /\ Giving \in {0, 1} /\ Taken \in {0, 1} /\ Ended \in {0, 1}
  BY DEF CopyTypeOK, Unread, Reads, Writes, Giving, Taken, Ended

LEMMA CopyStart == CopyInit => CopyInv
<1> SUFFICES ASSUME CopyInit PROVE CopyInv
  OBVIOUS
<1> USE DEF CopyInit
<1>1. QueueIInv
  BY QueueStart
<1>2. file \in Seq(Blocks \ {EndBlock}) /\ Len(file) \in Nat /\ Len(<<>>) = 0
  BY CopyAssumption
<1>3. CopyTypeOK
  BY <1>2 DEF CopyTypeOK
<1>4. /\ at[writer] = "out" /\ at[reader] = "out" /\ used = 0
      /\ Reads = 0 /\ Writes = 0 /\ Giving = 0 /\ Taken = 0 /\ Ended = 0
  BY <1>2, TwoThreads DEF QueueInit, Reads, Writes, Giving, Taken, Ended
<1>5. Control
  BY <1>4 DEF Control
<1>6. Unread
  BY <1>2, <1>4 DEF Unread
<1>7. Copied
  BY <1>2, <1>4 DEF Copied, Follows
<1>8. Flow
  BY <1>4 DEF Flow
<1> QED BY <1>1, <1>3, <1>5, <1>6, <1>7, <1>8 DEF CopyInv

-----------------------------------------------------------------------------
(* The queue *)

(* The copy uses the queue as its clients may. *)
LEMMA QueueKept == CopyInv /\ CopyNext => QueueIInv'
<1> SUFFICES ASSUME CopyInv, CopyNext PROVE QueueIInv'
  OBVIOUS
<1>1. reader \in Producers /\ writer \in Consumers /\ EndBlock \in Blocks
  BY CopyAssumption
<1>2. CASE ReaderReads
  <2>1. Head(unread) \in Blocks
    BY <1>2 DEF ReaderReads, CopyInv, CopyTypeOK
  <2>2. CallPut(reader, Head(unread))
    BY <1>2 DEF ReaderReads
  <2> QED BY <1>1, <2>1, <2>2, QueueKeeps DEF CopyInv, QueueNext
<1>3. CASE ReaderEnds
  BY <1>1, <1>3, QueueKeeps DEF ReaderEnds, CopyInv, QueueNext
<1>4. CASE WriterTakes
  BY <1>1, <1>4, QueueKeeps DEF WriterTakes, CopyInv, QueueNext
<1>5. CASE InQueue(PutStep(reader)) \/ InQueue(TakeStep(writer))
  BY <1>1, <1>5, QueueKeeps DEF InQueue, CopyInv, QueueNext
<1>6. CASE UNCHANGED queueVars
  BY <1>6, QueueKeeps DEF CopyInv
<1> QED
  BY <1>2, <1>3, <1>4, <1>5, <1>6
  DEF CopyNext, Reader, Writer, Main, ReaderOpens, ReaderCloses, WriterOpens, WriterWrites,
      WriterFails, WriterCloses, MainCreatesReader, MainCreatesWriter, MainJoinsReader,
      MainReturns, terminate

(* Only the update of an index changes what is queued. *)
LEMMA PutSteps ==
  ASSUME QueueIInv, PutStep(reader)
  PROVE  /\ held' = held /\ at'[writer] = at[writer]
         /\ \/ used' = used /\ Queued' = Queued /\ Giving' = Giving
            \/ /\ used' = used + 1 /\ Giving = 1 /\ Giving' = 0
               /\ held[reader] \in Blocks /\ Queued' = Append(Queued, held[reader])
<1> USE TwoThreads
<1>1. QueueTypeOK
  BY DEF QueueIInv, QueueInv
<1>2. CASE WaitEmpty(reader) \/ PutEnter(reader) \/ PutLeave(reader) \/ PostFull(reader)
  BY <1>1, <1>2 DEF WaitEmpty, PutEnter, PutLeave, PostFull, Enter, Leave, Goes, Slots,
     QueueTypeOK, Giving, Queued
<1>3. CASE PutCopy(reader)
  BY <1>1, <1>3, QueuedCopies DEF PutCopy, Goes, QueueTypeOK, Giving
<1>4. CASE PutIndex(reader)
  BY <1>1, <1>4, QueuedPut DEF PutIndex, Goes, QueueTypeOK, Giving
<1> QED BY <1>2, <1>3, <1>4 DEF PutStep

LEMMA TakeSteps ==
  ASSUME QueueIInv, Control, TakeStep(writer), wr' = wr
  PROVE  /\ held'[reader] = held[reader] /\ at'[reader] = at[reader]
         /\ at[writer] # "out"
         /\ \/ used' = used /\ Queued' = Queued /\ Taken' = Taken
               /\ (Taken = 1 => held'[writer] = held[writer])
            \/ /\ used' = used - 1 /\ Taken = 0 /\ Taken' = 1
               /\ held'[writer] = held[writer]
               /\ Queued # <<>> /\ held[writer] = Head(Queued) /\ Queued' = Tail(Queued)
<1> USE TwoThreads
<1>1. QueueTypeOK
  BY DEF QueueIInv, QueueInv
<1>2. CASE WaitFull(writer) \/ TakeEnter(writer) \/ TakeLeave(writer) \/ PostEmpty(writer)
  <2>1. at[writer] # "out" /\ wr = "fwrite"
    BY <1>2 DEF WaitFull, TakeEnter, TakeLeave, PostEmpty, Enter, Leave, Goes, Control
  <2> QED
    BY <1>1, <1>2, <2>1 DEF WaitFull, TakeEnter, TakeLeave, PostEmpty, Enter, Leave, Goes,
       Slots, QueueTypeOK, Taken, Queued
<1>3. CASE TakeCopy(writer)
  BY <1>1, <1>3 DEF TakeCopy, Goes, Slots, QueueTypeOK, Taken, Queued
<1>4. CASE TakeIndex(writer)
  BY <1>1, <1>4, QueuedTake DEF TakeIndex, Goes, QueueTypeOK, Taken
<1> QED BY <1>2, <1>3, <1>4 DEF TakeStep

(* What a thread does in the queue changes nothing else. *)
LEMMA OnlyQueue ==
  ASSUME CopyInv, NEW step, InQueue(step),
         at'[writer] = at[writer] \/ at[writer] # "out"
  PROVE  /\ CopyTypeOK' /\ Unread' /\ Copied' /\ Control'
         /\ Reads' = Reads /\ Writes' = Writes /\ Ended' = Ended
         /\ \A r, i : Sent(r, i)' = Sent(r, i)
<1>1. UNCHANGED <<file, rd, wr, mn, unread, unflushed, output, failed, exit>>
  BY DEF InQueue
<1>2. CopyTypeOK /\ Unread /\ Copied /\ Control
  BY DEF CopyInv
<1>3. Reads' = Reads /\ Writes' = Writes /\ Ended' = Ended
      /\ \A r, i : Sent(r, i)' = Sent(r, i)
  BY <1>1 DEF Reads, Writes, Ended, Sent
<1>4. CopyTypeOK'
  BY <1>1, <1>2 DEF CopyTypeOK
<1>5. Unread' /\ Copied'
  BY <1>1, <1>2, <1>3 DEF Unread, Copied
<1>6. Control'
  BY <1>1, <1>2 DEF Control
<1> QED BY <1>3, <1>4, <1>5, <1>6

LEMMA PutKeepsCopy ==
  ASSUME CopyInv, InQueue(PutStep(reader))
  PROVE  CopyInv'
<1>1. /\ CopyTypeOK /\ Unread /\ Control /\ QueueIInv /\ PutStep(reader) /\ Running
      /\ wr' = wr /\ exit' = exit
  BY DEF CopyInv, InQueue
<1>2. QueueIInv'
  BY QueueKept DEF CopyNext, Reader
<1>3. /\ held' = held /\ at'[writer] = at[writer]
      /\ \/ used' = used /\ Queued' = Queued /\ Giving' = Giving
         \/ /\ used' = used + 1 /\ Giving = 1 /\ Giving' = 0
            /\ held[reader] \in Blocks /\ Queued' = Append(Queued, held[reader])
  BY <1>1, PutSteps
<1>4. /\ CopyTypeOK' /\ Unread' /\ Copied' /\ Control'
      /\ Reads' = Reads /\ Writes' = Writes /\ Ended' = Ended
      /\ \A r, i : Sent(r, i)' = Sent(r, i)
  BY <1>3, OnlyQueue
<1>5. Taken' = Taken
  BY <1>1, <1>3 DEF Taken
<1>6. ASSUME wr # "done" PROVE Flow'
  <2>1. Flow
    BY <1>1, <1>6 DEF CopyInv
  <2>2. /\ Reads \in Nat /\ Writes \in Nat /\ Taken \in {0, 1} /\ Ended \in {0, 1}
        /\ used \in Nat /\ Queued \in Seq(Blocks) /\ Len(Queued) = used
    BY <1>1, Positions, QueuedIsSeq
  <2>3. CASE used' = used /\ Queued' = Queued /\ Giving' = Giving
    BY <1>3, <1>4, <1>5, <2>1, <2>3 DEF Flow
  <2>4. CASE /\ used' = used + 1 /\ Giving = 1 /\ Giving' = 0
             /\ held[reader] \in Blocks /\ Queued' = Append(Queued, held[reader])
    <3>1. held[reader] = Sent(Reads, Writes + Taken + used + 1)
      BY <2>1, <2>4 DEF Flow
    <3>2. ASSUME NEW k \in 1 .. used'
          PROVE  Queued'[k] = Sent(Reads, Writes + Taken + k)
      <4>1. CASE k = used + 1
        <5>1. Queued'[k] = held[reader]
          BY <2>2, <2>4, <4>1
        <5>2. Writes + Taken + used + 1 = Writes + Taken + k
          BY <2>2, <4>1
        <5> QED BY <3>1, <5>1, <5>2
      <4>2. CASE k # used + 1
        <5>1. k \in 1 .. used /\ Queued'[k] = Queued[k]
          BY <2>2, <2>4, <4>2
        <5> QED BY <2>1, <5>1 DEF Flow
      <4> QED BY <4>1, <4>2
    <3>3. Writes' + Taken' + used' + Giving' = Reads' + Ended'
      BY <1>4, <1>5, <2>1, <2>2, <2>4 DEF Flow
    <3>4. Taken = 1 => held'[writer] = Sent(Reads, Writes + 1)
      BY <1>3, <2>1 DEF Flow
    <3>5. Giving' # 1
      BY <2>4
    <3>6. \A k \in 1 .. used' : Queued'[k] = Sent(Reads, Writes + Taken + k)'
      BY <1>4, <1>5, <3>2
    <3>7. Taken' = 1 => held'[writer] = Sent(Reads, Writes + 1)'
      BY <1>4, <1>5, <3>4
    <3> QED BY <3>3, <3>5, <3>6, <3>7 DEF Flow
  <2> QED BY <1>3, <2>3, <2>4
<1> QED BY <1>1, <1>2, <1>4, <1>6 DEF CopyInv, Running

LEMMA TakeKeepsCopy ==
  ASSUME CopyInv, InQueue(TakeStep(writer))
  PROVE  CopyInv'
<1>1. /\ CopyTypeOK /\ Unread /\ Control /\ QueueIInv /\ TakeStep(writer) /\ Running
      /\ wr' = wr /\ exit' = exit
  BY DEF CopyInv, InQueue
<1>2. QueueIInv'
  BY QueueKept DEF CopyNext, Writer
<1>3. /\ held'[reader] = held[reader] /\ at'[reader] = at[reader] /\ at[writer] # "out"
      /\ \/ used' = used /\ Queued' = Queued /\ Taken' = Taken
            /\ (Taken = 1 => held'[writer] = held[writer])
         \/ /\ used' = used - 1 /\ Taken = 0 /\ Taken' = 1
            /\ held'[writer] = held[writer]
            /\ Queued # <<>> /\ held[writer] = Head(Queued) /\ Queued' = Tail(Queued)
  BY <1>1, TakeSteps
<1>4. /\ CopyTypeOK' /\ Unread' /\ Copied' /\ Control'
      /\ Reads' = Reads /\ Writes' = Writes /\ Ended' = Ended
      /\ \A r, i : Sent(r, i)' = Sent(r, i)
  BY <1>3, OnlyQueue
<1>5. Giving' = Giving
  BY <1>3 DEF Giving
<1>6. ASSUME wr # "done" PROVE Flow'
  <2>1. Flow
    BY <1>1, <1>6 DEF CopyInv
  <2>2. /\ Reads \in Nat /\ Writes \in Nat /\ Giving \in {0, 1} /\ Ended \in {0, 1}
        /\ used \in Nat /\ Queued \in Seq(Blocks) /\ Len(Queued) = used
    BY <1>1, Positions, QueuedIsSeq
  <2>3. CASE used' = used /\ Queued' = Queued /\ Taken' = Taken
             /\ (Taken = 1 => held'[writer] = held[writer])
    BY <1>3, <1>4, <1>5, <2>1, <2>3 DEF Flow
  <2>4. CASE /\ used' = used - 1 /\ Taken = 0 /\ Taken' = 1
             /\ held'[writer] = held[writer]
             /\ Queued # <<>> /\ held[writer] = Head(Queued) /\ Queued' = Tail(Queued)
    <3>1. used > 0 /\ held'[writer] = Queued[1] /\ 1 \in 1 .. used
      BY <2>2, <2>4
    <3>2. \A k \in 1 .. used - 1 : Queued'[k] = Queued[k + 1] /\ k + 1 \in 1 .. used
      BY <2>2, <2>4
    <3>3. held'[writer] = Sent(Reads, Writes + 1)
      <4>1. Queued[1] = Sent(Reads, Writes + Taken + 1) /\ Writes + Taken + 1 = Writes + 1
        BY <2>1, <2>2, <2>4, <3>1 DEF Flow
      <4> QED BY <3>1, <4>1
    <3>4. ASSUME NEW k \in 1 .. used - 1
          PROVE  Queued'[k] = Sent(Reads, Writes + 1 + k)
      <4>1. Queued[k + 1] = Sent(Reads, Writes + Taken + (k + 1))
        BY <2>1, <3>2 DEF Flow
      <4>2. Writes + Taken + (k + 1) = Writes + 1 + k
        BY <2>2, <2>4
      <4> QED BY <3>2, <4>1, <4>2
    <3>5. Writes' + Taken' + used' + Giving' = Reads' + Ended'
      BY <1>4, <1>5, <2>1, <2>2, <2>4 DEF Flow
    <3>6. Giving' = 1 => held'[reader] = Sent(Reads, Writes + 1 + (used - 1) + 1)
      <4>1. Giving = 1 => held[reader] = Sent(Reads, Writes + Taken + used + 1)
        BY <2>1 DEF Flow
      <4>2. Writes + Taken + used + 1 = Writes + 1 + (used - 1) + 1
        BY <2>2, <2>4
      <4> QED BY <1>3, <1>5, <4>1, <4>2
    <3> QED BY <1>4, <2>4, <3>3, <3>4, <3>5, <3>6 DEF Flow
  <2> QED BY <1>3, <2>3, <2>4
<1> QED BY <1>1, <1>2, <1>4, <1>6 DEF CopyInv, Running

-----------------------------------------------------------------------------
(* The reader *)

(* Between its calls of queue_put. *)
LEMMA ReaderCalls ==
  ASSUME QueueIInv, NEW d, at[reader] = "out", CallPut(reader, d), wr' = wr
  PROVE  /\ held'[reader] = d /\ held'[writer] = held[writer]
         /\ at'[writer] = at[writer]
         /\ used' = used /\ Queued' = Queued
         /\ Giving = 0 /\ Giving' = 1 /\ Taken' = Taken
<1>1. QueueTypeOK
  BY DEF QueueIInv, QueueInv
<1> QED
  BY <1>1, TwoThreads DEF CallPut, Goes, Slots, QueueTypeOK, Giving, Taken, Queued

LEMMA ReaderReadsKeeps ==
  ASSUME CopyInv, ReaderReads
  PROVE  CopyInv'
<1>1. /\ CopyTypeOK /\ Unread /\ Control /\ Copied /\ QueueIInv /\ Running
      /\ rd = "fread" /\ at[reader] = "out" /\ unread # <<>>
      /\ CallPut(reader, Head(unread)) /\ unread' = Tail(unread)
      /\ UNCHANGED <<file, rd, wr, mn, unflushed, output, failed, exit>>
  BY DEF CopyInv, ReaderReads, AtReader
<1>2. QueueIInv'
  BY QueueKept DEF CopyNext, Reader
<1>3. /\ held'[reader] = Head(unread) /\ held'[writer] = held[writer]
      /\ at'[writer] = at[writer] /\ used' = used /\ Queued' = Queued
      /\ Giving = 0 /\ Giving' = 1 /\ Taken' = Taken
  BY <1>1, ReaderCalls
<1>4. Reads \in Nat /\ Writes \in Nat /\ Taken \in {0, 1} /\ Ended = 0 /\ Ended' = 0
      /\ Len(file) \in Nat /\ Len(unread) \in Nat
  BY <1>1, Positions DEF Ended
<1>5. /\ unread \in Seq(Blocks \ {EndBlock}) /\ unread' \in Seq(Blocks \ {EndBlock})
      /\ Len(unread') = Len(unread) - 1 /\ Len(unread) > 0
      /\ \A k \in 1 .. Len(unread') : unread'[k] = unread[k + 1]
      /\ Head(unread) = unread[1]
  BY <1>1 DEF CopyTypeOK
<1>6. Reads' = Reads + 1 /\ Writes' = Writes /\ Reads = Len(file) - Len(unread)
  BY <1>1, <1>4, <1>5 DEF Reads, Writes
<1>7. CopyTypeOK' /\ Control' /\ Copied'
  <2>1. CopyTypeOK'
    BY <1>1, <1>5 DEF CopyTypeOK
  <2>2. Control'
    BY <1>1, <1>3 DEF Control
  <2>3. Copied'
    BY <1>1, <1>6 DEF Copied
  <2> QED BY <2>1, <2>2, <2>3
<1>8. Unread'
  <2>1. ASSUME NEW k \in 1 .. Len(unread') PROVE unread'[k] = file[Reads + 1 + k]
    <3>1. k + 1 \in 1 .. Len(unread) /\ Reads + (k + 1) = Reads + 1 + k
      BY <1>4, <1>5
    <3> QED BY <1>1, <1>5, <3>1 DEF Unread
  <2>2. Len(unread') <= Len(file')
    BY <1>1, <1>4, <1>5 DEF Unread
  <2> QED BY <1>1, <1>4, <1>6, <2>1, <2>2 DEF Unread
<1>9. ASSUME wr # "done" PROVE Flow'
  <2>1. Flow
    BY <1>1, <1>9 DEF CopyInv
  <2>2. used \in Nat /\ Writes + Taken + used = Reads
    BY <1>1, <1>3, <1>4, <2>1, QueuedIsSeq DEF Flow
  <2>3. \A i \in 1 .. Reads : Sent(Reads + 1, i) = Sent(Reads, i)
    BY <1>4 DEF Sent
  <2>4. \A r, i : Sent(r, i)' = Sent(r, i)
    BY <1>1 DEF Sent
  <2>5. Taken = 1 => held'[writer] = Sent(Reads + 1, Writes + 1)
    BY <1>3, <1>4, <2>1, <2>2, <2>3 DEF Flow
  <2>6. ASSUME NEW k \in 1 .. used PROVE Queued'[k] = Sent(Reads + 1, Writes + Taken + k)
    <3>1. Writes + Taken + k \in 1 .. Reads
      BY <1>4, <2>2
    <3> QED BY <1>3, <2>1, <2>3, <3>1 DEF Flow
  <2>7. held'[reader] = Sent(Reads + 1, Writes + Taken + used + 1)
    <3>1. Writes + Taken + used + 1 = Reads + 1
      BY <2>2
    <3>2. 1 \in 1 .. Len(unread) /\ Reads + 1 <= Reads + 1
      BY <1>4, <1>5
    <3> QED BY <1>1, <1>3, <1>5, <3>1, <3>2 DEF Sent, Unread
  <2>8. Writes' + Taken' + used' + Giving' = Reads' + Ended'
    BY <1>3, <1>4, <1>6, <2>2
  <2> QED BY <1>3, <1>6, <2>4, <2>5, <2>6, <2>7, <2>8 DEF Flow
<1> QED BY <1>1, <1>2, <1>7, <1>8, <1>9 DEF CopyInv, Running

LEMMA ReaderEndsKeeps ==
  ASSUME CopyInv, ReaderEnds
  PROVE  CopyInv'
<1>1. /\ CopyTypeOK /\ Unread /\ Control /\ Copied /\ QueueIInv /\ Running
      /\ rd = "fread" /\ rd' = "fclose" /\ at[reader] = "out"
      /\ CallPut(reader, EndBlock)
      /\ UNCHANGED <<file, wr, mn, unread, unflushed, output, exit>>
      /\ (unread = <<>> /\ failed' = failed) \/ failed' = TRUE
  BY DEF CopyInv, ReaderEnds, AtReader
<1>2. QueueIInv'
  BY QueueKept DEF CopyNext, Reader
<1>3. /\ held'[reader] = EndBlock /\ held'[writer] = held[writer]
      /\ at'[writer] = at[writer] /\ used' = used /\ Queued' = Queued
      /\ Giving = 0 /\ Giving' = 1 /\ Taken' = Taken
  BY <1>1, ReaderCalls
<1>4. Reads \in Nat /\ Writes \in Nat /\ Taken \in {0, 1} /\ Ended = 0 /\ Ended' = 1
  BY <1>1, Positions DEF Ended
<1>5. Reads' = Reads /\ Writes' = Writes
  BY <1>1 DEF Reads, Writes
<1>6. CopyTypeOK' /\ Control' /\ Copied' /\ Unread'
  <2>1. CopyTypeOK'
    BY <1>1 DEF CopyTypeOK
  <2>2. Control'
    BY <1>1, <1>3 DEF Control
  <2>3. Copied'
    BY <1>1, <1>5 DEF Copied
  <2>4. Unread'
    BY <1>1, <1>5 DEF Unread
  <2> QED BY <2>1, <2>2, <2>3, <2>4
<1>7. ASSUME wr # "done" PROVE Flow'
  <2>1. Flow
    BY <1>1, <1>7 DEF CopyInv
  <2>2. used \in Nat /\ Writes + Taken + used = Reads
    BY <1>1, <1>3, <1>4, <2>1, QueuedIsSeq DEF Flow
  <2>3. \A r, i : Sent(r, i)' = Sent(r, i)
    BY <1>1 DEF Sent
  <2>4. held'[reader] = Sent(Reads, Writes + Taken + used + 1)
    <3>1. ~(Writes + Taken + used + 1 <= Reads)
      BY <1>4, <2>2
    <3> QED BY <1>3, <3>1 DEF Sent
  <2>5. Writes' + Taken' + used' + Giving' = Reads' + Ended'
    BY <1>3, <1>4, <1>5, <2>2
  <2> QED BY <1>3, <1>5, <2>1, <2>3, <2>4, <2>5 DEF Flow
<1> QED BY <1>1, <1>2, <1>6, <1>7 DEF CopyInv, Running

-----------------------------------------------------------------------------
(* The writer *)

LEMMA WriterTakesKeeps ==
  ASSUME CopyInv, WriterTakes
  PROVE  CopyInv'
<1>1. /\ CopyTypeOK /\ Unread /\ Control /\ Copied /\ QueueIInv /\ Running
      /\ wr = "take" /\ wr' = "fwrite" /\ CallTake(writer)
      /\ UNCHANGED <<file, rd, mn, unread, unflushed, output, failed, exit>>
  BY DEF CopyInv, WriterTakes, AtWriter
<1>2. QueueIInv'
  BY QueueKept DEF CopyNext, Writer
<1>3. /\ held' = held /\ used' = used /\ Queued' = Queued
      /\ Giving' = Giving /\ Taken = 0 /\ Taken' = 0
  <2>1. QueueTypeOK
    BY <1>1 DEF QueueIInv, QueueInv
  <2> QED
    BY <1>1, <2>1, TwoThreads
    DEF CallTake, Goes, Slots, QueueTypeOK, Giving, Taken, Queued
<1>4. Reads' = Reads /\ Writes' = Writes /\ Ended' = Ended
      /\ \A r, i : Sent(r, i)' = Sent(r, i)
  BY <1>1 DEF Reads, Writes, Ended, Sent
<1>5. CopyTypeOK' /\ Control' /\ Copied' /\ Unread'
  <2>1. CopyTypeOK'
    BY <1>1 DEF CopyTypeOK
  <2>2. Control'
    BY <1>1 DEF Control, Running
  <2>3. Copied' /\ Unread'
    BY <1>1, <1>4 DEF Copied, Unread
  <2> QED BY <2>1, <2>2, <2>3
<1>6. Flow'
  BY <1>1, <1>3, <1>4 DEF Flow, CopyInv
<1> QED BY <1>1, <1>2, <1>5, <1>6 DEF CopyInv

(* Two pieces of a sequence, one after the other. *)
LEMMA Pieces ==
  ASSUME NEW S, NEW f, NEW s \in Seq(S), NEW t \in Seq(S),
         Follows(s, f, 0), Follows(t, f, Len(s))
  PROVE  /\ s \o t \in Seq(S) /\ Len(s \o t) = Len(s) + Len(t)
         /\ Follows(s \o t, f, 0)
<1>1. /\ s \o t \in Seq(S) /\ Len(s \o t) = Len(s) + Len(t)
      /\ \A k \in 1 .. Len(s) + Len(t) :
           (s \o t)[k] = IF k <= Len(s) THEN s[k] ELSE t[k - Len(s)]
  BY ConcatProperties
<1>2. Len(s) \in Nat /\ Len(t) \in Nat
  OBVIOUS
<1>3. ASSUME NEW k \in 1 .. Len(s) + Len(t) PROVE (s \o t)[k] = f[0 + k]
  <2>1. CASE k <= Len(s)
    BY <1>1, <1>2, <2>1 DEF Follows
  <2>2. CASE k > Len(s)
    <3>1. k - Len(s) \in 1 .. Len(t) /\ Len(s) + (k - Len(s)) = 0 + k
      BY <1>2, <2>2
    <3>2. t[k - Len(s)] = f[0 + k]
      BY <3>1 DEF Follows
    <3> QED BY <1>1, <1>2, <2>2, <3>2
  <2> QED BY <1>2, <2>1, <2>2
<1> QED BY <1>1, <1>3 DEF Follows

(* One block more, in the buffer or, with the buffer, in the file. *)
LEMMA OneBlockMore ==
  ASSUME CopyTypeOK, Copied, NEW bytes \in Seq(Blocks), Len(bytes) = Len(unflushed) + 1,
         Follows(bytes, file, Len(output)),
         \/ unflushed' = bytes /\ output' = output
         \/ unflushed' = <<>> /\ output' = output \o bytes
  PROVE  /\ output' \in Seq(Blocks) /\ unflushed' \in Seq(Blocks)
         /\ Writes' = Writes + 1
         /\ Follows(output', file, 0) /\ Follows(unflushed', file, Len(output'))
<1>1. /\ output \in Seq(Blocks) /\ Len(output) \in Nat /\ Len(unflushed) \in Nat
      /\ Follows(output, file, 0)
  BY DEF CopyTypeOK, Copied
<1>2. Writes = Len(output) + Len(unflushed) /\ Writes' = Len(output') + Len(unflushed')
  BY DEF Writes
<1>3. CASE unflushed' = bytes /\ output' = output
  BY <1>1, <1>2, <1>3
<1>4. CASE unflushed' = <<>> /\ output' = output \o bytes
  <2>1. /\ output \o bytes \in Seq(Blocks)
        /\ Len(output \o bytes) = Len(output) + Len(bytes)
        /\ Follows(output \o bytes, file, 0)
    BY <1>1, Pieces
  <2>2. unflushed' \in Seq(Blocks) /\ Len(unflushed') = 0
    BY <1>4
  <2>3. Follows(unflushed', file, Len(output'))
    BY <2>2 DEF Follows
  <2> QED BY <1>1, <1>2, <1>4, <2>1, <2>2, <2>3
<1> QED BY <1>3, <1>4

LEMMA WriterWritesKeeps ==
  ASSUME CopyInv, WriterWrites
  PROVE  CopyInv'
<1> DEFINE block == held[writer]
           bytes == Append(unflushed, block)
<1>1. /\ CopyTypeOK /\ Unread /\ Control /\ Copied /\ QueueIInv /\ Running
      /\ wr = "fwrite" /\ wr' = "take" /\ at[writer] = "out" /\ block # EndBlock
      /\ UNCHANGED <<queueVars, file, rd, mn, unread, failed, exit>>
      /\ \/ unflushed' = bytes /\ output' = output
         \/ unflushed' = <<>> /\ output' = output \o bytes
  BY DEF CopyInv, WriterWrites, AtWriter
<1>2. QueueIInv'
  BY QueueKept DEF CopyNext, Writer
<1>3. /\ held' = held /\ used' = used /\ Queued' = Queued /\ at' = at
      /\ Giving' = Giving /\ Taken = 1 /\ Taken' = 0
  BY <1>1 DEF queueVars, Giving, Taken, Queued
<1>4. /\ Reads' = Reads /\ Ended' = Ended
      /\ \A r, i : Sent(r, i)' = Sent(r, i)
  BY <1>1 DEF Reads, Ended, Sent
<1>5. /\ Reads \in Nat /\ Writes \in Nat /\ Ended \in {0, 1} /\ Giving \in {0, 1}
      /\ used \in Nat /\ Len(file) \in Nat /\ Len(unread) \in Nat
      /\ Len(output) \in Nat /\ Len(unflushed) \in Nat
      /\ output \in Seq(Blocks) /\ unflushed \in Seq(Blocks)
  BY <1>1, Positions, QueuedIsSeq DEF CopyTypeOK
(* It is not the special block, so it is the next block of the input.       *)
<1>6. /\ Flow /\ Writes + 1 <= Reads /\ block = file[Writes + 1]
      /\ block \in Blocks /\ Writes + 1 <= Len(file)
  <2>1. Flow /\ block = Sent(Reads, Writes + 1)
    BY <1>1, <1>3 DEF CopyInv, Flow
  <2>2. Writes + 1 <= Reads /\ block = file[Writes + 1]
    BY <1>1, <2>1 DEF Sent
  <2>3. Writes + 1 \in 1 .. Len(file)
    BY <1>5, <2>2 DEF Reads
  <2> QED BY <1>1, <2>1, <2>2, <2>3 DEF CopyTypeOK
<1> HIDE DEF block
<1>7. /\ bytes \in Seq(Blocks) /\ Len(bytes) = Len(unflushed) + 1
      /\ Follows(bytes, file, Len(output))
  <2>1. bytes \in Seq(Blocks) /\ Len(bytes) = Len(unflushed) + 1
    BY <1>5, <1>6
  <2>2. ASSUME NEW k \in 1 .. Len(bytes) PROVE bytes[k] = file[Len(output) + k]
    <3>1. CASE k = Len(unflushed) + 1
      BY <1>5, <1>6, <3>1 DEF Writes
    <3>2. CASE k # Len(unflushed) + 1
      <4>1. k \in 1 .. Len(unflushed) /\ bytes[k] = unflushed[k]
        BY <1>5, <1>6, <2>1, <3>2
      <4> QED BY <1>1, <4>1 DEF Copied, Follows
    <3> QED BY <3>1, <3>2
  <2> QED BY <2>1, <2>2 DEF Follows
<1> HIDE DEF bytes
<1>8. /\ output' \in Seq(Blocks) /\ unflushed' \in Seq(Blocks)
      /\ Writes' = Writes + 1
      /\ Follows(output', file, 0) /\ Follows(unflushed', file, Len(output'))
  BY <1>1, <1>7, OneBlockMore
<1>9. CopyTypeOK' /\ Control' /\ Copied' /\ Unread'
  <2>1. CopyTypeOK'
    BY <1>1, <1>8 DEF CopyTypeOK
  <2>2. Control'
    BY <1>1, <1>3 DEF Control, Running
  <2>3. Copied'
    BY <1>1, <1>6, <1>8 DEF Copied
  <2>4. Unread'
    BY <1>1, <1>4 DEF Unread
  <2> QED BY <2>1, <2>2, <2>3, <2>4
<1>10. Flow'
  <2>1. Writes + 1 + used + Giving = Reads + Ended
    BY <1>3, <1>6 DEF Flow
  <2>2. \A k \in 1 .. used : Queued[k] = Sent(Reads, Writes + 1 + 0 + k)
    BY <1>3, <1>5, <1>6 DEF Flow
  <2>3. Giving = 1 => held[reader] = Sent(Reads, Writes + 1 + 0 + used + 1)
    BY <1>3, <1>5, <1>6 DEF Flow
  <2>4. Writes' + Taken' + used' + Giving' = Reads' + Ended'
    BY <1>3, <1>4, <1>5, <1>8, <2>1
  <2> QED BY <1>3, <1>4, <1>8, <2>2, <2>3, <2>4 DEF Flow
<1> QED BY <1>1, <1>2, <1>9, <1>10 DEF CopyInv

LEMMA WriterFailsKeeps ==
  ASSUME CopyInv, WriterFails
  PROVE  CopyInv'
<1>1. /\ CopyTypeOK /\ Unread /\ Control /\ Copied /\ Running
      /\ wr = "fwrite" /\ exit' = "failure" /\ failed' = TRUE /\ unflushed' = <<>>
      /\ UNCHANGED <<queueVars, file, rd, wr, mn, unread, output>>
  BY DEF CopyInv, WriterFails, AtWriter
<1>2. QueueIInv'
  BY QueueKept DEF CopyNext, Writer
<1>3. Reads' = Reads /\ Ended' = Ended
  BY <1>1 DEF Reads, Ended
<1>4. CopyTypeOK' /\ Unread'
  BY <1>1, <1>3 DEF CopyTypeOK, Unread
<1>5. Control'
  BY <1>1 DEF Control, queueVars
<1>6. Copied'
  <2>1. Len(output) <= Len(file)
    BY <1>1 DEF Copied, Writes, CopyTypeOK
  <2>2. Follows(unflushed', file', Len(output'))
    BY <1>1 DEF Follows
  <2> QED BY <1>1, <2>1, <2>2 DEF Copied, Writes, CopyTypeOK
<1> QED BY <1>1, <1>2, <1>4, <1>5, <1>6 DEF CopyInv, Running

LEMMA WriterClosesKeeps ==
  ASSUME CopyInv, WriterCloses
  PROVE  CopyInv'
<1>1. /\ CopyTypeOK /\ Unread /\ Control /\ Copied /\ QueueIInv /\ Running
      /\ wr = "fwrite" /\ wr' = "done" /\ at[writer] = "out" /\ held[writer] = EndBlock
      /\ unflushed' = <<>>
      /\ UNCHANGED <<queueVars, file, rd, mn, unread, exit>>
      /\ \/ output' = output \o unflushed /\ failed' = failed
         \/ failed' = TRUE /\ output' = output
  BY DEF CopyInv, WriterCloses, AtWriter
<1>2. QueueIInv'
  BY QueueKept DEF CopyNext, Writer
<1>3. /\ Reads \in Nat /\ Writes \in Nat /\ Ended \in {0, 1} /\ Giving \in {0, 1}
      /\ used \in Nat /\ Len(file) \in Nat /\ Len(unread) \in Nat
      /\ Len(output) \in Nat /\ Len(unflushed) \in Nat
  BY <1>1, Positions, QueuedIsSeq
(* The special block is no block of the input: everything that was read has *)
(* been written.                                                            *)
<1>4. Ended = 1 /\ Writes = Reads
  <2>1. Taken = 1
    BY <1>1 DEF Taken
  <2>2. /\ EndBlock = Sent(Reads, Writes + 1)
        /\ Writes + 1 + used + Giving = Reads + Ended
    BY <1>1, <2>1 DEF CopyInv, Flow
  <2>3. ASSUME Writes + 1 <= Reads PROVE FALSE
    <3>1. Writes + 1 \in 1 .. Len(file)
      BY <1>3, <2>3 DEF Reads
    <3>2. file[Writes + 1] # EndBlock
      BY <1>1, <3>1 DEF CopyTypeOK
    <3> QED BY <2>2, <2>3, <3>2 DEF Sent
  <2> QED BY <1>3, <2>2, <2>3
<1>5. ~failed => Writes = Len(file)
  <2>1. ~failed => Len(unread) = 0
    BY <1>1, <1>4 DEF Unread
  <2> QED BY <1>3, <1>4, <2>1 DEF Reads
<1>6. Reads' = Reads /\ Ended' = Ended
  BY <1>1 DEF Reads, Ended
<1>7. /\ output' \in Seq(Blocks) /\ Len(output') <= Len(file)
      /\ Follows(output', file, 0)
      /\ ~failed' => Len(output') = Len(file)
  <2>1. CASE output' = output \o unflushed /\ failed' = failed
    <3>1. output \in Seq(Blocks) /\ unflushed \in Seq(Blocks)
      BY <1>1 DEF CopyTypeOK
    <3>2. /\ output \o unflushed \in Seq(Blocks)
          /\ Len(output \o unflushed) = Writes
          /\ Follows(output \o unflushed, file, 0)
      BY <1>1, <3>1, Pieces DEF Copied, Writes
    <3> QED BY <1>1, <1>5, <2>1, <3>2 DEF Copied
  <2>2. CASE failed' = TRUE /\ output' = output
    BY <1>1, <1>3, <2>2 DEF Copied, Writes, CopyTypeOK
  <2> QED BY <1>1, <2>1, <2>2
<1>8. CopyTypeOK' /\ Control' /\ Unread'
  <2>1. CopyTypeOK'
    BY <1>1, <1>7 DEF CopyTypeOK
  <2>2. Control'
    BY <1>1 DEF Control, queueVars, Running
  <2>3. ~failed' => ~failed
    BY <1>1
  <2>4. Unread'
    BY <1>1, <1>6, <2>3 DEF Unread
  <2> QED BY <2>1, <2>2, <2>4
<1>9. Copied'
  <2>1. Len(unflushed') = 0 /\ Len(output') \in Nat
    BY <1>1, <1>7
  <2>2. Follows(unflushed', file', Len(output'))
    BY <2>1 DEF Follows
  <2> QED BY <1>1, <1>7, <2>1, <2>2 DEF Copied, Writes
<1> QED BY <1>1, <1>2, <1>8, <1>9 DEF CopyInv

-----------------------------------------------------------------------------
(* The ends of the process, and the steps that touch neither queue nor      *)
(* files.                                                                   *)
LEMMA TerminateKeeps ==
  ASSUME CopyInv, QueueIInv', terminate
  PROVE  CopyInv'
<1>1. /\ CopyTypeOK /\ Unread /\ Control /\ Copied
      /\ exit' = "failure" /\ unflushed' = <<>>
      /\ output' \in {output, output \o unflushed}
      /\ UNCHANGED <<queueVars, file, rd, wr, mn, unread, failed>>
  BY DEF CopyInv, terminate
<1>2. Reads' = Reads /\ Ended' = Ended
  BY <1>1 DEF Reads, Ended
<1>3. /\ output \in Seq(Blocks) /\ unflushed \in Seq(Blocks)
      /\ Len(output) \in Nat /\ Len(unflushed) \in Nat /\ Len(file) \in Nat
  BY <1>1 DEF CopyTypeOK
<1>4. /\ output \o unflushed \in Seq(Blocks)
      /\ Len(output \o unflushed) = Len(output) + Len(unflushed)
      /\ Follows(output \o unflushed, file, 0)
  BY <1>1, <1>3, Pieces DEF Copied
<1>5. /\ output' \in Seq(Blocks) /\ Len(output') <= Len(file)
      /\ Follows(output', file, 0)
      /\ unflushed = <<>> => Len(output') = Len(output)
  <2>1. /\ Len(output) + Len(unflushed) <= Len(file)
        /\ Follows(output, file, 0)
    BY <1>1 DEF Copied, Writes
  <2>2. unflushed = <<>> => Len(unflushed) = 0
    OBVIOUS
  <2>3. CASE output' = output
    BY <1>3, <2>1, <2>3
  <2>4. CASE output' = output \o unflushed
    <3>1. Len(output') = Len(output) + Len(unflushed)
      BY <1>4, <2>4
    <3> QED BY <1>3, <1>4, <2>1, <2>2, <2>4, <3>1
  <2> QED BY <1>1, <2>3, <2>4
<1>6. CopyTypeOK' /\ Unread' /\ Control'
  <2>1. CopyTypeOK'
    BY <1>1, <1>5 DEF CopyTypeOK
  <2>2. Unread'
    BY <1>1, <1>2 DEF Unread
  <2>3. Control'
    BY <1>1 DEF Control, queueVars
  <2> QED BY <2>1, <2>2, <2>3
<1>7. Copied'
  <2>1. Follows(unflushed', file', Len(output')) /\ Len(unflushed') = 0
    BY <1>1 DEF Follows
  <2> QED BY <1>1, <1>5, <2>1 DEF Copied, Writes
<1> QED BY <1>1, <1>6, <1>7 DEF CopyInv, Running

LEMMA ThreadKeeps ==
  ASSUME CopyInv, QueueIInv', Running,
         UNCHANGED <<queueVars, file, unread, unflushed, output, failed>>,
         rd' \in {"none", "fopen", "fread", "fclose", "done"}, Ended' = Ended,
         wr' \in {"none", "fopen", "take", "fwrite", "done"},
         wr' = wr \/ (wr' \notin {"fwrite", "done"} /\ wr \notin {"fwrite", "done"}),
         mn' = "create_reader" => rd' = "none",
         mn' \in {"create_reader", "create_writer"} => wr' = "none",
         exit' = exit \/ (exit' = "success" /\ wr' = "done")
  PROVE  CopyInv'
<1>1. CopyTypeOK /\ Unread /\ Control /\ Copied
  BY DEF CopyInv
<1>2. /\ Reads' = Reads /\ Writes' = Writes
      /\ \A r, i : Sent(r, i)' = Sent(r, i)
      /\ at' = at /\ held' = held /\ used' = used /\ Queued' = Queued /\ Giving' = Giving
  BY DEF Reads, Writes, Sent, queueVars, Queued, Giving
<1>3. Taken' = Taken
  BY <1>2 DEF Taken
<1>4. CopyTypeOK' /\ Unread'
  BY <1>1, <1>2 DEF CopyTypeOK, Unread
<1>5. Control'
  BY <1>1, <1>2 DEF Control, Running
<1>6. Copied'
  BY <1>1, <1>2 DEF Copied
<1>7. wr # "done" => Flow'
  <2> SUFFICES ASSUME wr # "done" PROVE Flow'
    OBVIOUS
  <2>1. Flow
    BY DEF CopyInv
  <2> QED BY <1>2, <1>3, <2>1 DEF Flow
<1>8. Running' /\ wr' # "done" => wr # "done"
  OBVIOUS
<1> QED BY <1>4, <1>5, <1>6, <1>7, <1>8 DEF CopyInv

LEMMA CopyKeeps == CopyInv /\ [CopyNext]_copyVars => CopyInv'
<1> SUFFICES ASSUME CopyInv, [CopyNext]_copyVars PROVE CopyInv'
  OBVIOUS
<1>1. CopyTypeOK /\ Control
  BY DEF CopyInv
<1>2. CopyNext => QueueIInv'
  BY QueueKept
<1>3. CASE CopyNext /\ terminate
  BY <1>2, <1>3, TerminateKeeps
<1>4. CASE ReaderOpens /\ ~terminate
  <2>1. /\ Running /\ rd = "fopen" /\ rd' = "fread"
        /\ UNCHANGED <<queueVars, file, wr, mn, unread, unflushed, output, failed, exit>>
    BY <1>4 DEF ReaderOpens, AtReader
  <2>2. QueueIInv' /\ Ended' = Ended
    BY <1>2, <1>4, <2>1 DEF CopyNext, Reader, Ended
  <2> QED BY <1>1, <2>1, <2>2, ThreadKeeps DEF CopyTypeOK, Control
<1>5. CASE ReaderCloses
  <2>1. /\ Running /\ rd = "fclose" /\ rd' = "done"
        /\ UNCHANGED <<queueVars, file, wr, mn, unread, unflushed, output, failed, exit>>
    BY <1>5 DEF ReaderCloses, AtReader
  <2>2. QueueIInv' /\ Ended' = Ended
    BY <1>2, <1>5, <2>1 DEF CopyNext, Reader, Ended
  <2> QED BY <1>1, <2>1, <2>2, ThreadKeeps DEF CopyTypeOK, Control
<1>6. CASE WriterOpens /\ ~terminate
  <2>1. /\ Running /\ wr = "fopen" /\ wr' = "take"
        /\ UNCHANGED <<queueVars, file, rd, mn, unread, unflushed, output, failed, exit>>
    BY <1>6 DEF WriterOpens, AtWriter
  <2>2. QueueIInv' /\ Ended' = Ended
    BY <1>2, <1>6, <2>1 DEF CopyNext, Writer, Ended
  <2> QED BY <1>1, <2>1, <2>2, ThreadKeeps DEF CopyTypeOK, Control
<1>7. CASE MainCreatesReader /\ ~terminate
  <2>1. /\ Running /\ rd = "none" /\ rd' = "fopen"
        /\ mn = "create_reader" /\ mn' = "create_writer"
        /\ UNCHANGED <<queueVars, file, wr, unread, unflushed, output, failed, exit>>
    BY <1>1, <1>7 DEF MainCreatesReader, AtMain, Control
  <2>2. QueueIInv' /\ Ended' = Ended
    BY <1>2, <1>7, <2>1 DEF CopyNext, Main, Ended
  <2> QED BY <1>1, <2>1, <2>2, ThreadKeeps DEF CopyTypeOK, Control
<1>8. CASE MainCreatesWriter /\ ~terminate
  <2>1. /\ Running /\ wr = "none" /\ wr' = "fopen" /\ mn' = "join_reader"
        /\ UNCHANGED <<queueVars, file, rd, unread, unflushed, output, failed, exit>>
    BY <1>1, <1>8 DEF MainCreatesWriter, AtMain, Control
  <2>2. QueueIInv' /\ Ended' = Ended
    BY <1>2, <1>8, <2>1 DEF CopyNext, Main, Ended
  <2> QED BY <1>1, <2>1, <2>2, ThreadKeeps DEF CopyTypeOK
<1>9. CASE MainJoinsReader \/ MainReturns
  <2>1. /\ Running /\ mn' \notin {"create_reader", "create_writer"}
        /\ exit' = exit \/ (exit' = "success" /\ wr = "done")
        /\ UNCHANGED <<queueVars, file, rd, wr, unread, unflushed, output, failed>>
    BY <1>9 DEF MainJoinsReader, MainReturns, AtMain
  <2>2. QueueIInv' /\ Ended' = Ended
    BY <1>2, <1>9, <2>1 DEF CopyNext, Main, Ended
  <2> QED BY <1>1, <2>1, <2>2, ThreadKeeps DEF CopyTypeOK
<1>10. CASE UNCHANGED copyVars
  <2>1. QueueIInv'
    BY <1>10, QueueKeeps DEF copyVars, CopyInv
  <2>2. /\ CopyTypeOK' /\ Unread' /\ Copied' /\ Control'
    BY <1>10 DEF copyVars, queueVars, CopyInv, CopyTypeOK, Unread, Copied, Control, Reads,
       Writes, Ended
  <2>3. UNCHANGED <<Flow, exit, wr>>
    BY <1>10 DEF copyVars, queueVars, Flow, Reads, Writes, Ended, Giving, Taken, Queued, Sent
  <2> QED BY <2>1, <2>2, <2>3 DEF CopyInv, Running
<1> QED
  BY <1>3, <1>4, <1>5, <1>6, <1>7, <1>8, <1>9, <1>10, ReaderReadsKeeps, ReaderEndsKeeps,
     PutKeepsCopy, WriterTakesKeeps, WriterWritesKeeps, WriterFailsKeeps,
     WriterClosesKeeps, TakeKeepsCopy
  DEF CopyNext, Reader, Writer, Main

(* No block is lost, repeated or out of order in what mtcopy leaves in the  *)
(* output file, whenever and however the process ends.                      *)
THEOREM CopiesInOrder == CopySpec => []OutputIsPrefix
<1>1. CopyInv => OutputIsPrefix
  <2> SUFFICES ASSUME CopyInv PROVE OutputIsPrefix
    OBVIOUS
  <2>1. /\ output \in Seq(Blocks) /\ file \in Seq(Blocks)
        /\ Len(output) \in Nat /\ Len(unflushed) \in Nat /\ Len(file) \in Nat
    BY DEF CopyInv, CopyTypeOK
  <2>2. /\ Len(output) <= Len(file)
        /\ \A k \in 1 .. Len(output) : output[k] = file[k]
    BY <2>1 DEF CopyInv, Copied, Follows, Writes
  <2>3. /\ SubSeq(file, 1, Len(output)) \in Seq(Blocks)
        /\ Len(SubSeq(file, 1, Len(output))) = Len(output)
        /\ \A k \in 1 .. Len(output) : SubSeq(file, 1, Len(output))[k] = file[k]
    BY <2>1, <2>2
  <2>4. output = SubSeq(file, 1, Len(output))
    BY <2>1, <2>2, <2>3, SeqEqual
  <2> QED BY <2>2, <2>4 DEF OutputIsPrefix
<1> QED BY <1>1, CopyStart, CopyKeeps, PTL DEF CopySpec

(* When main returns 0 and nothing failed the whole file has been copied:   *)
(* main waits for a writer that has taken the special block, and that block *)
(* is the last one in the queue.                                            *)
THEOREM ExitZeroMeansCopied == CopySpec => []ExitZeroCopied
<1>1. CopyInv => ExitZeroCopied
  <2> SUFFICES ASSUME CopyInv, exit = "success", ~failed PROVE output = file
    BY DEF ExitZeroCopied
  <2>1. /\ output \in Seq(Blocks) /\ file \in Seq(Blocks)
    BY DEF CopyInv, CopyTypeOK
  <2>2. Len(output) = Len(file)
    BY DEF CopyInv, Control, Copied
  <2>3. \A k \in 1 .. Len(output) : output[k] = file[k]
    BY DEF CopyInv, Copied, Follows
  <2> QED BY <2>1, <2>2, <2>3, SeqEqual
<1> QED BY <1>1, CopyStart, CopyKeeps, PTL DEF CopySpec

-----------------------------------------------------------------------------
(* The copy commands of fso-sh.c.  The file being copied in holds, before   *)
(* each of the calls, the beginning of the host file that has been copied,  *)
(* and the host file being copied out the beginning of the file.            *)

Byte == UNION {{bytes[k] : k \in DOMAIN bytes} : bytes \in HostFiles}
File == [name : Names, data : Seq(Byte)]
Request == [name : Names \cup {NoName}, id : Int, data : Seq(Byte), offset : Nat, done : Nat]

ShellTypeOK ==
  /\ dir \in Seq(File)
  /\ host \in [HostNames -> Seq(Byte) \cup {Absent}]
  /\ cmd \in [at : {"prompt", "fs_create", "fread", "fs_write", "fs_open", "loop", "fs_read"},
              file : HostNames \cup {Absent}, name : Names \cup {NoName},
              fid : Int, offset : Nat]
  /\ req \in Request

DistinctNames ==
  \A j, k \in 1 .. Len(dir) : dir[j].name = dir[k].name => j = k

(* Which calls of the file system a command may be in. *)
Phases ==
  /\ phase = "create" => /\ cmd.at \in {"prompt", "fs_create"}
                         /\ req.name \in Names /\ ~Exists(req.name)
                         /\ cmd.at = "fs_create" => req.name = cmd.name
  /\ phase = "write" => /\ cmd.at = "fs_write" /\ req.id = cmd.fid
                        /\ req.data = Chunk /\ req.offset = cmd.offset
  /\ cmd.at # "prompt" => /\ phase \in {"idle", "create", "write"}
                          /\ cmd.file \in HostNames /\ cmd.name \in Names
  /\ cmd.at \in {"fs_create", "fread", "fs_write"} => host[cmd.file] # Absent
  /\ report # NoReport => phase = "idle" /\ cmd.at = "prompt"

(* n bytes have been copied in. *)
CopiedIn(n) ==
  /\ cmd.fid \in Ids /\ n \in 0 .. Len(host[cmd.file])
  /\ dir[cmd.fid + 1] = [name |-> cmd.name, data |-> SubSeq(host[cmd.file], 1, n)]

CopyingIn ==
  /\ cmd.at = "fs_create" =>
       /\ cmd.offset = 0
       /\ phase = "idle" /\ ret.val # -1 =>
            ret.val \in Ids /\ dir[ret.val + 1] = [name |-> cmd.name, data |-> <<>>]
  /\ cmd.at = "fread" => CopiedIn(cmd.offset)
  /\ cmd.at = "fs_write" =>
       /\ Chunk # <<>>
       /\ phase = "write" => CopiedIn(cmd.offset)
       /\ phase = "idle" => \/ ret.val = -1 /\ CopiedIn(cmd.offset)
                            \/ ret.val = Len(Chunk) /\ CopiedIn(cmd.offset + ret.val)

(* n bytes have been copied out; the host file has them all unless some     *)
(* were lost.                                                               *)
CopiedOut(id, n) ==
  /\ id \in Ids /\ dir[id + 1].name = cmd.name
  /\ n \in 0 .. Len(dir[id + 1].data)
  /\ host[cmd.file] \in Seq(Byte) /\ lost \in Nat
  /\ lost = 0 => host[cmd.file] = SubSeq(dir[id + 1].data, 1, n)

CopyingOut ==
  /\ cmd.at \in {"fs_open", "loop", "fs_read"} => phase = "idle"
  /\ cmd.at = "fs_open" =>
       cmd.offset = 0 /\ (ret.val = -1 \/ CopiedOut(ret.val, 0))
  /\ cmd.at = "loop" => CopiedOut(cmd.fid, cmd.offset)
  /\ cmd.at = "fs_read" =>
       LET data == dir[cmd.fid + 1].data
       IN  /\ CopiedOut(cmd.fid, cmd.offset)
           /\ ret.val \in 0 .. Len(data) - cmd.offset
           /\ ret.val = 0 => cmd.offset = Len(data)
           /\ ret.out = SubSeq(data, cmd.offset + 1, cmd.offset + ret.val)

ShellInv ==
  /\ ShellTypeOK /\ DistinctNames /\ Phases /\ CopyingIn /\ CopyingOut
  /\ CopiedInPrefix /\ CopiedOutWhole

LEMMA HostBytes ==
  \A bytes \in HostFiles : bytes \in Seq(Byte)
<1> SUFFICES ASSUME NEW bytes \in HostFiles PROVE bytes \in Seq(Byte)
  OBVIOUS
<1> DEFINE Own == {bytes[k] : k \in DOMAIN bytes}
<1>1. bytes \in Seq(Own)
  BY ShellAssumption
<1>2. Own \subseteq Byte
  BY DEF Byte
<1> HIDE DEF Own
<1> QED BY <1>1, <1>2

LEMMA BufferSize == bufferSize \in Nat /\ bufferSize > 0
  BY ShellAssumption

(* The beginning of a sequence. *)
LEMMA Beginning ==
  ASSUME NEW S, NEW h \in Seq(S), NEW n \in 0 .. Len(h)
  PROVE  /\ SubSeq(h, 1, n) \in Seq(S) /\ Len(SubSeq(h, 1, n)) = n
         /\ \A k \in 1 .. n : SubSeq(h, 1, n)[k] = h[k]
<1>1. n \in Nat /\ Len(h) \in Nat
  OBVIOUS
<1>2. \A k \in 1 .. n : h[k] \in S
  OBVIOUS
<1> QED BY <1>1, <1>2, SubSeqProperties

(* A piece of a sequence. *)
LEMMA Middle ==
  ASSUME NEW S, NEW h \in Seq(S), NEW o \in 0 .. Len(h), NEW n \in 0 .. Len(h) - o
  PROVE  /\ SubSeq(h, o + 1, o + n) \in Seq(S) /\ Len(SubSeq(h, o + 1, o + n)) = n
         /\ \A k \in 1 .. n : SubSeq(h, o + 1, o + n)[k] = h[o + k]
<1>1. o \in Nat /\ n \in Nat /\ Len(h) \in Nat /\ o + n <= Len(h)
  OBVIOUS
<1>2. \A k \in o + 1 .. o + n : h[k] \in S
  BY <1>1
<1>3. /\ SubSeq(h, o + 1, o + n) \in Seq(S)
      /\ Len(SubSeq(h, o + 1, o + n)) = n
  BY <1>1, <1>2, SubSeqProperties
<1>4. ASSUME NEW k \in 1 .. n PROVE SubSeq(h, o + 1, o + n)[k] = h[o + k]
  <2>1. (o + 1) + k - 1 = o + k
    BY <1>1
  <2> QED BY <1>1, <1>2, <1>3, <2>1, SubSeqProperties
<1> QED BY <1>3, <1>4

(* Writing the next piece of h at the end of its beginning. *)
LEMMA OverlayGrows ==
  ASSUME NEW S, NEW h \in Seq(S), NEW o \in 0 .. Len(h), NEW n \in 0 .. Len(h) - o,
         NEW data, data = SubSeq(h, 1, o), NEW new, new = SubSeq(h, o + 1, o + n)
  PROVE  Overlay(data, new, n, o, TRUE) = SubSeq(h, 1, o + n)
<1>1. o \in Nat /\ n \in Nat /\ Len(h) \in Nat /\ o + n \in 0 .. Len(h)
  OBVIOUS
<1>2. /\ Len(data) = o /\ \A k \in 1 .. o : data[k] = h[k]
      /\ \A k \in 1 .. n : new[k] = h[o + k]
  BY Beginning, Middle
<1> DEFINE result == Overlay(data, new, n, o, TRUE)
<1>3. result = [k \in 1 .. o + n |-> IF k \in o + 1 .. o + n THEN new[k - o] ELSE data[k]]
  BY <1>1, <1>2 DEF Overlay
<1> HIDE DEF result
<1>4. ASSUME NEW k \in 1 .. o + n PROVE result[k] = h[k]
  <2>1. CASE k \in o + 1 .. o + n
    <3>1. k - o \in 1 .. n /\ o + (k - o) = k
      BY <1>1, <2>1
    <3>2. new[k - o] = h[k]
      BY <1>2, <3>1
    <3> QED BY <1>3, <2>1, <3>2
  <2>2. CASE k \notin o + 1 .. o + n
    <3>1. k \in 1 .. o
      BY <1>1, <2>2
    <3> QED BY <1>2, <1>3, <2>2, <3>1
  <2> QED BY <2>1, <2>2
<1>5. \A k \in 1 .. o + n : h[k] \in S
  BY <1>1
<1>6. result \in Seq(S) /\ Len(result) = o + n
  <2>1. result \in [1 .. o + n -> S]
    BY <1>3, <1>4, <1>5
  <2>2. o + n \in Nat
    BY <1>1
  <2> QED BY <2>1, <2>2
<1>7. /\ SubSeq(h, 1, o + n) \in Seq(S) /\ Len(SubSeq(h, 1, o + n)) = o + n
      /\ \A k \in 1 .. o + n : SubSeq(h, 1, o + n)[k] = h[k]
  BY <1>1, Beginning
<1>8. \A k \in 1 .. Len(result) : result[k] = SubSeq(h, 1, o + n)[k]
  BY <1>4, <1>6, <1>7
<1>9. result = SubSeq(h, 1, o + n)
  BY <1>6, <1>7, <1>8, SeqEqual
<1> QED BY <1>9 DEF result

(* A write behind the end shows nothing before it is finished. *)
LEMMA OverlaySame ==
  ASSUME NEW S, NEW data \in Seq(S), NEW new, NEW n \in Nat
  PROVE  Overlay(data, new, n, Len(data), FALSE) = data
<1>1. Len(data) \in Nat
  OBVIOUS
<1>2. \A k \in 1 .. Len(data) : k \notin Len(data) + 1 .. Len(data) + n
  BY <1>1
<1>3. Overlay(data, new, n, Len(data), FALSE) = [k \in 1 .. Len(data) |-> data[k]]
  BY <1>2 DEF Overlay
<1>4. data = [k \in 1 .. Len(data) |-> data[k]]
  <2>1. data \in [1 .. Len(data) -> S]
    OBVIOUS
  <2> QED BY <2>1
<1> QED BY <1>3, <1>4

(* The file of a name. *)
LEMMA DataOf ==
  ASSUME ShellTypeOK, DistinctNames, NEW id \in Ids, NEW name, dir[id + 1].name = name
  PROVE  Data(name) = {dir[id + 1].data}
<1>1. Len(dir) \in Nat /\ id + 1 \in 1 .. Len(dir)
  BY DEF ShellTypeOK, Ids
<1>2. {j \in 1 .. Len(dir) : dir[j].name = name} = {id + 1}
  BY <1>1 DEF DistinctNames
<1> QED BY <1>2 DEF Data

LEMMA Positive ==
  ASSUME ShellTypeOK
  PROVE  Len(dir) \in Nat /\ Ids = 0 .. Len(dir) - 1
  BY DEF ShellTypeOK, Ids

LEMMA RequestOK ==
  /\ NoReq \in Request
  /\ \A name \in Names : [NoReq EXCEPT !.name = name] \in Request
<1>1. <<>> \in Seq(Byte)
  OBVIOUS
<1>2. NoReq \in Request
  BY <1>1 DEF NoReq, Request
<1>3. \A name \in Names : [NoReq EXCEPT !.name = name]
        = [name |-> name, id |-> 0, data |-> <<>>, offset |-> 0, done |-> 0]
  BY DEF NoReq
<1>4. \A name \in Names :
        [name |-> name, id |-> 0, data |-> <<>>, offset |-> 0, done |-> 0] \in Request
  BY <1>1 DEF Request
<1> QED BY <1>2, <1>3, <1>4

LEMMA ShellStart == ShellInit => ShellInv
<1> SUFFICES ASSUME ShellInit PROVE ShellInv
  OBVIOUS
<1> USE DEF ShellInit, Init
<1>1. ShellTypeOK
  <2>1. host \in [HostNames -> Seq(Byte) \cup {Absent}]
    BY HostBytes
  <2>2. dir \in Seq(File)
    OBVIOUS
  <2> QED BY <2>1, <2>2, RequestOK DEF ShellTypeOK, NoCmd
<1>2. DistinctNames /\ Phases /\ CopyingIn /\ CopyingOut
  BY DEF DistinctNames, Phases, CopyingIn, CopyingOut, NoCmd
<1>3. CopiedInPrefix /\ CopiedOutWhole
  BY DEF CopiedInPrefix, CopiedOutWhole, NoReport
<1> QED BY <1>1, <1>2, <1>3 DEF ShellInv

(* At the prompt, whatever the commands that are one call do. *)
LEMMA PromptKeeps ==
  ASSUME ShellInv, cmd.at = "prompt", UNCHANGED <<cmd, host>>, report' = NoReport,
         dir' \in Seq(File), DistinctNames',
         req' \in Request,
         phase' # "write", phase' = "create" => (req.name \in Names /\ ~Exists(req.name))'
  PROVE  ShellInv'
<1>1. ShellTypeOK'
  BY DEF ShellInv, ShellTypeOK
<1>2. Phases'
  BY DEF Phases
<1>3. CopyingIn' /\ CopyingOut'
  BY DEF CopyingIn, CopyingOut
<1>4. CopiedInPrefix' /\ CopiedOutWhole'
  BY DEF CopiedInPrefix, CopiedOutWhole, NoReport
<1> QED BY <1>1, <1>2, <1>3, <1>4 DEF ShellInv

LEMMA CommandKeeps ==
  ASSUME ShellInv, Command \/ Run
  PROVE  ShellInv'
<1>1. ShellTypeOK /\ DistinctNames /\ Phases
  BY DEF ShellInv
<1>2. cmd.at = "prompt" /\ UNCHANGED <<cmd, host>> /\ report' = NoReport
  <2>1. CASE Command
    BY <2>1 DEF Command, AtCmd
  <2>2. CASE Run
    BY <1>1, <2>2 DEF Run, Start, Phases
  <2> QED BY <2>1, <2>2
<1>3. CASE Run \/ (Command /\ (FormatRefused \/ Mount \/ Umount \/ List \/ Quit
                        \/ \E name \in Names : CreateRefused(name)))
  <2>1. dir' = dir /\ req' \in {req, NoReq} /\ phase' \in {"idle", "down"}
    BY <1>3 DEF Run, Start, FormatRefused, Mount, Umount, List, Quit, CreateRefused, Return,
       ReturnWith
  <2>2. DistinctNames'
    BY <1>1, <2>1 DEF DistinctNames
  <2>3. req' \in Request
    BY <1>1, <2>1, RequestOK DEF ShellTypeOK
  <2> QED BY <1>1, <1>2, <2>1, <2>2, <2>3, PromptKeeps DEF ShellTypeOK
<1>4. CASE FormatBegin
  <2>1. dir' = <<>> /\ req' = NoReq /\ phase' = "format"
    BY <1>4 DEF FormatBegin, Begin
  <2>2. dir' \in Seq(File) /\ DistinctNames'
    BY <2>1 DEF DistinctNames
  <2> QED BY <1>2, <2>1, <2>2, RequestOK, PromptKeeps
<1>5. ASSUME NEW name \in Names, CreateBegin(name) PROVE ShellInv'
  <2>1. /\ dir' = dir /\ phase' = "create" /\ ~Exists(name)
        /\ req' = [NoReq EXCEPT !.name = name]
    BY <1>5 DEF CreateBegin, Begin
  <2>2. req'.name = name
    BY <2>1 DEF NoReq
  <2>3. DistinctNames' /\ ~Exists(name)'
    BY <1>1, <2>1 DEF DistinctNames, Exists, Ids
  <2>4. dir' \in Seq(File)
    BY <1>1, <2>1 DEF ShellTypeOK
  <2>5. req' \in Request
    BY <2>1, RequestOK
  <2>6. (req.name \in Names /\ ~Exists(req.name))'
    BY <2>2, <2>3 DEF Exists
  <2> QED BY <1>2, <2>1, <2>3, <2>4, <2>5, <2>6, PromptKeeps
<1> QED BY <1>3, <1>4, <1>5 DEF Command

(* A command that ends leaves the prompt and its report. *)
LEMMA FinishKeeps ==
  ASSUME ShellInv, phase = "idle", UNCHANGED <<vars, host>>, cmd' = NoCmd,
         CopiedInPrefix', CopiedOutWhole'
  PROVE  ShellInv'
<1>1. cmd'.at = "prompt"
  BY DEF NoCmd
<1>2. dir' = dir /\ req' = req /\ phase' = "idle"
  BY DEF vars
<1>3. ShellTypeOK'
  BY <1>2 DEF ShellInv, ShellTypeOK, NoCmd
<1>4. DistinctNames'
  BY <1>2 DEF ShellInv, DistinctNames
<1>5. Phases'
  BY <1>1, <1>2 DEF Phases
<1>6. CopyingIn' /\ CopyingOut'
  BY <1>1 DEF CopyingIn, CopyingOut
<1> QED BY <1>3, <1>4, <1>5, <1>6 DEF ShellInv

(* What fread returns is the next piece of the host file. *)
LEMMA ChunkOf ==
  ASSUME ShellTypeOK, cmd.file \in HostNames, host[cmd.file] # Absent,
         cmd.offset \in 0 .. Len(host[cmd.file])
  PROVE  /\ host[cmd.file] \in Seq(Byte)
         /\ \E n \in 0 .. Len(host[cmd.file]) - cmd.offset :
              /\ Chunk = SubSeq(host[cmd.file], cmd.offset + 1, cmd.offset + n)
              /\ Chunk \in Seq(Byte) /\ Len(Chunk) = n
              /\ n = 0 => cmd.offset = Len(host[cmd.file])
<1> DEFINE h == host[cmd.file]
           o == cmd.offset
           n == IF Len(h) - o < bufferSize THEN Len(h) - o ELSE bufferSize
<1>1. h \in Seq(Byte)
  BY DEF ShellTypeOK
<1>2. Len(h) \in Nat /\ o \in 0 .. Len(h)
  BY <1>1
<1> HIDE DEF h, o
<1>3. n \in 0 .. Len(h) - o /\ (n = 0 => o = Len(h))
  BY <1>2, BufferSize
<1> HIDE DEF n
<1>4. Chunk = SubSeq(h, o + 1, o + n)
  BY DEF Chunk, h, o, n
<1>5. Chunk \in Seq(Byte) /\ Len(Chunk) = n
  BY <1>1, <1>2, <1>3, <1>4, Middle
<1> QED BY <1>1, <1>3, <1>4, <1>5 DEF h, o

(* One more file in the directory. *)
LEMMA NewFile ==
  ASSUME ShellTypeOK, DistinctNames, NEW name \in Names, ~Exists(name),
         dir' = Append(dir, [name |-> name, data |-> <<>>])
  PROVE  /\ dir' \in Seq(File) /\ DistinctNames'
         /\ Len(dir) \in Ids'
         /\ dir'[Len(dir) + 1] = [name |-> name, data |-> <<>>]
<1> DEFINE new == [name |-> name, data |-> <<>>]
<1>1. new \in File
  BY DEF File
<1>2. dir \in Seq(File) /\ Len(dir) \in Nat /\ Ids = 0 .. Len(dir) - 1
  BY Positive DEF ShellTypeOK
<1>3. new.name = name
  OBVIOUS
<1> HIDE DEF new
<1>4. /\ dir' \in Seq(File) /\ Len(dir') = Len(dir) + 1
      /\ \A k \in 1 .. Len(dir) : dir'[k] = dir[k]
      /\ dir'[Len(dir) + 1] = new
  BY <1>1, <1>2 DEF new
<1>5. \A k \in 1 .. Len(dir) : dir[k].name # name
  <2>1. ASSUME NEW k \in 1 .. Len(dir) PROVE dir[k].name # name
    <3>1. k - 1 \in Ids /\ (k - 1) + 1 = k
      BY <1>2
    <3> QED BY <3>1 DEF Exists
  <2> QED BY <2>1
<1>6. ASSUME NEW j \in 1 .. Len(dir) + 1, NEW k \in 1 .. Len(dir) + 1,
             dir'[j].name = dir'[k].name
      PROVE  j = k
  <2>1. j \in 1 .. Len(dir) \/ j = Len(dir) + 1
    BY <1>2
  <2>2. k \in 1 .. Len(dir) \/ k = Len(dir) + 1
    BY <1>2
  <2> QED BY <1>3, <1>4, <1>5, <1>6, <2>1, <2>2 DEF DistinctNames
<1>7. DistinctNames'
  BY <1>4, <1>6 DEF DistinctNames
<1>8. Len(dir) \in Ids'
  BY <1>2, <1>4 DEF Ids
<1> QED BY <1>4, <1>7, <1>8 DEF new

LEMMA StoreKeepsFormatCreate ==
  ASSUME ShellInv, FormatEnd \/ CreateEnd, UNCHANGED <<host, cmd, report>>
  PROVE  ShellInv'
<1>1. ShellTypeOK /\ DistinctNames /\ Phases /\ CopyingIn
  BY DEF ShellInv
<1>2. phase \in {"format", "create"} /\ phase' = "idle" /\ req' = NoReq
  BY DEF FormatEnd, CreateEnd, Return, ReturnWith
<1>3. report = NoReport /\ report' = NoReport
  BY <1>1, <1>2 DEF Phases
<1>4. CASE FormatEnd
  <2>1. dir' = dir /\ cmd.at = "prompt"
    BY <1>1, <1>4 DEF FormatEnd, Phases
  <2>2. dir' \in Seq(File) /\ DistinctNames'
    BY <1>1, <2>1 DEF ShellTypeOK, DistinctNames
  <2> QED BY <1>2, <1>3, <2>1, <2>2, RequestOK, PromptKeeps
<1>5. CASE CreateEnd
  <2>1. /\ dir' = Append(dir, [name |-> req.name, data |-> <<>>])
        /\ ret'.val = Len(dir)
    BY <1>5 DEF CreateEnd, Return, ReturnWith
  <2>2. /\ cmd.at \in {"prompt", "fs_create"}
        /\ req.name \in Names /\ ~Exists(req.name)
        /\ cmd.at = "fs_create" => req.name = cmd.name
    BY <1>1, <1>5 DEF CreateEnd, Phases
  <2>3. /\ dir' \in Seq(File) /\ DistinctNames'
        /\ Len(dir) \in Ids'
        /\ dir'[Len(dir) + 1] = [name |-> req.name, data |-> <<>>]
    BY <1>1, <2>1, <2>2, NewFile
  <2>4. CASE cmd.at = "prompt"
    BY <1>2, <1>3, <2>3, <2>4, RequestOK, PromptKeeps
  <2>5. CASE cmd.at = "fs_create"
    <3>1. ShellTypeOK'
      BY <1>1, <1>2, <2>3, RequestOK DEF ShellTypeOK
    <3>2. Phases'
      BY <1>1, <1>2, <1>3, <2>5 DEF Phases
    <3>3. CopyingIn'
      BY <1>1, <2>1, <2>2, <2>3, <2>5 DEF CopyingIn
    <3>4. CopyingOut' /\ CopiedInPrefix' /\ CopiedOutWhole'
      BY <1>3, <2>5 DEF CopyingOut, CopiedInPrefix, CopiedOutWhole, NoReport
    <3> QED BY <2>3, <3>1, <3>2, <3>3, <3>4 DEF ShellInv
  <2> QED BY <2>2, <2>4, <2>5
<1> QED BY <1>4, <1>5

LEMMA NewData ==
  ASSUME NEW f \in File, NEW data \in Seq(Byte)
  PROVE  [f EXCEPT !.data = data] = [name |-> f.name, data |-> data]
<1>1. [f EXCEPT !.data = data] \in File
  BY DEF File
<1>2. [f EXCEPT !.data = data].name = f.name /\ [f EXCEPT !.data = data].data = data
  BY DEF File
<1> QED BY <1>1, <1>2 DEF File

(* Writing the file that is copied in. *)
LEMMA WritingKeeps ==
  ASSUME ShellInv, cmd.at = "fs_write", report = NoReport, UNCHANGED <<host, cmd, report>>,
         ShellTypeOK', DistinctNames',
         \/ phase' = "write" /\ req'.id = cmd.fid /\ req'.data = Chunk
              /\ req'.offset = cmd.offset /\ CopiedIn(cmd.offset)'
         \/ phase' = "idle" /\ ret'.val = -1 /\ CopiedIn(cmd.offset)'
         \/ phase' = "idle" /\ ret'.val = Len(Chunk) /\ CopiedIn(cmd.offset + ret.val)'
  PROVE  ShellInv'
<1>1. Phases /\ CopyingIn
  BY DEF ShellInv
<1>2. Chunk' = Chunk
  BY DEF Chunk
<1>3. Phases'
  BY <1>1, <1>2 DEF Phases
<1>4. CopyingIn'
  BY <1>1, <1>2 DEF CopyingIn
<1>5. CopyingOut' /\ CopiedInPrefix' /\ CopiedOutWhole'
  BY DEF CopyingOut, CopiedInPrefix, CopiedOutWhole, NoReport
<1> QED BY <1>3, <1>4, <1>5 DEF ShellInv

LEMMA StoreKeepsWrite ==
  ASSUME ShellInv, WriteTakesBlock \/ WriteSome \/ WriteEnd \/ WriteFails,
         UNCHANGED <<host, cmd, report>>
  PROVE  ShellInv'
<1>1. ShellTypeOK /\ DistinctNames /\ Phases /\ CopyingIn
  BY DEF ShellInv
<1>2. phase = "write"
  BY DEF WriteTakesBlock, WriteSome, WriteEnd, WriteFails
<1>3. /\ cmd.at = "fs_write" /\ req.id = cmd.fid /\ req.data = Chunk
      /\ req.offset = cmd.offset /\ report = NoReport
      /\ cmd.file \in HostNames /\ host[cmd.file] # Absent
  BY <1>1, <1>2 DEF Phases
<1>4. CopiedIn(cmd.offset)
  BY <1>1, <1>2, <1>3 DEF CopyingIn
<1> DEFINE h == host[cmd.file]
           o == cmd.offset
           entry == dir[cmd.fid + 1]
<1>5. cmd.fid \in Ids /\ o \in 0 .. Len(h) /\ entry = [name |-> cmd.name, data |-> SubSeq(h, 1, o)]
  BY <1>4 DEF CopiedIn
<1>6. h \in Seq(Byte)
  BY <1>1, <1>3 DEF ShellTypeOK
<1>7. PICK n \in 0 .. Len(h) - o :
        Chunk = SubSeq(h, o + 1, o + n) /\ Chunk \in Seq(Byte) /\ Len(Chunk) = n
  BY <1>1, <1>3, <1>5, ChunkOf
<1>8. o \in Nat /\ Len(h) \in Nat /\ n \in Nat /\ o + n \in 0 .. Len(h)
  <2>1. Len(h) \in Nat
    BY <1>6
  <2>2. o \in 0 .. Len(h) /\ n \in 0 .. Len(h) - o
    BY <1>5, <1>7
  <2> HIDE DEF h, o
  <2> QED BY <2>1, <2>2
<1>9. entry.data = SubSeq(h, 1, o) /\ entry.data \in Seq(Byte) /\ Len(entry.data) = o
  BY <1>5, <1>6, Beginning
<1>10. dir \in Seq(File) /\ cmd.fid + 1 \in 1 .. Len(dir) /\ cmd.fid + 1 \in DOMAIN dir
  BY <1>1, <1>5, Positive DEF ShellTypeOK
<1>11. h' = h /\ o' = o
  OBVIOUS
<1> HIDE DEF h, o
<1>12. ASSUME dir' = dir, req' \in Request
       PROVE  ShellTypeOK' /\ DistinctNames' /\ CopiedIn(cmd.offset)'
  BY <1>1, <1>4, <1>12 DEF ShellTypeOK, DistinctNames, CopiedIn, Ids
<1>13. CASE WriteTakesBlock
  <2>1. dir' = dir /\ req' = req /\ phase' = "write"
    BY <1>2, <1>13 DEF WriteTakesBlock
  <2>2. req' \in Request
    BY <1>1, <2>1 DEF ShellTypeOK
  <2> QED BY <1>3, <1>12, <2>1, <2>2, WritingKeeps
<1>14. CASE WriteSome
  <2>1. PICK upto \in req.done + 1 .. Len(req.data) :
          /\ req' = [req EXCEPT !.done = upto]
          /\ dir' = [dir EXCEPT ![req.id + 1].data = Overlay(@, req.data, upto, req.offset, FALSE)]
    BY <1>14 DEF WriteSome
  <2>2. phase' = "write"
    BY <1>2, <1>14 DEF WriteSome
  <2>3. req.done \in Nat /\ upto \in Nat
    <3>1. req.done \in Nat
      BY <1>1 DEF ShellTypeOK, Request
    <3> QED BY <1>3, <1>7, <3>1
  <2>4. Overlay(entry.data, Chunk, upto, o, FALSE) = entry.data
    BY <1>9, <2>3, OverlaySame
  <2>5. dir' = [dir EXCEPT ![cmd.fid + 1] = [entry EXCEPT !.data = entry.data]]
    BY <1>3, <2>1, <2>4 DEF o
  <2>6. [entry EXCEPT !.data = entry.data] = entry
    BY <1>5
  <2>7. dir' = dir
    BY <1>10, <2>5, <2>6
  <2>8. req' \in Request /\ req'.id = req.id /\ req'.data = req.data /\ req'.offset = req.offset
    BY <1>1, <2>1, <2>3 DEF ShellTypeOK, Request
  <2> QED BY <1>3, <1>12, <2>2, <2>7, <2>8, WritingKeeps
<1>15. CASE WriteFails
  <2>1. dir' = dir /\ req' = NoReq /\ phase' = "idle" /\ ret'.val = -1
    BY <1>15 DEF WriteFails, Return, ReturnWith
  <2> QED BY <1>3, <1>12, <2>1, RequestOK, WritingKeeps
<1>16. CASE WriteEnd
  <2>1. /\ req.done = Len(req.data) /\ req' = NoReq /\ phase' = "idle" /\ ret'.val = Len(req.data)
        /\ dir' = [dir EXCEPT ![req.id + 1].data =
                     Overlay(@, req.data, req.done, req.offset, TRUE)]
    BY <1>16 DEF WriteEnd, Return, ReturnWith
  <2>2. Overlay(entry.data, Chunk, n, o, TRUE) = SubSeq(h, 1, o + n)
    <3> HIDE DEF entry
    <3>1. entry.data = SubSeq(h, 1, o) /\ Chunk = SubSeq(h, o + 1, o + n)
      BY <1>7, <1>9
    <3>2. h \in Seq(Byte) /\ o \in 0 .. Len(h) /\ n \in 0 .. Len(h) - o
      BY <1>5, <1>6, <1>7
    <3> QED BY <3>1, <3>2, OverlayGrows
  <2> DEFINE new == [name |-> cmd.name, data |-> SubSeq(h, 1, o + n)]
  <2>3. [entry EXCEPT !.data = SubSeq(h, 1, o + n)] = new
    <3>1. entry \in File /\ SubSeq(h, 1, o + n) \in Seq(Byte) /\ entry.name = cmd.name
      BY <1>5, <1>6, <1>8, <1>10, Beginning
    <3> HIDE DEF entry
    <3>2. [entry EXCEPT !.data = SubSeq(h, 1, o + n)]
            = [name |-> entry.name, data |-> SubSeq(h, 1, o + n)]
      BY <3>1, NewData
    <3> QED BY <3>1, <3>2
  <2>4. dir' = [dir EXCEPT ![cmd.fid + 1] =
                  [entry EXCEPT !.data = Overlay(entry.data, Chunk, n, o, TRUE)]]
    BY <1>3, <1>7, <2>1 DEF o
  <2>5. dir' = [dir EXCEPT ![cmd.fid + 1] = new]
    BY <2>2, <2>3, <2>4
  <2>6. new \in File /\ new.name = entry.name
    <3>1. entry \in File
      BY <1>10
    <3>2. cmd.name \in Names
      BY <1>5, <3>1 DEF File
    <3>3. SubSeq(h, 1, o + n) \in Seq(Byte)
      BY <1>6, <1>8, Beginning
    <3> QED BY <1>5, <3>2, <3>3 DEF File
  <2> HIDE DEF new
  <2>7. dir' \in Seq(File) /\ Len(dir') = Len(dir) /\ dir'[cmd.fid + 1] = new
    BY <1>10, <2>5, <2>6
  <2>8. \A k \in 1 .. Len(dir) : dir'[k].name = dir[k].name
    BY <1>10, <2>5, <2>6
  <2>9. DistinctNames'
    BY <1>1, <2>7, <2>8 DEF DistinctNames
  <2>10. ShellTypeOK'
    BY <1>1, <2>1, <2>7, RequestOK DEF ShellTypeOK
  <2>11. ret'.val = n /\ ret'.val = Len(Chunk)
    BY <1>3, <1>7, <2>1
  <2>12. CopiedIn(cmd.offset + ret.val)'
    <3>1. (cmd.offset + ret.val)' = o + n
      BY <2>11 DEF o
    <3>2. cmd'.fid \in Ids'
      BY <1>5, <2>7 DEF Ids
    <3>3. o + n \in 0 .. Len(h)
      BY <1>8
    <3>4. dir'[cmd.fid + 1] = [name |-> cmd.name, data |-> SubSeq(h, 1, o + n)]
      BY <2>7 DEF new
    <3> QED BY <3>1, <3>2, <3>3, <3>4 DEF CopiedIn, h
  <2> QED BY <1>3, <2>1, <2>9, <2>10, <2>11, <2>12, WritingKeeps
<1> QED BY <1>13, <1>14, <1>15, <1>16

(* The steps of do_copyin. *)
LEMMA CopyinKeeps ==
  ASSUME ShellInv, NEW f \in HostNames, NEW name \in Names, Copyin(f, name)
  PROVE  ShellInv'
<1>1. ShellTypeOK /\ DistinctNames /\ Phases
  BY DEF ShellInv
<1>2. cmd.at = "prompt" /\ phase = "idle" /\ report' = NoReport /\ host' = host
  BY DEF Copyin, AtCmd
<1>3. CASE UNCHANGED <<vars, cmd>>
  <2>1. dir' = dir /\ req' = req /\ phase' = "idle"
    BY <1>2, <1>3 DEF vars
  <2>2. dir' \in Seq(File) /\ DistinctNames' /\ req' \in Request
    BY <1>1, <2>1 DEF ShellTypeOK, DistinctNames
  <2> QED BY <1>2, <1>3, <2>1, <2>2, PromptKeeps
<1>4. CASE /\ host[f] # Absent
           /\ CreateBegin(name) \/ CreateRefused(name)
           /\ cmd' = [NoCmd EXCEPT !.at = "fs_create", !.file = f, !.name = name]
  <2>1. cmd' = [at |-> "fs_create", file |-> f, name |-> name, fid |-> -1, offset |-> 0]
    BY <1>4 DEF NoCmd
  <2>2. /\ dir' = dir
        /\ \/ phase' = "create" /\ req' = [NoReq EXCEPT !.name = name] /\ ~Exists(name)
           \/ phase' = "idle" /\ req' = NoReq /\ ret'.val = -1
    BY <1>4 DEF CreateBegin, CreateRefused, Begin, Return, ReturnWith
  <2>3. ShellTypeOK'
    <3>1. req' \in Request
      BY <2>2, RequestOK
    <3>2. cmd' \in [at : {"prompt", "fs_create", "fread", "fs_write", "fs_open", "loop", "fs_read"},
                    file : HostNames \cup {Absent}, name : Names \cup {NoName},
                    fid : Int, offset : Nat]
      BY <2>1
    <3> QED BY <1>1, <1>2, <2>2, <3>1, <3>2 DEF ShellTypeOK
  <2>4. DistinctNames'
    BY <1>1, <2>2 DEF DistinctNames
  <2>5. Phases'
    <3>1. phase' = "create" => req'.name = name /\ ~Exists(req.name)'
      BY <2>2 DEF NoReq, Exists, Ids
    <3>2. /\ phase' \in {"create", "idle"} /\ cmd'.at = "fs_create" /\ cmd'.file = f
          /\ cmd'.name = name /\ host'[f] # Absent
      BY <1>2, <1>4, <2>1, <2>2
    <3> QED BY <1>2, <3>1, <3>2 DEF Phases
  <2>6. CopyingIn' /\ CopyingOut'
    BY <2>1, <2>2 DEF CopyingIn, CopyingOut
  <2>7. CopiedInPrefix' /\ CopiedOutWhole'
    BY <1>2 DEF CopiedInPrefix, CopiedOutWhole, NoReport
  <2> QED BY <2>3, <2>4, <2>5, <2>6, <2>7 DEF ShellInv
<1> QED BY <1>3, <1>4 DEF Copyin

(* What a copyin reports when it ends without an error. *)
LEMMA CopyinEnds ==
  ASSUME ShellInv, phase = "idle", cmd.name \in Names, CopiedIn(cmd.offset),
         UNCHANGED <<vars, host>>, Finish("copyin", 1)
  PROVE  ShellInv'
<1>1. ShellTypeOK /\ DistinctNames
  BY DEF ShellInv
<1>2. cmd.fid \in Ids
      /\ dir[cmd.fid + 1] = [name |-> cmd.name, data |-> SubSeq(host[cmd.file], 1, cmd.offset)]
  BY DEF CopiedIn
<1>3. Data(cmd.name) = {SubSeq(host[cmd.file], 1, cmd.offset)}
  <2>1. /\ dir[cmd.fid + 1].name = cmd.name
        /\ dir[cmd.fid + 1].data = SubSeq(host[cmd.file], 1, cmd.offset)
    <3> DEFINE entry == dir[cmd.fid + 1]
    <3>1. entry = [name |-> cmd.name, data |-> SubSeq(host[cmd.file], 1, cmd.offset)]
      BY <1>2
    <3> HIDE DEF entry
    <3>2. entry.name = cmd.name /\ entry.data = SubSeq(host[cmd.file], 1, cmd.offset)
      BY <3>1
    <3> QED BY <3>2 DEF entry
  <2>2. Data(cmd.name) = {dir[cmd.fid + 1].data}
    BY <1>1, <1>2, <2>1, DataOf
  <2> QED BY <2>1, <2>2
<1>4. /\ cmd' = NoCmd /\ dir' = dir
      /\ report'.op = "copyin" /\ report'.file = cmd.file
      /\ report'.name = cmd.name /\ report'.bytes = cmd.offset
  BY DEF Finish, vars
<1>5. CopiedInPrefix'
  BY <1>3, <1>4 DEF CopiedInPrefix, Data
<1>6. CopiedOutWhole'
  BY <1>4 DEF CopiedOutWhole
<1> QED BY <1>4, <1>5, <1>6, FinishKeeps

LEMMA CopyinCreatedKeeps ==
  ASSUME ShellInv, CopyinCreated
  PROVE  ShellInv'
<1>1. ShellTypeOK /\ DistinctNames /\ Phases /\ CopyingIn
  BY DEF ShellInv
<1>2. cmd.at = "fs_create" /\ phase = "idle" /\ UNCHANGED <<vars, host>>
  BY DEF CopyinCreated, AtCmd
<1>3. CASE Finish("copyin", 0)
  <2>1. cmd' = NoCmd /\ report'.result = 0
    BY <1>3 DEF Finish
  <2>2. CopiedInPrefix' /\ CopiedOutWhole'
    BY <2>1 DEF CopiedInPrefix, CopiedOutWhole
  <2> QED BY <1>2, <2>1, <2>2, FinishKeeps
<1>4. CASE ret.val # -1 /\ cmd' = [cmd EXCEPT !.at = "fread", !.fid = ret.val] /\ UNCHANGED report
  <2>1. /\ ret.val \in Ids /\ dir[ret.val + 1] = [name |-> cmd.name, data |-> <<>>]
        /\ cmd.offset = 0
    BY <1>1, <1>2, <1>4 DEF CopyingIn
  <2>2. dir' = dir /\ req' = req /\ phase' = phase
    BY <1>2 DEF vars
  <2>3. /\ cmd'.at = "fread" /\ cmd'.fid = ret.val /\ cmd'.file = cmd.file
        /\ cmd'.name = cmd.name /\ cmd'.offset = 0
    BY <1>1, <1>4, <2>1 DEF ShellTypeOK
  <2>4. ShellTypeOK'
    <3>1. ret.val \in Int
      BY <1>1, <2>1, Positive
    <3>2. cmd' \in [at : {"prompt", "fs_create", "fread", "fs_write", "fs_open", "loop", "fs_read"},
                    file : HostNames \cup {Absent}, name : Names \cup {NoName},
                    fid : Int, offset : Nat]
      BY <1>1, <1>4, <3>1 DEF ShellTypeOK
    <3> QED BY <1>1, <1>2, <2>2, <3>2 DEF ShellTypeOK
  <2>5. DistinctNames'
    BY <1>1, <2>2 DEF DistinctNames
  <2>6. report = NoReport /\ report' = NoReport
    BY <1>1, <1>2, <1>4 DEF Phases
  <2>7. Phases'
    BY <1>1, <1>2, <2>2, <2>3, <2>6 DEF Phases
  <2>8. CopyingIn'
    <3>1. host[cmd.file] \in Seq(Byte)
      BY <1>1, <1>2 DEF Phases, ShellTypeOK
    <3>2. 0 \in 0 .. Len(host[cmd.file]) /\ SubSeq(host[cmd.file], 1, 0) = <<>>
      BY <3>1
    <3>3. CopiedIn(cmd.offset)'
      BY <1>2, <2>1, <2>2, <2>3, <3>2 DEF CopiedIn, Ids
    <3> QED BY <2>3, <3>3 DEF CopyingIn
  <2>9. CopyingOut' /\ CopiedInPrefix' /\ CopiedOutWhole'
    BY <2>3, <2>6 DEF CopyingOut, CopiedInPrefix, CopiedOutWhole, NoReport
  <2> QED BY <2>4, <2>5, <2>7, <2>8, <2>9 DEF ShellInv
<1> QED BY <1>3, <1>4 DEF CopyinCreated

LEMMA CopyinReadsKeeps ==
  ASSUME ShellInv, CopyinReads
  PROVE  ShellInv'
<1>1. ShellTypeOK /\ DistinctNames /\ Phases /\ CopyingIn
  BY DEF ShellInv
<1>2. cmd.at = "fread" /\ phase = "idle" /\ host' = host
  BY DEF CopyinReads, AtCmd
<1>3. CopiedIn(cmd.offset) /\ cmd.file \in HostNames /\ cmd.name \in Names
      /\ host[cmd.file] # Absent
  BY <1>1, <1>2 DEF CopyingIn, Phases
<1>4. CASE Chunk = <<>> /\ Finish("copyin", 1) /\ UNCHANGED vars
  BY <1>2, <1>3, <1>4, CopyinEnds
<1>5. CASE /\ Chunk # <<>>
           /\ WriteBegin(cmd.fid, Chunk, cmd.offset) \/ WriteRefused(cmd.fid, Chunk, cmd.offset)
           /\ Goto("fs_write")
  <2>1. /\ dir' = dir
        /\ \/ /\ phase' = "write"
              /\ req' = [NoReq EXCEPT !.id = cmd.fid, !.data = Chunk, !.offset = cmd.offset]
           \/ phase' = "idle" /\ req' = NoReq /\ ret'.val = -1
    BY <1>5 DEF WriteBegin, WriteRefused, Begin, Return, ReturnWith
  <2>2. cmd' = [cmd EXCEPT !.at = "fs_write"] /\ report' = report
    BY <1>5 DEF Goto
  <2>3. /\ cmd'.at = "fs_write" /\ cmd'.fid = cmd.fid /\ cmd'.file = cmd.file
        /\ cmd'.name = cmd.name /\ cmd'.offset = cmd.offset
    BY <1>1, <2>2 DEF ShellTypeOK
  <2>4. Chunk \in Seq(Byte)
    BY <1>1, <1>3, ChunkOf DEF CopiedIn
  <2>5. ASSUME phase' = "write"
        PROVE  /\ req' \in Request
               /\ req'.id = cmd.fid /\ req'.data = Chunk /\ req'.offset = cmd.offset
    <3>1. req' = [NoReq EXCEPT !.id = cmd.fid, !.data = Chunk, !.offset = cmd.offset]
      BY <2>1, <2>5
    <3>2. cmd.fid \in Int /\ cmd.offset \in Nat
      BY <1>1 DEF ShellTypeOK
    <3> DEFINE r == [NoReq EXCEPT !.id = cmd.fid, !.data = Chunk, !.offset = cmd.offset]
    <3>3. r \in Request /\ r.id = cmd.fid /\ r.data = Chunk /\ r.offset = cmd.offset
      BY <2>4, <3>2, RequestOK DEF Request
    <3>4. req' = r
      BY <3>1
    <3> HIDE DEF r
    <3> QED BY <3>3, <3>4
  <2>6. req' \in Request
    BY <2>1, <2>5, RequestOK
  <2>7. ShellTypeOK'
    <3>1. cmd' \in [at : {"prompt", "fs_create", "fread", "fs_write", "fs_open", "loop", "fs_read"},
                    file : HostNames \cup {Absent}, name : Names \cup {NoName},
                    fid : Int, offset : Nat]
      BY <1>1, <2>2 DEF ShellTypeOK
    <3> QED BY <1>1, <1>2, <2>1, <2>6, <3>1 DEF ShellTypeOK
  <2>8. DistinctNames'
    BY <1>1, <2>1 DEF DistinctNames
  <2>9. Chunk' = Chunk
    BY <1>2, <2>3 DEF Chunk
  <2>10. report = NoReport /\ report' = NoReport
    BY <1>1, <1>2, <2>2 DEF Phases
  <2>11. phase' = "write" => req'.id = cmd.fid /\ req'.data = Chunk /\ req'.offset = cmd.offset
    BY <2>1, <2>5
  <2>12. Phases'
    <3>1. phase' \in {"write", "idle"}
      BY <2>1
    <3> QED BY <1>2, <1>3, <2>3, <2>9, <2>10, <2>11, <3>1 DEF Phases
  <2>13. CopiedIn(cmd.offset)'
    BY <1>2, <1>3, <2>1, <2>3 DEF CopiedIn, Ids
  <2>14. CopyingIn'
    BY <1>5, <2>1, <2>3, <2>9, <2>13 DEF CopyingIn
  <2>15. CopyingOut' /\ CopiedInPrefix' /\ CopiedOutWhole'
    BY <2>3, <2>10 DEF CopyingOut, CopiedInPrefix, CopiedOutWhole, NoReport
  <2> QED BY <2>7, <2>8, <2>12, <2>14, <2>15 DEF ShellInv
<1> QED BY <1>4, <1>5 DEF CopyinReads

LEMMA CopyinWrittenKeeps ==
  ASSUME ShellInv, CopyinWritten
  PROVE  ShellInv'
<1>1. ShellTypeOK /\ DistinctNames /\ Phases /\ CopyingIn
  BY DEF ShellInv
<1>2. cmd.at = "fs_write" /\ phase = "idle" /\ UNCHANGED <<vars, host>>
  BY DEF CopyinWritten, AtCmd
<1>3. /\ \/ ret.val = -1 /\ CopiedIn(cmd.offset)
         \/ ret.val = Len(Chunk) /\ CopiedIn(cmd.offset + ret.val)
      /\ cmd.name \in Names /\ cmd.file \in HostNames /\ host[cmd.file] # Absent
  BY <1>1, <1>2 DEF CopyingIn, Phases
<1>4. Len(Chunk) \in Nat
  <2>1. host[cmd.file] \in Seq(Byte)
    BY <1>1, <1>3 DEF ShellTypeOK
  <2>2. Len(host[cmd.file]) \in Nat /\ cmd.offset \in Nat
    BY <1>1, <2>1 DEF ShellTypeOK
  <2>3. CASE cmd.offset \in 0 .. Len(host[cmd.file])
    BY <1>1, <1>3, <2>3, ChunkOf
  <2>4. CASE cmd.offset > Len(host[cmd.file])
    <3>1. ~CopiedIn(cmd.offset)
      BY <2>2, <2>4 DEF CopiedIn
    <3>2. ret.val = Len(Chunk) /\ cmd.offset + ret.val \in 0 .. Len(host[cmd.file])
      BY <1>3, <3>1 DEF CopiedIn
    <3>3. Chunk = <<>>
      <4> DEFINE last == cmd.offset + (IF Len(host[cmd.file]) - cmd.offset < bufferSize
                                       THEN Len(host[cmd.file]) - cmd.offset ELSE bufferSize)
      <4>1. last < cmd.offset + 1 /\ last \in Int
        BY <2>2, <2>4, BufferSize
      <4>2. Chunk = SubSeq(host[cmd.file], cmd.offset + 1, last)
        BY DEF Chunk
      <4> HIDE DEF last
      <4> QED BY <2>1, <2>2, <4>1, <4>2
    <3> QED BY <3>3
  <2> QED BY <2>2, <2>3, <2>4
<1>5. CASE ret.val < Len(Chunk) /\ Finish("copyin", 1)
  <2>1. CopiedIn(cmd.offset)
    BY <1>3, <1>4, <1>5
  <2> QED BY <1>2, <1>3, <1>5, <2>1, CopyinEnds
<1>6. CASE /\ ret.val = Len(Chunk)
           /\ cmd' = [cmd EXCEPT !.at = "fread", !.offset = @ + ret.val]
           /\ UNCHANGED report
  <2>1. ret.val \in Nat /\ CopiedIn(cmd.offset + ret.val)
    BY <1>3, <1>4, <1>6
  <2>2. dir' = dir /\ req' = req /\ phase' = phase
    BY <1>2 DEF vars
  <2>3. /\ cmd'.at = "fread" /\ cmd'.fid = cmd.fid /\ cmd'.file = cmd.file
        /\ cmd'.name = cmd.name /\ cmd'.offset = cmd.offset + ret.val
    BY <1>1, <1>6 DEF ShellTypeOK
  <2>4. ShellTypeOK'
    <3>1. cmd' \in [at : {"prompt", "fs_create", "fread", "fs_write", "fs_open", "loop", "fs_read"},
                    file : HostNames \cup {Absent}, name : Names \cup {NoName},
                    fid : Int, offset : Nat]
      <4>1. cmd.offset + ret.val \in Nat
        BY <1>1, <2>1 DEF ShellTypeOK
      <4> QED BY <1>1, <1>6, <4>1 DEF ShellTypeOK
    <3> QED BY <1>1, <1>2, <2>2, <3>1 DEF ShellTypeOK
  <2>5. DistinctNames'
    BY <1>1, <2>2 DEF DistinctNames
  <2>6. report = NoReport /\ report' = NoReport
    BY <1>1, <1>2, <1>6 DEF Phases
  <2>7. Phases'
    BY <1>1, <1>2, <2>2, <2>3, <2>6 DEF Phases
  <2>8. CopiedIn(cmd.offset)'
    BY <1>2, <2>1, <2>2, <2>3 DEF CopiedIn, Ids
  <2>9. CopyingIn'
    BY <2>3, <2>8 DEF CopyingIn
  <2>10. CopyingOut' /\ CopiedInPrefix' /\ CopiedOutWhole'
    BY <2>3, <2>6 DEF CopyingOut, CopiedInPrefix, CopiedOutWhole, NoReport
  <2> QED BY <2>4, <2>5, <2>7, <2>9, <2>10 DEF ShellInv
<1> QED BY <1>5, <1>6 DEF CopyinWritten

(* The steps of do_copyout. *)
LEMMA ConcatGrows ==
  ASSUME NEW S, NEW h \in Seq(S), NEW o \in 0 .. Len(h), NEW n \in 0 .. Len(h) - o
  PROVE  SubSeq(h, 1, o) \o SubSeq(h, o + 1, o + n) = SubSeq(h, 1, o + n)
<1>1. o \in Nat /\ n \in Nat /\ Len(h) \in Nat /\ o + n \in 0 .. Len(h)
  OBVIOUS
<1> DEFINE a == SubSeq(h, 1, o)
           b == SubSeq(h, o + 1, o + n)
           c == SubSeq(h, 1, o + n)
<1>2. /\ a \in Seq(S) /\ Len(a) = o /\ \A k \in 1 .. o : a[k] = h[k]
      /\ b \in Seq(S) /\ Len(b) = n /\ \A k \in 1 .. n : b[k] = h[o + k]
  BY Beginning, Middle
<1>3. c \in Seq(S) /\ Len(c) = o + n /\ \A k \in 1 .. o + n : c[k] = h[k]
  BY <1>1, Beginning
<1> HIDE DEF a, b, c
<1>4. /\ a \o b \in Seq(S) /\ Len(a \o b) = o + n
      /\ \A k \in 1 .. o + n : (a \o b)[k] = IF k <= o THEN a[k] ELSE b[k - o]
  BY <1>1, <1>2, ConcatProperties
<1>5. ASSUME NEW k \in 1 .. o + n PROVE (a \o b)[k] = c[k]
  <2>1. CASE k <= o
    <3>1. k \in 1 .. o
      BY <1>1, <2>1
    <3>2. (a \o b)[k] = a[k]
      BY <1>4, <2>1
    <3> QED BY <1>2, <1>3, <3>1, <3>2
  <2>2. CASE k > o
    <3>1. k - o \in 1 .. n /\ o + (k - o) = k
      BY <1>1, <2>2
    <3>2. (a \o b)[k] = b[k - o]
      BY <1>1, <1>4, <2>2
    <3>3. b[k - o] = h[k]
      BY <1>2, <3>1
    <3> QED BY <1>3, <3>2, <3>3
  <2>3. k \in Int /\ o \in Int
    BY <1>1
  <2>4. k <= o \/ k > o
    BY <2>3
  <2> QED BY <2>1, <2>2, <2>4
<1>6. a \o b = c
  BY <1>3, <1>4, <1>5, SeqEqual
<1> QED BY <1>6 DEF a, b, c

LEMMA CopyoutKeeps ==
  ASSUME ShellInv, NEW f \in HostNames, NEW name \in Names, Copyout(name, f)
  PROVE  ShellInv'
<1>1. ShellTypeOK /\ DistinctNames /\ Phases
  BY DEF ShellInv
<1>2. cmd.at = "prompt" /\ phase = "idle" /\ report' = NoReport
  BY DEF Copyout, AtCmd
<1>3. CASE UNCHANGED <<vars, host, cmd, lost>>
  <2>1. dir' = dir /\ req' = req /\ phase' = "idle"
    BY <1>2, <1>3 DEF vars
  <2>2. dir' \in Seq(File) /\ DistinctNames' /\ req' \in Request
    BY <1>1, <2>1 DEF ShellTypeOK, DistinctNames
  <2> QED BY <1>2, <1>3, <2>1, <2>2, PromptKeeps
<1>4. CASE /\ host' = [host EXCEPT ![f] = <<>>]
           /\ Open(name)
           /\ cmd' = [NoCmd EXCEPT !.at = "fs_open", !.file = f, !.name = name]
           /\ lost' = 0
  <2>1. cmd' = [at |-> "fs_open", file |-> f, name |-> name, fid |-> -1, offset |-> 0]
    BY <1>4 DEF NoCmd
  <2>2. /\ dir' = dir /\ phase' = "idle" /\ req' = NoReq
        /\ ret'.val = -1 \/ (ret'.val \in Ids /\ dir[ret'.val + 1].name = name)
    BY <1>4 DEF Open, Return, ReturnWith
  <2>3. ShellTypeOK'
    <3>1. cmd' \in [at : {"prompt", "fs_create", "fread", "fs_write", "fs_open", "loop", "fs_read"},
                    file : HostNames \cup {Absent}, name : Names \cup {NoName},
                    fid : Int, offset : Nat]
      BY <2>1
    <3>2. host' \in [HostNames -> Seq(Byte) \cup {Absent}]
      BY <1>1, <1>4 DEF ShellTypeOK
    <3> QED BY <1>1, <2>2, <3>1, <3>2, RequestOK DEF ShellTypeOK
  <2>4. DistinctNames'
    BY <1>1, <2>2 DEF DistinctNames
  <2>5. Phases'
    BY <1>2, <2>1, <2>2 DEF Phases
  <2>6. CopyingIn'
    BY <2>1 DEF CopyingIn
  <2>7. CopyingOut'
    <3> lost' = 0
      BY <1>4
    <3>1. ret'.val = -1 \/ CopiedOut(ret.val, 0)'
      <4> SUFFICES ASSUME ret'.val # -1 PROVE CopiedOut(ret.val, 0)'
        OBVIOUS
      <4>1. ret'.val \in Ids /\ dir[ret'.val + 1].name = name /\ ret'.val \in Ids'
        BY <2>2 DEF Ids
      <4>2. dir[ret'.val + 1] \in File
        BY <1>1, <4>1, Positive DEF ShellTypeOK
      <4>3. dir[ret'.val + 1].data \in Seq(Byte)
        BY <4>2 DEF File
      <4>4. /\ 0 \in 0 .. Len(dir[ret'.val + 1].data)
            /\ SubSeq(dir[ret'.val + 1].data, 1, 0) = <<>>
        BY <4>3
      <4>5. host'[f] = <<>> /\ cmd'.file = f /\ cmd'.name = name
        BY <1>1, <1>4, <2>1 DEF ShellTypeOK
      <4>6. <<>> \in Seq(Byte)
        OBVIOUS
      <4> QED BY <2>2, <4>1, <4>4, <4>5, <4>6 DEF CopiedOut
    <3>2. cmd'.at = "fs_open" /\ cmd'.offset = 0
      BY <2>1
    <3> QED BY <2>2, <3>1, <3>2 DEF CopyingOut
  <2>8. CopiedInPrefix' /\ CopiedOutWhole'
    BY <1>2 DEF CopiedInPrefix, CopiedOutWhole, NoReport
  <2> QED BY <2>3, <2>4, <2>5, <2>6, <2>7, <2>8 DEF ShellInv
<1> QED BY <1>3, <1>4 DEF Copyout

LEMMA CopyoutOpenedKeeps ==
  ASSUME ShellInv, CopyoutOpened
  PROVE  ShellInv'
<1>1. ShellTypeOK /\ DistinctNames /\ Phases /\ CopyingOut
  BY DEF ShellInv
<1>2. cmd.at = "fs_open" /\ phase = "idle" /\ UNCHANGED <<vars, host, lost>>
  BY DEF CopyoutOpened, AtCmd
<1>3. CASE Finish("copyout", 0)
  <2>1. cmd' = NoCmd /\ report'.result = 0
    BY <1>3 DEF Finish
  <2>2. CopiedInPrefix' /\ CopiedOutWhole'
    BY <2>1 DEF CopiedInPrefix, CopiedOutWhole
  <2> QED BY <1>2, <2>1, <2>2, FinishKeeps
<1>4. CASE ret.val # -1 /\ cmd' = [cmd EXCEPT !.at = "loop", !.fid = ret.val] /\ UNCHANGED report
  <2>1. CopiedOut(ret.val, 0) /\ cmd.offset = 0 /\ ret.val \in Int
    <3>1. CopiedOut(ret.val, 0) /\ cmd.offset = 0
      BY <1>1, <1>2, <1>4 DEF CopyingOut
    <3> QED BY <1>1, <3>1, Positive DEF CopiedOut
  <2>2. dir' = dir /\ req' = req /\ phase' = phase
    BY <1>2 DEF vars
  <2>3. /\ cmd'.at = "loop" /\ cmd'.fid = ret.val /\ cmd'.file = cmd.file
        /\ cmd'.name = cmd.name /\ cmd'.offset = 0
    BY <1>1, <1>4, <2>1 DEF ShellTypeOK
  <2>4. ShellTypeOK'
    <3>1. cmd' \in [at : {"prompt", "fs_create", "fread", "fs_write", "fs_open", "loop", "fs_read"},
                    file : HostNames \cup {Absent}, name : Names \cup {NoName},
                    fid : Int, offset : Nat]
      BY <1>1, <1>4, <2>1 DEF ShellTypeOK
    <3> QED BY <1>1, <1>2, <2>2, <3>1 DEF ShellTypeOK
  <2>5. DistinctNames'
    BY <1>1, <2>2 DEF DistinctNames
  <2>6. report = NoReport /\ report' = NoReport
    BY <1>1, <1>2, <1>4 DEF Phases
  <2>7. Phases'
    BY <1>1, <1>2, <2>2, <2>3, <2>6 DEF Phases
  <2>8. CopiedOut(cmd.fid, cmd.offset)'
    BY <1>2, <2>1, <2>2, <2>3 DEF CopiedOut, Ids
  <2>9. CopyingOut'
    BY <1>2, <2>2, <2>3, <2>8 DEF CopyingOut
  <2>10. CopyingIn' /\ CopiedInPrefix' /\ CopiedOutWhole'
    BY <2>3, <2>6 DEF CopyingIn, CopiedInPrefix, CopiedOutWhole, NoReport
  <2> QED BY <2>4, <2>5, <2>7, <2>9, <2>10 DEF ShellInv
<1> QED BY <1>3, <1>4 DEF CopyoutOpened

LEMMA CopyoutReadsKeeps ==
  ASSUME ShellInv, CopyoutReads
  PROVE  ShellInv'
<1>1. ShellTypeOK /\ DistinctNames /\ Phases /\ CopyingOut
  BY DEF ShellInv
<1>2. cmd.at = "loop" /\ phase = "idle" /\ host' = host /\ lost' = lost
  BY DEF CopyoutReads, AtCmd
<1>3. CopiedOut(cmd.fid, cmd.offset)
  BY <1>1, <1>2 DEF CopyingOut
<1> DEFINE data == dir[cmd.fid + 1].data
           o == cmd.offset
           last == IF o + bufferSize < Len(data) THEN o + bufferSize ELSE Len(data)
<1>4. cmd.fid \in Ids /\ data \in Seq(Byte)
  <2>1. cmd.fid \in Ids
    BY <1>3 DEF CopiedOut
  <2>2. dir[cmd.fid + 1] \in File
    BY <1>1, <2>1, Positive DEF ShellTypeOK
  <2> QED BY <2>1, <2>2 DEF File
<1>5. Len(data) \in Nat /\ o \in 0 .. Len(data) /\ o \in Nat
  BY <1>3, <1>4 DEF CopiedOut
<1>6. /\ dir' = dir /\ phase' = "idle" /\ req' = NoReq
      /\ ret'.val = last - o /\ ret'.out = SubSeq(data, o + 1, last)
  <2>1. Read(cmd.fid, bufferSize, o)
    BY DEF CopyoutReads
  <2>2. o <= Len(data)
    BY <1>5
  <2>3. /\ ReturnWith("read", <<cmd.fid, bufferSize, o>>, last - o, SubSeq(data, o + 1, last))
        /\ dir' = dir
    BY <1>4, <2>1, <2>2 DEF Read
  <2> QED BY <2>3 DEF ReturnWith
<1>7. /\ last - o \in 0 .. Len(data) - o /\ o + (last - o) = last
      /\ last - o = 0 => o = Len(data)
  <2> HIDE DEF data, o
  <2> QED BY <1>5, BufferSize
<1>8. cmd' = [cmd EXCEPT !.at = "fs_read"] /\ report' = report
  BY DEF CopyoutReads, Goto
<1>9. /\ cmd'.at = "fs_read" /\ cmd'.fid = cmd.fid /\ cmd'.file = cmd.file
      /\ cmd'.name = cmd.name /\ cmd'.offset = cmd.offset
  BY <1>1, <1>8 DEF ShellTypeOK
<1>10. ShellTypeOK'
  <2>1. cmd' \in [at : {"prompt", "fs_create", "fread", "fs_write", "fs_open", "loop", "fs_read"},
                  file : HostNames \cup {Absent}, name : Names \cup {NoName},
                  fid : Int, offset : Nat]
    BY <1>1, <1>8 DEF ShellTypeOK
  <2> QED BY <1>1, <1>2, <1>6, <2>1, RequestOK DEF ShellTypeOK
<1>11. DistinctNames'
  BY <1>1, <1>6 DEF DistinctNames
<1>12. report = NoReport /\ report' = NoReport
  BY <1>1, <1>2, <1>8 DEF Phases
<1>13. Phases'
  BY <1>1, <1>2, <1>6, <1>9, <1>12 DEF Phases
<1>14. CopyingOut'
  <2>1. CopiedOut(cmd.fid, cmd.offset)'
    BY <1>2, <1>3, <1>6, <1>9 DEF CopiedOut, Ids
  <2>2. (dir[cmd.fid + 1].data)' = data /\ (cmd.offset)' = o
    BY <1>6, <1>9
  <2>3. /\ ret'.val \in 0 .. Len(data) - o
        /\ ret'.val = 0 => o = Len(data)
        /\ ret'.out = SubSeq(data, o + 1, o + ret'.val)
    BY <1>6, <1>7
  <2> HIDE DEF data, o
  <2> QED BY <1>6, <1>9, <2>1, <2>2, <2>3 DEF CopyingOut
<1>15. CopyingIn' /\ CopiedInPrefix' /\ CopiedOutWhole'
  BY <1>9, <1>12 DEF CopyingIn, CopiedInPrefix, CopiedOutWhole, NoReport
<1> QED BY <1>10, <1>11, <1>13, <1>14, <1>15 DEF ShellInv

LEMMA CopyoutGotKeeps ==
  ASSUME ShellInv, CopyoutGot
  PROVE  ShellInv'
<1>1. ShellTypeOK /\ DistinctNames /\ Phases /\ CopyingOut
  BY DEF ShellInv
<1>2. cmd.at = "fs_read" /\ phase = "idle" /\ UNCHANGED vars
  BY DEF CopyoutGot, AtCmd
<1>3. dir' = dir /\ req' = req /\ phase' = "idle"
  BY <1>2 DEF vars
<1> DEFINE data == dir[cmd.fid + 1].data
           o == cmd.offset
<1>4. /\ CopiedOut(cmd.fid, o)
      /\ ret.val \in 0 .. Len(data) - o
      /\ ret.val = 0 => o = Len(data)
      /\ ret.out = SubSeq(data, o + 1, o + ret.val)
  BY <1>1, <1>2 DEF CopyingOut
<1>5. /\ cmd.fid \in Ids /\ dir[cmd.fid + 1].name = cmd.name
      /\ o \in 0 .. Len(data)
      /\ host[cmd.file] \in Seq(Byte) /\ lost \in Nat
      /\ lost = 0 => host[cmd.file] = SubSeq(data, 1, o)
  BY <1>4 DEF CopiedOut
<1>6. data \in Seq(Byte) /\ cmd.file \in HostNames
  <2>1. dir[cmd.fid + 1] \in File
    BY <1>1, <1>5, Positive DEF ShellTypeOK
  <2> QED BY <1>1, <1>2, <2>1 DEF File, Phases
<1>7. Len(data) \in Nat /\ o \in Nat /\ ret.val \in Nat /\ o + ret.val \in 0 .. Len(data)
  <2> HIDE DEF data, o
  <2>1. Len(data) \in Nat
    BY <1>6
  <2> QED BY <1>4, <1>5, <2>1
<1>8. CASE ret.val <= 0 /\ Finish("copyout", 1) /\ UNCHANGED <<host, lost>>
  <2>1. o = Len(data)
    BY <1>4, <1>7, <1>8
  <2>2. SubSeq(data, 1, Len(data)) = data
    <3> HIDE DEF data
    <3>1. Len(data) \in 0 .. Len(data)
      BY <1>7
    <3>2. /\ SubSeq(data, 1, Len(data)) \in Seq(Byte)
          /\ Len(SubSeq(data, 1, Len(data))) = Len(data)
          /\ \A k \in 1 .. Len(data) : SubSeq(data, 1, Len(data))[k] = data[k]
      BY <1>6, <3>1, Beginning
    <3> QED BY <1>6, <3>2, SeqEqual
  <2>3. Data(cmd.name) = {data}
    BY <1>1, <1>5, DataOf
  <2>4. lost = 0 => host[cmd.file] = data
    <3> HIDE DEF data, o
    <3> QED BY <1>5, <2>1, <2>2
  <2>5. /\ cmd' = NoCmd /\ report'.op = "copyout" /\ report'.file = cmd.file
        /\ report'.name = cmd.name /\ report'.bytes = o
        /\ host' = host /\ lost' = lost
    BY <1>8 DEF Finish
  <2>6. CopiedOutWhole'
    <3>1. Data(report.name)' = {data}
      BY <1>3, <2>3, <2>5 DEF Data
    <3> HIDE DEF data, o
    <3> QED BY <2>1, <2>4, <2>5, <3>1 DEF CopiedOutWhole
  <2>7. CopiedInPrefix'
    BY <2>5 DEF CopiedInPrefix
  <2> QED BY <1>2, <2>5, <2>6, <2>7, FinishKeeps
<1>9. ASSUME ret.val > 0, NEW kept \in 0 .. ret.val, HostKeeps(kept)
      PROVE  ShellInv'
  <2>1. /\ host' = [host EXCEPT ![cmd.file] = @ \o SubSeq(ret.out, 1, kept)]
        /\ lost' = lost + (ret.val - kept)
        /\ cmd' = [cmd EXCEPT !.at = "loop", !.offset = @ + ret.val]
        /\ report' = report
    BY <1>9 DEF HostKeeps
  <2>2. ret.out \in Seq(Byte) /\ Len(ret.out) = ret.val
    <3> HIDE DEF data, o
    <3> QED BY <1>4, <1>5, <1>6, Middle
  <2>3. SubSeq(ret.out, 1, kept) \in Seq(Byte) /\ (kept = ret.val => SubSeq(ret.out, 1, kept) = ret.out)
    <3>1. /\ SubSeq(ret.out, 1, kept) \in Seq(Byte) /\ Len(SubSeq(ret.out, 1, kept)) = kept
          /\ \A k \in 1 .. kept : SubSeq(ret.out, 1, kept)[k] = ret.out[k]
      BY <2>2, Beginning
    <3> QED BY <2>2, <3>1, SeqEqual
  <2>4. host[cmd.file] \o SubSeq(ret.out, 1, kept) \in Seq(Byte)
    BY <1>5, <2>3
  <2>5. host'[cmd.file] = host[cmd.file] \o SubSeq(ret.out, 1, kept)
    BY <1>1, <1>6, <2>1 DEF ShellTypeOK
  <2>6. lost' \in Nat /\ (lost' = 0 => lost = 0 /\ kept = ret.val)
    BY <1>5, <1>7, <2>1
  <2>7. lost' = 0 => host'[cmd.file] = SubSeq(data, 1, o + ret.val)
    <3> SUFFICES ASSUME lost' = 0 PROVE host'[cmd.file] = SubSeq(data, 1, o + ret.val)
      OBVIOUS
    <3>1. host'[cmd.file] = host[cmd.file] \o ret.out
      BY <2>3, <2>5, <2>6
    <3> HIDE DEF data, o
    <3>2. host[cmd.file] = SubSeq(data, 1, o) /\ ret.out = SubSeq(data, o + 1, o + ret.val)
      BY <1>4, <1>5, <2>6
    <3> QED BY <1>4, <1>5, <1>6, <3>1, <3>2, ConcatGrows
  <2>8. /\ cmd'.at = "loop" /\ cmd'.fid = cmd.fid /\ cmd'.file = cmd.file
        /\ cmd'.name = cmd.name /\ cmd'.offset = o + ret.val
    BY <1>1, <2>1 DEF ShellTypeOK
  <2>9. ShellTypeOK'
    <3>1. host' \in [HostNames -> Seq(Byte) \cup {Absent}]
      BY <1>1, <2>1, <2>4 DEF ShellTypeOK
    <3>2. cmd' \in [at : {"prompt", "fs_create", "fread", "fs_write", "fs_open", "loop", "fs_read"},
                    file : HostNames \cup {Absent}, name : Names \cup {NoName},
                    fid : Int, offset : Nat]
      <4>1. cmd.offset + ret.val \in Nat
        BY <1>7
      <4> QED BY <1>1, <2>1, <4>1 DEF ShellTypeOK
    <3> QED BY <1>1, <1>3, <3>1, <3>2 DEF ShellTypeOK
  <2>10. DistinctNames'
    BY <1>1, <1>3 DEF DistinctNames
  <2>11. report = NoReport /\ report' = NoReport
    BY <1>1, <1>2, <2>1 DEF Phases
  <2>12. Phases'
    BY <1>1, <1>2, <1>3, <2>8, <2>11 DEF Phases
  <2>13. CopiedOut(cmd.fid, cmd.offset)'
    <3>1. cmd'.fid = cmd.fid /\ cmd.fid \in Ids' /\ dir'[cmd'.fid + 1] = dir[cmd.fid + 1]
      BY <1>3, <1>5, <2>8 DEF Ids
    <3>2. /\ host'[cmd'.file] = host'[cmd.file] /\ host'[cmd.file] \in Seq(Byte)
          /\ dir[cmd.fid + 1].name = cmd'.name
      BY <1>5, <2>4, <2>5, <2>8
    <3> QED BY <1>7, <2>6, <2>7, <2>8, <3>1, <3>2 DEF CopiedOut
  <2>14. CopyingOut'
    BY <1>3, <2>8, <2>13 DEF CopyingOut
  <2>15. CopyingIn' /\ CopiedInPrefix' /\ CopiedOutWhole'
    BY <2>8, <2>11 DEF CopyingIn, CopiedInPrefix, CopiedOutWhole, NoReport
  <2> QED BY <2>9, <2>10, <2>12, <2>14, <2>15 DEF ShellInv
<1> QED BY <1>8, <1>9 DEF CopyoutGot

LEMMA ShellKeeps == ShellInv /\ [ShellNext]_shellVars => ShellInv'
<1>1. ASSUME ShellInv, StoreStep PROVE ShellInv'
  BY <1>1, StoreKeepsFormatCreate, StoreKeepsWrite DEF StoreStep
<1>2. ASSUME ShellInv, CopyStep PROVE ShellInv'
  BY <1>2, CopyinCreatedKeeps, CopyinReadsKeeps, CopyinWrittenKeeps, CopyoutOpenedKeeps,
     CopyoutReadsKeeps, CopyoutGotKeeps DEF CopyStep
<1>3. ASSUME ShellInv, NEW f \in HostNames, NEW name \in Names,
             Copyin(f, name) \/ Copyout(name, f)
      PROVE  ShellInv'
  BY <1>3, CopyinKeeps, CopyoutKeeps
<1>4. ASSUME ShellInv, UNCHANGED shellVars PROVE ShellInv'
  <2>1. /\ dir' = dir /\ req' = req /\ phase' = phase /\ ret' = ret
        /\ host' = host /\ cmd' = cmd /\ report' = report /\ lost' = lost
    BY <1>4 DEF shellVars, vars
  <2>2. ShellTypeOK' /\ DistinctNames'
    BY <1>4, <2>1 DEF ShellInv, ShellTypeOK, DistinctNames
  <2>3. Phases'
    BY <1>4, <2>1 DEF ShellInv, Phases, Exists, Ids, Chunk
  <2>4. CopyingIn'
    <3>1. Chunk' = Chunk
      BY <2>1 DEF Chunk
    <3>2. CopyingIn
      BY <1>4 DEF ShellInv
    <3> QED BY <2>1, <3>1, <3>2 DEF CopyingIn, CopiedIn, Ids
  <2>5. CopyingOut'
    BY <1>4, <2>1 DEF ShellInv, CopyingOut, CopiedOut, Ids
  <2>6. CopiedInPrefix' /\ CopiedOutWhole'
    BY <1>4, <2>1 DEF ShellInv, CopiedInPrefix, CopiedOutWhole, Data
  <2> QED BY <2>2, <2>3, <2>4, <2>5, <2>6 DEF ShellInv
<1> QED BY <1>1, <1>2, <1>3, <1>4, CommandKeeps DEF ShellNext

(* copyin (fso-sh.c): however many bytes of a host file it says it copied,  *)
(* the file holds exactly those, also when a write fails for lack of space  *)
(* after bytes of its last block were overwritten.                          *)
THEOREM CopyinKeepsPrefix == ShellSpec => []CopiedInPrefix
<1>1. ShellInv => CopiedInPrefix
  BY DEF ShellInv
<1> QED BY <1>1, ShellStart, ShellKeeps, PTL DEF ShellSpec

(* copyout (fso-sh.c): a copy that returns 1 has read the whole file,       *)
(* whatever the sizes of the file and of the buffer, says so, and leaves it *)
(* in the host file if the host system kept all the bytes it was given.     *)
THEOREM CopyoutCopiesWhole == ShellSpec => []CopiedOutWhole
<1>1. ShellInv => CopiedOutWhole
  BY DEF ShellInv
<1> QED BY <1>1, ShellStart, ShellKeeps, PTL DEF ShellSpec
=============================================================================
