-------------------------------- MODULE MtCopy --------------------------------
(***************************************************************************)
(* mtcopy.c: a thread reads a file block by block and another writes it,   *)
(* with the queue of blockqueue.c between them.  main creates both, waits  *)
(* for both, and any of the three may end the process.                     *)
(*                                                                         *)
(* fwrite leaves bytes in the stdio buffer of the output file until the    *)
(* library chooses to write them out, so an error of the disk shows up in  *)
(* a later fwrite, in fclose, or in exit.                                  *)
(***************************************************************************)
EXTENDS BlockQueue, Sequences

CONSTANTS
  reader, writer,   \* the two threads
  Files,            \* the input files: sequences of blocks
  EndBlock          \* the block of size 0

ASSUME CopyAssumption ==
  /\ Producers = {reader} /\ Consumers = {writer}
  /\ EndBlock \in Blocks
  /\ Files \subseteq Seq(Blocks \ {EndBlock})

VARIABLES
  file,                   \* the input file
  rd, wr, mn,             \* where reader, writer and main are in mtcopy.c
  unread,                 \* what is left of the input
  unflushed, output,      \* the stdio buffer and the output file
  failed,                 \* history: an error of read or write occurred
  exit                    \* the status of the process

copyVars == <<queueVars, file, rd, wr, mn, unread, unflushed, output, failed, exit>>

Running == exit = "running"

CopyInit ==
  /\ QueueInit
  /\ file \in Files
  /\ rd = "none" /\ wr = "none" /\ mn = "create_reader"
  /\ unread = file
  /\ unflushed = <<>> /\ output = <<>>
  /\ failed = FALSE
  /\ exit = "running"

(* exit writes the buffers out, if it can.                                  *)
terminate ==
  /\ exit' = "failure"
  /\ output' \in {output, output \o unflushed}
  /\ unflushed' = <<>>
  /\ UNCHANGED <<queueVars, file, rd, wr, mn, unread, failed>>

-----------------------------------------------------------------------------
(* reader: one of its calls ends when at[reader] is "out" again.            *)
AtReader(where) == Running /\ rd = where /\ at[reader] = "out"

ReaderOpens ==
  /\ AtReader("fopen")
  /\ \/ /\ rd' = "fread"
        /\ UNCHANGED <<queueVars, file, wr, mn, unread, unflushed, output, failed, exit>>
     \/ terminate

ReaderReads ==
  /\ AtReader("fread")
  /\ unread # <<>>
  /\ CallPut(reader, Head(unread))
  /\ unread' = Tail(unread)
  /\ UNCHANGED <<file, rd, wr, mn, unflushed, output, failed, exit>>

(* Mutant: no special block at the end.                                     *)
ReaderEndsQuietly ==
  /\ AtReader("fread")
  /\ \/ unread = <<>> /\ UNCHANGED failed
     \/ failed' = TRUE
  /\ rd' = "fclose"
  /\ UNCHANGED <<queueVars, file, wr, mn, unread, unflushed, output, exit>>

(* fread returns 0 at the end of the file and also on an error: n < 0 is    *)
(* never true.                                                              *)
ReaderEnds ==
  /\ AtReader("fread")
  /\ \/ unread = <<>> /\ UNCHANGED failed
     \/ failed' = TRUE
  /\ CallPut(reader, EndBlock)
  /\ rd' = "fclose"
  /\ UNCHANGED <<file, wr, mn, unread, unflushed, output, exit>>

ReaderCloses ==
  /\ AtReader("fclose")
  /\ rd' = "done"
  /\ UNCHANGED <<queueVars, file, wr, mn, unread, unflushed, output, failed, exit>>

-----------------------------------------------------------------------------
(* writer *)
AtWriter(where) == Running /\ wr = where /\ at[writer] = "out"

WriterOpens ==
  /\ AtWriter("fopen")
  /\ \/ /\ wr' = "take"
        /\ UNCHANGED <<queueVars, file, rd, mn, unread, unflushed, output, failed, exit>>
     \/ terminate

WriterTakes ==
  /\ AtWriter("take")
  /\ CallTake(writer)
  /\ wr' = "fwrite"
  /\ UNCHANGED <<file, rd, mn, unread, unflushed, output, failed, exit>>

WriterWrites ==
  /\ AtWriter("fwrite")
  /\ held[writer] # EndBlock
  /\ wr' = "take"
  /\ LET bytes == Append(unflushed, held[writer])
     IN  \/ unflushed' = bytes /\ UNCHANGED output
         \/ unflushed' = <<>> /\ output' = output \o bytes
  /\ UNCHANGED <<queueVars, file, rd, mn, unread, failed, exit>>

(* Mutant: the number of bytes written is not looked at.                    *)
WriterGoesOn ==
  /\ AtWriter("fwrite")
  /\ held[writer] # EndBlock
  /\ wr' = "take"
  /\ failed' = TRUE
  /\ unflushed' = <<>>
  /\ UNCHANGED <<queueVars, file, rd, mn, unread, output, exit>>

(* nw < n: the buffer could not be written out.                             *)
WriterFails ==
  /\ AtWriter("fwrite")
  /\ held[writer] # EndBlock
  /\ exit' = "failure"
  /\ failed' = TRUE
  /\ unflushed' = <<>>
  /\ UNCHANGED <<queueVars, file, rd, wr, mn, unread, output>>

(* The result of fclose is not looked at.                                   *)
WriterCloses ==
  /\ AtWriter("fwrite")
  /\ held[writer] = EndBlock
  /\ wr' = "done"
  /\ unflushed' = <<>>
  /\ \/ output' = output \o unflushed /\ UNCHANGED failed
     \/ failed' = TRUE /\ UNCHANGED output
  /\ UNCHANGED <<queueVars, file, rd, mn, unread, exit>>

-----------------------------------------------------------------------------
(* main *)
AtMain(where) == Running /\ mn = where

MainCreatesReader ==
  /\ AtMain("create_reader")
  /\ \/ /\ rd' = "fopen" /\ mn' = "create_writer"
        /\ UNCHANGED <<queueVars, file, wr, unread, unflushed, output, failed, exit>>
     \/ terminate

MainCreatesWriter ==
  /\ AtMain("create_writer")
  /\ \/ /\ wr' = "fopen" /\ mn' = "join_reader"
        /\ UNCHANGED <<queueVars, file, rd, unread, unflushed, output, failed, exit>>
     \/ terminate

MainJoinsReader ==
  /\ AtMain("join_reader") /\ rd = "done"
  /\ mn' = "join_writer"
  /\ UNCHANGED <<queueVars, file, rd, wr, unread, unflushed, output, failed, exit>>

(* Mutant: main waits for the reader only.                                  *)
MainReturnsEarly ==
  /\ AtMain("join_writer")
  /\ exit' = "success"
  /\ output' = output \o unflushed
  /\ unflushed' = <<>>
  /\ UNCHANGED <<queueVars, file, rd, wr, mn, unread, failed>>

MainReturns ==
  /\ AtMain("join_writer") /\ wr = "done"
  /\ exit' = "success"
  /\ UNCHANGED <<queueVars, file, rd, wr, mn, unread, unflushed, output, failed>>

-----------------------------------------------------------------------------
(* The steps of a thread inside the queue. *)
InQueue(step) ==
  /\ Running
  /\ step
  /\ UNCHANGED <<file, rd, wr, mn, unread, unflushed, output, failed, exit>>

Reader ==
  \/ ReaderOpens \/ ReaderReads \/ ReaderEnds \/ ReaderCloses
  \/ InQueue(PutStep(reader))

Writer ==
  \/ WriterOpens \/ WriterTakes \/ WriterWrites \/ WriterFails \/ WriterCloses
  \/ InQueue(TakeStep(writer))

Main == MainCreatesReader \/ MainCreatesWriter \/ MainJoinsReader \/ MainReturns

CopyNext == Reader \/ Writer \/ Main

(* The scheduler runs every thread that can run.                            *)
CopySpec ==
  /\ CopyInit /\ [][CopyNext]_copyVars
  /\ WF_copyVars(Reader) /\ WF_copyVars(Writer) /\ WF_copyVars(Main)

-----------------------------------------------------------------------------
(* What is in the output file, whenever the process ends and however, is    *)
(* the beginning of the input: no block is lost, repeated or out of order.  *)
OutputIsPrefix ==
  /\ Len(output) <= Len(file)
  /\ output = SubSeq(file, 1, Len(output))

(* When main returns 0 and no read or write failed, the whole file has been *)
(* copied and closed.                                                       *)
ExitZeroCopied == exit = "success" /\ ~failed => output = file

(* The process ends: the special block stops the writer, and neither thread *)
(* waits for the other for ever.                                            *)
ProcessEnds == <>(~Running)
=============================================================================
