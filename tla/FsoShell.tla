------------------------------- MODULE FsoShell -------------------------------
(***************************************************************************)
(* fso-sh.c: the commands of the shell, each a sequence of calls to the    *)
(* file system, here in the terms of FileStore.  The copy commands move a  *)
(* file between the store and the host system in buffers of bufferSize     *)
(* bytes; stdout, where cat copies to, counts as a host file.              *)
(***************************************************************************)
EXTENDS FileStore

CONSTANTS
  HostNames,     \* files of the host system
  HostFiles,     \* what they may hold: sequences of bytes
  Absent,        \* no such file
  bufferSize     \* char buffer[1000]

ASSUME ShellAssumption ==
  /\ \A bytes \in HostFiles : bytes \in Seq({bytes[k] : k \in DOMAIN bytes})
  /\ Absent \notin HostFiles
  /\ bufferSize \in Nat \ {0}

VARIABLES
  host,      \* the host's files
  cmd,       \* the copy command in progress
  report,    \* what do_copyin or do_copyout returned, and the bytes copied
  lost       \* bytes of the last copyout that the host system failed to keep

shellVars == <<vars, host, cmd, report, lost>>

NoCmd    == [at |-> "prompt", file |-> Absent, name |-> NoName, fid |-> -1, offset |-> 0]
NoReport == [op |-> "none", file |-> Absent, name |-> NoName, result |-> 0, bytes |-> 0]

ShellInit ==
  /\ Init
  /\ host \in [HostNames -> HostFiles \cup {Absent}]
  /\ cmd = NoCmd
  /\ report = NoReport
  /\ lost = 0

(* The command reads its next line, or goes on when a call has returned.    *)
AtCmd(where) == phase = "idle" /\ cmd.at = where

Finish(op, result) ==
  /\ cmd' = NoCmd
  /\ report' = [op |-> op, file |-> cmd.file, name |-> cmd.name,
                result |-> result, bytes |-> cmd.offset]

Goto(where) == cmd' = [cmd EXCEPT !.at = where] /\ UNCHANGED report

-----------------------------------------------------------------------------
(* The commands that are one call. *)
Command ==
  /\ AtCmd("prompt")
  /\ \/ FormatRefused \/ FormatBegin \/ Mount \/ Umount \/ List \/ Quit
     \/ \E name \in Names : CreateBegin(name) \/ CreateRefused(name)
  /\ report' = NoReport
  /\ UNCHANGED <<host, cmd, lost>>

Run == Start /\ UNCHANGED <<host, cmd, report, lost>>

(* The rest of a call of the file system. *)
StoreStep ==
  /\ FormatEnd \/ CreateEnd \/ WriteTakesBlock \/ WriteSome \/ WriteEnd \/ WriteFails
  /\ UNCHANGED <<host, cmd, report, lost>>

-----------------------------------------------------------------------------
(* do_copyin *)

Copyin(f, name) ==
  /\ AtCmd("prompt")
  /\ report' = NoReport
  /\ \/ /\ host[f] = Absent
        /\ UNCHANGED <<vars, cmd>>
     \/ /\ host[f] # Absent
        /\ CreateBegin(name) \/ CreateRefused(name)
        /\ cmd' = [NoCmd EXCEPT !.at = "fs_create", !.file = f, !.name = name]
  /\ UNCHANGED <<host, lost>>

CopyinCreated ==
  /\ AtCmd("fs_create")
  /\ \/ ret.val = -1 /\ Finish("copyin", 0)
     \/ ret.val # -1 /\ cmd' = [cmd EXCEPT !.at = "fread", !.fid = ret.val] /\ UNCHANGED report
  /\ UNCHANGED <<vars, host, lost>>

(* What fread finds after the bytes that were copied. *)
Chunk ==
  LET left == Len(host[cmd.file]) - cmd.offset
  IN  SubSeq(host[cmd.file], cmd.offset + 1,
             cmd.offset + (IF left < bufferSize THEN left ELSE bufferSize))

CopyinReads ==
  /\ AtCmd("fread")
  /\ \/ Chunk = <<>> /\ Finish("copyin", 1) /\ UNCHANGED vars
     \/ /\ Chunk # <<>>
        /\ WriteBegin(cmd.fid, Chunk, cmd.offset) \/ WriteRefused(cmd.fid, Chunk, cmd.offset)
        /\ Goto("fs_write")
  /\ UNCHANGED <<host, lost>>

(* Mutant: the bytes count as copied before fs_write is known to have       *)
(* written them.                                                            *)
CopyinWrittenOptimist ==
  /\ AtCmd("fs_write")
  /\ cmd' = [cmd EXCEPT !.at = "fread", !.offset = @ + Len(Chunk)]
  /\ UNCHANGED <<vars, host, report, lost>>

(* A write that failed ends the copy, which still returns 1. *)
CopyinWritten ==
  /\ AtCmd("fs_write")
  /\ \/ ret.val < Len(Chunk) /\ Finish("copyin", 1)
     \/ /\ ret.val = Len(Chunk)
        /\ cmd' = [cmd EXCEPT !.at = "fread", !.offset = @ + ret.val]
        /\ UNCHANGED report
  /\ UNCHANGED <<vars, host, lost>>

-----------------------------------------------------------------------------
(* do_copyout: the host file is emptied before the other one is opened. *)

Copyout(name, f) ==
  /\ AtCmd("prompt")
  /\ report' = NoReport
  /\ \/ UNCHANGED <<vars, host, cmd, lost>>      \* the host file cannot be opened
     \/ /\ host' = [host EXCEPT ![f] = <<>>]
        /\ Open(name)
        /\ cmd' = [NoCmd EXCEPT !.at = "fs_open", !.file = f, !.name = name]
        /\ lost' = 0

CopyoutOpened ==
  /\ AtCmd("fs_open")
  /\ \/ ret.val = -1 /\ Finish("copyout", 0)
     \/ ret.val # -1 /\ cmd' = [cmd EXCEPT !.at = "loop", !.fid = ret.val] /\ UNCHANGED report
  /\ UNCHANGED <<vars, host, lost>>

CopyoutReads ==
  /\ AtCmd("loop")
  /\ Read(cmd.fid, bufferSize, cmd.offset)
  /\ Goto("fs_read")
  /\ UNCHANGED <<host, lost>>

(* fwrite and fclose give the bytes to the host system, which may fail to   *)
(* keep some of them; neither result is looked at.  What the loss of bytes  *)
(* of stdout's or fout's buffer leaves is the same whichever call meets it. *)
HostKeeps(kept) ==
  /\ host' = [host EXCEPT ![cmd.file] = @ \o SubSeq(ret.out, 1, kept)]
  /\ lost' = lost + (ret.val - kept)
  /\ cmd' = [cmd EXCEPT !.at = "loop", !.offset = @ + ret.val]
  /\ UNCHANGED report

(* Mutants: a short read counts as the end; only an error does.             *)
CopyoutGotShort ==
  /\ AtCmd("fs_read")
  /\ \/ ret.val < bufferSize /\ Finish("copyout", 1) /\ UNCHANGED <<host, lost>>
     \/ ret.val >= bufferSize /\ \E kept \in 0 .. ret.val : HostKeeps(kept)
  /\ UNCHANGED vars

CopyoutGotForever ==
  /\ AtCmd("fs_read")
  /\ \/ ret.val < 0 /\ Finish("copyout", 1) /\ UNCHANGED <<host, lost>>
     \/ ret.val >= 0 /\ \E kept \in 0 .. ret.val : HostKeeps(kept)
  /\ UNCHANGED vars

CopyoutGot ==
  /\ AtCmd("fs_read")
  /\ \/ ret.val <= 0 /\ Finish("copyout", 1) /\ UNCHANGED <<host, lost>>
     \/ ret.val > 0 /\ \E kept \in 0 .. ret.val : HostKeeps(kept)
  /\ UNCHANGED vars

-----------------------------------------------------------------------------
CopyStep ==
  \/ CopyinCreated \/ CopyinReads \/ CopyinWritten
  \/ CopyoutOpened \/ CopyoutReads \/ CopyoutGot

ShellNext ==
  \/ Command \/ Run \/ StoreStep
  \/ \E f \in HostNames, name \in Names : Copyin(f, name) \/ Copyout(name, f)
  \/ CopyStep

(* The only thread keeps running until it waits for a command.              *)
ShellSpec ==
  ShellInit /\ [][ShellNext]_shellVars /\ WF_shellVars(StoreStep) /\ WF_shellVars(CopyStep)

-----------------------------------------------------------------------------
Data(name) == {dir[k].data : k \in {j \in 1 .. Len(dir) : dir[j].name = name}}

(* When copyin returns 1 the file holds the bytes it says were copied: the  *)
(* beginning of the host file.  A write that failed left nothing behind.    *)
CopiedInPrefix ==
  report.op = "copyin" /\ report.result = 1 =>
    Data(report.name) = {SubSeq(host[report.file], 1, report.bytes)}

(* When copyout returns 1 the bytes it says were copied are all of the      *)
(* file, and the host file is the whole file if the host system kept every  *)
(* byte: copyout itself does not know.                                      *)
CopiedOutWhole ==
  report.op = "copyout" /\ report.result = 1 =>
    \E data \in Data(report.name) :
      /\ Data(report.name) = {data}
      /\ report.bytes = Len(data)
      /\ lost = 0 => host[report.file] = data

(* Every copy command comes back to the prompt.                             *)
CopyEnds == cmd # NoCmd ~> cmd = NoCmd

(* fso-sh.c:57, returns 1 if ok, 0 if error: violated when a write fails.   *)
CopyinReportsErrors ==
  report.op = "copyin" /\ report.result = 1 => Data(report.name) = {host[report.file]}
=============================================================================
