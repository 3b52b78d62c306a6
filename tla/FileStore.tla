------------------------------- MODULE FileStore -------------------------------
(***************************************************************************)
(* What the file system promises a client that is never killed: a          *)
(* directory of named byte sequences, numbered from 0 in the order of      *)
(* their creation, and a pool of free blocks.  Nothing here knows of       *)
(* superblocks, bitmaps, directory blocks or block numbers.                *)
(*                                                                         *)
(* A call that changes a file in several steps is visible in between: when *)
(* fs_write fails for lack of space, the bytes it has overwritten stay     *)
(* overwritten, the file does not grow and its new blocks stay taken.      *)
(***************************************************************************)
EXTENDS Integers, Sequences

CONSTANTS
  Names,      \* the file names
  NoName,     \* no file is being created
  Payloads,   \* what a client writes
  Offsets,    \* where it writes and reads
  Lengths,    \* how much it reads
  Capacity,   \* data blocks of the volume
  MaxFiles,   \* entries of the directory
  MaxBytes    \* the largest file

VARIABLES
  phase,      \* "down", "idle", "format", "create" or "write"
  formatted, mounted,
  dir,        \* the files: a sequence of [name, data]
  free,       \* number of free blocks
  req,        \* the create or write in progress
  ret

vars == <<phase, formatted, mounted, dir, free, req, ret>>

(* ret tells which call returned last, with which arguments, with what      *)
(* result, and what it handed out (bytes read, a listing).                  *)
NoCall == [op |-> "none", on |-> NoName, val |-> 0, out |-> <<>>]

NoReq == [name |-> NoName, id |-> 0, data |-> <<>>, offset |-> 0, done |-> 0]

Init ==
  /\ phase = "down"
  /\ formatted = FALSE /\ mounted = FALSE
  /\ dir = <<>>
  /\ free = 0
  /\ req = NoReq
  /\ ret = NoCall

ReturnWith(op, on, r, o) ==
  /\ phase' = "idle"
  /\ req' = NoReq
  /\ ret' = [op |-> op, on |-> on, val |-> r, out |-> o]

Return(op, on, r) == ReturnWith(op, on, r, <<>>)

Begin(where, r) ==
  /\ phase' = where
  /\ req' = r
  /\ ret' = NoCall

Start ==
  /\ phase = "down"
  /\ phase' = "idle"
  /\ UNCHANGED <<formatted, mounted, dir, free, req, ret>>

Quit ==
  /\ phase = "idle"
  /\ phase' = "down"
  /\ mounted' = FALSE
  /\ ret' = NoCall
  /\ UNCHANGED <<formatted, dir, free, req>>

FormatRefused ==
  /\ phase = "idle" /\ mounted
  /\ Return("format", NoName, 0)
  /\ UNCHANGED <<formatted, mounted, dir, free>>

FormatBegin ==
  /\ phase = "idle" /\ ~mounted
  /\ Begin("format", NoReq)
  /\ formatted' = TRUE
  /\ dir' = <<>>
  /\ free' = Capacity
  /\ UNCHANGED mounted

FormatEnd ==
  /\ phase = "format"
  /\ Return("format", NoName, 1)
  /\ UNCHANGED <<formatted, mounted, dir, free>>

Mount ==
  /\ phase = "idle"
  /\ mounted' = formatted
  /\ Return("mount", NoName, IF formatted /\ ~mounted THEN 1 ELSE 0)
  /\ UNCHANGED <<formatted, dir, free>>

Umount ==
  /\ phase = "idle"
  /\ mounted' = FALSE
  /\ Return("umount", NoName, 1)
  /\ UNCHANGED <<formatted, dir, free>>

-----------------------------------------------------------------------------
Ids == 0 .. Len(dir) - 1

Exists(name) == \E id \in Ids : dir[id + 1].name = name

Open(name) ==
  /\ phase = "idle"
  /\ \/ /\ mounted
        /\ \E id \in Ids : Return("open", name, id) /\ dir[id + 1].name = name
     \/ /\ Return("open", name, -1)
        /\ ~(mounted /\ Exists(name))
  /\ UNCHANGED <<formatted, mounted, dir, free>>

Listed == {[entry |-> id, size |-> Len(dir[id + 1].data), name |-> dir[id + 1].name] :
             id \in Ids}

List ==
  /\ phase = "idle"
  /\ IF mounted
     THEN ReturnWith("lsdir", NoName, 1, Listed)
     ELSE Return("lsdir", NoName, 0)
  /\ UNCHANGED <<formatted, mounted, dir, free>>

CreateBegin(name) ==
  /\ phase = "idle" /\ mounted
  /\ Begin("create", [NoReq EXCEPT !.name = name])
  /\ ~Exists(name)
  /\ Len(dir) < MaxFiles
  /\ \/ free' = free
     \/ free > 0 /\ free' = free - 1
  /\ UNCHANGED <<formatted, mounted, dir>>

CreateEnd ==
  /\ phase = "create"
  /\ Return("create", req.name, Len(dir))
  /\ dir' = Append(dir, [name |-> req.name, data |-> <<>>])
  /\ UNCHANGED <<formatted, mounted, free>>

CreateRefused(name) ==
  /\ phase = "idle"
  /\ Return("create", name, -1)
  /\ ~mounted \/ Exists(name) \/ Len(dir) = MaxFiles \/ free = 0
  /\ UNCHANGED <<formatted, mounted, dir, free>>

-----------------------------------------------------------------------------
(* data with the first n bytes of new laid over it from offset on; it grows *)
(* only if grow.                                                            *)
Overlay(data, new, n, offset, grow) ==
  LET end  == offset + n
      size == IF grow /\ end > Len(data) THEN end ELSE Len(data)
  IN  [k \in 1 .. size |-> IF k \in offset + 1 .. end THEN new[k - offset] ELSE data[k]]

WriteBegin(id, data, offset) ==
  /\ phase = "idle" /\ mounted
  /\ Begin("write", [NoReq EXCEPT !.id = id, !.data = data, !.offset = offset])
  /\ id \in Ids
  /\ offset <= Len(dir[id + 1].data)
  /\ Len(dir[id + 1].data) + Len(data) <= MaxBytes
  /\ UNCHANGED <<formatted, mounted, dir, free>>

WriteRefused(id, data, offset) ==
  /\ phase = "idle" /\ mounted
  /\ Return("write", <<id, Len(data), offset>>, -1)
  /\ \/ id \notin Ids
     \/ offset > Len(dir[id + 1].data)
     \/ Len(dir[id + 1].data) + Len(data) > MaxBytes
  /\ UNCHANGED <<formatted, mounted, dir, free>>

Written == <<req.id, Len(req.data), req.offset>>

WriteTakesBlock ==
  /\ phase = "write"
  /\ req.done < Len(req.data)
  /\ free > 0
  /\ free' = free - 1
  /\ UNCHANGED <<phase, formatted, mounted, dir, req, ret>>

WriteSome ==
  /\ phase = "write"
  /\ \E n \in req.done + 1 .. Len(req.data) :
       /\ req' = [req EXCEPT !.done = n]
       /\ dir' = [dir EXCEPT ![req.id + 1].data =
                    Overlay(@, req.data, n, req.offset, FALSE)]
  /\ UNCHANGED <<phase, formatted, mounted, free, ret>>

WriteEnd ==
  /\ phase = "write"
  /\ req.done = Len(req.data)
  /\ dir' = [dir EXCEPT ![req.id + 1].data =
               Overlay(@, req.data, req.done, req.offset, TRUE)]
  /\ Return("write", Written, Len(req.data))
  /\ UNCHANGED <<formatted, mounted, free>>

WriteFails ==
  /\ phase = "write"
  /\ req.done < Len(req.data)
  /\ free = 0
  /\ Return("write", Written, -1)
  /\ UNCHANGED <<formatted, mounted, dir, free>>

Read(id, length, offset) ==
  LET data == dir[id + 1].data
      last == IF offset + length < Len(data) THEN offset + length ELSE Len(data)
  IN  /\ phase = "idle" /\ mounted
      /\ IF id \in Ids /\ offset <= Len(data)
         THEN ReturnWith("read", <<id, length, offset>>, last - offset,
                         SubSeq(data, offset + 1, last))
         ELSE Return("read", <<id, length, offset>>, -1)
      /\ UNCHANGED <<formatted, mounted, dir, free>>

AccessUnmounted(op) ==
  /\ phase = "idle" /\ ~mounted
  /\ Return(op, NoName, -1)
  /\ UNCHANGED <<formatted, mounted, dir, free>>

-----------------------------------------------------------------------------
Next ==
  \/ Start \/ Quit
  \/ FormatRefused \/ FormatBegin \/ FormatEnd
  \/ Mount \/ Umount
  \/ \E op \in {"read", "write"} : AccessUnmounted(op)
  \/ \E name \in Names : Open(name) \/ CreateBegin(name) \/ CreateRefused(name)
  \/ CreateEnd
  \/ \E id \in 0 .. MaxFiles - 1, offset \in Offsets, data \in Payloads :
       WriteBegin(id, data, offset) \/ WriteRefused(id, data, offset)
  \/ WriteTakesBlock \/ WriteSome \/ WriteEnd \/ WriteFails
  \/ List
  \/ \E id \in 0 .. MaxFiles - 1, offset \in Offsets, length \in Lengths :
       Read(id, length, offset)

Spec == Init /\ [][Next]_vars
=============================================================================
