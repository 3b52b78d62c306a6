------------------------------ MODULE FileSystem ------------------------------
(***************************************************************************)
(* The final project's file system: fs.c over the simulated disk of        *)
(* disk.c, as a client of fs.h sees it.  One call runs at a time.  A call  *)
(* that writes several blocks is several steps, one for each disk_write,   *)
(* so that the program may be killed between any two of them.              *)
(*                                                                         *)
(* disk is what disk_read returns; stable is what the image file holds.    *)
(* stdio keeps the last block written in its buffer until the fseek of the *)
(* next disk_read or disk_write, so stable is disk without its last write. *)
(* pc is where the program is: "down" (not running), "idle" (between       *)
(* calls), inside fs_format, fs_create or fs_write, or "astray".           *)
(***************************************************************************)
EXTENDS FsLayout

CONSTANTS
  DiskSizes,    \* the sizes, in blocks, the program may be started with
  Payloads,     \* the data a client passes to fs_write
  Offsets,      \* the offsets a client passes to fs_write and fs_read
  ReadLengths   \* the lengths a client passes to fs_read

(* The sizes on which fs_format succeeds.  It writes blocks 0 and 1, so on a *)
(* smaller disk, which disk_init accepts, sanity_check would abort it; its   *)
(* assert(BLOCKSIZE*8>=nblocks) says that the bitmap fits in a block.        *)
ASSUME ClientAssumption ==
  /\ DiskSizes \subseteq 2 .. MaxBlocks
  /\ MaxBlocks <= 8 * BLOCKSIZE
  /\ Payloads \subseteq Seq(Byte) \ {<<>>}
  /\ Offsets \subseteq Nat
  /\ ReadLengths \subseteq Nat

VARIABLES disk, stable, nblocks, rootSB, pc, frame, ret

vars == <<disk, stable, nblocks, rootSB, pc, frame, ret>>

(* The arguments and locals of the call in progress.                        *)
NoFrame == [name |-> NoName, inumber |-> 0, dirent |-> NullDirent,
            data |-> <<>>, offset |-> 0, cur |-> 0]

Frame == [name : Names \cup {NoName}, inumber : Nat, dirent : Dirent,
          data : Seq(Byte), offset : Nat, cur : Nat]

(* ret tells which call returned last, with which arguments, with what      *)
(* result, and what it handed out (bytes read, a listing).                  *)
NoCall == [op |-> "none", on |-> NoName, val |-> 0, out |-> <<>>]

Mounted == rootSB.magic

Init ==
  /\ disk = [b \in BlockNo |-> ZeroBlock]
  /\ stable = disk
  /\ nblocks \in DiskSizes
  /\ rootSB = ZeroSB
  /\ pc = "down"
  /\ frame = NoFrame
  /\ ret = NoCall

-----------------------------------------------------------------------------
(* disk.c: every access first flushes the write before it.                  *)

disk_write(b, content) ==
  /\ stable' = disk
  /\ disk' = [disk EXCEPT ![b] = content]

disk_read == stable' = disk /\ UNCHANGED disk

NoDisk == UNCHANGED <<disk, stable>>

ReturnWith(op, on, r, o) ==
  /\ pc' = "idle"
  /\ frame' = NoFrame
  /\ ret' = [op |-> op, on |-> on, val |-> r, out |-> o]

Return(op, on, r) == ReturnWith(op, on, r, <<>>)

(* A call that takes several steps begins. *)
Begin(where, f) ==
  /\ pc' = where
  /\ frame' = f
  /\ ret' = NoCall

(* The process is gone, and with it everything in memory.                   *)
Die ==
  /\ pc' = "down"
  /\ rootSB' = ZeroSB
  /\ frame' = NoFrame
  /\ ret' = NoCall
  /\ UNCHANGED nblocks

(* disk_init: open the image file and give it n blocks.                     *)
Start(n) ==
  /\ pc = "down"
  /\ nblocks' = n
  /\ disk' = [b \in BlockNo |-> IF b < n THEN disk[b] ELSE ZeroBlock]
  /\ stable' = disk'
  /\ pc' = "idle"
  /\ UNCHANGED <<rootSB, frame, ret>>

(* disk_close: fclose writes the stdio buffer out.                          *)
Quit ==
  /\ pc = "idle"
  /\ disk_read
  /\ Die

(* The process is killed: the stdio buffer is lost.                         *)
Kill ==
  /\ pc \notin {"down", "astray"}
  /\ disk' = stable
  /\ UNCHANGED stable
  /\ Die

(* sanity_check aborts the access to a block the disk does not have.  The    *)
(* stdio buffer may or may not be written out: that is the C library's       *)
(* choice.                                                                   *)
PastEnd(b) == b >= nblocks

Abort ==
  /\ disk' \in {disk, stable}
  /\ stable' = disk'
  /\ Die

(* The code has read a block as a directory or as the bitmap that was        *)
(* written as something else.  What it then does depends on bytes this model *)
(* abstracts from, so it stops here.                                         *)
GoAstray ==
  /\ pc' = "astray"
  /\ NoDisk
  /\ UNCHANGED <<nblocks, rootSB, frame, ret>>

-----------------------------------------------------------------------------
(* fs_format: the superblock is written first, then the bitmap.             *)

FreshSB == [magic |-> TRUE, nblocks |-> nblocks, size |-> 0,
            blk |-> [p \in Ptr |-> 0]]

FormatMounted ==
  /\ pc = "idle"
  /\ Mounted
  /\ Return("format", NoName, 0)
  /\ NoDisk
  /\ UNCHANGED <<nblocks, rootSB>>

(* Mutant: a mounted disk can be formatted.                                 *)
FormatSuperAnytime ==
  /\ pc = "idle"
  /\ disk_write(0, SuperBlock(FreshSB))
  /\ Begin("format", NoFrame)
  /\ UNCHANGED <<nblocks, rootSB>>

FormatSuper ==
  /\ pc = "idle"
  /\ ~Mounted
  /\ disk_write(0, SuperBlock(FreshSB))
  /\ Begin("format", NoFrame)
  /\ UNCHANGED <<nblocks, rootSB>>

(* Mutant: the bits of the metadata blocks are not set.                     *)
FormatBitmapClear ==
  /\ pc = "format"
  /\ disk_write(1, BitsBlock({}))
  /\ Return("format", NoName, 1)
  /\ UNCHANGED <<nblocks, rootSB>>

FormatBitmap ==
  /\ pc = "format"
  /\ disk_write(1, BitsBlock({0, 1}))
  /\ Return("format", NoName, 1)
  /\ UNCHANGED <<nblocks, rootSB>>

(* Mutant: fs_mount does not compare the sizes.                             *)
MountableAnySize(sb) == sb.magic

(* fs_mount and fs_umount *)
Mountable(sb) == sb.magic /\ sb.nblocks = nblocks

Mount ==
  /\ pc = "idle"
  /\ IF Mounted
     THEN NoDisk /\ Return("mount", NoName, 0) /\ UNCHANGED rootSB
     ELSE /\ disk_read
          /\ IF Mountable(AsSuper(disk[0]))
             THEN rootSB' = AsSuper(disk[0]) /\ Return("mount", NoName, 1)
             ELSE Return("mount", NoName, 0) /\ UNCHANGED rootSB
  /\ UNCHANGED nblocks

Umount ==
  /\ pc = "idle"
  /\ rootSB' = ZeroSB
  /\ Return("umount", NoName, 1)
  /\ NoDisk
  /\ UNCHANGED nblocks

-----------------------------------------------------------------------------
(* fs_open, fs_lsdir and the scan of the directory that fs_create starts    *)
(* with read the disk only if the directory has a block.                    *)

ScanDirectory == IF rootSB.size > 0 THEN disk_read ELSE NoDisk

HoldsDirents(b) == disk[b].kind \in {"dir", "zero"}

Scannable == \A i \in InUse(rootSB) : HoldsDirents(rootSB.blk[i])

(* Any of them, when a block of the directory has been written over.        *)
ScanGarbage ==
  /\ pc = "idle"
  /\ Mounted
  /\ ~Scannable
  /\ GoAstray

Lsdir ==
  /\ pc = "idle"
  /\ Scannable
  /\ IF Mounted
     THEN ScanDirectory /\ ReturnWith("lsdir", NoName, 1, Listing(disk, rootSB))
     ELSE NoDisk /\ Return("lsdir", NoName, 0)
  /\ UNCHANGED <<nblocks, rootSB>>

(* fs_debug prints the superblock and the bitmap that are on the disk.      *)
Debug ==
  /\ pc = "idle"
  /\ disk_read
  /\ UNCHANGED <<nblocks, rootSB, pc, frame, ret>>

Open(name) ==
  /\ pc = "idle"
  /\ Scannable
  /\ IF Mounted
     THEN ScanDirectory /\ Return("open", name, name2number(disk, rootSB, name))
     ELSE NoDisk /\ Return("open", name, -1)
  /\ UNCHANGED <<nblocks, rootSB>>

(* fs_create and add_dirent.  The entry to append is number rootSB.size.    *)
NewBlk  == rootSB.size \div DIRENTS_PER_BLOCK
NewSlot == rootSB.size % DIRENTS_PER_BLOCK

(* Mutant: fs_create does not look for the name.                            *)
CanCreateTwice(name) == Mounted /\ NewBlk < POINTERS_PER_ENT

CanCreate(name) ==
  /\ Mounted
  /\ name2number(disk, rootSB, name) = -1
  /\ NewBlk < POINTERS_PER_ENT

CreateFails(name) ==
  /\ pc = "idle"
  /\ Scannable
  /\ ~CanCreate(name)
  /\ IF Mounted THEN ScanDirectory ELSE NoDisk
  /\ Return("create", name, -1)
  /\ UNCHANGED <<nblocks, rootSB>>

CreateInBlock(name) ==
  /\ pc = "idle"
  /\ Scannable
  /\ CanCreate(name)
  /\ NewSlot # 0
  /\ disk_read
  /\ Begin("dirent", [NoFrame EXCEPT !.name = name])
  /\ UNCHANGED <<nblocks, rootSB>>

(* Mutant: the bit is not set.                                              *)
MarkedNothing(b) == BitsBlock(AsBits(disk[1]))

(* The bitmap block as alloc_block writes it back.                          *)
Marked(b) == BitsBlock(AsBits(disk[1]) \cup {b % BLOCKSIZE})

HoldsBits == disk[1].kind \in {"bits", "zero"}

(* Nothing keeps alloc_block from handing out a metadata block whose bit is *)
(* not set: the directory is then written over the bitmap, or over the      *)
(* superblock, which CreateSuper puts back in its place.                    *)
CreateInNewBlock(name) ==
  LET b == alloc_block(disk, rootSB) IN
  /\ pc = "idle"
  /\ Scannable
  /\ CanCreate(name)
  /\ NewSlot = 0
  /\ \/ /\ HoldsBits /\ b = NOBLOCK
        /\ rootSB' = [rootSB EXCEPT !.blk[NewBlk] = NOBLOCK]
        /\ disk_read
        /\ Return("create", name, -1)
        /\ UNCHANGED nblocks
     \/ /\ HoldsBits /\ b # NOBLOCK
        /\ rootSB' = [rootSB EXCEPT !.blk[NewBlk] = b]
        /\ disk_write(1, Marked(b))
        /\ Begin("dirent", [NoFrame EXCEPT !.name = name])
        /\ UNCHANGED nblocks
     \/ ~HoldsBits /\ GoAstray

(* Mutant: the entry is not made valid.                                     *)
NewDirentInvalid(old, name) ==
  [old EXCEPT !.name = name, !.size = 0, !.blk[0] = 0]

NewDirent(old, name) ==
  [old EXCEPT !.isvalid = TRUE, !.name = name, !.size = 0, !.blk[0] = 0]

(* Mutant: a new directory block is read, not cleared.                      *)
CreateDirentUncleared ==
  LET b == rootSB.blk[NewBlk] IN
  /\ pc = "dirent"
  /\ disk_write(b, DirBlock([AsDir(disk[b]) EXCEPT ![NewSlot] = NewDirent(@, frame.name)]))
  /\ rootSB' = [rootSB EXCEPT !.size = @ + 1]
  /\ pc' = "super"
  /\ UNCHANGED <<nblocks, frame, ret>>

CreateDirent ==
  LET b    == rootSB.blk[NewBlk]
      diri == IF NewSlot = 0 THEN EmptyDir ELSE AsDir(disk[b])
  IN  /\ pc = "dirent"
      /\ disk_write(b, DirBlock([diri EXCEPT ![NewSlot] = NewDirent(@, frame.name)]))
      /\ rootSB' = [rootSB EXCEPT !.size = @ + 1]
      /\ pc' = "super"
      /\ UNCHANGED <<nblocks, frame, ret>>

(* assert(ent == rootSB.rootdir.size / DIRENTSIZE - 1), where ent is the    *)
(* entry's slot in its block.                                               *)
EntAssertion == (rootSB.size - 1) % DIRENTS_PER_BLOCK = rootSB.size - 1

(* Mutant: the superblock stays in memory until the next write of it.       *)
CreateSuperUnwritten ==
  /\ pc = "super"
  /\ EntAssertion
  /\ NoDisk
  /\ Return("create", frame.name, rootSB.size - 1)
  /\ UNCHANGED <<nblocks, rootSB>>

CreateSuper ==
  /\ pc = "super"
  /\ EntAssertion
  /\ disk_write(0, SuperBlock(rootSB))
  /\ Return("create", frame.name, rootSB.size - 1)
  /\ UNCHANGED <<nblocks, rootSB>>

(* abort() may or may not write the stdio buffer out (the C library's       *)
(* choice); in it is the superblock.                                        *)
CreateAborts ==
  /\ pc = "super"
  /\ ~EntAssertion
  /\ disk' \in {disk, [disk EXCEPT ![0] = SuperBlock(rootSB)]}
  /\ stable' = disk'
  /\ Die

-----------------------------------------------------------------------------
(* fs_write *)

(* The block getDirentByInumber reads is not always a directory block, nor  *)
(* always on the disk.                                                      *)
Readable(inumber) ==
  /\ ~PastEnd(DirentBlock(inumber))
  /\ HoldsDirents(DirentBlock(inumber))

(* fs_read or fs_write of any other.                                        *)
LoadFails(inumber) ==
  /\ pc = "idle"
  /\ Mounted
  /\ \/ PastEnd(DirentBlock(inumber)) /\ Abort
     \/ /\ ~PastEnd(DirentBlock(inumber))
        /\ ~HoldsDirents(DirentBlock(inumber))
        /\ GoAstray

LoadDirent(inumber) ==
  AsDir(disk[DirentBlock(inumber)])[inumber % DIRENTS_PER_BLOCK]

(* fs_read and fs_write with no disk mounted. *)
AccessUnmounted(op) ==
  /\ pc = "idle"
  /\ ~Mounted
  /\ Return(op, NoName, -1)
  /\ NoDisk
  /\ UNCHANGED <<nblocks, rootSB>>

(* Mutant: a write may start past the end of the file.                      *)
CanWriteAnywhere(de, length, offset) ==
  de.isvalid /\ de.size + length <= MaxFileSize

CanWrite(de, length, offset) ==
  /\ de.isvalid
  /\ offset <= de.size
  /\ de.size + length <= MaxFileSize

WriteCall(inumber, data, offset) ==
  LET de == LoadDirent(inumber) IN
  /\ pc = "idle"
  /\ Mounted
  /\ Readable(inumber)
  /\ disk_read
  /\ IF CanWrite(de, Len(data), offset)
     THEN Begin("write", [NoFrame EXCEPT !.inumber = inumber, !.dirent = de,
                            !.data = data, !.offset = offset, !.cur = offset])
     ELSE Return("write", <<inumber, Len(data), offset>>, -1)
  /\ UNCHANGED <<nblocks, rootSB>>

Written == <<frame.inumber, Len(frame.data), frame.offset>>

WriteEnd   == frame.offset + Len(frame.data)
CurPtr     == frame.cur \div BLOCKSIZE
CurInBlock == frame.cur % BLOCKSIZE

(* Mutant: the last byte of a block is not used.                            *)
RoomButOne == BLOCKSIZE - CurInBlock - 1

Room  == BLOCKSIZE - CurInBlock
nCopy == IF WriteEnd - frame.cur < Room THEN WriteEnd - frame.cur ELSE Room

(* The dirent came from block 2 or a later one, which was handed out after  *)
(* the metadata blocks, so both are marked (WritesSpareMetadata).           *)
WriteAlloc ==
  LET b == alloc_block(disk, rootSB) IN
  /\ pc = "write"
  /\ frame.cur < WriteEnd
  /\ frame.dirent.blk[CurPtr] = 0
  /\ \/ /\ b = NOBLOCK
        /\ disk_read
        /\ Return("write", Written, -1)
        /\ UNCHANGED <<nblocks, rootSB>>
     \/ /\ b # NOBLOCK
        /\ disk_write(1, Marked(b))
        /\ frame' = [frame EXCEPT !.dirent.blk[CurPtr] = b]
        /\ UNCHANGED <<nblocks, rootSB, pc, ret>>

WriteBlock ==
  LET b     == frame.dirent.blk[CurPtr]
      dst   == frame.cur - frame.offset
      bytes == [o \in Offset |->
                  IF o \in CurInBlock .. CurInBlock + nCopy - 1
                  THEN frame.data[dst + o - CurInBlock + 1]
                  ELSE AsData(disk[b])[o]]
  IN  /\ pc = "write"
      /\ frame.cur < WriteEnd
      /\ b # 0
      /\ \/ PastEnd(b) /\ Abort
         \/ /\ ~PastEnd(b)
            /\ disk_write(b, DataBlock(bytes))
            /\ frame' = [frame EXCEPT !.cur = @ + nCopy]
            /\ UNCHANGED <<nblocks, rootSB, pc, ret>>

(* Mutant: the file counts as grown if the call's bytes exceed its size.    *)
WriteDirentSometimes ==
  LET b == DirentBlock(frame.inumber)
      s == frame.inumber % DIRENTS_PER_BLOCK
  IN  /\ pc = "write"
      /\ frame.cur >= WriteEnd
      /\ IF Len(frame.data) > frame.dirent.size
         THEN disk_write(b, DirBlock([AsDir(disk[b]) EXCEPT
                              ![s] = [frame.dirent EXCEPT !.size = frame.cur]]))
         ELSE NoDisk
      /\ Return("write", Written, Len(frame.data))
      /\ UNCHANGED <<nblocks, rootSB>>

(* The dirent is written only if the file grew.                             *)
WriteDirent ==
  LET b == DirentBlock(frame.inumber)
      s == frame.inumber % DIRENTS_PER_BLOCK
  IN  /\ pc = "write"
      /\ frame.cur >= WriteEnd
      /\ \/ /\ frame.cur <= frame.dirent.size
            /\ NoDisk
            /\ Return("write", Written, Len(frame.data))
            /\ UNCHANGED <<nblocks, rootSB>>
         \/ /\ frame.cur > frame.dirent.size
            /\ HoldsDirents(b)
            /\ disk_write(b, DirBlock([AsDir(disk[b]) EXCEPT
                                ![s] = [frame.dirent EXCEPT !.size = frame.cur]]))
            /\ Return("write", Written, Len(frame.data))
            /\ UNCHANGED <<nblocks, rootSB>>
         \/ /\ frame.cur > frame.dirent.size
            /\ ~HoldsDirents(b)
            /\ GoAstray

-----------------------------------------------------------------------------
(* fs_read *)

(* Mutant: a read that reaches the end returns the file's size.             *)
ReadCountWhole(de, length, offset) ==
  IF de.size > offset + length THEN length ELSE de.size

ReadCount(de, length, offset) ==
  IF de.size > offset + length THEN length ELSE de.size - offset

CanRead(de, offset) == de.isvalid /\ offset <= de.size

(* The blocks the loop of fs_read goes through.                             *)
BlocksRead(de, offset, count) ==
  {de.blk[pos \div BLOCKSIZE] : pos \in offset .. offset + count - 1}

Read(inumber, length, offset) ==
  LET de    == LoadDirent(inumber)
      count == ReadCount(de, length, offset)
  IN  /\ pc = "idle"
      /\ Mounted
      /\ Readable(inumber)
      /\ disk_read
      /\ \/ /\ ~CanRead(de, offset)
            /\ Return("read", <<inumber, length, offset>>, -1)
            /\ UNCHANGED <<nblocks, rootSB>>
         \/ /\ CanRead(de, offset)
            /\ \A b \in BlocksRead(de, offset, count) : ~PastEnd(b)
            /\ ReturnWith("read", <<inumber, length, offset>>, count,
                          FileBytes(disk, de, offset, count))
            /\ UNCHANGED <<nblocks, rootSB>>
         \/ /\ CanRead(de, offset)
            /\ \E b \in BlocksRead(de, offset, count) : PastEnd(b)
            /\ Die

-----------------------------------------------------------------------------
Session == Quit \/ \E n \in DiskSizes : Start(n)

Call ==
  \/ FormatMounted \/ FormatSuper
  \/ Mount \/ Umount \/ Lsdir \/ ScanGarbage \/ Debug
  \/ \E op \in {"read", "write"} : AccessUnmounted(op)
  \/ \E name \in Names : \/ Open(name)
                         \/ CreateFails(name)
                         \/ CreateInBlock(name)
                         \/ CreateInNewBlock(name)
  \/ \E inumber \in EntryNumbers(rootSB) : LoadFails(inumber)
  \/ \E inumber \in EntryNumbers(rootSB), offset \in Offsets :
       \/ \E data \in Payloads : WriteCall(inumber, data, offset)
       \/ \E length \in ReadLengths : Read(inumber, length, offset)

Step ==
  \/ FormatBitmap
  \/ CreateDirent \/ CreateSuper \/ CreateAborts
  \/ WriteAlloc \/ WriteBlock \/ WriteDirent

NextNoCrash == Session \/ Call \/ Step

Next == NextNoCrash \/ Kill

Spec        == Init /\ [][Next]_vars
SpecNoCrash == Init /\ [][NextNoCrash]_vars
=============================================================================
