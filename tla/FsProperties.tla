----------------------------- MODULE FsProperties -----------------------------
(***************************************************************************)
(* What makes the file system of fs.c correct, and the mapping under which *)
(* it implements FileStore.                                                *)
(*                                                                         *)
(* Every invariant about an image is stated of disk, which is what the     *)
(* running program reads, and of stable, which is what a kill would leave. *)
(***************************************************************************)
EXTENDS FileSystem

(* The superblock of an image. *)
Root(D) == AsSuper(D[0])

(* The root directory of the mounted volume, or of the one on the disk.     *)
RootDir == IF Mounted THEN rootSB ELSE Root(disk)

(* The block numbers an image refers to: its directory's blocks, and the    *)
(* pointers of the valid entries in them.  An entry beyond the directory's  *)
(* size counts when it is valid: the code finds it.                         *)
DirRefs(D) == {Root(D).blk[i] : i \in InUse(Root(D))}

PtrAt(D, isp) == AsDir(D[Root(D).blk[isp[1]]])[isp[2]].blk[isp[3]]

Holders(D) ==
  {isp \in InUse(Root(D)) \X Slot \X Ptr :
     AsDir(D[Root(D).blk[isp[1]]])[isp[2]].isvalid /\ PtrAt(D, isp) # 0}

FileRefs(D) == {PtrAt(D, isp) : isp \in Holders(D)}

Refs(D) == DirRefs(D) \cup FileRefs(D)

Images == {disk, stable}

(* getDirentByInumber looks for the directory in the blocks from 2 on.  A   *)
(* kill can leave it elsewhere (OpenedEntryFound, below, is violated); what *)
(* then happens to the contents of the blocks is not constrained here.      *)
Contiguous(D) == \A i \in InUse(Root(D)) : Root(D).blk[i] = i + 2

(* A volume's own bitmap is on the disk: a kill that falls between the two  *)
(* writes of fs_format, or before the second has left the stdio buffer, can *)
(* leave a new superblock with whatever block 1 held, and fs_mount does not *)
(* notice (DirectoryInDataBlocks, below, is violated).  SpecFormatted has   *)
(* every kill but those.                                                    *)
OwnBitmap(D) == {0, 1} \subseteq AsBits(D[1])

MetadataMarked(D) == Root(D).magic => OwnBitmap(D)

NextFormatted == NextNoCrash \/ (Kill /\ MetadataMarked(stable))

SpecFormatted == Init /\ [][NextFormatted]_vars

-----------------------------------------------------------------------------
(* Every variable has its type. *)
ResultOK ==
  /\ ret.op \in {"none", "format", "mount", "umount", "lsdir", "open", "create", "write", "read"}
  /\ ret.on \in Names \cup {NoName} \cup (Nat \X Nat \X Nat)
  /\ ret.val \in Int
  /\ IF ret.op = "lsdir" /\ ret.val = 1
     THEN ret.out \subseteq [entry : Slot, size : Nat, name : Names \cup {NoName},
                             blk : [Ptr -> DataPtr]]
     ELSE ret.out \in Seq(Byte \cup {Stale})

TypeOK ==
  /\ disk \in [BlockNo -> Block]
  /\ stable \in [BlockNo -> Block]
  /\ nblocks \in DiskSizes
  /\ rootSB \in Superblock
  /\ pc \in {"down", "idle", "format", "dirent", "super", "write", "astray"}
  /\ frame \in Frame
  /\ ResultOK

(* TypeOK and WritesSpareMetadata, below, with what makes them inductive,   *)
(* whatever kill there was: a directory block in use has a number; fs_write *)
(* stays within the bytes it was given and the largest file; and no block   *)
(* past the metadata blocks is in use before both of these are marked.      *)
Placed(sb) == \A i \in InUse(sb) : sb.blk[i] # NOBLOCK

PastMetadata(D, sb) ==
  \/ \E b \in BlockNo : b >= 2 /\ D[b].kind # "zero"
  \/ \E i \in InUse(sb) : sb.blk[i] >= 2

MarkedFirst(D, sb) == PastMetadata(D, sb) => OwnBitmap(D)

(* The entry fs_create has found the place of may go over the bitmap, but    *)
(* only if there is no other block yet.                                      *)
CreateMarked ==
  pc = "dirent" =>
    /\ NewBlk \in Ptr /\ rootSB.blk[NewBlk] # NOBLOCK
    /\ rootSB.blk[NewBlk] >= 2 => OwnBitmap(disk)
    /\ rootSB.blk[NewBlk] = 1 =>
         ~PastMetadata(disk, rootSB) /\ ~PastMetadata(disk, Root(disk))

InWrite ==
  pc = "write" =>
    /\ frame.offset <= frame.cur
    /\ frame.cur <= frame.offset + Len(frame.data)
    /\ frame.offset + Len(frame.data) <= MaxFileSize
    /\ OwnBitmap(disk)

ImageInv ==
  /\ TypeOK
  /\ Placed(rootSB) /\ Placed(Root(disk)) /\ Placed(Root(stable))
  /\ MarkedFirst(disk, rootSB)
  /\ MarkedFirst(disk, Root(disk)) /\ MarkedFirst(stable, Root(stable))
  /\ CreateMarked
  /\ InWrite

(* On a volume with its own bitmap the directory is past the metadata too.  *)
RootOK(sb) == \A i \in InUse(sb) : sb.blk[i] >= 2

InCreate == pc = "dirent" => NewBlk \in Ptr /\ rootSB.blk[NewBlk] >= 2

(* The metadata blocks of a volume are marked, but while it is formatted.   *)
FormatComplete ==
  /\ pc # "format" => MetadataMarked(disk)
  /\ Mounted \/ pc \in {"dirent", "super", "write"} => OwnBitmap(disk) /\ MetadataMarked(stable)

TypeInv ==
  /\ ImageInv
  /\ FormatComplete
  /\ RootOK(rootSB) /\ RootOK(Root(disk)) /\ RootOK(Root(stable))
  /\ InCreate

(* A block that the directory or a file refers to is marked used in the     *)
(* bitmap, at every moment and also in what a kill leaves: fs.c marks a     *)
(* block before it stores its number.                                       *)
RefsMarked ==
  \A D \in Images : \A b \in Refs(D) : b % BLOCKSIZE \in AsBits(D[1])

(* On a volume with its own bitmap no block is at once part of two files,   *)
(* of two places of one file, or of a file and the directory, and none is a *)
(* metadata block.                                                          *)
NoSharing ==
  \A D \in Images :
    /\ \A b \in Refs(D) : b >= 2
    /\ DirRefs(D) \cap FileRefs(D) = {}
    /\ \A i, j \in InUse(Root(D)) : Root(D).blk[i] = Root(D).blk[j] => i = j
    /\ \A h, k \in Holders(D) : PtrAt(D, h) = PtrAt(D, k) => h = k

(* The two before it with what makes them inductive.  The pointers of every *)
(* slot count here, valid or not: fs_create makes a slot valid and keeps    *)
(* all its pointers but the first.                                          *)
SlotPtr(D, sb, i, s, p) == AsDir(D[sb.blk[i]])[s].blk[p]

MarkedIn(D, n) == n % BLOCKSIZE \in AsBits(D[1])

(* A block that no dirent and no entry of the root directory holds.         *)
Unheld(D, sb, n) ==
  \A i \in InUse(sb) :
    sb.blk[i] # n /\ \A s \in Slot, p \in Ptr : SlotPtr(D, sb, i, s, p) # n

Sound(D, sb) ==
  \A i \in InUse(sb) :
    /\ MarkedIn(D, sb.blk[i])
    /\ \A j \in InUse(sb) : sb.blk[i] = sb.blk[j] => i = j
    /\ \A s \in Slot, p \in Ptr : SlotPtr(D, sb, i, s, p) # 0 =>
         /\ MarkedIn(D, SlotPtr(D, sb, i, s, p))
         /\ \A j \in InUse(sb) :
              /\ sb.blk[j] # SlotPtr(D, sb, i, s, p)
              /\ \A t \in Slot, q \in Ptr :
                   SlotPtr(D, sb, i, s, p) = SlotPtr(D, sb, j, t, q) => i = j /\ s = t /\ p = q

(* The directory on the disk is a part of the one in memory.                *)
PartOf(old, new) == \A i \in InUse(old) : i \in InUse(new) /\ old.blk[i] = new.blk[i]

CacheSound ==
  /\ Sound(disk, rootSB)
  /\ Mounted => PartOf(Root(disk), rootSB)
  /\ ~Mounted => InUse(rootSB) = {}

(* Where the program is in a call tells what the directory is like.         *)
CallSound ==
  /\ pc = "format" => ~Mounted /\ InUse(Root(disk)) = {}
  /\ pc \in {"dirent", "super", "write"} => Mounted
  /\ pc = "dirent" /\ NewSlot = 0 =>
       MarkedIn(disk, rootSB.blk[NewBlk]) /\ Unheld(disk, rootSB, rootSB.blk[NewBlk])

(* When fs_write has its dirent from a block of the directory, the blocks   *)
(* it writes are the file's own.                                            *)
FrameSound ==
  pc = "write" =>
    \A i \in InUse(rootSB), p \in Ptr :
      rootSB.blk[i] = DirentBlock(frame.inumber) /\ frame.dirent.blk[p] # 0 =>
        /\ MarkedIn(disk, frame.dirent.blk[p])
        /\ \A q \in Ptr : frame.dirent.blk[p] = frame.dirent.blk[q] => p = q
        /\ \A j \in InUse(rootSB) :
             /\ rootSB.blk[j] # frame.dirent.blk[p]
             /\ \A t \in Slot, q \in Ptr :
                  frame.dirent.blk[p] = SlotPtr(disk, rootSB, j, t, q) =>
                    i = j /\ t = frame.inumber % DIRENTS_PER_BLOCK /\ p = q

SharingInv ==
  /\ TypeInv
  /\ Sound(disk, Root(disk)) /\ Sound(stable, Root(stable))
  /\ CacheSound
  /\ CallSound
  /\ FrameSound

(* The directory's blocks hold dirents, and every entry below its size is a *)
(* file: the superblock grows only after the entry is on the disk.          *)
ListedEntriesExist ==
  \A D \in {I \in Images : Contiguous(I)} :
    /\ \A b \in DirRefs(D) : D[b].kind = "dir"
    /\ \A n \in 0 .. Root(D).size - 1 : n \in ValidEntries(D, Root(D))

(* The bytes below a file's size were written by an fs_write, whichever     *)
(* disk_write the program is killed before: data reach the disk before the  *)
(* dirent with the size that covers them.                                   *)
SizedBytesWritten ==
  \A D \in {I \in Images : Contiguous(I)} : \A n \in ValidEntries(D, Root(D)) :
    LET de == EntryAt(D, Root(D), n)
    IN  \A k \in 1 .. de.size : FileBytes(D, de, 0, de.size)[k] \in Byte

(* fs_create refuses a name that exists, so no two files share a name, even *)
(* when a kill left an entry that the superblock does not count.  A name    *)
(* that did not fit is never found, and may be there twice.                 *)
UniqueNames ==
  \A D \in Images : \A n, m \in ValidEntries(D, Root(D)) :
    /\ EntryAt(D, Root(D), n).name = EntryAt(D, Root(D), m).name
    /\ EntryAt(D, Root(D), n).name \notin LongNames
    => n = m

(* rootSB is a cache of the superblock: but for the entry fs_create is      *)
(* adding, a mounted volume has the directory it would have if it were      *)
(* mounted again now.                                                       *)
CacheCoherent ==
  Mounted =>
    /\ nblocks = Root(disk).nblocks
    /\ rootSB.size = Root(disk).size + (IF pc = "super" THEN 1 ELSE 0)
    /\ \A i \in InUse(Root(disk)) : rootSB.blk[i] = Root(disk).blk[i]

(* A kill between two calls loses at most the last of them: the directory   *)
(* the image file holds differs from the one the client sees by a created   *)
(* file or by the update of one entry.                                      *)
KillLosesOneCall ==
  LET old == Root(stable)
      new == RootDir
      kept == {n \in 0 .. old.size - 1 : EntryAt(stable, old, n) = EntryAt(disk, new, n)}
  IN  old.magic /\ Contiguous(disk) /\ pc = "idle" => new.size <= Cardinality(kept) + 1

(* Whatever kill came before, no fs_write is at work while the bitmap lacks  *)
(* a metadata block: data of a file are never written over the superblock   *)
(* or the bitmap.                                                            *)
WritesSpareMetadata == pc = "write" => OwnBitmap(disk)

-----------------------------------------------------------------------------
(* Without kills, and with clients that write at most a block in a call, as *)
(* fso-sh.c does, the bitmap is exact between calls: a marked block is a    *)
(* metadata block or is referred to, so a call that fails takes no block.   *)
NoLeak ==
  pc = "idle" /\ Root(disk).magic => AsBits(disk[1]) \ {0, 1} = Refs(disk)

(* The program can be restarted on an image with another number of blocks:  *)
(* fs_mount refuses it, so the mounted volume never refers to a block       *)
(* beyond the disk, for which sanity_check would abort.                     *)
BlocksOnDisk == Mounted => \A b \in Refs(disk) : b < nblocks

(* UniqueNames, CacheCoherent, KillLosesOneCall and BlocksOnDisk with what  *)
(* makes them inductive.                                                    *)

(* The entry in slot s of the directory's block i. *)
SlotEntry(D, sb, i, s) == AsDir(D[sb.blk[i]])[s]

Bounded(D, sb) ==
  /\ sb.size <= POINTERS_PER_ENT * DIRENTS_PER_BLOCK
  /\ \A i \in InUse(sb) :
       /\ sb.blk[i] < sb.nblocks
       /\ \A s \in Slot, p \in Ptr : SlotPtr(D, sb, i, s, p) < sb.nblocks

NamesDiffer(D, sb) ==
  \A i, j \in InUse(sb), s, t \in Slot :
    /\ SlotEntry(D, sb, i, s).isvalid /\ SlotEntry(D, sb, j, t).isvalid
    /\ SlotEntry(D, sb, i, s).name = SlotEntry(D, sb, j, t).name
    /\ SlotEntry(D, sb, i, s).name \notin LongNames
    => i = j /\ s = t

Coherent ==
  /\ pc = "down" => ~Mounted
  /\ Mounted =>
       /\ nblocks = Root(disk).nblocks
       /\ nblocks = rootSB.nblocks
       /\ rootSB.size = Root(disk).size + (IF pc = "super" THEN 1 ELSE 0)

(* The entry add_dirent is to write: its block is on the disk, its name new. *)
CreateFits ==
  pc = "dirent" =>
    /\ rootSB.blk[NewBlk] < nblocks
    /\ \A i \in InUse(rootSB), s \in Slot :
         SlotEntry(disk, rootSB, i, s).isvalid =>
           SlotEntry(disk, rootSB, i, s).name # frame.name \/ frame.name \in LongNames

(* The entry fs_write has read, and the one on the disk, which lacks at     *)
(* most the blocks taken since.                                             *)
WriteFits ==
  pc = "write" =>
    /\ frame.inumber \in EntryNumbers(rootSB)
    /\ frame.dirent.isvalid
    /\ \A i \in InUse(rootSB) : rootSB.blk[i] = DirentBlock(frame.inumber) =>
         LET e == SlotEntry(disk, rootSB, i, frame.inumber % DIRENTS_PER_BLOCK)
         IN  /\ e.isvalid /\ e.name = frame.dirent.name /\ e.size = frame.dirent.size
             /\ \A p \in Ptr : /\ frame.dirent.blk[p] < nblocks
                               /\ e.blk[p] \in {0, frame.dirent.blk[p]}

(* What a kill would lose of the directory: nothing while fs_write works on *)
(* the blocks of a file, between calls an entry of the same directory or    *)
(* the last one of a directory that has grown.                              *)
SameEntry(S, D, n) == EntryAt(S, Root(S), n) = EntryAt(D, Root(D), n)

OneEntryLost(S, D) ==
  \/ /\ Root(D).size = Root(S).size
     /\ \E lost \in 0 .. POINTERS_PER_ENT * DIRENTS_PER_BLOCK :
          \A n \in 0 .. Root(S).size - 1 : n # lost => SameEntry(S, D, n)
  \/ /\ Root(D).size = Root(S).size + 1
     /\ \A n \in 0 .. Root(S).size - 1 : SameEntry(S, D, n)

DirectoryOnDisk(S, D) ==
  /\ Root(S) = Root(D)
  /\ \A i \in InUse(Root(D)) : S[Root(D).blk[i]] = D[Root(D).blk[i]]

LittleLost ==
  Contiguous(disk) =>
    /\ pc = "write" => DirectoryOnDisk(stable, disk)
    /\ pc = "idle" => OneEntryLost(stable, disk)

Tidy(D, sb) == Bounded(D, sb) /\ NamesDiffer(D, sb)

DirectoryInv ==
  /\ SharingInv
  /\ Tidy(disk, Root(disk)) /\ Tidy(stable, Root(stable))
  /\ Mounted => Tidy(disk, rootSB)
  /\ Coherent
  /\ CreateFits
  /\ WriteFits
  /\ LittleLost

(* ListedEntriesExist and SizedBytesWritten, in the same way: they hold of  *)
(* disks that are always started with the same number of blocks.            *)
InOrder(sb) == \A i \in InUse(sb) : sb.blk[i] = i + 2

Filled(D, de, size) ==
  \A pos \in 0 .. size - 1 : AsData(D[de.blk[pos \div BLOCKSIZE]])[pos % BLOCKSIZE] \in Byte

Complete(D, sb) ==
  InOrder(sb) => \A i \in InUse(sb) :
    /\ D[sb.blk[i]].kind = "dir"
    /\ \A s \in Slot :
         /\ i * DIRENTS_PER_BLOCK + s < sb.size => SlotEntry(D, sb, i, s).isvalid
         /\ SlotEntry(D, sb, i, s).isvalid =>
              Filled(D, SlotEntry(D, sb, i, s), SlotEntry(D, sb, i, s).size)

SizeKept(D) ==
  /\ Root(D).size > 0 => Root(D).nblocks \in DiskSizes
  /\ D[0].kind # "data"

WriteFills ==
  pc = "write" /\ InOrder(rootSB) =>
    Filled(disk, frame.dirent, frame.cur) /\ Filled(disk, frame.dirent, frame.dirent.size)

ContentsInv ==
  /\ DirectoryInv
  /\ SizeKept(disk) /\ SizeKept(stable)
  /\ Complete(disk, Root(disk)) /\ Complete(stable, Root(stable))
  /\ Complete(disk, rootSB)
  /\ WriteFills

(* NoLeak, in the same way: it holds as long as the directory is in one      *)
(* block, which is the first that alloc_block hands out.                     *)
DirEntry(s) == AsDir(disk[2])[s]

(* Who has taken a block: the directory, a dirent in it or fs_write, which   *)
(* has yet to write the dirent back.                                         *)
HeldBlocks ==
  (IF RootDir.size > 0 \/ pc = "dirent" THEN {2} ELSE {})
  \cup (IF RootDir.size > 0 THEN {DirEntry(s).blk[p] : s \in Slot, p \in Ptr} ELSE {})
  \cup (IF pc = "write" THEN {frame.dirent.blk[p] : p \in Ptr} ELSE {})

BitmapExact == AsBits(disk[1]) = {0, 1} \cup HeldBlocks

(* The slots of the directory from its size on were never used.              *)
OneBlock ==
  /\ RootDir.size <= DIRENTS_PER_BLOCK
  /\ RootDir.size > 0 =>
       /\ RootDir.blk[0] = 2
       /\ \A s \in Slot : s >= RootDir.size => DirEntry(s) = NullDirent
  /\ pc = "dirent" => rootSB.blk[0] = 2

(* A call that has taken a block will write the dirent that refers to it: it *)
(* was the only one the call lacked.                                         *)
TakesOne ==
  pc = "write" =>
    /\ frame.offset <= frame.dirent.size
    /\ Len(frame.data) <= BLOCKSIZE
    /\ frame.offset < frame.cur /\ frame.cur < WriteEnd => CurInBlock = 0
    /\ frame.dirent.blk # DirEntry(frame.inumber).blk =>
         /\ WriteEnd > frame.dirent.size
         /\ \A pos \in frame.cur .. WriteEnd - 1 : frame.dirent.blk[pos \div BLOCKSIZE] # 0

VolumeInv ==
  /\ Mounted => Root(disk).magic
  /\ Root(disk).magic /\ pc # "format" => OneBlock /\ BitmapExact
  /\ TakesOne

(* What the mapping to FileStore, below, needs besides: the volume has the   *)
(* size of the disk, fs_create has appended the entry asked for, and the     *)
(* bytes fs_write has passed are the client's.                               *)
StoreInv ==
  /\ pc = "format" \/ Root(disk).magic => Root(disk).nblocks \in DiskSizes
  /\ pc \in {"down", "idle", "format"} => frame = NoFrame
  /\ pc = "super" => /\ DirEntry(rootSB.size - 1).name = frame.name
                     /\ DirEntry(rootSB.size - 1).size = 0
  /\ pc = "write" =>
       \A pos \in frame.offset .. frame.cur - 1 :
         AsData(disk[frame.dirent.blk[pos \div BLOCKSIZE]])[pos % BLOCKSIZE] =
           frame.data[pos - frame.offset + 1]

-----------------------------------------------------------------------------
(* Every call returns: each loop of fs_write copies at least a byte.        *)
CallsReturn == pc \in {"format", "dirent", "super", "write"} ~> pc \in {"idle", "down"}

(* The scheduler keeps running the program's only thread while it is in a   *)
(* call.                                                                    *)
FairSpec == SpecNoCrash /\ WF_vars(Step)

-----------------------------------------------------------------------------
(* What the comments and assertions of fs.c say and the code does not do:   *)
(* each of these is violated, in a run of its own.                          *)

(* fs.c:169, assert(ent == rootSB.rootdir.size / DIRENTSIZE - 1): the entry *)
(* appended is the last one.                                                *)
AppendedIsLast == pc = "super" => EntAssertion

(* fs.c:118, allocates an unused data block, and 223, SB uses block 0 and   *)
(* bitmap uses block 1: the directory is in neither.                        *)
DirectoryInDataBlocks == \A D \in Images : \A b \in DirRefs(D) : b >= 2

(* fs.c:334, entry 0 of the second block is DIRENTS_PER_BLOCK: the number   *)
(* fs_open returns leads fs_read and fs_write to the entry with that name.  *)
OpenedEntryFound ==
  Mounted /\ pc = "idle" => \A n \in ValidEntries(disk, rootSB) :
    DirentBlock(n) = rootSB.blk[n \div DIRENTS_PER_BLOCK]

-----------------------------------------------------------------------------
(* The refinement mapping: the entry fs_create has appended does not count  *)
(* until the superblock is written.                                         *)

Listed == IF pc = "super" THEN RootDir.size - 1 ELSE RootDir.size

File(n) ==
  LET de == EntryAt(disk, RootDir, n)
  IN  [name |-> de.name, data |-> FileBytes(disk, de, 0, de.size)]

(* A listing without the block numbers. *)
Summary(list) == {[entry |-> l.entry, size |-> l.size, name |-> l.name] : l \in list}

Phase == IF pc \in {"dirent", "super"} THEN "create" ELSE pc

Formatted == Root(disk).magic

Files == [k \in 1 .. Listed |-> File(k - 1)]

(* Between the two writes of fs_format the bitmap is still the old one.     *)
Free == IF pc = "format" THEN MaxBlocks - 2 ELSE Cardinality(FreeBlocks(disk, Root(disk)))

Request == [name |-> frame.name, id |-> frame.inumber, data |-> frame.data,
            offset |-> frame.offset, done |-> frame.cur - frame.offset]

Result ==
  IF ret.op = "lsdir" /\ ret.val = 1 THEN [ret EXCEPT !.out = Summary(@)] ELSE ret

FileStore == INSTANCE FileStore WITH
  Lengths   <- ReadLengths,
  Capacity  <- MaxBlocks - 2,
  MaxFiles  <- POINTERS_PER_ENT * DIRENTS_PER_BLOCK,
  MaxBytes  <- MaxFileSize,
  phase     <- Phase,
  formatted <- Formatted,
  mounted   <- Mounted,
  dir       <- Files,
  free      <- Free,
  req       <- Request,
  ret       <- Result

(* Run without kills, on a volume whose directory fits in one block, fs.c   *)
(* keeps the promises of FileStore.                                         *)
ImplementsFileStore == FileStore!Spec
=============================================================================
