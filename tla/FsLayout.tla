------------------------------- MODULE FsLayout -------------------------------
(***************************************************************************)
(* The on-disk structures of the final project's file system (fs.c) and    *)
(* the functions of fs.c that only inspect them.                           *)
(*                                                                         *)
(* A disk block is a union in C: the same 2048 bytes are read as a         *)
(* superblock, as a bitmap, as an array of dirents or as file data.  Here  *)
(* a block remembers what was last written to it (its kind), and As...     *)
(* is the view the reading code takes of it.  A block never written is     *)
(* "zero": ftruncate fills the simulated disk with zero bytes.             *)
(*                                                                         *)
(* The directory's size is counted in dirents, not in bytes: fs.c only     *)
(* ever adds DIRENTSIZE to it and divides it by DIRENTSIZE or BLOCKSIZE.   *)
(***************************************************************************)
EXTENDS Integers, Sequences, FiniteSetsExt

CONSTANTS
  BLOCKSIZE,          \* bytes in a disk block (2048)
  DIRENTS_PER_BLOCK,  \* directory entries in a block (16)
  POINTERS_PER_ENT,   \* direct block numbers in a dirent (15)
  Names,              \* the file names a user types
  LongNames,          \* those of more than MAXFILENAME characters
  NoName,             \* the name field of a dirent that was never written
  Byte,               \* the bytes of the files
  Stale,              \* a byte of a block that no call has written
  MaxBlocks           \* bound: the largest disk considered

ASSUME LayoutAssumption ==
  /\ BLOCKSIZE \in Nat \ {0, 1}
  /\ DIRENTS_PER_BLOCK \in Nat \ {0}
  /\ POINTERS_PER_ENT \in Nat \ {0}
  /\ MaxBlocks \in Nat \ {0, 1}
  /\ LongNames \subseteq Names
  /\ NoName \notin Names
  /\ Stale \notin Byte

BlockNo == 0 .. MaxBlocks - 1
Ptr     == 0 .. POINTERS_PER_ENT - 1
Slot    == 0 .. DIRENTS_PER_BLOCK - 1
Offset  == 0 .. BLOCKSIZE - 1

-----------------------------------------------------------------------------
(* struct fs_dirent and struct fs_superblock.  NOBLOCK is the -1 a failed   *)
(* alloc_block leaves in the memory copy of the root directory.             *)

NOBLOCK == -1

(* What a dirent of a file holds: 0 stands for no block, and the bitmap's    *)
(* block is in none.                                                         *)
DataPtr == BlockNo \ {1}

MaxFileSize == POINTERS_PER_ENT * BLOCKSIZE

Dirent == [isvalid : BOOLEAN, name : Names \cup {NoName}, size : 0 .. MaxFileSize,
           blk : [Ptr -> DataPtr]]

Superblock == [magic : BOOLEAN, nblocks : 0 .. MaxBlocks, size : Nat,
               blk : [Ptr -> BlockNo \cup {NOBLOCK}]]

NullDirent == [isvalid |-> FALSE, name |-> NoName, size |-> 0,
               blk |-> [p \in Ptr |-> 0]]

ZeroSB == [magic |-> FALSE, nblocks |-> 0, size |-> 0,
           blk |-> [p \in Ptr |-> 0]]

EmptyDir == [s \in Slot |-> NullDirent]

(* union fs_block *)
ZeroBlock        == [kind |-> "zero"]
SuperBlock(sb)   == [kind |-> "super", sb |-> sb]
BitsBlock(used)  == [kind |-> "bits", used |-> used]
DirBlock(diri)   == [kind |-> "dir", diri |-> diri]
DataBlock(bytes) == [kind |-> "data", bytes |-> bytes]

Block == [kind : {"zero"}]
           \cup [kind : {"super"}, sb : Superblock]
           \cup [kind : {"bits"}, used : SUBSET Offset]
           \cup [kind : {"dir"}, diri : [Slot -> Dirent]]
           \cup [kind : {"data"}, bytes : [Offset -> Byte \cup {Stale}]]

AsSuper(b) == IF b.kind = "super" THEN b.sb ELSE ZeroSB
AsBits(b)  == IF b.kind = "bits" THEN b.used ELSE {}
AsDir(b)   == IF b.kind = "dir" THEN b.diri ELSE EmptyDir
AsData(b)  == IF b.kind = "data" THEN b.bytes ELSE [o \in Offset |-> Stale]

-----------------------------------------------------------------------------
(* The directory blocks in use by a root directory, and the entries the     *)
(* code finds in them.  The loops of name2number and fs_lsdir look at every *)
(* slot of every block in use, also at those past the directory's size.     *)

InUse(sb) == {i \in Ptr : i * DIRENTS_PER_BLOCK < sb.size}

EntryNumbers(sb) ==
  {n \in 0 .. POINTERS_PER_ENT * DIRENTS_PER_BLOCK - 1 :
     n \div DIRENTS_PER_BLOCK \in InUse(sb)}

EntryAt(D, sb, n) ==
  AsDir(D[sb.blk[n \div DIRENTS_PER_BLOCK]])[n % DIRENTS_PER_BLOCK]

ValidEntries(D, sb) == {n \in EntryNumbers(sb) : EntryAt(D, sb, n).isvalid}

(* name2number: strcmp against the stored, truncated name does not succeed  *)
(* for a longer one (the size field that follows the name would have to     *)
(* spell the rest of it).  A name of exactly MAXFILENAME characters, stored *)
(* without its end, is found only while the low byte of that field is 0; no *)
(* element of Names stands for one.                                         *)
Matches(D, sb, name) ==
  {n \in ValidEntries(D, sb) : /\ EntryAt(D, sb, n).name = name
                               /\ name \notin LongNames}

name2number(D, sb, name) ==
  IF Matches(D, sb, name) = {} THEN -1 ELSE Min(Matches(D, sb, name))

(* fs_lsdir: what it prints of each valid entry.  The number it prints is   *)
(* the entry's slot in its block.                                           *)
Listing(D, sb) ==
  {[entry |-> n % DIRENTS_PER_BLOCK, size |-> EntryAt(D, sb, n).size,
    name |-> EntryAt(D, sb, n).name, blk |-> EntryAt(D, sb, n).blk] :
     n \in ValidEntries(D, sb)}

(* Mutant: the loop of alloc_block runs one block too far.                  *)
FreeBlocksPastEnd(D, sb) == {i \in 0 .. sb.nblocks : i % BLOCKSIZE \notin AsBits(D[1])}

(* alloc_block: the bit tested for block i is bit i % BLOCKSIZE.            *)
FreeBlocks(D, sb) == {i \in 0 .. sb.nblocks - 1 : i % BLOCKSIZE \notin AsBits(D[1])}

alloc_block(D, sb) ==
  IF FreeBlocks(D, sb) = {} THEN NOBLOCK ELSE Min(FreeBlocks(D, sb))

(* getDirentByInumber: the block it reads for entry inumber.                *)
DirentBlock(inumber) == (inumber \div DIRENTS_PER_BLOCK) + 2

(* The bytes the loop of fs_read copies out.                                *)
FileBytes(D, de, offset, count) ==
  [k \in 1 .. count |->
     LET pos == offset + k - 1
     IN  AsData(D[de.blk[pos \div BLOCKSIZE]])[pos % BLOCKSIZE]]
=============================================================================
