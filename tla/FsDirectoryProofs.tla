--------------------------- MODULE FsDirectoryProofs ---------------------------
(***************************************************************************)
(* The file system of fs.c, whenever it is killed and whatever image it is *)
(* started on: types, who owns the blocks (no two entries share one and    *)
(* none in use is free in the bitmap), then the directory: names, bounds,  *)
(* the cached superblock and what a kill loses.  All for every size of the *)
(* disk, the directory and the files and every client.                     *)
(***************************************************************************)
EXTENDS FsProperties, FiniteSetTheorems, WellFoundedInduction, SequenceTheorems, TLAPS

(* Quotients and remainders that index blocks, slots and pointers. *)
LEMMA DivMod ==
  ASSUME NEW n \in Nat, NEW d \in Nat \ {0}
  PROVE  /\ n \div d \in Nat
         /\ n % d \in 0 .. d - 1
         /\ n = d * (n \div d) + (n % d)
  OBVIOUS

LEMMA DivBound ==
  ASSUME NEW n \in Nat, NEW d \in Nat \ {0}, NEW p \in Nat, n < p * d
  PROVE  n \div d \in 0 .. p - 1
  OBVIOUS

LEMMA DivOfProduct ==
  ASSUME NEW n \in Nat, NEW d \in Nat \ {0}, NEW i \in Nat
  PROVE  /\ i * d < n + 1 => i * d < n \/ i = n \div d
         /\ i * d < n => i * d < n + 1
  OBVIOUS

(* The least element that name2number and alloc_block return exists. *)
LEMMA MinOfNats ==
  ASSUME NEW S \in SUBSET Nat, S # {}
  PROVE  /\ Min(S) \in S
         /\ \A x \in S : Min(S) <= x
<1> DEFINE R == {ss \in Nat \X Nat : ss[1] < ss[2]}
<1>1. IsWellFoundedOn(R, Nat)
  BY NatLessThanWellFounded DEF OpToRel
<1>2. S \subseteq Nat
  OBVIOUS
<1>3. \E m \in S : \A x \in S : <<x, m>> \notin R
  <2> HIDE DEF R
  <2> QED BY <1>1, <1>2, WFMin
<1>4. \A x, m \in Nat : <<x, m>> \notin R => m <= x
  OBVIOUS
<1>5. \E m \in S : \A x \in S : m <= x
  <2> HIDE DEF R
  <2> QED BY <1>2, <1>3, <1>4
<1> QED
  BY <1>5 DEF Min

-----------------------------------------------------------------------------
(* The views of a block have the types their readers expect. *)
LEMMA ViewTypes ==
  ASSUME NEW blk \in Block
  PROVE  /\ AsSuper(blk) \in Superblock
         /\ AsBits(blk) \subseteq Offset
         /\ AsDir(blk) \in [Slot -> Dirent]
         /\ AsData(blk) \in [Offset -> Byte \cup {Stale}]
<1> USE LayoutAssumption
<1>1. ZeroSB \in Superblock
  BY DEF ZeroSB, Superblock, Ptr, DataPtr, BlockNo
<1>2. NullDirent \in Dirent
  BY DEF NullDirent, Dirent, Ptr, DataPtr, BlockNo, MaxFileSize
<1>3. AsSuper(blk) \in Superblock
  BY <1>1 DEF Block, AsSuper
<1>4. AsBits(blk) \subseteq Offset
  BY DEF Block, AsBits
<1>5. AsDir(blk) \in [Slot -> Dirent]
  BY <1>2 DEF Block, AsDir, EmptyDir
<1>6. AsData(blk) \in [Offset -> Byte \cup {Stale}]
  BY DEF Block, AsData
<1> QED BY <1>3, <1>4, <1>5, <1>6

(* The blocks the program writes are blocks. *)
LEMMA BlockTypes ==
  /\ ZeroBlock \in Block
  /\ \A sb \in Superblock : SuperBlock(sb) \in Block
  /\ \A used \in SUBSET Offset : BitsBlock(used) \in Block
  /\ \A diri \in [Slot -> Dirent] : DirBlock(diri) \in Block
  /\ \A bytes \in [Offset -> Byte \cup {Stale}] : DataBlock(bytes) \in Block
  BY DEF Block, ZeroBlock, SuperBlock, BitsBlock, DirBlock, DataBlock

(* alloc_block returns a block of the disk or NOBLOCK. *)
LEMMA AllocType ==
  ASSUME NEW D, NEW sb \in Superblock
  PROVE  /\ alloc_block(D, sb) \in BlockNo \cup {NOBLOCK}
         /\ alloc_block(D, sb) # NOBLOCK =>
              alloc_block(D, sb) \in FreeBlocks(D, sb)
<1> USE LayoutAssumption
<1>1. FreeBlocks(D, sb) \in SUBSET Nat /\ FreeBlocks(D, sb) \subseteq BlockNo
  BY DEF FreeBlocks, Superblock, BlockNo
<1>2. CASE FreeBlocks(D, sb) = {}
  BY <1>2 DEF alloc_block
<1>3. CASE FreeBlocks(D, sb) # {}
  BY <1>1, <1>3, MinOfNats DEF alloc_block
<1> QED BY <1>2, <1>3

-----------------------------------------------------------------------------
(* What the directory scan looks at, and what it returns. *)
LEMMA EntryTypes ==
  ASSUME NEW D \in [BlockNo -> Block], NEW sb \in Superblock, Placed(sb),
         NEW n \in EntryNumbers(sb)
  PROVE  /\ n \in Nat
         /\ n \div DIRENTS_PER_BLOCK \in InUse(sb)
         /\ n \div DIRENTS_PER_BLOCK \in Ptr
         /\ n % DIRENTS_PER_BLOCK \in Slot
         /\ sb.blk[n \div DIRENTS_PER_BLOCK] \in BlockNo
         /\ EntryAt(D, sb, n) \in Dirent
<1> USE LayoutAssumption
<1>1. n \in Nat
  BY DEF EntryNumbers
<1>2. /\ n \div DIRENTS_PER_BLOCK \in InUse(sb)
      /\ n \div DIRENTS_PER_BLOCK \in Ptr
  BY DEF EntryNumbers, InUse
<1>3. n % DIRENTS_PER_BLOCK \in Slot
  BY <1>1, DivMod DEF Slot
<1>4. sb.blk[n \div DIRENTS_PER_BLOCK] \in BlockNo
  BY <1>2 DEF Placed, Superblock
<1>5. EntryAt(D, sb, n) \in Dirent
  BY <1>3, <1>4, ViewTypes DEF EntryAt
<1> QED BY <1>1, <1>2, <1>3, <1>4, <1>5

LEMMA ScanTypes ==
  ASSUME NEW D \in [BlockNo -> Block], NEW sb \in Superblock, Placed(sb), NEW name
  PROVE  /\ name2number(D, sb, name) \in Int
         /\ Listing(D, sb) \subseteq
              [entry : Slot, size : Nat, name : Names \cup {NoName}, blk : [Ptr -> DataPtr]]
<1>1. Matches(D, sb, name) \in SUBSET Nat
  BY DEF Matches, ValidEntries, EntryNumbers
<1>2. name2number(D, sb, name) \in Int
  <2>1. CASE Matches(D, sb, name) = {}
    BY <2>1 DEF name2number
  <2>2. CASE Matches(D, sb, name) # {}
    BY <1>1, <2>2, MinOfNats DEF name2number
  <2> QED BY <2>1, <2>2
<1>3. ASSUME NEW n \in ValidEntries(D, sb)
      PROVE  /\ n % DIRENTS_PER_BLOCK \in Slot
             /\ EntryAt(D, sb, n) \in Dirent
  BY EntryTypes DEF ValidEntries
<1>4. Listing(D, sb) \subseteq
        [entry : Slot, size : Nat, name : Names \cup {NoName}, blk : [Ptr -> DataPtr]]
  BY <1>3, LayoutAssumption DEF Listing, Dirent, MaxFileSize
<1> QED BY <1>2, <1>4

(* fs_read hands out bytes. *)
LEMMA FileBytesType ==
  ASSUME NEW D \in [BlockNo -> Block], NEW de \in Dirent,
         NEW offset \in Nat, NEW count \in Nat, offset + count <= MaxFileSize
  PROVE  FileBytes(D, de, offset, count) \in Seq(Byte \cup {Stale})
<1> USE LayoutAssumption
<1>1. ASSUME NEW k \in 1 .. count
      PROVE  AsData(D[de.blk[(offset + k - 1) \div BLOCKSIZE]])
               [(offset + k - 1) % BLOCKSIZE] \in Byte \cup {Stale}
  <2> DEFINE pos == offset + k - 1
  <2>1. pos \in Nat /\ pos < POINTERS_PER_ENT * BLOCKSIZE
    BY DEF MaxFileSize
  <2>2. pos \div BLOCKSIZE \in Ptr /\ pos % BLOCKSIZE \in Offset
    <3> HIDE DEF pos
    <3> QED BY <2>1, DivBound, DivMod DEF Ptr, Offset
  <2>3. de.blk[pos \div BLOCKSIZE] \in BlockNo
    BY <2>2 DEF Dirent, DataPtr
  <2> QED BY <2>2, <2>3, ViewTypes
<1>2. FileBytes(D, de, offset, count) \in [1 .. count -> Byte \cup {Stale}]
  BY <1>1 DEF FileBytes
<1> QED BY <1>2, SeqDef

-----------------------------------------------------------------------------
(* The directory one entry larger. *)
LEMMA RootGrows ==
  ASSUME NEW sb \in Superblock
  PROVE  \A i \in InUse([sb EXCEPT !.size = @ + 1]) :
           i \in InUse(sb) \/ i = sb.size \div DIRENTS_PER_BLOCK
<1> DEFINE big == [sb EXCEPT !.size = @ + 1]
<1> USE LayoutAssumption
<1>1. big.blk = sb.blk /\ big.size = sb.size + 1 /\ sb.size \in Nat
  BY DEF Superblock
<1>2. ASSUME NEW i \in InUse(big)
      PROVE  i \in InUse(sb) \/ i = sb.size \div DIRENTS_PER_BLOCK
  BY <1>1, DivOfProduct DEF InUse, Ptr
<1> QED BY <1>1, <1>2

(* What is to be shown of a step. *)
LEMMA ImageNext ==
  ASSUME TypeOK', Placed(rootSB'), Placed(Root(disk')), Placed(Root(stable')),
         MarkedFirst(disk', rootSB'), MarkedFirst(disk', Root(disk')),
         MarkedFirst(stable', Root(stable')), CreateMarked', InWrite'
  PROVE  ImageInv'
  BY DEF ImageInv, Placed, MarkedFirst, PastMetadata, OwnBitmap, InUse, Root

(* How MarkedFirst carries over to a disk with the same bitmap and no other *)
(* block, and to one the program has written a block of.                    *)
LEMMA MarkedAgain ==
  ASSUME NEW D, NEW E, NEW old, NEW new, MarkedFirst(D, old),
         AsBits(E[1]) = AsBits(D[1]),
         \A b \in BlockNo : b >= 2 => E[b] \in {D[b], ZeroBlock},
         \A i \in InUse(new) : i \in InUse(old) /\ new.blk[i] = old.blk[i]
  PROVE  MarkedFirst(E, new)
  BY DEF MarkedFirst, PastMetadata, OwnBitmap, ZeroBlock

(* Writing any block but the superblock's. *)
LEMMA WriteTypes ==
  ASSUME ImageInv, NEW n \in Nat \ {0}, NEW content, n \in BlockNo => content \in Block,
         disk_write(n, content)
  PROVE  /\ disk' \in [BlockNo -> Block] /\ stable' \in [BlockNo -> Block]
         /\ Root(disk)' = Root(disk) /\ Root(stable)' = Root(disk)
<1>1. disk \in [BlockNo -> Block] /\ 0 \in BlockNo /\ n # 0
  BY LayoutAssumption DEF ImageInv, TypeOK, BlockNo
<1>2. disk' \in [BlockNo -> Block] /\ disk'[0] = disk[0] /\ stable' = disk
  BY <1>1 DEF disk_write
<1> QED BY <1>1, <1>2 DEF Root

(* ... with what it does to the marks of the metadata blocks.               *)
WritesBlock ==
  /\ disk' \in [BlockNo -> Block] /\ stable' = disk
  /\ Root(disk') = Root(disk)
  /\ OwnBitmap(disk) => OwnBitmap(disk')
  /\ \A sb : MarkedFirst(disk, sb) => MarkedFirst(disk', sb)

LEMMA WriteMarks ==
  ASSUME ImageInv, NEW n \in Nat \ {0}, NEW content, n \in BlockNo => content \in Block,
         disk_write(n, content),
         n >= 2 => OwnBitmap(disk),
         n = 1 /\ OwnBitmap(disk) => {0, 1} \subseteq AsBits(content)
  PROVE  WritesBlock
<1>1. 1 \in BlockNo /\ disk \in [BlockNo -> Block]
  BY LayoutAssumption DEF ImageInv, TypeOK, BlockNo
<1>2. disk' = [disk EXCEPT ![n] = content] /\ stable' = disk
  BY DEF disk_write
<1>3. OwnBitmap(disk) => OwnBitmap(disk')
  BY <1>1, <1>2 DEF OwnBitmap
<1>4. \A b \in BlockNo : b >= 2 /\ disk'[b].kind # "zero" =>
        OwnBitmap(disk) \/ disk[b].kind # "zero"
  BY <1>1, <1>2
<1>5. \A sb : MarkedFirst(disk, sb) => MarkedFirst(disk', sb)
  BY <1>3, <1>4 DEF MarkedFirst, PastMetadata
<1>6. disk' \in [BlockNo -> Block] /\ Root(disk)' = Root(disk)
  BY WriteTypes
<1>7. Root(disk') = Root(disk)
  BY <1>6 DEF Root
<1> QED BY <1>2, <1>3, <1>5, <1>6, <1>7 DEF WritesBlock

(* alloc_block and the bits of the metadata blocks. *)
LEMMA AllocAndMetadata ==
  ASSUME NEW D, NEW sb \in Superblock
  PROVE  /\ alloc_block(D, sb) >= 2 => OwnBitmap(D)
         /\ alloc_block(D, sb) \in {0, 1} => ~OwnBitmap(D)
<1> DEFINE b == alloc_block(D, sb)
<1> USE LayoutAssumption
<1>1. FreeBlocks(D, sb) \in SUBSET Nat
  BY DEF FreeBlocks, Superblock
<1>2. 0 % BLOCKSIZE = 0 /\ 1 % BLOCKSIZE = 1
  OBVIOUS
<1>3. ASSUME b # NOBLOCK
      PROVE  b \in FreeBlocks(D, sb) /\ \A x \in FreeBlocks(D, sb) : b <= x
  BY <1>1, <1>3, MinOfNats DEF alloc_block
<1>4. ASSUME b >= 2 PROVE OwnBitmap(D)
  <2>1. b \in FreeBlocks(D, sb) /\ b # NOBLOCK
    BY <1>3, <1>4 DEF NOBLOCK
  <2>2. b \in Nat /\ b <= sb.nblocks - 1 /\ sb.nblocks \in Nat
    BY <2>1 DEF FreeBlocks, Superblock
  <2>3. \A x \in {0, 1} : x \notin FreeBlocks(D, sb)
    BY <1>1, <1>3, <1>4, <2>1, <2>2
  <2>4. \A x \in {0, 1} : x \in 0 .. sb.nblocks - 1 /\ x % BLOCKSIZE = x
    BY <1>2, <1>4, <2>2
  <2> QED BY <2>3, <2>4 DEF FreeBlocks, OwnBitmap
<1>5. ASSUME b \in {0, 1} PROVE ~OwnBitmap(D)
  <2>1. b \in FreeBlocks(D, sb)
    BY <1>3, <1>5 DEF NOBLOCK
  <2>2. b % BLOCKSIZE = b
    BY <1>2, <1>5
  <2> QED BY <1>5, <2>1, <2>2 DEF FreeBlocks, OwnBitmap
<1> QED BY <1>4, <1>5

LEMMA FrameTypes ==
  /\ NoFrame \in Frame
  /\ \A name \in Names : [NoFrame EXCEPT !.name = name] \in Frame
  /\ NoCall.out \in Seq(Byte \cup {Stale})
  /\ ZeroSB \in Superblock /\ InUse(ZeroSB) = {}
<1> USE LayoutAssumption
<1>1. NullDirent \in Dirent
  BY DEF NullDirent, Dirent, Ptr, DataPtr, BlockNo, MaxFileSize
<1>2. NoFrame \in Frame
  BY <1>1 DEF NoFrame, Frame
<1>3. \A name \in Names : [NoFrame EXCEPT !.name = name] \in Frame
  BY <1>2 DEF Frame
<1>4. ZeroSB \in Superblock
  BY DEF ZeroSB, Superblock, Ptr, DataPtr, BlockNo
<1>5. InUse(ZeroSB) = {}
  BY DEF InUse, ZeroSB, Ptr
<1> QED BY <1>2, <1>3, <1>4, <1>5 DEF NoCall

LEMMA TypeInit == Init => ImageInv
<1> SUFFICES ASSUME Init PROVE ImageInv
  OBVIOUS
<1> USE LayoutAssumption, ClientAssumption
<1>1. disk \in [BlockNo -> Block] /\ stable = disk
  BY BlockTypes DEF Init
<1>2. disk[0] = ZeroBlock
  BY DEF Init, BlockNo
<1>3. Root(disk) = ZeroSB
  BY <1>2 DEF Root, AsSuper, ZeroBlock
<1>4. ResultOK
  BY DEF Init, ResultOK, NoCall
<1>5. TypeOK
  BY <1>1, <1>4, FrameTypes DEF TypeOK, Init
<1>6. \A b \in BlockNo : disk[b].kind = "zero"
  BY DEF Init, ZeroBlock
<1>7. rootSB = ZeroSB /\ pc = "down" /\ InUse(ZeroSB) = {}
  BY FrameTypes DEF Init
<1> QED
  BY <1>1, <1>3, <1>5, <1>6, <1>7
  DEF ImageInv, Placed, MarkedFirst, PastMetadata, CreateMarked, InWrite

(* What a call returns has the type of a result. *)
LEMMA ResultTypes ==
  /\ ret' = NoCall => ResultOK'
  /\ \A op \in {"format", "mount", "umount", "open", "create", "write", "read"},
        on \in Names \cup {NoName} \cup (Nat \X Nat \X Nat), r \in Int,
        o \in Seq(Byte \cup {Stale}) :
       ReturnWith(op, on, r, o) => ResultOK' /\ pc' = "idle" /\ frame' \in Frame
<1>1. <<>> \in Seq(Byte \cup {Stale})
  OBVIOUS
<1>2. ret' = NoCall => ResultOK'
  BY <1>1 DEF NoCall, ResultOK
<1> QED
  BY <1>2, FrameTypes DEF ReturnWith, ResultOK

LEMMA ReturnTypes ==
  ASSUME NEW op \in {"format", "mount", "umount", "lsdir", "open", "create", "write", "read"},
         NEW on \in Names \cup {NoName} \cup (Nat \X Nat \X Nat), NEW r \in Int,
         op = "lsdir" => r # 1,
         Return(op, on, r)
  PROVE  ResultOK' /\ pc' = "idle" /\ frame' \in Frame
<1>1. <<>> \in Seq(Byte \cup {Stale})
  OBVIOUS
<1>2. /\ ret' = [op |-> op, on |-> on, val |-> r, out |-> <<>>]
      /\ pc' = "idle" /\ frame' = NoFrame
  BY DEF Return, ReturnWith
<1> QED BY <1>1, <1>2, FrameTypes DEF ResultOK

(* The process goes; the image is what it was or what was stable. *)
LEMMA TypeQuit ==
  ASSUME ImageInv, Quit \/ Kill \/ Abort
  PROVE  ImageInv'
<1>1. /\ disk' \in {disk, stable} /\ stable' = disk'
      /\ Die
  BY DEF Quit, Kill, Abort, disk_read
<1>2. ResultOK' /\ rootSB' = ZeroSB /\ pc' = "down"
  BY <1>1, ResultTypes DEF Die
<1>3. TypeOK'
  BY <1>1, <1>2, FrameTypes DEF ImageInv, TypeOK, Die
<1>4. Placed(rootSB') /\ Placed(Root(disk')) /\ Placed(Root(stable'))
  BY <1>1, <1>2, FrameTypes DEF ImageInv, Placed
<1>5. MarkedFirst(disk', Root(disk')) /\ MarkedFirst(stable', Root(stable'))
  BY <1>1 DEF ImageInv
<1>6. MarkedFirst(disk', rootSB')
  BY <1>2, <1>5, FrameTypes DEF MarkedFirst, PastMetadata
<1> QED
  BY <1>2, <1>3, <1>4, <1>5, <1>6, ImageNext DEF CreateMarked, InWrite

LEMMA TypeStart ==
  ASSUME ImageInv, NEW n \in DiskSizes, Start(n)
  PROVE  ImageInv'
<1> USE LayoutAssumption, ClientAssumption
<1>1. disk' \in [BlockNo -> Block]
  BY BlockTypes DEF ImageInv, TypeOK, Start
<1>2. disk'[0] = disk[0] /\ disk'[1] = disk[1]
  BY DEF Start, BlockNo
<1>3. TypeOK'
  BY <1>1 DEF ImageInv, TypeOK, Start, ResultOK
<1>4. Root(disk') = Root(disk) /\ stable' = disk' /\ rootSB' = rootSB /\ pc' = "idle"
  BY <1>2 DEF Start, Root
<1>5. ASSUME NEW sb, MarkedFirst(disk, sb) PROVE MarkedFirst(disk', sb)
  <2>1. \A b \in BlockNo : disk'[b] \in {disk[b], ZeroBlock}
    BY DEF Start
  <2> QED BY <1>2, <1>5, <2>1, MarkedAgain
<1>6. MarkedFirst(disk', rootSB) /\ MarkedFirst(disk', Root(disk))
  BY <1>5 DEF ImageInv
<1> QED
  BY <1>3, <1>4, <1>6, ImageNext DEF ImageInv, CreateMarked, InWrite

(* The calls that leave the superblock alone, on the disk and in memory. *)
LEMMA TypeCalls ==
  ASSUME ImageInv, UNCHANGED <<disk, nblocks, rootSB>>, stable' \in {stable, disk},
         ResultOK', frame' \in Frame, pc' \in {"idle", "astray"}
  PROVE  ImageInv'
<1>1. TypeOK'
  BY DEF ImageInv, TypeOK
<1>2. /\ Placed(rootSB') /\ Placed(Root(disk')) /\ Placed(Root(stable'))
      /\ MarkedFirst(disk', rootSB') /\ MarkedFirst(disk', Root(disk'))
      /\ MarkedFirst(stable', Root(stable'))
  BY DEF ImageInv
<1> QED
  BY <1>1, <1>2, ImageNext DEF CreateMarked, InWrite

LEMMA TypeFormat ==
  ASSUME ImageInv, FormatSuper \/ FormatBitmap
  PROVE  ImageInv'
<1> USE LayoutAssumption, ClientAssumption
<1>1. FreshSB \in Superblock /\ InUse(FreshSB) = {}
  <2>1. nblocks \in 0 .. MaxBlocks /\ 0 \in BlockNo
    BY DEF ImageInv, TypeOK, BlockNo
  <2>2. FreshSB \in Superblock
    BY <2>1 DEF FreshSB, Superblock
  <2>3. \A i \in Ptr : ~(i * DIRENTS_PER_BLOCK < 0)
    BY DEF Ptr
  <2> QED BY <2>2, <2>3 DEF FreshSB, InUse
<1>2. CASE FormatSuper
  <2>1. /\ disk' \in [BlockNo -> Block] /\ stable' = disk
        /\ disk'[0] = SuperBlock(FreshSB)
        /\ \A b \in BlockNo \ {0} : disk'[b] = disk[b]
    BY <1>1, <1>2, BlockTypes DEF ImageInv, TypeOK, FormatSuper, disk_write, BlockNo
  <2>2. TypeOK'
    BY <1>2, <2>1, FrameTypes, ResultTypes
    DEF ImageInv, TypeOK, FormatSuper, disk_write, Begin
  <2>3. Root(disk') = FreshSB /\ Root(stable') = Root(disk) /\ rootSB' = rootSB
        /\ pc' = "format"
    BY <1>2, <2>1 DEF Root, AsSuper, SuperBlock, FormatSuper, Begin
  <2>4. disk'[1] = disk[1]
    BY <2>1 DEF BlockNo
  <2>5. MarkedFirst(disk', rootSB) /\ MarkedFirst(disk', FreshSB)
    BY <1>1, <2>1, <2>4, MarkedAgain DEF ImageInv
  <2> QED
    BY <1>1, <2>1, <2>2, <2>3, <2>5, ImageNext DEF ImageInv, Placed, CreateMarked, InWrite
<1>3. CASE FormatBitmap
  <2>1. BitsBlock({0, 1}) \in Block /\ AsBits(BitsBlock({0, 1})) = {0, 1}
    BY BlockTypes DEF Offset, AsBits, BitsBlock
  <2>2. disk_write(1, BitsBlock({0, 1})) /\ UNCHANGED <<nblocks, rootSB>>
    BY <1>3 DEF FormatBitmap
  <2>3. ResultOK' /\ pc' = "idle" /\ frame' \in Frame
    BY <1>3, ReturnTypes DEF FormatBitmap
  <2>4. WritesBlock
    <3> DEFINE content == BitsBlock({0, 1})
    <3>1. disk_write(1, content) /\ content \in Block /\ {0, 1} \subseteq AsBits(content)
      BY <2>1, <2>2
    <3> HIDE DEF content
    <3> QED BY <3>1, WriteMarks
  <2>5. TypeOK'
    BY <2>2, <2>3, <2>4 DEF ImageInv, TypeOK, WritesBlock
  <2> QED
    BY <2>2, <2>3, <2>4, <2>5, ImageNext DEF ImageInv, WritesBlock, CreateMarked, InWrite
<1> QED BY <1>2, <1>3

LEMMA TypeMount ==
  ASSUME ImageInv, Mount \/ Umount
  PROVE  ImageInv'
<1>1. ResultOK' /\ pc' = "idle" /\ frame' \in Frame
  BY ReturnTypes DEF Mount, Umount
<1>2. /\ UNCHANGED <<disk, nblocks>>
      /\ stable' \in {stable, disk}
      /\ rootSB' \in {rootSB, Root(disk), ZeroSB}
  BY DEF Mount, Umount, disk_read, NoDisk, Root
<1>3. Root(disk) \in Superblock
  BY ViewTypes, LayoutAssumption DEF ImageInv, TypeOK, Root, BlockNo
<1>4. TypeOK'
  BY <1>1, <1>2, <1>3, FrameTypes DEF ImageInv, TypeOK
<1>5. Placed(rootSB')
  BY <1>2, FrameTypes DEF ImageInv, Placed
<1>6. MarkedFirst(disk, ZeroSB)
  BY FrameTypes DEF ImageInv, MarkedFirst, PastMetadata
<1>7. MarkedFirst(disk', rootSB')
  BY <1>2, <1>6 DEF ImageInv
<1> QED
  BY <1>1, <1>2, <1>4, <1>5, <1>7, ImageNext DEF ImageInv, CreateMarked, InWrite

LEMMA TypeLsdir ==
  ASSUME ImageInv, Lsdir
  PROVE  ImageInv'
<1>1. Listing(disk, rootSB) \subseteq
        [entry : Slot, size : Nat, name : Names \cup {NoName}, blk : [Ptr -> DataPtr]]
  BY ScanTypes DEF ImageInv, TypeOK
<1>2. /\ UNCHANGED <<disk, nblocks, rootSB>>
      /\ stable' \in {stable, disk}
  BY DEF Lsdir, ScanDirectory, disk_read, NoDisk
<1>3. CASE Mounted
  <2>1. ResultOK' /\ pc' = "idle" /\ frame' \in Frame
    BY <1>1, <1>3, FrameTypes DEF Lsdir, ReturnWith, ResultOK
  <2> QED BY <1>2, <2>1, TypeCalls
<1>4. CASE ~Mounted
  <2>1. ResultOK' /\ pc' = "idle" /\ frame' \in Frame
    BY <1>4, ReturnTypes DEF Lsdir
  <2> QED BY <1>2, <2>1, TypeCalls
<1> QED BY <1>3, <1>4

LEMMA TypeScan ==
  ASSUME ImageInv, NEW name \in Names, Open(name) \/ CreateFails(name)
  PROVE  ImageInv'
<1>1. name2number(disk, rootSB, name) \in Int
  BY ScanTypes DEF ImageInv, TypeOK
<1>2. /\ UNCHANGED <<disk, nblocks, rootSB>>
      /\ stable' \in {stable, disk}
  BY DEF Open, CreateFails, ScanDirectory, disk_read, NoDisk
<1>3. ResultOK' /\ pc' = "idle" /\ frame' \in Frame
  BY <1>1, ReturnTypes DEF Open, CreateFails
<1> QED BY <1>2, <1>3, TypeCalls

LEMMA TypeOtherCalls ==
  ASSUME ImageInv,
         \/ FormatMounted \/ Debug \/ ScanGarbage
         \/ \E op \in {"read", "write"} : AccessUnmounted(op)
  PROVE  ImageInv'
<1>1. /\ UNCHANGED <<disk, nblocks, rootSB>>
      /\ stable' \in {stable, disk}
  BY DEF FormatMounted, Debug, ScanGarbage, AccessUnmounted, GoAstray, disk_read, NoDisk
<1>2. CASE Debug \/ ScanGarbage
  <2>1. ResultOK' /\ pc' \in {"idle", "astray"} /\ frame' \in Frame
    BY <1>2 DEF ImageInv, TypeOK, Debug, ScanGarbage, GoAstray, ResultOK
  <2> QED BY <1>1, <2>1, TypeCalls
<1>3. CASE FormatMounted
  <2>1. ResultOK' /\ pc' = "idle" /\ frame' \in Frame
    BY <1>3, ReturnTypes DEF FormatMounted
  <2> QED BY <1>1, <2>1, TypeCalls
<1>4. ASSUME NEW op \in {"read", "write"}, AccessUnmounted(op)
      PROVE  ImageInv'
  <2>1. ResultOK' /\ pc' = "idle" /\ frame' \in Frame
    BY <1>4, ReturnTypes DEF AccessUnmounted
  <2> QED BY <1>1, <2>1, TypeCalls
<1> QED BY <1>2, <1>3, <1>4

-----------------------------------------------------------------------------
(* fs_create finds the place of the entry to append. *)
LEMMA NewEntryPlace ==
  ASSUME rootSB \in Superblock
  PROVE  /\ NewBlk \in Nat /\ NewSlot \in Slot
         /\ rootSB.size = DIRENTS_PER_BLOCK * NewBlk + NewSlot
         /\ NewSlot # 0 /\ NewBlk \in Ptr => NewBlk \in InUse(rootSB)
<1> USE LayoutAssumption
<1>1. rootSB.size \in Nat
  BY DEF Superblock
<1>2. /\ NewBlk \in Nat /\ NewSlot \in Slot
      /\ rootSB.size = DIRENTS_PER_BLOCK * NewBlk + NewSlot
  BY <1>1, DivMod DEF NewBlk, NewSlot, Slot
<1>3. NewSlot # 0 => NewBlk * DIRENTS_PER_BLOCK < rootSB.size
  BY <1>2 DEF Slot
<1> QED BY <1>2, <1>3 DEF InUse

LEMMA NewBlockPlace ==
  ASSUME rootSB \in Superblock, NewBlk < POINTERS_PER_ENT, NewSlot = 0
  PROVE  NewBlk \in Ptr /\ NewBlk \notin InUse(rootSB)
<1> USE LayoutAssumption
<1>1. NewBlk \in Ptr /\ rootSB.size = DIRENTS_PER_BLOCK * NewBlk
  BY NewEntryPlace DEF Ptr, Slot
<1> QED BY <1>1 DEF InUse, Ptr

LEMMA TypeCreateInBlock ==
  ASSUME ImageInv, NEW name \in Names, CreateInBlock(name)
  PROVE  ImageInv'
<1> USE LayoutAssumption
<1>1. frame' \in Frame /\ pc' = "dirent" /\ ResultOK'
  BY FrameTypes, ResultTypes DEF CreateInBlock, Begin
<1>2. UNCHANGED <<disk, nblocks, rootSB>> /\ stable' = disk
  BY DEF CreateInBlock, disk_read
<1>3. TypeOK'
  BY <1>1, <1>2 DEF ImageInv, TypeOK
<1>4. NewBlk \in Ptr /\ NewBlk \in InUse(rootSB)
  BY NewEntryPlace DEF ImageInv, TypeOK, CreateInBlock, CanCreate, Ptr
<1>5. rootSB.blk[NewBlk] # NOBLOCK
  BY <1>4 DEF ImageInv, Placed
<1>6. rootSB.blk[NewBlk] >= 2 => OwnBitmap(disk)
  BY <1>4 DEF ImageInv, MarkedFirst, PastMetadata
<1>7. ASSUME rootSB.blk[NewBlk] = 1
      PROVE  ~PastMetadata(disk, rootSB) /\ ~PastMetadata(disk, Root(disk))
  <2>1. HoldsDirents(1)
    BY <1>4, <1>7 DEF CreateInBlock, Scannable
  <2>2. ~OwnBitmap(disk)
    BY <2>1 DEF HoldsDirents, OwnBitmap, AsBits
  <2> QED BY <2>2 DEF ImageInv, MarkedFirst
<1>8. CreateMarked'
  <2>1. NewBlk' = NewBlk
    BY <1>2 DEF NewBlk
  <2> QED
    BY <1>2, <1>4, <1>5, <1>6, <1>7, <2>1
    DEF CreateMarked, PastMetadata, OwnBitmap, InUse, Root
<1> QED
  BY <1>1, <1>2, <1>3, <1>8, ImageNext DEF ImageInv, InWrite

(* The bitmap block that alloc_block writes back. *)
LEMMA MarkedType ==
  ASSUME ImageInv, NEW b \in BlockNo
  PROVE  Marked(b) \in Block
<1> USE LayoutAssumption
<1>1. b % BLOCKSIZE \in Offset
  BY DivMod DEF BlockNo, Offset
<1>2. AsBits(disk[1]) \subseteq Offset
  BY ViewTypes DEF ImageInv, TypeOK, BlockNo
<1> QED BY <1>1, <1>2, BlockTypes DEF Marked

LEMMA MarkedBits ==
  ASSUME NEW b
  PROVE  AsBits(disk[1]) \subseteq AsBits(Marked(b))
  BY DEF Marked, AsBits, BitsBlock

(* Changing the pointer of a block that is not in use. *)
LEMMA TypeCreateInNewBlock ==
  ASSUME ImageInv, NEW name \in Names, CreateInNewBlock(name)
  PROVE  ImageInv'
<1> USE LayoutAssumption
<1> DEFINE b == alloc_block(disk, rootSB)
<1>1. b \in BlockNo \cup {NOBLOCK}
  BY AllocType DEF ImageInv, TypeOK
<1>2. NewBlk \in Ptr /\ NewBlk \notin InUse(rootSB)
  BY NewBlockPlace DEF ImageInv, TypeOK, CreateInNewBlock, CanCreate
<1>3. ASSUME NEW c \in BlockNo \cup {NOBLOCK}, rootSB' = [rootSB EXCEPT !.blk[NewBlk] = c]
      PROVE  /\ rootSB' \in Superblock /\ NewBlk' = NewBlk /\ rootSB'.blk[NewBlk] = c
             /\ InUse(rootSB') = InUse(rootSB)
             /\ \A i \in InUse(rootSB) : rootSB'.blk[i] = rootSB.blk[i]
  <2>1. /\ rootSB' \in Superblock /\ rootSB'.size = rootSB.size
        /\ rootSB'.blk = [rootSB.blk EXCEPT ![NewBlk] = c]
    BY <1>2, <1>3 DEF ImageInv, TypeOK, Superblock
  <2>2. \A i \in InUse(rootSB) : rootSB'.blk[i] = rootSB.blk[i]
    BY <1>2, <2>1 DEF ImageInv, TypeOK, Superblock, InUse
  <2>3. rootSB'.blk[NewBlk] = c
    BY <1>2, <2>1 DEF ImageInv, TypeOK, Superblock
  <2> QED BY <2>1, <2>2, <2>3 DEF InUse, NewBlk
<1>4. CASE HoldsBits /\ b = NOBLOCK
  <2>1. /\ rootSB' = [rootSB EXCEPT !.blk[NewBlk] = NOBLOCK]
        /\ disk_read /\ Return("create", name, -1) /\ UNCHANGED nblocks
    BY <1>4 DEF CreateInNewBlock
  <2>2. ResultOK' /\ pc' = "idle" /\ frame' \in Frame
    BY <2>1, ReturnTypes
  <2>3. TypeOK'
    BY <1>3, <2>1, <2>2 DEF ImageInv, TypeOK, disk_read
  <2>4. Placed(rootSB') /\ MarkedFirst(disk, rootSB')
    BY <1>3, <2>1 DEF ImageInv, Placed, MarkedFirst, PastMetadata
  <2> QED
    BY <2>1, <2>2, <2>3, <2>4, ImageNext DEF ImageInv, disk_read, CreateMarked, InWrite
<1>5. CASE HoldsBits /\ b # NOBLOCK
  <2>1. /\ rootSB' = [rootSB EXCEPT !.blk[NewBlk] = b]
        /\ disk_write(1, Marked(b)) /\ Begin("dirent", [NoFrame EXCEPT !.name = name])
        /\ UNCHANGED nblocks
    BY <1>5 DEF CreateInNewBlock
  <2>2. b \in BlockNo
    BY <1>1, <1>5
  <2>3. Marked(b) \in Block /\ AsBits(disk[1]) \subseteq AsBits(Marked(b))
    BY <2>2, MarkedType, MarkedBits
  <2>4. WritesBlock
    <3>1. OwnBitmap(disk) => {0, 1} \subseteq AsBits(Marked(b))
      BY <2>3 DEF OwnBitmap
    <3> DEFINE content == Marked(b)
    <3>2. disk_write(1, content) /\ content \in Block
      BY <2>1, <2>3
    <3>3. OwnBitmap(disk) => {0, 1} \subseteq AsBits(content)
      BY <3>1
    <3> HIDE DEF content
    <3> QED BY <3>2, <3>3, WriteMarks
  <2>5. /\ rootSB' \in Superblock /\ NewBlk' = NewBlk /\ rootSB'.blk[NewBlk] = b
        /\ InUse(rootSB') = InUse(rootSB)
        /\ \A i \in InUse(rootSB) : rootSB'.blk[i] = rootSB.blk[i]
    BY <1>3, <2>1, <2>2
  <2> HIDE DEF b
  <2>6. TypeOK' /\ pc' = "dirent"
    BY <2>1, <2>4, <2>5, FrameTypes, ResultTypes
    DEF ImageInv, TypeOK, Begin, WritesBlock
  <2>7. Placed(rootSB') /\ MarkedFirst(disk', rootSB')
    <3>1. MarkedFirst(disk', rootSB)
      BY <2>4 DEF ImageInv, WritesBlock
    <3> QED BY <2>5, <3>1 DEF ImageInv, Placed, MarkedFirst, PastMetadata
  <2>8. b >= 2 => OwnBitmap(disk')
    BY <2>4, AllocAndMetadata DEF ImageInv, TypeOK, WritesBlock, b
  <2>9. ASSUME b = 1
        PROVE  ~PastMetadata(disk', rootSB') /\ ~PastMetadata(disk', Root(disk'))
    <3>1. ~OwnBitmap(disk)
      BY <2>9, AllocAndMetadata DEF ImageInv, TypeOK, b
    <3>2. ~PastMetadata(disk, rootSB) /\ ~PastMetadata(disk, Root(disk))
      BY <3>1 DEF ImageInv, MarkedFirst
    <3>3. \A x \in BlockNo : x >= 2 => disk'[x] = disk[x]
      BY <2>1 DEF ImageInv, TypeOK, disk_write
    <3>4. Root(disk') = Root(disk)
      BY <2>4 DEF WritesBlock
    <3> QED BY <2>5, <3>2, <3>3, <3>4 DEF PastMetadata
  <2>10. CreateMarked'
    <3>1. b # NOBLOCK
      BY <1>5 DEF b
    <3> QED
      BY <1>2, <2>5, <2>8, <2>9, <3>1 DEF CreateMarked, PastMetadata, OwnBitmap, InUse, Root
  <2> QED
    BY <2>4, <2>6, <2>7, <2>10, ImageNext DEF ImageInv, WritesBlock, InWrite
<1>6. CASE ~HoldsBits
  <2>1. GoAstray
    BY <1>6 DEF CreateInNewBlock
  <2>2. ResultOK' /\ pc' = "astray" /\ frame' \in Frame
    BY <2>1 DEF ImageInv, TypeOK, GoAstray, ResultOK
  <2> QED BY <2>1, <2>2, TypeCalls DEF GoAstray, NoDisk
<1> QED BY <1>4, <1>5, <1>6

(* add_dirent's entry is a dirent. *)
LEMMA NewDirentType ==
  ASSUME NEW old \in Dirent, NEW name \in Names \cup {NoName}
  PROVE  NewDirent(old, name) \in Dirent
<1>1. 0 \in Ptr /\ 0 \in DataPtr /\ 0 \in 0 .. MaxFileSize
  BY LayoutAssumption DEF Ptr, DataPtr, BlockNo, MaxFileSize
<1>2. [old.blk EXCEPT ![0] = 0] \in [Ptr -> DataPtr]
  BY <1>1 DEF Dirent
<1> QED BY <1>1, <1>2 DEF NewDirent, Dirent

LEMMA TypeCreateDirent ==
  ASSUME ImageInv, CreateDirent
  PROVE  ImageInv'
<1> USE LayoutAssumption
<1> DEFINE b == rootSB.blk[NewBlk]
           diri == IF NewSlot = 0 THEN EmptyDir ELSE AsDir(disk[b])
           new == [diri EXCEPT ![NewSlot] = NewDirent(diri[NewSlot], frame.name)]
<1>1. /\ NewBlk \in Ptr /\ b \in BlockNo
      /\ NewSlot \in Slot /\ frame.name \in Names \cup {NoName}
  BY NewEntryPlace DEF ImageInv, TypeOK, CreateMarked, CreateDirent, Superblock, Frame
<1>2. diri \in [Slot -> Dirent]
  <2>1. AsDir(disk[b]) \in [Slot -> Dirent]
    BY <1>1, ViewTypes DEF ImageInv, TypeOK
  <2>2. EmptyDir \in [Slot -> Dirent]
    BY DEF EmptyDir, NullDirent, Dirent, Ptr, DataPtr, BlockNo, MaxFileSize
  <2> QED BY <2>1, <2>2
<1>3. new \in [Slot -> Dirent]
  <2> HIDE DEF diri
  <2>1. NewDirent(diri[NewSlot], frame.name) \in Dirent
    BY <1>1, <1>2, NewDirentType
  <2> QED BY <1>1, <1>2, <2>1
<1>4. /\ disk_write(b, DirBlock(new)) /\ pc' = "super"
      /\ rootSB' = [rootSB EXCEPT !.size = @ + 1] /\ UNCHANGED <<nblocks, frame, ret>>
  BY DEF CreateDirent
<1>5. DirBlock(new) \in Block
  BY <1>3, BlockTypes
<1> HIDE DEF new
<1>6. /\ rootSB' \in Superblock /\ rootSB'.blk = rootSB.blk
      /\ \A i \in InUse(rootSB') : i \in InUse(rootSB) \/ i = NewBlk
  <2>1. /\ rootSB' \in Superblock /\ rootSB'.blk = rootSB.blk
    BY <1>4 DEF ImageInv, TypeOK, Superblock
  <2>2. \A i \in InUse([rootSB EXCEPT !.size = @ + 1]) : i \in InUse(rootSB) \/ i = NewBlk
    BY RootGrows DEF ImageInv, TypeOK, NewBlk
  <2> QED BY <1>4, <2>1, <2>2
<1>7. /\ disk' = [disk EXCEPT ![b] = DirBlock(new)] /\ stable' = disk
      /\ disk \in [BlockNo -> Block] /\ disk' \in [BlockNo -> Block]
  BY <1>1, <1>4, <1>5 DEF ImageInv, TypeOK, disk_write
<1>8. TypeOK'
  BY <1>4, <1>6, <1>7 DEF ImageInv, TypeOK, ResultOK
<1>9. Placed(rootSB')
  BY <1>6 DEF ImageInv, Placed, CreateMarked, CreateDirent
<1>10. /\ Placed(Root(disk'))
       /\ MarkedFirst(disk', rootSB') /\ MarkedFirst(disk', Root(disk'))
  <2>1. CASE b >= 2
    <3>1. OwnBitmap(disk)
      BY <2>1 DEF ImageInv, CreateMarked, CreateDirent
    <3>2. b \in Nat \ {0} /\ b # 1
      BY <1>1, <2>1 DEF BlockNo
    <3>3. WritesBlock
      <4> HIDE DEF b
      <4> QED BY <1>4, <1>5, <3>1, <3>2, WriteMarks
    <3> QED BY <3>1, <3>3 DEF ImageInv, WritesBlock, MarkedFirst
  <2>2. CASE b = 1
    <3>1. ~PastMetadata(disk, rootSB) /\ ~PastMetadata(disk, Root(disk))
      BY <2>2 DEF ImageInv, CreateMarked, CreateDirent
    <3>2. disk'[0] = disk[0] /\ \A x \in BlockNo : x >= 2 => disk'[x] = disk[x]
      BY <1>7, <2>2 DEF BlockNo
    <3>3. Root(disk') = Root(disk)
      BY <3>2 DEF Root
    <3>4. ~PastMetadata(disk', rootSB') /\ ~PastMetadata(disk', Root(disk))
      BY <1>6, <2>2, <3>1, <3>2 DEF PastMetadata
    <3> QED BY <3>3, <3>4 DEF ImageInv, MarkedFirst
  <2>3. CASE b = 0
    <3>1. disk'[0] = DirBlock(new) /\ disk'[1] = disk[1]
          /\ \A x \in BlockNo : x >= 2 => disk'[x] = disk[x]
      BY <1>7, <2>3 DEF BlockNo
    <3>2. Root(disk') = ZeroSB
      BY <3>1 DEF Root, AsSuper, DirBlock
    <3>3. MarkedFirst(disk', rootSB')
      BY <1>6, <2>3, <3>1 DEF ImageInv, MarkedFirst, PastMetadata, OwnBitmap
    <3>4. MarkedFirst(disk', ZeroSB)
      BY <3>3, FrameTypes DEF MarkedFirst, PastMetadata
    <3> QED BY <3>2, <3>3, <3>4, FrameTypes DEF Placed
  <2> QED BY <1>1, <2>1, <2>2, <2>3 DEF BlockNo
<1> QED
  BY <1>4, <1>7, <1>8, <1>9, <1>10, ImageNext DEF ImageInv, CreateMarked, InWrite

LEMMA TypeCreateEnd ==
  ASSUME ImageInv, CreateSuper \/ CreateAborts
  PROVE  ImageInv'
<1> USE LayoutAssumption
<1> DEFINE new == [disk EXCEPT ![0] = SuperBlock(rootSB)]
<1>1. /\ new \in [BlockNo -> Block] /\ new[0] = SuperBlock(rootSB) /\ new[1] = disk[1]
      /\ \A b \in BlockNo : b >= 2 => new[b] = disk[b]
  BY BlockTypes DEF ImageInv, TypeOK, BlockNo
<1>2. Root(new) = rootSB
  BY <1>1 DEF Root, AsSuper, SuperBlock
<1>3. Placed(Root(new)) /\ MarkedFirst(new, rootSB) /\ MarkedFirst(new, Root(new))
  <2> HIDE DEF new
  <2> QED BY <1>1, <1>2 DEF ImageInv, MarkedFirst, PastMetadata, OwnBitmap
<1>4. CASE CreateSuper
  <2>1. frame.name \in Names \cup {NoName} /\ rootSB.size - 1 \in Int
    BY DEF ImageInv, TypeOK, Frame, Superblock
  <2>2. ResultOK' /\ pc' = "idle" /\ frame' \in Frame
    BY <1>4, <2>1, ReturnTypes DEF CreateSuper
  <2>3. disk' = new /\ stable' = disk /\ UNCHANGED <<nblocks, rootSB>>
    BY <1>4 DEF CreateSuper, disk_write
  <2>4. TypeOK'
    BY <1>1, <2>2, <2>3 DEF ImageInv, TypeOK
  <2> QED
    BY <1>3, <2>2, <2>3, <2>4, ImageNext DEF ImageInv, CreateMarked, InWrite
<1>5. CASE CreateAborts
  <2>1. disk' \in {disk, new} /\ stable' = disk' /\ Die
    BY <1>5 DEF CreateAborts
  <2>2. ResultOK' /\ frame' \in Frame /\ rootSB' = ZeroSB /\ pc' = "down"
    BY <2>1, FrameTypes, ResultTypes DEF Die
  <2>3. TypeOK'
    BY <1>1, <2>1, <2>2, FrameTypes DEF ImageInv, TypeOK, Die
  <2>4. /\ Placed(rootSB') /\ Placed(Root(disk')) /\ Placed(Root(stable'))
        /\ MarkedFirst(disk', Root(disk')) /\ MarkedFirst(stable', Root(stable'))
    BY <1>3, <2>1, <2>2, FrameTypes DEF ImageInv, Placed
  <2>5. MarkedFirst(disk', rootSB')
    BY <2>2, <2>4, FrameTypes DEF MarkedFirst, PastMetadata
  <2> QED BY <2>2, <2>3, <2>4, <2>5, ImageNext DEF CreateMarked, InWrite
<1> QED BY <1>4, <1>5

-----------------------------------------------------------------------------
(* fs_write and fs_read find a dirent in the block they take it from. *)
LEMMA LoadType ==
  ASSUME ImageInv, NEW inumber \in EntryNumbers(rootSB), Readable(inumber)
  PROVE  /\ inumber \in Nat /\ LoadDirent(inumber) \in Dirent
         /\ LoadDirent(inumber).isvalid => OwnBitmap(disk)
<1> USE LayoutAssumption, ClientAssumption
<1>1. inumber \in Nat
  BY DEF EntryNumbers
<1>2. inumber % DIRENTS_PER_BLOCK \in Slot /\ inumber \div DIRENTS_PER_BLOCK \in Nat
  BY <1>1, DivMod DEF Slot
<1>3. DirentBlock(inumber) \in BlockNo /\ DirentBlock(inumber) >= 2
  BY <1>2 DEF DirentBlock, Readable, PastEnd, ImageInv, TypeOK, BlockNo
<1>4. AsDir(disk[DirentBlock(inumber)]) \in [Slot -> Dirent]
  BY <1>3, ViewTypes DEF ImageInv, TypeOK
<1>5. ASSUME LoadDirent(inumber).isvalid PROVE OwnBitmap(disk)
  <2>1. disk[DirentBlock(inumber)].kind # "zero"
    BY <1>2, <1>5 DEF LoadDirent, AsDir, EmptyDir, NullDirent
  <2> QED BY <1>3, <2>1 DEF ImageInv, MarkedFirst, PastMetadata
<1> QED BY <1>1, <1>2, <1>4, <1>5 DEF LoadDirent

LEMMA TypeAstray ==
  ASSUME ImageInv, GoAstray
  PROVE  ImageInv'
<1>1. ResultOK' /\ pc' = "astray" /\ frame' \in Frame
  BY DEF ImageInv, TypeOK, GoAstray, ResultOK
<1> QED BY <1>1, TypeCalls DEF GoAstray, NoDisk

LEMMA TypeLoadFails ==
  ASSUME ImageInv, NEW inumber, LoadFails(inumber)
  PROVE  ImageInv'
  BY TypeQuit, TypeAstray DEF LoadFails

LEMMA TypeWriteCall ==
  ASSUME ImageInv, NEW inumber \in EntryNumbers(rootSB), NEW data \in Payloads,
         NEW offset \in Offsets, WriteCall(inumber, data, offset)
  PROVE  ImageInv'
<1> USE LayoutAssumption, ClientAssumption
<1> DEFINE de == LoadDirent(inumber)
           f == [NoFrame EXCEPT !.inumber = inumber, !.dirent = de,
                   !.data = data, !.offset = offset, !.cur = offset]
<1>1. /\ inumber \in Nat /\ de \in Dirent /\ offset \in Nat /\ data \in Seq(Byte)
      /\ Len(data) \in Nat /\ de.isvalid => OwnBitmap(disk)
  BY LoadType DEF WriteCall
<1>2. disk_read /\ UNCHANGED <<nblocks, rootSB>>
  BY DEF WriteCall
<1>3. CASE CanWrite(de, Len(data), offset)
  <2>1. Begin("write", f)
    BY <1>3 DEF WriteCall
  <2>2. f \in Frame
    BY <1>1, FrameTypes DEF Frame
  <2>3. f.cur = offset /\ f.offset = offset /\ f.data = data
    BY DEF NoFrame
  <2>4. frame' = f /\ pc' = "write" /\ ResultOK'
    BY <2>1, ResultTypes DEF Begin
  <2>5. TypeOK'
    BY <1>2, <2>2, <2>4 DEF ImageInv, TypeOK, disk_read
  <2>6. offset <= offset + Len(data) /\ offset + Len(data) <= MaxFileSize
    BY <1>1, <1>3 DEF CanWrite, Dirent, MaxFileSize
  <2>7. OwnBitmap(disk)'
    BY <1>1, <1>2, <1>3 DEF CanWrite, disk_read, OwnBitmap
  <2>8. InWrite'
    <3> HIDE DEF f
    <3> QED BY <1>1, <2>3, <2>4, <2>6, <2>7 DEF InWrite
  <2> QED
    BY <1>2, <2>4, <2>5, <2>8, ImageNext DEF ImageInv, disk_read, CreateMarked
<1>4. CASE ~CanWrite(de, Len(data), offset)
  <2>1. Return("write", <<inumber, Len(data), offset>>, -1)
    BY <1>4 DEF WriteCall
  <2>2. ResultOK' /\ pc' = "idle" /\ frame' \in Frame
    BY <1>1, <2>1, ReturnTypes
  <2> QED BY <1>2, <2>2, TypeCalls DEF disk_read
<1> QED BY <1>3, <1>4

(* The block fs_write is at, while there is something left to copy. *)
LEMMA WritePlace ==
  ASSUME ImageInv, pc = "write", frame.cur < WriteEnd
  PROVE  /\ CurPtr \in Ptr /\ CurInBlock \in Offset
         /\ nCopy \in Nat \ {0} /\ CurInBlock + nCopy <= BLOCKSIZE
         /\ frame.cur + nCopy <= WriteEnd
<1> USE LayoutAssumption
<1>1. /\ frame.cur \in Nat /\ WriteEnd \in Nat
      /\ frame.cur < POINTERS_PER_ENT * BLOCKSIZE
  BY DEF ImageInv, TypeOK, InWrite, WriteEnd, Frame, MaxFileSize
<1>2. CurPtr \in Ptr /\ CurInBlock \in Offset
  BY <1>1, DivBound, DivMod DEF CurPtr, CurInBlock, Ptr, Offset
<1> QED BY <1>1, <1>2 DEF nCopy, Room, Offset

LEMMA TypeWriteAlloc ==
  ASSUME ImageInv, WriteAlloc
  PROVE  ImageInv'
<1> USE LayoutAssumption
<1> DEFINE b == alloc_block(disk, rootSB)
           f == [frame EXCEPT !.dirent.blk[CurPtr] = b]
<1>1. b \in BlockNo \cup {NOBLOCK}
  BY AllocType DEF ImageInv, TypeOK
<1>2. CurPtr \in Ptr
  BY WritePlace DEF WriteAlloc
<1>3. CASE b = NOBLOCK
  <2>1. disk_read /\ Return("write", Written, -1) /\ UNCHANGED <<nblocks, rootSB>>
    BY <1>3 DEF WriteAlloc
  <2>2. Written \in Nat \X Nat \X Nat
    BY DEF Written, ImageInv, TypeOK, Frame
  <2>3. ResultOK' /\ pc' = "idle" /\ frame' \in Frame
    BY <2>1, <2>2, ReturnTypes
  <2> QED BY <2>1, <2>3, TypeCalls DEF disk_read
<1>4. CASE b # NOBLOCK
  <2>1. /\ disk_write(1, Marked(b)) /\ frame' = f /\ pc = "write"
        /\ UNCHANGED <<nblocks, rootSB, pc, ret>>
    BY <1>4 DEF WriteAlloc
  <2>2. b \in DataPtr /\ OwnBitmap(disk)
    <3>1. OwnBitmap(disk)
      BY <2>1 DEF ImageInv, InWrite
    <3>2. b \notin {0, 1}
      BY <3>1, AllocAndMetadata DEF ImageInv, TypeOK
    <3> QED BY <1>1, <1>4, <3>1, <3>2 DEF DataPtr
  <2>3. Marked(b) \in Block /\ AsBits(disk[1]) \subseteq AsBits(Marked(b))
    BY <2>2, MarkedType, MarkedBits DEF DataPtr
  <2>4. WritesBlock
    <3> DEFINE content == Marked(b)
    <3>1. {0, 1} \subseteq AsBits(content)
      BY <2>2, <2>3 DEF OwnBitmap
    <3>2. disk_write(1, content) /\ content \in Block
      BY <2>1, <2>3
    <3> HIDE DEF content
    <3> QED BY <3>1, <3>2, WriteMarks
  <2>5. f \in Frame
    <3> HIDE DEF b
    <3>1. [frame.dirent.blk EXCEPT ![CurPtr] = b] \in [Ptr -> DataPtr]
      BY <1>2, <2>2 DEF ImageInv, TypeOK, Frame, Dirent
    <3> QED BY <3>1 DEF ImageInv, TypeOK, Frame, Dirent
  <2>6. TypeOK'
    BY <2>1, <2>4, <2>5 DEF ImageInv, TypeOK, ResultOK, WritesBlock
  <2>7. f.cur = frame.cur /\ f.offset = frame.offset /\ f.data = frame.data
    BY DEF ImageInv, TypeOK, Frame
  <2>8. InWrite'
    <3>1. OwnBitmap(disk)'
      BY <2>2, <2>4 DEF WritesBlock, OwnBitmap
    <3> HIDE DEF f
    <3> QED BY <2>1, <2>7, <3>1 DEF ImageInv, InWrite
  <2> QED
    BY <2>1, <2>4, <2>6, <2>8, ImageNext DEF ImageInv, WritesBlock, CreateMarked
<1> QED BY <1>3, <1>4

LEMMA TypeWriteBlock ==
  ASSUME ImageInv, WriteBlock
  PROVE  ImageInv'
<1> USE LayoutAssumption
<1> DEFINE b == frame.dirent.blk[CurPtr]
           dst == frame.cur - frame.offset
           bytes == [o \in Offset |->
                       IF o \in CurInBlock .. CurInBlock + nCopy - 1
                       THEN frame.data[dst + o - CurInBlock + 1]
                       ELSE AsData(disk[b])[o]]
           f == [frame EXCEPT !.cur = @ + nCopy]
<1>0. SUFFICES ASSUME ~Abort PROVE ImageInv'
  BY TypeQuit
<1>1. /\ pc = "write" /\ frame.cur < WriteEnd /\ b # 0 /\ OwnBitmap(disk)
      /\ disk_write(b, DataBlock(bytes)) /\ frame' = f
      /\ UNCHANGED <<nblocks, rootSB, pc, ret>>
  BY <1>0 DEF WriteBlock, ImageInv, InWrite
<1>2. /\ CurPtr \in Ptr /\ CurInBlock \in Offset
      /\ nCopy \in Nat \ {0} /\ CurInBlock + nCopy <= BLOCKSIZE
      /\ frame.cur + nCopy <= WriteEnd
  BY <1>1, WritePlace
<1>3. /\ frame.cur \in Nat /\ frame.offset \in Nat /\ frame.data \in Seq(Byte)
      /\ Len(frame.data) \in Nat /\ frame.offset <= frame.cur
      /\ WriteEnd = frame.offset + Len(frame.data) /\ WriteEnd <= MaxFileSize
      /\ b \in BlockNo \ {1}
  BY <1>1, <1>2 DEF ImageInv, TypeOK, InWrite, Frame, Dirent, DataPtr, WriteEnd
<1>4. bytes \in [Offset -> Byte \cup {Stale}]
  <2>1. AsData(disk[b]) \in [Offset -> Byte \cup {Stale}]
    BY <1>3, ViewTypes DEF ImageInv, TypeOK
  <2>2. ASSUME NEW o \in Offset, o \in CurInBlock .. CurInBlock + nCopy - 1
        PROVE  frame.data[dst + o - CurInBlock + 1] \in Byte
    <3>1. dst + o - CurInBlock + 1 \in 1 .. Len(frame.data)
      BY <1>2, <1>3, <2>2 DEF Offset
    <3> HIDE DEF dst
    <3> QED BY <1>3, <3>1
  <2> HIDE DEF dst, b
  <2> QED BY <2>1, <2>2
<1>5. WritesBlock
  <2>1. DataBlock(bytes) \in Block
    BY <1>4, BlockTypes
  <2>2. b \in Nat \ {0} /\ b # 1
    BY <1>1, <1>3 DEF BlockNo
  <2> HIDE DEF b, bytes
  <2> QED BY <1>1, <2>1, <2>2, WriteMarks
<1>6. /\ f \in Frame /\ f.cur = frame.cur + nCopy
      /\ f.offset = frame.offset /\ f.data = frame.data
  <2>1. frame.cur + nCopy \in Nat /\ frame \in Frame
    BY <1>2, <1>3 DEF ImageInv, TypeOK
  <2> QED BY <2>1 DEF Frame
<1>7. TypeOK'
  BY <1>1, <1>5, <1>6 DEF ImageInv, TypeOK, ResultOK, WritesBlock
<1>8. InWrite'
  <2>1. OwnBitmap(disk)'
    BY <1>1, <1>5 DEF WritesBlock, OwnBitmap
  <2> HIDE DEF f
  <2> QED BY <1>1, <1>2, <1>3, <1>6, <2>1 DEF InWrite
<1> QED
  BY <1>1, <1>5, <1>7, <1>8, ImageNext DEF ImageInv, WritesBlock, CreateMarked

LEMMA TypeWriteDirent ==
  ASSUME ImageInv, WriteDirent
  PROVE  ImageInv'
<1> USE LayoutAssumption
<1> DEFINE b == DirentBlock(frame.inumber)
           s == frame.inumber % DIRENTS_PER_BLOCK
           grown == [frame.dirent EXCEPT !.size = frame.cur]
           new == [AsDir(disk[b]) EXCEPT ![s] = grown]
<1>1. /\ Written \in Nat \X Nat \X Nat /\ Len(frame.data) \in Int
      /\ frame.inumber \in Nat /\ frame.dirent \in Dirent
  BY DEF Written, ImageInv, TypeOK, Frame
<1>2. CASE /\ NoDisk /\ Return("write", Written, Len(frame.data))
           /\ UNCHANGED <<nblocks, rootSB>>
  <2>1. ResultOK' /\ pc' = "idle" /\ frame' \in Frame
    BY <1>1, <1>2, ReturnTypes
  <2> QED BY <1>2, <2>1, TypeCalls DEF NoDisk
<1>3. CASE /\ disk_write(b, DirBlock(new)) /\ Return("write", Written, Len(frame.data))
           /\ UNCHANGED <<nblocks, rootSB>>
  <2>1. frame.cur \in 0 .. MaxFileSize
    BY DEF WriteDirent, ImageInv, TypeOK, InWrite, Frame, MaxFileSize
  <2>2. grown \in Dirent
    BY <1>1, <2>1 DEF Dirent
  <2>3. s \in Slot /\ b \in Nat \ {0, 1}
    <3>1. s \in Slot /\ frame.inumber \div DIRENTS_PER_BLOCK \in Nat
      BY <1>1, DivMod DEF Slot
    <3> QED BY <3>1 DEF DirentBlock
  <2>4. b \in BlockNo => DirBlock(new) \in Block
    <3> SUFFICES ASSUME b \in BlockNo PROVE DirBlock(new) \in Block
      OBVIOUS
    <3> HIDE DEF b, s, grown
    <3>1. AsDir(disk[b]) \in [Slot -> Dirent]
      BY ViewTypes DEF ImageInv, TypeOK
    <3>2. new \in [Slot -> Dirent]
      BY <2>2, <2>3, <3>1
    <3> QED BY <3>2, BlockTypes
  <2>5. WritesBlock
    <3>1. OwnBitmap(disk)
      BY DEF WriteDirent, ImageInv, InWrite
    <3>2. b # 1
      BY <2>3
    <3> HIDE DEF b, new
    <3> QED BY <1>3, <2>3, <2>4, <3>1, <3>2, WriteMarks
  <2>6. ResultOK' /\ pc' = "idle" /\ frame' \in Frame
    BY <1>1, <1>3, ReturnTypes
  <2>7. TypeOK'
    BY <1>3, <2>5, <2>6 DEF ImageInv, TypeOK, WritesBlock
  <2> QED
    BY <1>3, <2>5, <2>6, <2>7, ImageNext DEF ImageInv, WritesBlock, CreateMarked, InWrite
<1>4. CASE GoAstray
  BY <1>4, TypeAstray
<1> QED BY <1>2, <1>3, <1>4 DEF WriteDirent

LEMMA TypeRead ==
  ASSUME ImageInv, NEW inumber \in EntryNumbers(rootSB), NEW length \in ReadLengths,
         NEW offset \in Offsets, Read(inumber, length, offset)
  PROVE  ImageInv'
<1> USE LayoutAssumption, ClientAssumption
<1> DEFINE de == LoadDirent(inumber)
           count == ReadCount(de, length, offset)
<1>1. /\ inumber \in Nat /\ de \in Dirent /\ offset \in Nat /\ length \in Nat
      /\ disk_read
  BY LoadType DEF Read
<1>2. <<inumber, length, offset>> \in Nat \X Nat \X Nat
  BY <1>1
<1>3. CASE /\ ~CanRead(de, offset)
           /\ Return("read", <<inumber, length, offset>>, -1)
           /\ UNCHANGED <<nblocks, rootSB>>
  <2>1. ResultOK' /\ pc' = "idle" /\ frame' \in Frame
    BY <1>2, <1>3, ReturnTypes
  <2> QED BY <1>1, <1>3, <2>1, TypeCalls DEF disk_read
<1>4. CASE /\ CanRead(de, offset)
           /\ ReturnWith("read", <<inumber, length, offset>>, count,
                         FileBytes(disk, de, offset, count))
           /\ UNCHANGED <<nblocks, rootSB>>
  <2>1. count \in Nat /\ offset + count <= MaxFileSize
    BY <1>1, <1>4 DEF CanRead, ReadCount, Dirent, MaxFileSize
  <2>2. FileBytes(disk, de, offset, count) \in Seq(Byte \cup {Stale})
    BY <1>1, <2>1, FileBytesType DEF ImageInv, TypeOK
  <2>3. ResultOK' /\ pc' = "idle" /\ frame' \in Frame
    BY <1>2, <1>4, <2>1, <2>2, ResultTypes
  <2> QED BY <1>1, <1>4, <2>3, TypeCalls DEF disk_read
<1>5. CASE Die
  BY <1>1, <1>5, TypeQuit DEF Read, Quit
<1> QED BY <1>3, <1>4, <1>5 DEF Read

-----------------------------------------------------------------------------
LEMMA TypeStep == ImageInv /\ [Next]_vars => ImageInv'
<1> SUFFICES ASSUME ImageInv, [Next]_vars PROVE ImageInv'
  OBVIOUS
<1>1. CASE Session
  BY <1>1, TypeQuit, TypeStart DEF Session
<1>2. CASE Call
  <2>1. CASE FormatMounted \/ Debug \/ ScanGarbage \/ \E op \in {"read", "write"} : AccessUnmounted(op)
    BY <2>1, TypeOtherCalls
  <2>2. CASE FormatSuper \/ Mount \/ Umount
    BY <2>2, TypeFormat, TypeMount
  <2>3. CASE Lsdir
    BY <2>3, TypeLsdir
  <2>4. ASSUME NEW name \in Names,
               \/ Open(name) \/ CreateFails(name)
               \/ CreateInBlock(name) \/ CreateInNewBlock(name)
        PROVE  ImageInv'
    BY <2>4, TypeScan, TypeCreateInBlock, TypeCreateInNewBlock
  <2>5. ASSUME NEW inumber \in EntryNumbers(rootSB), NEW offset \in Offsets,
               \/ \E data \in Payloads : WriteCall(inumber, data, offset)
               \/ \E length \in ReadLengths : Read(inumber, length, offset)
        PROVE  ImageInv'
    BY <2>5, TypeWriteCall, TypeRead
  <2>6. ASSUME NEW inumber, LoadFails(inumber)
        PROVE  ImageInv'
    BY <2>6, TypeLoadFails
  <2> QED BY <1>2, <2>1, <2>2, <2>3, <2>4, <2>5, <2>6 DEF Call
<1>3. CASE Step
  BY <1>3, TypeFormat, TypeCreateDirent, TypeCreateEnd, TypeWriteAlloc, TypeWriteBlock,
     TypeWriteDirent DEF Step
<1>4. CASE Kill
  BY <1>4, TypeQuit
<1>5. CASE UNCHANGED vars
  <2>1. TypeOK'
    BY <1>5 DEF vars, ImageInv, TypeOK, ResultOK
  <2>2. CreateMarked' /\ InWrite'
    BY <1>5 DEF vars, ImageInv, CreateMarked, InWrite, PastMetadata, OwnBitmap, Root, InUse, NewBlk
  <2> QED BY <1>5, <2>1, <2>2, ImageNext DEF vars, ImageInv
<1> QED BY <1>1, <1>2, <1>3, <1>4, <1>5 DEF Next, NextNoCrash

(* Every behaviour, whatever kill or abort is in it. *)
LEMMA ImageKeepsItsShape == Spec => []ImageInv
  BY TypeInit, TypeStep, PTL DEF Spec

(* Type correctness of the file system. *)
THEOREM TypeCorrect == Spec => []TypeOK
<1>1. ImageInv => TypeOK
  BY DEF ImageInv
<1> QED BY <1>1, ImageKeepsItsShape, PTL

(* Even when a kill has lost the bitmap of fs_format, so that fs_create puts *)
(* the directory over the superblock or the bitmap, fs_write does not: a     *)
(* file can only be written whose directory block was handed out after both  *)
(* were marked.                                                              *)
THEOREM WritesNeverOverMetadata == Spec => []WritesSpareMetadata
<1>1. ImageInv => WritesSpareMetadata
  BY DEF ImageInv, InWrite, WritesSpareMetadata
<1> QED BY <1>1, ImageKeepsItsShape, PTL

-----------------------------------------------------------------------------
(* TypeInv, as long as no kill loses the bitmap of fs_format.               *)

LEMMA RootPlaced ==
  ASSUME NEW sb, RootOK(sb)
  PROVE  Placed(sb)
  BY DEF RootOK, Placed, NOBLOCK

LEMMA EmptyRoot ==
  /\ RootOK(ZeroSB) /\ ~ZeroSB.magic
  BY FrameTypes DEF RootOK, ZeroSB

LEMMA TypeInvInit == Init => TypeInv
<1> SUFFICES ASSUME Init PROVE TypeInv
  OBVIOUS
<1>1. ImageInv
  BY TypeInit
<1>2. Root(disk) = ZeroSB /\ rootSB = ZeroSB /\ stable = disk /\ pc = "down"
  BY LayoutAssumption DEF Init, Root, AsSuper, ZeroBlock, BlockNo
<1> QED
  BY <1>1, <1>2, EmptyRoot DEF TypeInv, FormatComplete, MetadataMarked, InCreate, Mounted

(* What is to be shown of a step besides. *)
LEMMA TypeNext ==
  ASSUME ImageInv', RootOK(rootSB'), RootOK(Root(disk')), RootOK(Root(stable')), InCreate',
         pc' # "format" => MetadataMarked(disk'),
         rootSB'.magic \/ pc' \in {"dirent", "super", "write"} =>
           OwnBitmap(disk') /\ MetadataMarked(stable')
  PROVE  TypeInv'
  BY DEF TypeInv, FormatComplete, RootOK, InUse, Root, MetadataMarked, OwnBitmap, Mounted

(* Most steps leave the superblock alone, in memory and on the disk. *)
LEMMA TypeSameRoot ==
  ASSUME TypeInv, ImageInv', rootSB' = rootSB, Root(disk') = Root(disk),
         OwnBitmap(disk) => OwnBitmap(disk'), stable' \in {stable, disk},
         pc # "format", pc' \in {"idle", "astray", "write"},
         pc' = "write" => Mounted \/ pc = "write"
  PROVE  TypeInv'
<1>1. MetadataMarked(disk) /\ MetadataMarked(disk')
  BY DEF TypeInv, FormatComplete, MetadataMarked
<1>2. RootOK(rootSB') /\ RootOK(Root(disk')) /\ RootOK(Root(stable'))
  BY DEF TypeInv
<1>3. Mounted \/ pc' = "write" => OwnBitmap(disk') /\ MetadataMarked(stable')
  BY <1>1 DEF TypeInv, FormatComplete
<1> QED BY <1>1, <1>2, <1>3, TypeNext DEF InCreate, Mounted

LEMMA TypeInvCalls ==
  ASSUME TypeInv, ImageInv', UNCHANGED <<disk, rootSB>>, stable' \in {stable, disk},
         pc # "format", pc' \in {"idle", "astray"}
  PROVE  TypeInv'
  BY TypeSameRoot DEF OwnBitmap

LEMMA TypeInvDies ==
  ASSUME TypeInv, ImageInv', Die, disk' \in {disk, stable}, stable' = disk',
         MetadataMarked(disk')
  PROVE  TypeInv'
<1>1. RootOK(rootSB') /\ RootOK(Root(disk')) /\ RootOK(Root(stable'))
  BY EmptyRoot DEF TypeInv, Die
<1> QED BY <1>1, EmptyRoot, TypeNext DEF Die, InCreate

LEMMA TypeInvQuit ==
  ASSUME TypeInv, ImageInv',
         \/ Quit
         \/ Kill /\ MetadataMarked(stable)
         \/ Abort /\ (Mounted \/ pc = "write") /\ pc # "format"
  PROVE  TypeInv'
<1>1. CASE Quit
  BY <1>1, TypeInvDies DEF Quit, disk_read, TypeInv, FormatComplete
<1>2. CASE Kill /\ MetadataMarked(stable)
  BY <1>2, TypeInvDies DEF Kill
<1>3. CASE Abort /\ (Mounted \/ pc = "write") /\ pc # "format"
  <2>1. MetadataMarked(disk) /\ MetadataMarked(stable)
    BY <1>3 DEF TypeInv, FormatComplete
  <2> QED BY <1>3, <2>1, TypeInvDies DEF Abort
<1> QED BY <1>1, <1>2, <1>3

LEMMA TypeInvStart ==
  ASSUME TypeInv, ImageInv', NEW n \in DiskSizes, Start(n)
  PROVE  TypeInv'
<1>1. disk'[0] = disk[0] /\ disk'[1] = disk[1]
  BY LayoutAssumption, ClientAssumption DEF Start, BlockNo
<1>2. /\ Root(disk') = Root(disk) /\ OwnBitmap(disk') = OwnBitmap(disk)
      /\ stable' = disk' /\ rootSB' = rootSB /\ pc' = "idle" /\ pc = "down"
  BY <1>1 DEF Start, Root, OwnBitmap
<1>3. MetadataMarked(disk')
  BY <1>2 DEF TypeInv, FormatComplete, MetadataMarked
<1>4. rootSB'.magic => OwnBitmap(disk')
  BY <1>2 DEF TypeInv, FormatComplete, Mounted
<1> QED BY <1>2, <1>3, <1>4, TypeNext DEF TypeInv, InCreate

LEMMA TypeInvFormat ==
  ASSUME TypeInv, ImageInv', FormatSuper \/ FormatBitmap
  PROVE  TypeInv'
<1> USE LayoutAssumption
<1>1. CASE FormatSuper
  <2>1. disk'[0] = SuperBlock(FreshSB) /\ stable' = disk
    BY <1>1 DEF TypeInv, ImageInv, TypeOK, FormatSuper, disk_write, BlockNo
  <2>2. Root(disk') = FreshSB
    BY <2>1 DEF Root, AsSuper, SuperBlock
  <2>3. RootOK(FreshSB)
    BY DEF RootOK, FreshSB, InUse, Ptr
  <2>4. rootSB' = rootSB /\ ~rootSB'.magic /\ pc' = "format"
    BY <1>1 DEF FormatSuper, Mounted, Begin
  <2> QED BY <2>1, <2>2, <2>3, <2>4, TypeNext DEF TypeInv, InCreate
<1>2. CASE FormatBitmap
  <2>1. disk'[0] = disk[0] /\ disk'[1] = BitsBlock({0, 1}) /\ stable' = disk
    BY <1>2 DEF TypeInv, ImageInv, TypeOK, FormatBitmap, disk_write, BlockNo
  <2>2. OwnBitmap(disk') /\ Root(disk') = Root(disk)
    BY <2>1 DEF OwnBitmap, AsBits, BitsBlock, Root
  <2>3. rootSB' = rootSB /\ pc' = "idle"
    BY <1>2 DEF FormatBitmap, Return, ReturnWith
  <2>4. rootSB'.magic => MetadataMarked(stable')
    BY <2>1, <2>3 DEF TypeInv, FormatComplete, Mounted, MetadataMarked
  <2> QED BY <2>1, <2>2, <2>3, <2>4, TypeNext DEF TypeInv, MetadataMarked, InCreate
<1> QED BY <1>1, <1>2

LEMMA TypeInvMount ==
  ASSUME TypeInv, ImageInv', Mount \/ Umount
  PROVE  TypeInv'
<1>1. disk' = disk /\ pc = "idle" /\ pc' = "idle" /\ MetadataMarked(disk)
  BY DEF Mount, Umount, disk_read, NoDisk, Return, ReturnWith, TypeInv, FormatComplete
<1>2. CASE rootSB' = rootSB /\ stable' \in {stable, disk}
  BY <1>1, <1>2, TypeInvCalls
<1>3. CASE rootSB' = Root(disk) /\ Root(disk).magic /\ stable' = disk
  BY <1>1, <1>3, TypeNext DEF TypeInv, MetadataMarked, InCreate
<1>4. CASE rootSB' = ZeroSB /\ stable' = stable
  BY <1>1, <1>4, EmptyRoot, TypeNext DEF TypeInv, InCreate
<1> QED
  BY <1>2, <1>3, <1>4 DEF Mount, Umount, Mountable, disk_read, NoDisk, Root

LEMMA TypeInvCreateInBlock ==
  ASSUME TypeInv, ImageInv', NEW name \in Names, CreateInBlock(name)
  PROVE  TypeInv'
<1>1. UNCHANGED <<disk, rootSB>> /\ stable' = disk /\ Mounted /\ pc = "idle"
  BY DEF CreateInBlock, disk_read, CanCreate
<1>2. NewBlk \in Ptr /\ NewBlk \in InUse(rootSB)
  BY NewEntryPlace, LayoutAssumption
  DEF TypeInv, ImageInv, TypeOK, CreateInBlock, CanCreate, Ptr
<1>3. InCreate'
  BY <1>1, <1>2 DEF TypeInv, RootOK, InCreate, NewBlk
<1>4. OwnBitmap(disk) /\ MetadataMarked(disk)
  BY <1>1 DEF TypeInv, FormatComplete
<1> QED BY <1>1, <1>3, <1>4, TypeNext DEF TypeInv

(* On a mounted volume alloc_block never returns a metadata block. *)
LEMMA AllocNotMetadata ==
  ASSUME TypeInv, Mounted \/ pc = "write", NEW sb \in Superblock
  PROVE  alloc_block(disk, sb) \in {NOBLOCK} \cup (DataPtr \ {0})
<1>1. alloc_block(disk, sb) \notin {0, 1}
  BY AllocAndMetadata DEF TypeInv, FormatComplete
<1> QED BY <1>1, AllocType DEF DataPtr

LEMMA TypeInvCreateInNewBlock ==
  ASSUME TypeInv, ImageInv', NEW name \in Names, CreateInNewBlock(name)
  PROVE  TypeInv'
<1> USE LayoutAssumption
<1> DEFINE b == alloc_block(disk, rootSB)
<1>1. /\ NewBlk \in Ptr /\ NewBlk \notin InUse(rootSB) /\ rootSB \in Superblock
      /\ Mounted /\ pc = "idle"
  BY NewBlockPlace DEF TypeInv, ImageInv, TypeOK, CreateInNewBlock, CanCreate
<1>2. ASSUME NEW c, rootSB' = [rootSB EXCEPT !.blk[NewBlk] = c]
      PROVE  RootOK(rootSB') /\ NewBlk' = NewBlk /\ rootSB'.blk[NewBlk] = c
  <2>1. /\ rootSB'.size = rootSB.size /\ rootSB'.blk = [rootSB.blk EXCEPT ![NewBlk] = c]
    BY <1>1, <1>2 DEF Superblock
  <2>2. \A i \in InUse(rootSB) : rootSB'.blk[i] = rootSB.blk[i]
    BY <1>1, <2>1 DEF Superblock, InUse
  <2>3. rootSB'.blk[NewBlk] = c
    BY <1>1, <2>1 DEF Superblock
  <2> QED BY <2>1, <2>2, <2>3 DEF TypeInv, RootOK, InUse, NewBlk
<1>3. OwnBitmap(disk) /\ MetadataMarked(disk)
  BY <1>1 DEF TypeInv, FormatComplete
<1>4. CASE HoldsBits /\ b = NOBLOCK
  <2>1. /\ rootSB' = [rootSB EXCEPT !.blk[NewBlk] = NOBLOCK]
        /\ disk_read /\ pc' = "idle"
    BY <1>4 DEF CreateInNewBlock, Return, ReturnWith
  <2>2. RootOK(rootSB')
    BY <1>2, <2>1
  <2> QED BY <1>3, <2>1, <2>2, TypeNext DEF TypeInv, disk_read, InCreate
<1>5. CASE HoldsBits /\ b # NOBLOCK
  <2>1. /\ rootSB' = [rootSB EXCEPT !.blk[NewBlk] = b]
        /\ disk_write(1, Marked(b)) /\ pc' = "dirent"
    BY <1>5 DEF CreateInNewBlock, Begin
  <2>2. b \in DataPtr \ {0}
    BY <1>1, <1>5, AllocNotMetadata
  <2>3. b >= 2 /\ b \in BlockNo
    BY <2>2 DEF DataPtr, BlockNo
  <2> HIDE DEF b
  <2>4. RootOK(rootSB') /\ InCreate'
    BY <1>1, <1>2, <2>1, <2>3 DEF InCreate
  <2>5. /\ stable' = disk /\ disk'[0] = disk[0] /\ disk'[1] = Marked(b)
    BY <2>1 DEF TypeInv, ImageInv, TypeOK, disk_write, BlockNo
  <2>6. Root(disk') = Root(disk) /\ OwnBitmap(disk')
    BY <1>3, <2>5, MarkedBits DEF Root, OwnBitmap
  <2> QED
    BY <1>3, <2>4, <2>5, <2>6, TypeNext DEF TypeInv, MetadataMarked
<1>6. CASE ~HoldsBits
  BY <1>1, <1>6, TypeInvCalls DEF CreateInNewBlock, GoAstray, NoDisk
<1> QED BY <1>4, <1>5, <1>6

LEMMA TypeInvCreateDirent ==
  ASSUME TypeInv, ImageInv', CreateDirent
  PROVE  TypeInv'
<1> USE LayoutAssumption
<1> DEFINE b == rootSB.blk[NewBlk]
<1>1. /\ NewBlk \in Ptr /\ b >= 2 /\ pc = "dirent" /\ rootSB \in Superblock
  BY DEF TypeInv, ImageInv, TypeOK, InCreate, CreateDirent
<1>2. /\ disk'[0] = disk[0] /\ disk'[1] = disk[1] /\ stable' = disk /\ pc' = "super"
      /\ rootSB' = [rootSB EXCEPT !.size = @ + 1]
  BY <1>1 DEF CreateDirent, disk_write, TypeInv, ImageInv, TypeOK, BlockNo
<1>3. Root(disk') = Root(disk) /\ OwnBitmap(disk') = OwnBitmap(disk)
  BY <1>2 DEF Root, OwnBitmap
<1>4. RootOK(rootSB')
  <2>1. rootSB'.blk = rootSB.blk
    BY <1>1, <1>2 DEF Superblock
  <2>2. \A i \in InUse([rootSB EXCEPT !.size = @ + 1]) : i \in InUse(rootSB) \/ i = NewBlk
    BY <1>1, RootGrows DEF NewBlk
  <2> QED BY <1>1, <1>2, <2>1, <2>2 DEF TypeInv, RootOK
<1>5. OwnBitmap(disk) /\ MetadataMarked(disk)
  BY <1>1 DEF TypeInv, FormatComplete
<1> QED
  BY <1>2, <1>3, <1>4, <1>5, TypeNext DEF TypeInv, MetadataMarked, InCreate

LEMMA TypeInvCreateEnd ==
  ASSUME TypeInv, ImageInv', CreateSuper \/ CreateAborts
  PROVE  TypeInv'
<1> USE LayoutAssumption
<1> DEFINE new == [disk EXCEPT ![0] = SuperBlock(rootSB)]
<1>1. new[0] = SuperBlock(rootSB) /\ new[1] = disk[1]
  BY DEF TypeInv, ImageInv, TypeOK, BlockNo
<1>2. Root(new) = rootSB /\ OwnBitmap(new) = OwnBitmap(disk)
  BY <1>1 DEF Root, AsSuper, SuperBlock, OwnBitmap
<1> HIDE DEF new
<1>3. OwnBitmap(disk) /\ MetadataMarked(disk) /\ MetadataMarked(new)
  BY <1>2 DEF CreateSuper, CreateAborts, TypeInv, FormatComplete, MetadataMarked
<1>4. CASE CreateSuper
  <2>1. disk' = new /\ stable' = disk /\ rootSB' = rootSB /\ pc' = "idle"
    BY <1>4 DEF CreateSuper, disk_write, Return, ReturnWith, new
  <2> QED BY <1>2, <1>3, <2>1, TypeNext DEF TypeInv, InCreate
<1>5. CASE CreateAborts
  <2>1. disk' \in {disk, new} /\ stable' = disk' /\ rootSB' = ZeroSB /\ pc' = "down"
    BY <1>5 DEF CreateAborts, Die, new
  <2>2. RootOK(Root(disk')) /\ MetadataMarked(disk')
    BY <1>2, <1>3, <2>1 DEF TypeInv
  <2> QED BY <2>1, <2>2, EmptyRoot, TypeNext DEF InCreate
<1> QED BY <1>4, <1>5

LEMMA TypeInvAccess ==
  ASSUME TypeInv, ImageInv', NEW inumber \in EntryNumbers(rootSB),
         \/ LoadFails(inumber)
         \/ \E data \in Payloads, offset \in Offsets : WriteCall(inumber, data, offset)
         \/ \E length \in ReadLengths, offset \in Offsets : Read(inumber, length, offset)
  PROVE  TypeInv'
<1>1. CASE LoadFails(inumber)
  <2>1. CASE Abort
    BY <1>1, <2>1, TypeInvQuit DEF LoadFails
  <2>2. CASE GoAstray
    BY <1>1, <2>2, TypeInvCalls DEF LoadFails, GoAstray, NoDisk
  <2> QED BY <1>1, <2>1, <2>2 DEF LoadFails
<1>2. ASSUME NEW data \in Payloads, NEW offset \in Offsets, WriteCall(inumber, data, offset)
      PROVE  TypeInv'
  BY <1>2, TypeSameRoot DEF WriteCall, disk_read, Begin, Return, ReturnWith
<1>3. ASSUME NEW length \in ReadLengths, NEW offset \in Offsets, Read(inumber, length, offset)
      PROVE  TypeInv'
  <2>1. disk_read /\ pc = "idle"
    BY <1>3 DEF Read
  <2>2. CASE UNCHANGED rootSB /\ pc' = "idle"
    BY <2>1, <2>2, TypeInvCalls DEF disk_read
  <2>3. CASE Die
    BY <2>1, <2>3, TypeInvQuit DEF Quit
  <2> QED BY <1>3, <2>1, <2>2, <2>3 DEF Read, Return, ReturnWith
<1> QED BY <1>1, <1>2, <1>3

LEMMA TypeInvWrite ==
  ASSUME TypeInv, ImageInv', WriteAlloc \/ WriteBlock \/ WriteDirent
  PROVE  TypeInv'
<1> USE LayoutAssumption
<1>1. pc = "write" /\ OwnBitmap(disk)
  BY DEF TypeInv, ImageInv, InWrite, WriteAlloc, WriteBlock, WriteDirent
<1>2. CASE Abort
  BY <1>1, <1>2, TypeInvQuit
<1>3. CASE GoAstray
  BY <1>1, <1>3, TypeInvCalls DEF GoAstray, NoDisk
<1>4. CASE NoDisk /\ UNCHANGED rootSB /\ pc' = "idle"
  BY <1>1, <1>4, TypeInvCalls DEF NoDisk
<1>5. CASE disk_read /\ UNCHANGED rootSB /\ pc' = "idle"
  BY <1>1, <1>5, TypeInvCalls DEF disk_read
<1>6. ASSUME NEW n \in Nat \ {0}, NEW content, disk_write(n, content),
             n = 1 => AsBits(disk[1]) \subseteq AsBits(content),
             rootSB' = rootSB, pc' \in {"idle", "write"}
      PROVE  TypeInv'
  <2>1. disk \in [BlockNo -> Block] /\ 0 \in BlockNo /\ 1 \in BlockNo
    BY DEF TypeInv, ImageInv, TypeOK, BlockNo
  <2>2. stable' = disk /\ disk'[0] = disk[0] /\ AsBits(disk[1]) \subseteq AsBits(disk'[1])
    BY <1>6, <2>1 DEF disk_write
  <2>3. Root(disk') = Root(disk) /\ OwnBitmap(disk')
    BY <1>1, <2>2 DEF Root, OwnBitmap
  <2> QED BY <1>1, <1>6, <2>2, <2>3, TypeSameRoot
<1>7. CASE WriteAlloc
  <2> DEFINE b == alloc_block(disk, rootSB)
  <2>1. CASE b = NOBLOCK
    BY <1>5, <1>7, <2>1 DEF WriteAlloc, Return, ReturnWith
  <2>2. CASE b # NOBLOCK
    <3>1. disk_write(1, Marked(b)) /\ rootSB' = rootSB /\ pc' = "write"
      BY <1>1, <1>7, <2>2 DEF WriteAlloc
    <3> HIDE DEF b
    <3> QED BY <1>6, <3>1, MarkedBits
  <2> QED BY <2>1, <2>2
<1>8. CASE WriteBlock
  <2> DEFINE b == frame.dirent.blk[CurPtr]
  <2>1. b \in Nat \ {0, 1}
    BY <1>8, WritePlace DEF WriteBlock, TypeInv, ImageInv, TypeOK, Frame, Dirent, DataPtr, BlockNo
  <2>2. CASE ~Abort
    <3>1. /\ \E content : disk_write(b, content)
          /\ rootSB' = rootSB /\ pc' = "write"
      BY <1>1, <1>8, <2>2 DEF WriteBlock
    <3> HIDE DEF b
    <3> QED BY <1>6, <2>1, <3>1
  <2> QED BY <1>2, <2>2
<1>9. CASE WriteDirent
  <2> DEFINE b == DirentBlock(frame.inumber)
  <2>1. b \in Nat \ {0, 1}
    <3>1. frame.inumber \div DIRENTS_PER_BLOCK \in Nat
      BY DivMod DEF TypeInv, ImageInv, TypeOK, Frame
    <3> QED BY <3>1 DEF DirentBlock
  <2>2. CASE NoDisk
    BY <1>3, <1>4, <1>9, <2>2 DEF WriteDirent, Return, ReturnWith
  <2>3. ASSUME NEW content, disk_write(b, content), UNCHANGED rootSB, pc' = "idle"
        PROVE  TypeInv'
    <3> HIDE DEF b
    <3> QED BY <1>6, <2>1, <2>3
  <2> QED BY <1>3, <1>9, <2>2, <2>3 DEF WriteDirent, Return, ReturnWith
<1> QED BY <1>7, <1>8, <1>9

LEMMA TypeInvStep == TypeInv /\ [NextFormatted]_vars => TypeInv'
<1> SUFFICES ASSUME TypeInv, [NextFormatted]_vars PROVE TypeInv'
  OBVIOUS
<1>1. ImageInv'
  BY TypeStep DEF TypeInv, NextFormatted, Next
<1>2. CASE Session
  BY <1>1, <1>2, TypeInvQuit, TypeInvStart DEF Session
<1>3. CASE Call
  <2>1. CASE \/ FormatMounted \/ Lsdir \/ Debug \/ ScanGarbage
             \/ \E op \in {"read", "write"} : AccessUnmounted(op)
    <3>1. /\ UNCHANGED <<disk, rootSB>> /\ stable' \in {stable, disk}
          /\ pc = "idle" /\ pc' \in {"idle", "astray"}
      BY <2>1
      DEF FormatMounted, Lsdir, Debug, ScanGarbage, AccessUnmounted, ScanDirectory, GoAstray,
          disk_read, NoDisk, Return, ReturnWith
    <3> QED BY <1>1, <3>1, TypeInvCalls
  <2>2. CASE FormatSuper \/ Mount \/ Umount
    BY <1>1, <2>2, TypeInvFormat, TypeInvMount
  <2>3. ASSUME NEW name \in Names, Open(name) \/ CreateFails(name)
        PROVE  TypeInv'
    <3>1. /\ UNCHANGED <<disk, rootSB>> /\ stable' \in {stable, disk}
          /\ pc = "idle" /\ pc' = "idle"
      BY <2>3 DEF Open, CreateFails, ScanDirectory, disk_read, NoDisk, Return, ReturnWith
    <3> QED BY <1>1, <3>1, TypeInvCalls
  <2>4. ASSUME NEW name \in Names, CreateInBlock(name) \/ CreateInNewBlock(name)
        PROVE  TypeInv'
    BY <1>1, <2>4, TypeInvCreateInBlock, TypeInvCreateInNewBlock
  <2>5. ASSUME NEW inumber \in EntryNumbers(rootSB),
               \/ LoadFails(inumber)
               \/ \E data \in Payloads, offset \in Offsets : WriteCall(inumber, data, offset)
               \/ \E length \in ReadLengths, offset \in Offsets : Read(inumber, length, offset)
        PROVE  TypeInv'
    BY <1>1, <2>5, TypeInvAccess
  <2> QED BY <1>3, <2>1, <2>2, <2>3, <2>4, <2>5 DEF Call
<1>4. CASE Step
  BY <1>1, <1>4, TypeInvFormat, TypeInvCreateDirent, TypeInvCreateEnd, TypeInvWrite DEF Step
<1>5. CASE Kill /\ MetadataMarked(stable)
  BY <1>1, <1>5, TypeInvQuit
<1>6. CASE UNCHANGED vars
  BY <1>1, <1>6
  DEF vars, TypeInv, FormatComplete, MetadataMarked, OwnBitmap, Mounted, RootOK, Root, InUse,
      InCreate, NewBlk
<1> QED BY <1>2, <1>3, <1>4, <1>5, <1>6 DEF NextFormatted, NextNoCrash

(* Whatever kill there is but those that lose the bitmap of fs_format, and  *)
(* whatever abort, the directory is never in a metadata block: no call of   *)
(* fs.c, stopped at any disk_write, leaves a superblock whose directory is  *)
(* in one or has an unallocated block.                                      *)
THEOREM DirectoryBlocksExist == SpecFormatted => []TypeInv
<1>1. Init => TypeInv
  BY TypeInvInit
<1>2. TypeInv /\ [NextFormatted]_vars => TypeInv'
  BY TypeInvStep
<1> QED BY <1>1, <1>2, PTL DEF SpecFormatted

-----------------------------------------------------------------------------
(* How Sound carries over from one disk, or root directory, to another.     *)

LEMMA SoundLater ==
  ASSUME NEW D, NEW E, NEW sb, Sound(D, sb),
         AsBits(D[1]) \subseteq AsBits(E[1]),
         \A i \in InUse(sb), s \in Slot, p \in Ptr :
           SlotPtr(E, sb, i, s, p) \in {0, SlotPtr(D, sb, i, s, p)}
  PROVE  Sound(E, sb)
  BY DEF Sound, MarkedIn

LEMMA SoundPart ==
  ASSUME NEW D, NEW old, NEW new, PartOf(old, new), Sound(D, new)
  PROVE  Sound(D, old)
<1>1. \A i \in InUse(old), s \in Slot, p \in Ptr :
        SlotPtr(D, old, i, s, p) = SlotPtr(D, new, i, s, p)
  BY DEF PartOf, SlotPtr
<1> QED BY <1>1 DEF Sound, PartOf

LEMMA SoundEmpty ==
  ASSUME NEW D, NEW sb, InUse(sb) = {}
  PROVE  Sound(D, sb)
  BY DEF Sound

LEMMA PartOfItself ==
  ASSUME NEW sb
  PROVE  PartOf(sb, sb)
  BY DEF PartOf

(* The pointers of a directory's slots are data blocks. *)
LEMMA SlotPtrType ==
  ASSUME NEW D \in [BlockNo -> Block], NEW sb \in Superblock, RootOK(sb),
         NEW i \in InUse(sb)
  PROVE  /\ sb.blk[i] \in BlockNo /\ sb.blk[i] >= 2
         /\ \A s \in Slot, p \in Ptr : SlotPtr(D, sb, i, s, p) \in DataPtr
<1>1. sb.blk[i] \in BlockNo /\ sb.blk[i] >= 2
  BY LayoutAssumption DEF RootOK, InUse, Superblock, BlockNo, NOBLOCK
<1>2. AsDir(D[sb.blk[i]]) \in [Slot -> Dirent]
  BY <1>1, ViewTypes
<1> QED BY <1>1, <1>2 DEF SlotPtr, Dirent

(* Writing a block that is no directory block. *)
LEMMA WriteElsewhere ==
  ASSUME TypeInv, NEW n, NEW content, disk_write(n, content),
         NEW sb \in Superblock, RootOK(sb),
         \A i \in InUse(sb) : sb.blk[i] # n
  PROVE  \A i \in InUse(sb), s \in Slot, p \in Ptr :
           SlotPtr(disk', sb, i, s, p) = SlotPtr(disk, sb, i, s, p)
<1>1. \A i \in InUse(sb) : disk'[sb.blk[i]] = disk[sb.blk[i]]
  BY SlotPtrType DEF TypeInv, ImageInv, TypeOK, disk_write
<1> QED BY <1>1 DEF SlotPtr

-----------------------------------------------------------------------------
LEMMA SharingInit == Init => SharingInv
<1> SUFFICES ASSUME Init PROVE SharingInv
  OBVIOUS
<1>1. Root(disk) = ZeroSB /\ rootSB = ZeroSB /\ stable = disk
  BY LayoutAssumption DEF Init, Root, AsSuper, ZeroBlock, BlockNo
<1>2. InUse(ZeroSB) = {} /\ ~Mounted
  BY <1>1, LayoutAssumption DEF InUse, ZeroSB, Ptr, Mounted
<1> QED
  BY <1>1, <1>2, TypeInvInit, SoundEmpty DEF SharingInv, CacheSound, CallSound, FrameSound, Init

(* The calls that change neither the image nor the root directory. *)
LEMMA SharingCalls ==
  ASSUME SharingInv, TypeInv', UNCHANGED <<disk, rootSB>>, stable' \in {stable, disk},
         pc' \in {"idle", "astray"}
  PROVE  SharingInv'
<1>1. Sound(disk, Root(disk))' /\ Sound(stable, Root(stable))'
  BY DEF SharingInv, Root
<1>2. CacheSound'
  BY DEF SharingInv, CacheSound, Root, Mounted
<1>3. CallSound' /\ FrameSound'
  BY DEF CallSound, FrameSound
<1> QED BY <1>1, <1>2, <1>3 DEF SharingInv

LEMMA SharingQuit ==
  ASSUME SharingInv, TypeInv', Quit \/ Kill \/ Abort
  PROVE  SharingInv'
<1>1. Sound(disk, Root(disk))' /\ Sound(stable, Root(stable))'
  BY DEF SharingInv, Root, Quit, Kill, Abort, disk_read
<1>2. InUse(rootSB') = {} /\ ~Mounted' /\ pc' = "down"
  BY FrameTypes, EmptyRoot DEF Quit, Kill, Abort, Die, Mounted
<1> QED
  BY <1>1, <1>2, SoundEmpty DEF SharingInv, CacheSound, CallSound, FrameSound

(* The blocks disk_init cuts off or adds are zero. *)
LEMMA SharingStart ==
  ASSUME SharingInv, TypeInv', NEW n \in DiskSizes, Start(n)
  PROVE  SharingInv'
<1>1. /\ stable' = disk' /\ disk'[0] = disk[0] /\ disk'[1] = disk[1]
      /\ rootSB' = rootSB /\ pc' = "idle"
      /\ \A m \in BlockNo : disk'[m] \in {disk[m], ZeroBlock}
  BY LayoutAssumption, ClientAssumption DEF Start, BlockNo
<1>2. ASSUME NEW sb \in Superblock, RootOK(sb), Sound(disk, sb)
      PROVE  Sound(disk', sb)
  <2>1. ASSUME NEW i \in InUse(sb), NEW s \in Slot, NEW p \in Ptr
        PROVE  SlotPtr(disk', sb, i, s, p) \in {0, SlotPtr(disk, sb, i, s, p)}
    <3>1. sb.blk[i] \in BlockNo
      BY <1>2, SlotPtrType DEF SharingInv, TypeInv, ImageInv, TypeOK
    <3>2. CASE disk'[sb.blk[i]] = disk[sb.blk[i]]
      BY <3>2 DEF SlotPtr
    <3>3. CASE disk'[sb.blk[i]] = ZeroBlock
      BY <3>3 DEF SlotPtr, AsDir, ZeroBlock, EmptyDir, NullDirent
    <3> QED BY <1>1, <3>1, <3>2, <3>3
  <2> QED BY <1>1, <1>2, <2>1, SoundLater
<1>3. /\ Root(disk)' = Root(disk) /\ Root(stable)' = Root(disk)
      /\ Root(disk) \in Superblock
  BY <1>1, ViewTypes, LayoutAssumption DEF Root, SharingInv, TypeInv, ImageInv, TypeOK, BlockNo
<1>4. Sound(disk, Root(disk))' /\ Sound(stable, Root(stable))' /\ Sound(disk', rootSB')
  BY <1>1, <1>2, <1>3 DEF SharingInv, TypeInv, ImageInv, TypeOK, CacheSound
<1>5. CacheSound'
  BY <1>1, <1>3, <1>4 DEF SharingInv, CacheSound, Mounted
<1> QED
  BY <1>1, <1>4, <1>5 DEF SharingInv, CallSound, FrameSound

LEMMA SharingFormat ==
  ASSUME SharingInv, TypeInv', FormatSuper \/ FormatBitmap
  PROVE  SharingInv'
<1> USE LayoutAssumption
<1>1. /\ ~Mounted /\ rootSB' = rootSB /\ stable' = disk
      /\ pc' \in {"format", "idle"}
  BY DEF FormatSuper, FormatBitmap, SharingInv, CallSound, disk_write, Begin, Return, ReturnWith
<1>2. InUse(Root(disk)') = {}
  <2>1. CASE FormatSuper
    <3>1. disk'[0] = SuperBlock(FreshSB)
      BY <2>1 DEF FormatSuper, disk_write, SharingInv, TypeInv, ImageInv, TypeOK, BlockNo
    <3> QED BY <3>1 DEF Root, AsSuper, SuperBlock, FreshSB, InUse, Ptr
  <2>2. CASE FormatBitmap
    <3>1. disk'[0] = disk[0]
      BY <2>2 DEF FormatBitmap, disk_write, SharingInv, TypeInv, ImageInv, TypeOK, BlockNo
    <3> QED BY <2>2, <3>1 DEF Root, FormatBitmap, SharingInv, CallSound
  <2> QED BY <2>1, <2>2
<1>3. Sound(disk, Root(disk))' /\ Sound(stable, Root(stable))'
  BY <1>1, <1>2, SoundEmpty DEF SharingInv, Root
<1>4. CacheSound' /\ ~Mounted'
  BY <1>1, SoundEmpty DEF SharingInv, CacheSound, Mounted
<1> QED
  BY <1>1, <1>2, <1>3, <1>4 DEF SharingInv, CallSound, FrameSound

LEMMA SharingMount ==
  ASSUME SharingInv, TypeInv', Mount \/ Umount
  PROVE  SharingInv'
<1>1. /\ disk' = disk /\ stable' \in {stable, disk} /\ pc' = "idle"
      /\ \/ rootSB' \in {rootSB, ZeroSB}
         \/ rootSB' = Root(disk) /\ Mountable(Root(disk))
  <2>1. CASE Mount
    <3>1. CASE Mounted
      BY <2>1, <3>1 DEF Mount, NoDisk, Return, ReturnWith
    <3>2. CASE ~Mounted
      BY <2>1, <3>2 DEF Mount, disk_read, Root, Return, ReturnWith
    <3> QED BY <3>1, <3>2
  <2>2. CASE Umount
    BY <2>2 DEF Umount, NoDisk, Return, ReturnWith
  <2> QED BY <2>1, <2>2
<1>2. Sound(disk, Root(disk))' /\ Sound(stable, Root(stable))'
  BY <1>1 DEF SharingInv, Root
<1>3. CASE rootSB' = rootSB
  BY <1>1, <1>3, SharingCalls
<1>4. CASE rootSB' = ZeroSB
  <2>1. InUse(rootSB') = {} /\ ~Mounted'
    BY <1>4, LayoutAssumption DEF InUse, ZeroSB, Ptr, Mounted
  <2> QED
    BY <1>1, <1>2, <2>1, SoundEmpty DEF SharingInv, CacheSound, CallSound, FrameSound
<1>5. CASE rootSB' = Root(disk) /\ Mountable(Root(disk))
  <2>1. CacheSound'
    BY <1>1, <1>2, <1>5, PartOfItself DEF CacheSound, Mounted, Mountable, Root
  <2> QED
    BY <1>1, <1>2, <2>1 DEF SharingInv, CallSound, FrameSound
<1> QED BY <1>1, <1>3, <1>4, <1>5

-----------------------------------------------------------------------------
LEMMA SharingCreateInBlock ==
  ASSUME SharingInv, TypeInv', NEW name \in Names, CreateInBlock(name)
  PROVE  SharingInv'
<1>1. /\ UNCHANGED <<disk, rootSB>> /\ stable' = disk /\ pc' = "dirent"
      /\ Mounted /\ NewSlot # 0
  BY DEF CreateInBlock, CanCreate, disk_read, Begin
<1>2. Sound(disk, Root(disk))' /\ Sound(stable, Root(stable))'
  BY <1>1 DEF SharingInv, Root
<1>3. CacheSound' /\ CallSound'
  BY <1>1 DEF SharingInv, CacheSound, CallSound, Root, Mounted, NewSlot
<1> QED BY <1>1, <1>2, <1>3 DEF SharingInv, FrameSound

(* A free block is not referred to: what is referred to is marked. *)
LEMMA AllocFree ==
  ASSUME SharingInv, Mounted \/ pc = "write", alloc_block(disk, rootSB) # NOBLOCK
  PROVE  /\ alloc_block(disk, rootSB) \in DataPtr \ {0}
         /\ ~MarkedIn(disk, alloc_block(disk, rootSB))
         /\ Unheld(disk, rootSB, alloc_block(disk, rootSB))
<1> DEFINE b == alloc_block(disk, rootSB)
<1>1. b \in DataPtr /\ b \in FreeBlocks(disk, rootSB) /\ b # 0
  BY AllocType, AllocNotMetadata DEF SharingInv, TypeInv, ImageInv, TypeOK
<1>2. ~MarkedIn(disk, b)
  BY <1>1 DEF MarkedIn, FreeBlocks
<1>3. Unheld(disk, rootSB, b)
  <2> HIDE DEF b
  <2> QED BY <1>1, <1>2 DEF Unheld, SharingInv, CacheSound, Sound
<1> QED BY <1>1, <1>2, <1>3

(* Marking a block disturbs nothing. *)
LEMMA MarkSound ==
  ASSUME TypeInv, NEW b \in BlockNo, disk_write(1, Marked(b))
  PROVE  /\ \A sb \in Superblock : RootOK(sb) =>
              /\ \A i \in InUse(sb), s \in Slot, p \in Ptr :
                   SlotPtr(disk', sb, i, s, p) = SlotPtr(disk, sb, i, s, p)
              /\ Sound(disk, sb) => Sound(disk', sb)
         /\ AsBits(disk'[1]) = AsBits(disk[1]) \cup {b % BLOCKSIZE}
         /\ Root(disk)' = Root(disk)
<1>1. /\ AsBits(disk'[1]) = AsBits(disk[1]) \cup {b % BLOCKSIZE}
      /\ disk'[0] = disk[0]
  BY LayoutAssumption
  DEF TypeInv, ImageInv, TypeOK, disk_write, Marked, BitsBlock, AsBits, BlockNo
<1>2. ASSUME NEW sb \in Superblock, RootOK(sb)
      PROVE  \A i \in InUse(sb), s \in Slot, p \in Ptr :
               SlotPtr(disk', sb, i, s, p) = SlotPtr(disk, sb, i, s, p)
  <2>1. \A i \in InUse(sb) : sb.blk[i] # 1
    BY <1>2, SlotPtrType DEF TypeInv, ImageInv, TypeOK
  <2> QED BY <1>2, <2>1, WriteElsewhere
<1>3. ASSUME NEW sb \in Superblock, RootOK(sb), Sound(disk, sb)
      PROVE  Sound(disk', sb)
  BY <1>1, <1>2, <1>3, SoundLater
<1> QED BY <1>1, <1>2, <1>3 DEF Root

LEMMA SharingCreateInNewBlock ==
  ASSUME SharingInv, TypeInv', NEW name \in Names, CreateInNewBlock(name)
  PROVE  SharingInv'
<1> DEFINE b == alloc_block(disk, rootSB)
<1>1. /\ NewBlk \in Ptr /\ NewBlk \notin InUse(rootSB)
      /\ Mounted /\ PartOf(Root(disk), rootSB) /\ Sound(disk, rootSB)
      /\ rootSB \in Superblock /\ RootOK(rootSB)
      /\ Root(disk) \in Superblock /\ RootOK(Root(disk))
  BY NewBlockPlace, ViewTypes, LayoutAssumption
  DEF SharingInv, TypeInv, ImageInv, TypeOK, CacheSound, CreateInNewBlock, CanCreate, Root, BlockNo
<1>2. ASSUME NEW c, rootSB' = [rootSB EXCEPT !.blk[NewBlk] = c]
      PROVE  /\ InUse(rootSB') = InUse(rootSB)
             /\ \A i \in InUse(rootSB) : rootSB'.blk[i] = rootSB.blk[i]
             /\ PartOf(rootSB', rootSB) /\ PartOf(Root(disk), rootSB')
             /\ rootSB'.blk[NewBlk] = c /\ NewBlk' = NewBlk /\ Mounted'
  <2>1. rootSB'.size = rootSB.size /\ rootSB'.blk = [rootSB.blk EXCEPT ![NewBlk] = c]
    BY <1>1, <1>2 DEF Superblock
  <2>2. /\ InUse(rootSB') = InUse(rootSB) /\ rootSB'.blk[NewBlk] = c
        /\ \A i \in InUse(rootSB) : rootSB'.blk[i] = rootSB.blk[i]
    BY <1>1, <2>1 DEF Superblock, InUse
  <2> QED BY <1>1, <1>2, <2>1, <2>2 DEF PartOf, NewBlk, Mounted, Superblock
<1>3. CASE HoldsBits /\ b = NOBLOCK
  <2>1. /\ rootSB' = [rootSB EXCEPT !.blk[NewBlk] = NOBLOCK] /\ disk_read /\ pc' = "idle"
    BY <1>3 DEF CreateInNewBlock, Return, ReturnWith
  <2>2. Sound(disk, Root(disk))' /\ Sound(stable, Root(stable))'
    BY <2>1 DEF SharingInv, Root, disk_read
  <2>3. CacheSound'
    BY <1>1, <1>2, <2>1, SoundPart DEF CacheSound, Root, disk_read
  <2> QED BY <2>1, <2>2, <2>3 DEF SharingInv, CallSound, FrameSound
<1>4. CASE HoldsBits /\ b # NOBLOCK
  <2>1. /\ rootSB' = [rootSB EXCEPT !.blk[NewBlk] = b] /\ disk_write(1, Marked(b))
        /\ pc' = "dirent" /\ stable' = disk
    BY <1>4 DEF CreateInNewBlock, Begin, disk_write
  <2>2. b \in BlockNo /\ ~MarkedIn(disk, b) /\ Unheld(disk, rootSB, b)
    BY <1>1, <1>4, AllocFree DEF DataPtr
  <2> HIDE DEF b
  <2>3. /\ Sound(disk', rootSB) /\ Sound(disk', Root(disk)) /\ Root(disk)' = Root(disk)
        /\ MarkedIn(disk', b)
        /\ \A i \in InUse(rootSB), s \in Slot, p \in Ptr :
             SlotPtr(disk', rootSB, i, s, p) = SlotPtr(disk, rootSB, i, s, p)
    BY <1>1, <2>1, <2>2, MarkSound DEF SharingInv, MarkedIn
  <2>4. Sound(disk, Root(disk))' /\ Sound(stable, Root(stable))'
    BY <2>1, <2>3 DEF SharingInv, Root
  <2>5. CacheSound'
    BY <1>2, <2>1, <2>3, SoundPart DEF CacheSound
  <2>6. Unheld(disk', rootSB', b)
    BY <1>2, <2>1, <2>2, <2>3 DEF Unheld, SlotPtr
  <2>7. CallSound'
    BY <1>2, <2>1, <2>3, <2>6 DEF CallSound
  <2> QED BY <2>1, <2>4, <2>5, <2>7 DEF SharingInv, FrameSound
<1>5. CASE ~HoldsBits
  BY <1>5, SharingCalls DEF CreateInNewBlock, GoAstray, NoDisk
<1> QED BY <1>3, <1>4, <1>5

(* The pointers of the block that add_dirent writes: nothing is added. *)
LEMMA CreateDirentPtrs ==
  ASSUME SharingInv, CreateDirent
  PROVE  /\ rootSB'.blk = rootSB.blk /\ NewBlk \in Ptr
         /\ \A i \in Ptr : i \in InUse(rootSB') <=> i \in InUse(rootSB) \/ i = NewBlk
         /\ AsBits(disk'[1]) = AsBits(disk[1]) /\ Root(disk)' = Root(disk)
         /\ \A s \in Slot, p \in Ptr :
              SlotPtr(disk', rootSB', NewBlk, s, p) \in
                IF NewSlot = 0 THEN {0} ELSE {0, SlotPtr(disk, rootSB, NewBlk, s, p)}
         /\ \A i \in InUse(rootSB), s \in Slot, p \in Ptr :
              i # NewBlk =>
                SlotPtr(disk', rootSB', i, s, p) = SlotPtr(disk, rootSB, i, s, p)
<1> USE LayoutAssumption
<1> DEFINE b == rootSB.blk[NewBlk]
           diri == IF NewSlot = 0 THEN EmptyDir ELSE AsDir(disk[b])
           old == diri[NewSlot]
           new == [diri EXCEPT ![NewSlot] = NewDirent(old, frame.name)]
<1>1. /\ NewBlk \in Ptr /\ b \in BlockNo /\ b >= 2
      /\ NewSlot \in Slot
  BY NewEntryPlace DEF SharingInv, TypeInv, ImageInv, TypeOK, InCreate, CreateDirent, Superblock,
     DataPtr, BlockNo, NOBLOCK
<1>2. /\ disk' = [disk EXCEPT ![b] = DirBlock(new)]
      /\ rootSB' = [rootSB EXCEPT !.size = @ + 1]
  BY DEF CreateDirent, disk_write
<1>3. rootSB'.blk = rootSB.blk /\ rootSB'.size = rootSB.size + 1 /\ rootSB.size \in Nat
  BY <1>2 DEF SharingInv, TypeInv, ImageInv, TypeOK, Superblock
<1>4. ASSUME NEW i \in Ptr
      PROVE  i \in InUse(rootSB') <=> i \in InUse(rootSB) \/ i = NewBlk
  <2>1. NewBlk \in Nat /\ rootSB.size = DIRENTS_PER_BLOCK * NewBlk + NewSlot
    BY NewEntryPlace DEF SharingInv, TypeInv, ImageInv, TypeOK
  <2>2. NewBlk * DIRENTS_PER_BLOCK < rootSB.size + 1
    BY <1>1, <2>1 DEF Slot
  <2>3. i * DIRENTS_PER_BLOCK < rootSB.size + 1 =>
          i * DIRENTS_PER_BLOCK < rootSB.size \/ i = NewBlk
    BY <1>3, DivOfProduct DEF Ptr, NewBlk
  <2>4. i * DIRENTS_PER_BLOCK < rootSB.size => i * DIRENTS_PER_BLOCK < rootSB.size + 1
    BY <1>3, DivOfProduct DEF Ptr
  <2> QED BY <1>3, <2>2, <2>3, <2>4 DEF InUse
<1>5. /\ disk'[b] = DirBlock(new)
      /\ \A m \in BlockNo : m # b => disk'[m] = disk[m]
  BY <1>1, <1>2 DEF SharingInv, TypeInv, ImageInv, TypeOK
<1>6. AsBits(disk'[1]) = AsBits(disk[1]) /\ Root(disk)' = Root(disk)
  BY <1>1, <1>5 DEF Root, BlockNo
<1>7. diri \in [Slot -> Dirent]
  <2>1. AsDir(disk[b]) \in [Slot -> Dirent]
    BY <1>1, ViewTypes DEF SharingInv, TypeInv, ImageInv, TypeOK
  <2>2. EmptyDir \in [Slot -> Dirent]
    BY DEF EmptyDir, NullDirent, Dirent, Ptr, DataPtr, BlockNo, MaxFileSize
  <2> QED BY <2>1, <2>2
<1>8. ASSUME NEW s \in Slot, NEW p \in Ptr
      PROVE  /\ SlotPtr(disk', rootSB', NewBlk, s, p) = new[s].blk[p]
             /\ new[s].blk[p] \in {0, diri[s].blk[p]}
  <2>1. SlotPtr(disk', rootSB', NewBlk, s, p) = new[s].blk[p]
    <3> HIDE DEF new
    <3> QED BY <1>3, <1>5 DEF SlotPtr, AsDir, DirBlock
  <2>2. new[s].blk[p] \in {0, diri[s].blk[p]}
    <3> HIDE DEF diri
    <3>1. CASE s = NewSlot
      <4>1. new[s] = NewDirent(old, frame.name)
        BY <1>7, <3>1
      <4>2. old \in Dirent
        BY <1>1, <1>7
      <4> HIDE DEF new, old
      <4>3. NewDirent(old, frame.name).blk = [old.blk EXCEPT ![0] = 0]
        BY <4>2 DEF NewDirent, Dirent
      <4>4. NewDirent(old, frame.name).blk[p] \in {0, old.blk[p]}
        BY <4>2, <4>3 DEF Dirent
      <4> QED BY <3>1, <4>1, <4>4 DEF old
    <3>2. CASE s # NewSlot
      <4>1. new[s] = diri[s]
        BY <1>7, <3>2
      <4> QED BY <4>1
    <3> QED BY <3>1, <3>2
  <2> QED BY <2>1, <2>2
<1>9. ASSUME NEW s \in Slot, NEW p \in Ptr
      PROVE  SlotPtr(disk', rootSB', NewBlk, s, p) \in
               IF NewSlot = 0 THEN {0} ELSE {0, SlotPtr(disk, rootSB, NewBlk, s, p)}
  <2>1. CASE NewSlot = 0
    <3>1. diri[s].blk[p] = 0
      BY <2>1 DEF EmptyDir, NullDirent
    <3> HIDE DEF diri, new
    <3> QED BY <1>8, <2>1, <3>1
  <2>2. CASE NewSlot # 0
    <3>1. diri[s].blk[p] = SlotPtr(disk, rootSB, NewBlk, s, p)
      BY <2>2 DEF SlotPtr
    <3> HIDE DEF diri, new
    <3> QED BY <1>8, <2>2, <3>1
  <2> QED BY <2>1, <2>2
<1>10. ASSUME NEW i \in InUse(rootSB), i # NewBlk
       PROVE  disk'[rootSB.blk[i]] = disk[rootSB.blk[i]]
  <2>1. rootSB.blk[i] \in BlockNo
    BY SlotPtrType DEF SharingInv, TypeInv, ImageInv, TypeOK
  <2>2. rootSB.blk[i] # b
    <3>1. CASE NewSlot = 0
      BY <3>1 DEF SharingInv, CallSound, CreateDirent, Unheld
    <3>2. CASE NewSlot # 0
      <4>1. NewBlk \in InUse(rootSB)
        BY <1>1, <3>2, NewEntryPlace DEF SharingInv, TypeInv, ImageInv, TypeOK
      <4> QED BY <1>10, <4>1 DEF SharingInv, CacheSound, Sound
    <3> QED BY <3>1, <3>2
  <2> QED BY <1>5, <2>1, <2>2
<1> QED BY <1>1, <1>3, <1>4, <1>6, <1>9, <1>10 DEF SlotPtr

LEMMA SharingCreateDirent ==
  ASSUME SharingInv, TypeInv', CreateDirent
  PROVE  SharingInv'
<1>1. /\ pc = "dirent" /\ pc' = "super" /\ stable' = disk /\ Mounted
      /\ Sound(disk, rootSB) /\ PartOf(Root(disk), rootSB)
      /\ NewSlot = 0 => MarkedIn(disk, rootSB.blk[NewBlk]) /\ NewBlk \notin InUse(rootSB)
                        /\ Unheld(disk, rootSB, rootSB.blk[NewBlk])
      /\ NewSlot # 0 => NewBlk \in InUse(rootSB)
  <2>1. NewSlot = 0 => NewBlk \notin InUse(rootSB)
    BY NewBlockPlace, LayoutAssumption
    DEF SharingInv, TypeInv, ImageInv, TypeOK, InCreate, CreateDirent, Ptr
  <2>2. NewSlot # 0 => NewBlk \in InUse(rootSB)
    BY NewEntryPlace DEF SharingInv, TypeInv, ImageInv, TypeOK, InCreate, CreateDirent
  <2> QED BY <2>1, <2>2 DEF CreateDirent, disk_write, SharingInv, CallSound, CacheSound
<1>2. Mounted'
  BY <1>1 DEF CreateDirent, Mounted, SharingInv, TypeInv, ImageInv, TypeOK, Superblock
<1>3. Sound(disk', rootSB')
  <2>1. CASE NewSlot # 0
    <3>1. /\ PartOf(rootSB', rootSB)
          /\ \A i \in InUse(rootSB), s \in Slot, p \in Ptr :
               SlotPtr(disk', rootSB, i, s, p) \in {0, SlotPtr(disk, rootSB, i, s, p)}
      BY <1>1, <2>1, CreateDirentPtrs DEF PartOf, InUse, SlotPtr
    <3>2. Sound(disk', rootSB)
      BY <1>1, <3>1, CreateDirentPtrs, SoundLater
    <3> QED BY <3>1, <3>2, SoundPart
  <2>2. CASE NewSlot = 0
    <3>1. \A i \in InUse(rootSB') : i \in InUse(rootSB) \/ i = NewBlk
      BY CreateDirentPtrs DEF InUse
    <3>2. \A s \in Slot, p \in Ptr : SlotPtr(disk', rootSB', NewBlk, s, p) = 0
      BY <2>2, CreateDirentPtrs
    <3>3. \A i \in InUse(rootSB) :
            /\ i # NewBlk /\ rootSB.blk[i] # rootSB.blk[NewBlk]
            /\ \A s \in Slot, p \in Ptr :
                 /\ SlotPtr(disk', rootSB', i, s, p) = SlotPtr(disk, rootSB, i, s, p)
                 /\ SlotPtr(disk, rootSB, i, s, p) # rootSB.blk[NewBlk]
      BY <1>1, <2>2, CreateDirentPtrs DEF Unheld
    <3>4. \A n : MarkedIn(disk, n) => MarkedIn(disk', n)
      BY CreateDirentPtrs DEF MarkedIn
    <3> QED
      BY <1>1, <2>2, <3>1, <3>2, <3>3, <3>4, CreateDirentPtrs DEF Sound
  <2> QED BY <2>1, <2>2
<1>4. PartOf(Root(disk)', rootSB')
  BY <1>1, CreateDirentPtrs DEF PartOf, InUse
<1>5. Sound(disk, Root(disk))' /\ Sound(stable, Root(stable))'
  BY <1>1, <1>3, <1>4, SoundPart DEF SharingInv, Root
<1> QED
  BY <1>1, <1>2, <1>3, <1>4, <1>5 DEF SharingInv, CacheSound, CallSound, FrameSound

LEMMA SharingCreateEnd ==
  ASSUME SharingInv, TypeInv', CreateSuper \/ CreateAborts
  PROVE  SharingInv'
<1> DEFINE new == [disk EXCEPT ![0] = SuperBlock(rootSB)]
<1>1. /\ rootSB \in Superblock /\ RootOK(rootSB) /\ Sound(disk, rootSB) /\ Mounted
      /\ Sound(disk, Root(disk))
  BY DEF SharingInv, TypeInv, ImageInv, TypeOK, CacheSound, CallSound, CreateSuper, CreateAborts
<1>2. Root(new) = rootSB /\ new[1] = disk[1]
  BY LayoutAssumption
  DEF SharingInv, TypeInv, ImageInv, TypeOK, BlockNo, Root, AsSuper, SuperBlock
<1>3. Sound(new, rootSB)
  <2>1. \A i \in InUse(rootSB) : new[rootSB.blk[i]] = disk[rootSB.blk[i]]
    BY <1>1, SlotPtrType DEF SharingInv, TypeInv, ImageInv, TypeOK
  <2>2. \A i \in InUse(rootSB), s \in Slot, p \in Ptr :
          SlotPtr(new, rootSB, i, s, p) = SlotPtr(disk, rootSB, i, s, p)
    BY <2>1 DEF SlotPtr
  <2> HIDE DEF new
  <2> QED BY <1>1, <1>2, <2>2, SoundLater
<1>4. CASE CreateSuper
  <2>1. disk' = new /\ stable' = disk /\ rootSB' = rootSB /\ pc' = "idle"
    BY <1>4 DEF CreateSuper, disk_write, Return, ReturnWith
  <2> HIDE DEF new
  <2>2. Sound(disk, Root(disk))' /\ Sound(stable, Root(stable))'
    BY <1>1, <1>2, <1>3, <2>1 DEF SharingInv, Root
  <2>3. CacheSound'
    BY <1>1, <1>2, <1>3, <2>1, PartOfItself DEF CacheSound, Mounted, Root
  <2> QED BY <2>1, <2>2, <2>3 DEF SharingInv, CallSound, FrameSound
<1>5. CASE CreateAborts
  <2>1. /\ disk' \in {disk, new} /\ stable' = disk' /\ rootSB' = ZeroSB /\ pc' = "down"
    BY <1>5 DEF CreateAborts, Die
  <2> HIDE DEF new
  <2>2. Sound(disk, Root(disk))' /\ Sound(stable, Root(stable))'
    BY <1>1, <1>2, <1>3, <2>1 DEF SharingInv, Root
  <2>3. InUse(rootSB') = {} /\ ~Mounted'
    BY <2>1, LayoutAssumption DEF InUse, ZeroSB, Ptr, Mounted
  <2> QED
    BY <2>1, <2>2, <2>3, SoundEmpty DEF SharingInv, CacheSound, CallSound, FrameSound
<1> QED BY <1>4, <1>5

-----------------------------------------------------------------------------
LEMMA SharingAstray ==
  ASSUME SharingInv, TypeInv', GoAstray
  PROVE  SharingInv'
  BY SharingCalls DEF GoAstray, NoDisk

(* The dirent fs_write takes from a directory block is that entry's. *)
LEMMA SharingWriteCall ==
  ASSUME SharingInv, TypeInv', NEW inumber \in EntryNumbers(rootSB), NEW data \in Payloads,
         NEW offset \in Offsets, WriteCall(inumber, data, offset)
  PROVE  SharingInv'
<1> DEFINE de == LoadDirent(inumber)
           slot == inumber % DIRENTS_PER_BLOCK
<1>1. CASE ~CanWrite(de, Len(data), offset)
  BY <1>1, SharingCalls DEF WriteCall, Return, ReturnWith, disk_read
<1>2. CASE CanWrite(de, Len(data), offset)
  <2>1. /\ UNCHANGED <<disk, rootSB>> /\ stable' = disk /\ pc' = "write" /\ Mounted
        /\ frame' = [NoFrame EXCEPT !.inumber = inumber, !.dirent = de,
                       !.data = data, !.offset = offset, !.cur = offset]
    BY <1>2 DEF WriteCall, Begin, disk_read
  <2>2. frame'.inumber = inumber /\ frame'.dirent = de
    BY <2>1 DEF NoFrame
  <2>3. slot \in Slot
    BY EntryTypes DEF SharingInv, TypeInv, ImageInv, TypeOK
  <2>4. ASSUME NEW i \in InUse(rootSB), rootSB.blk[i] = DirentBlock(inumber)
        PROVE  \A p \in Ptr : de.blk[p] = SlotPtr(disk, rootSB, i, slot, p)
    BY <2>4 DEF LoadDirent, SlotPtr
  <2> HIDE DEF de, slot
  <2>5. FrameSound'
    <3> SUFFICES ASSUME NEW i \in InUse(rootSB), NEW p \in Ptr,
                        rootSB.blk[i] = DirentBlock(inumber), de.blk[p] # 0
                 PROVE  /\ MarkedIn(disk, de.blk[p])
                        /\ \A q \in Ptr : de.blk[p] = de.blk[q] => p = q
                        /\ \A j \in InUse(rootSB) :
                             /\ rootSB.blk[j] # de.blk[p]
                             /\ \A t \in Slot, q \in Ptr :
                                  de.blk[p] = SlotPtr(disk, rootSB, j, t, q) =>
                                    i = j /\ t = slot /\ p = q
      BY <2>1, <2>2 DEF FrameSound, slot
    <3>1. \A q \in Ptr : de.blk[q] = SlotPtr(disk, rootSB, i, slot, q)
      BY <2>4
    <3> QED BY <2>3, <3>1 DEF SharingInv, CacheSound, Sound
  <2>6. Sound(disk, Root(disk))' /\ Sound(stable, Root(stable))'
    BY <2>1 DEF SharingInv, Root
  <2>7. CacheSound' /\ CallSound'
    BY <2>1 DEF SharingInv, CacheSound, CallSound, Root, Mounted
  <2> QED BY <2>5, <2>6, <2>7 DEF SharingInv
<1> QED BY <1>1, <1>2

LEMMA SharingWriteAlloc ==
  ASSUME SharingInv, TypeInv', WriteAlloc
  PROVE  SharingInv'
<1> DEFINE b == alloc_block(disk, rootSB)
<1>1. CASE b = NOBLOCK
  <2>1. disk_read /\ pc' = "idle" /\ UNCHANGED rootSB
    BY <1>1 DEF WriteAlloc, Return, ReturnWith
  <2> QED BY <2>1, SharingCalls DEF disk_read
<1>2. CASE b # NOBLOCK
  <2>1. /\ disk_write(1, Marked(b)) /\ stable' = disk
        /\ frame' = [frame EXCEPT !.dirent.blk[CurPtr] = b]
        /\ pc = "write" /\ pc' = "write" /\ rootSB' = rootSB
    BY <1>2 DEF WriteAlloc, disk_write
  <2>2. /\ b \in BlockNo /\ ~MarkedIn(disk, b) /\ Unheld(disk, rootSB, b)
        /\ CurPtr \in Ptr
    BY <1>2, AllocFree, WritePlace DEF WriteAlloc, DataPtr, SharingInv, TypeInv
  <2> HIDE DEF b
  <2>3. /\ rootSB \in Superblock /\ RootOK(rootSB) /\ Sound(disk, rootSB)
        /\ Root(disk) \in Superblock /\ RootOK(Root(disk)) /\ Sound(disk, Root(disk))
    BY ViewTypes, LayoutAssumption
    DEF SharingInv, TypeInv, ImageInv, TypeOK, CacheSound, Root, BlockNo
  <2>4. /\ Sound(disk', rootSB) /\ Sound(disk', Root(disk)) /\ Root(disk)' = Root(disk)
        /\ \A n : MarkedIn(disk, n) => MarkedIn(disk', n)
        /\ MarkedIn(disk', b)
        /\ \A i \in InUse(rootSB), s \in Slot, p \in Ptr :
             SlotPtr(disk', rootSB, i, s, p) = SlotPtr(disk, rootSB, i, s, p)
    BY <2>1, <2>2, <2>3, MarkSound DEF SharingInv, MarkedIn
  <2>5. /\ frame'.inumber = frame.inumber
        /\ frame'.dirent.blk[CurPtr] = b
        /\ \A p \in Ptr : p # CurPtr => frame'.dirent.blk[p] = frame.dirent.blk[p]
    BY <2>1, <2>2 DEF SharingInv, TypeInv, ImageInv, TypeOK, Frame, Dirent
  <2>6. FrameSound'
    <3> SUFFICES ASSUME NEW i \in InUse(rootSB), NEW p \in Ptr,
                        rootSB.blk[i] = DirentBlock(frame.inumber),
                        frame'.dirent.blk[p] # 0
                 PROVE  /\ MarkedIn(disk', frame'.dirent.blk[p])
                        /\ \A q \in Ptr : frame'.dirent.blk[p] = frame'.dirent.blk[q] => p = q
                        /\ \A j \in InUse(rootSB) :
                             /\ rootSB.blk[j] # frame'.dirent.blk[p]
                             /\ \A t \in Slot, q \in Ptr :
                                  frame'.dirent.blk[p] = SlotPtr(disk', rootSB, j, t, q) =>
                                    i = j /\ t = frame.inumber % DIRENTS_PER_BLOCK /\ p = q
      BY <2>1, <2>5 DEF FrameSound
    <3>1. ASSUME NEW q \in Ptr, q # CurPtr, frame.dirent.blk[q] # 0
          PROVE  frame.dirent.blk[q] # b
      BY <2>1, <2>2, <3>1 DEF SharingInv, FrameSound
    <3>2. CASE p = CurPtr
      <4>1. \A q \in Ptr : b = frame'.dirent.blk[q] => p = q
        BY <2>5, <3>1, <3>2
      <4> QED BY <2>2, <2>4, <2>5, <3>2, <4>1 DEF Unheld
    <3>3. CASE p # CurPtr
      <4>1. frame.dirent.blk[p] = frame'.dirent.blk[p] /\ frame.dirent.blk[p] # b
        BY <2>5, <3>1, <3>3
      <4>2. \A q \in Ptr : frame.dirent.blk[p] = frame'.dirent.blk[q] => p = q
        BY <2>1, <2>5, <4>1 DEF SharingInv, FrameSound
      <4> QED BY <2>1, <2>4, <4>1, <4>2 DEF SharingInv, FrameSound
    <3> QED BY <3>2, <3>3
  <2>7. Sound(disk, Root(disk))' /\ Sound(stable, Root(stable))'
    BY <2>1, <2>4 DEF SharingInv, Root
  <2>8. CacheSound' /\ CallSound'
    BY <2>1, <2>4 DEF SharingInv, CacheSound, CallSound, Mounted
  <2> QED BY <2>6, <2>7, <2>8 DEF SharingInv
<1> QED BY <1>1, <1>2

(* A data block in the place of a directory block has no pointers. *)
LEMMA SharingWriteBlock ==
  ASSUME SharingInv, TypeInv', WriteBlock
  PROVE  SharingInv'
<1> DEFINE b == frame.dirent.blk[CurPtr]
<1> SUFFICES ASSUME ~Abort PROVE SharingInv'
  BY SharingQuit
<1>1. /\ pc = "write" /\ pc' = "write" /\ rootSB' = rootSB /\ stable' = disk
      /\ \E bytes : disk' = [disk EXCEPT ![b] = DataBlock(bytes)]
      /\ frame' = [frame EXCEPT !.cur = @ + nCopy] /\ b # 0
  BY DEF WriteBlock, disk_write
<1>2. b \in BlockNo /\ b >= 2
  <2>1. CurPtr \in Ptr
    BY WritePlace DEF WriteBlock, SharingInv, TypeInv
  <2> QED BY <1>1, <2>1 DEF SharingInv, TypeInv, ImageInv, TypeOK, Frame, Dirent, DataPtr, BlockNo
<1>3. /\ frame'.inumber = frame.inumber /\ frame'.dirent = frame.dirent
  BY <1>1 DEF SharingInv, TypeInv, ImageInv, TypeOK, Frame
<1> HIDE DEF b
<1>4. /\ disk'[0] = disk[0] /\ disk'[1] = disk[1] /\ Root(disk)' = Root(disk)
      /\ \A m \in BlockNo : disk'[m] = disk[m] \/ disk'[m].kind = "data"
  BY <1>1, <1>2, LayoutAssumption
  DEF SharingInv, TypeInv, ImageInv, TypeOK, BlockNo, DataBlock, Root
<1>5. ASSUME NEW sb \in Superblock, RootOK(sb), NEW i \in InUse(sb), NEW s \in Slot, NEW p \in Ptr
      PROVE  SlotPtr(disk', sb, i, s, p) \in {0, SlotPtr(disk, sb, i, s, p)}
  <2>1. sb.blk[i] \in BlockNo
    BY <1>5, SlotPtrType DEF SharingInv, TypeInv, ImageInv, TypeOK
  <2>2. CASE disk'[sb.blk[i]] = disk[sb.blk[i]]
    BY <2>2 DEF SlotPtr
  <2>3. CASE disk'[sb.blk[i]].kind = "data"
    BY <2>3 DEF SlotPtr, AsDir, EmptyDir, NullDirent
  <2> QED BY <1>4, <2>1, <2>2, <2>3
<1>6. /\ rootSB \in Superblock /\ RootOK(rootSB) /\ Sound(disk, rootSB)
      /\ Root(disk) \in Superblock /\ RootOK(Root(disk)) /\ Sound(disk, Root(disk))
  BY ViewTypes, LayoutAssumption
  DEF SharingInv, TypeInv, ImageInv, TypeOK, CacheSound, Root, BlockNo
<1>7. Sound(disk', rootSB) /\ Sound(disk', Root(disk))
  BY <1>4, <1>5, <1>6, SoundLater
<1>8. FrameSound'
  <2>1. \A i \in InUse(rootSB), s \in Slot, p \in Ptr :
          SlotPtr(disk', rootSB, i, s, p) \in {0, SlotPtr(disk, rootSB, i, s, p)}
    BY <1>5, <1>6
  <2>2. \A n : MarkedIn(disk', n) <=> MarkedIn(disk, n)
    BY <1>4 DEF MarkedIn
  <2> DEFINE Own(de, E, i, p) ==
               /\ MarkedIn(E, de.blk[p])
               /\ \A q \in Ptr : de.blk[p] = de.blk[q] => p = q
               /\ \A j \in InUse(rootSB) :
                    /\ rootSB.blk[j] # de.blk[p]
                    /\ \A t \in Slot, q \in Ptr :
                         de.blk[p] = SlotPtr(E, rootSB, j, t, q) =>
                           i = j /\ t = frame.inumber % DIRENTS_PER_BLOCK /\ p = q
  <2>3. ASSUME NEW i \in InUse(rootSB), NEW p \in Ptr,
               rootSB.blk[i] = DirentBlock(frame.inumber), frame.dirent.blk[p] # 0
        PROVE  Own(frame.dirent, disk', i, p)
    <3>1. Own(frame.dirent, disk, i, p)
      BY <1>1, <2>3 DEF SharingInv, FrameSound
    <3>2. \A j \in InUse(rootSB), t \in Slot, q \in Ptr :
            frame.dirent.blk[p] = SlotPtr(disk', rootSB, j, t, q) =>
              frame.dirent.blk[p] = SlotPtr(disk, rootSB, j, t, q)
      BY <2>1, <2>3
    <3> QED BY <2>2, <3>1, <3>2
  <2>4. ASSUME NEW i \in InUse(rootSB), NEW p \in Ptr,
               rootSB.blk[i] = DirentBlock(frame.inumber), frame'.dirent.blk[p] # 0
        PROVE  Own(frame'.dirent, disk', i, p)
    <3> HIDE DEF Own
    <3> QED BY <1>3, <2>3, <2>4
  <2>5. rootSB' = rootSB /\ frame'.inumber = frame.inumber
    BY <1>1, <1>3
  <2> QED BY <2>4, <2>5 DEF FrameSound
<1>9. Sound(disk, Root(disk))' /\ Sound(stable, Root(stable))'
  BY <1>1, <1>4, <1>7 DEF SharingInv, Root
<1>10. CacheSound' /\ CallSound'
  BY <1>1, <1>4, <1>7 DEF SharingInv, CacheSound, CallSound, Mounted
<1> QED BY <1>8, <1>9, <1>10 DEF SharingInv

(* The entry that fs_write brings up to date refers to the file's blocks. *)
LEMMA SharingWriteDirent ==
  ASSUME SharingInv, TypeInv', WriteDirent
  PROVE  SharingInv'
<1> DEFINE b == DirentBlock(frame.inumber)
           slot == frame.inumber % DIRENTS_PER_BLOCK
           grown == [frame.dirent EXCEPT !.size = frame.cur]
           new == [AsDir(disk[b]) EXCEPT ![slot] = grown]
<1>1. CASE NoDisk /\ Return("write", Written, Len(frame.data)) /\ UNCHANGED <<nblocks, rootSB>>
  BY <1>1, SharingCalls DEF NoDisk, Return, ReturnWith
<1>2. CASE GoAstray
  BY <1>2, SharingAstray
<1>3. CASE /\ disk_write(b, DirBlock(new)) /\ Return("write", Written, Len(frame.data))
           /\ UNCHANGED <<nblocks, rootSB>>
  <2>1. /\ pc = "write" /\ pc' = "idle" /\ rootSB' = rootSB /\ stable' = disk
        /\ disk' = [disk EXCEPT ![b] = DirBlock(new)] /\ Mounted
    BY <1>3 DEF WriteDirent, disk_write, Return, ReturnWith, SharingInv, CallSound
  <2>2. b \in Nat /\ b >= 2 /\ slot \in Slot
    <3>1. frame.inumber \in Nat
      BY DEF SharingInv, TypeInv, ImageInv, TypeOK, Frame
    <3>2. slot \in Slot /\ frame.inumber \div DIRENTS_PER_BLOCK \in Nat
      BY <3>1, DivMod, LayoutAssumption DEF Slot
    <3> QED BY <3>2 DEF DirentBlock
  <2>3. grown.blk = frame.dirent.blk
    BY DEF SharingInv, TypeInv, ImageInv, TypeOK, Frame, Dirent
  <2> HIDE DEF b, slot, grown
  <2>4. disk'[0] = disk[0] /\ disk'[1] = disk[1] /\ Root(disk)' = Root(disk)
    BY <2>1, <2>2, LayoutAssumption DEF SharingInv, TypeInv, ImageInv, TypeOK, BlockNo, Root
  <2>5. ASSUME NEW i \in InUse(rootSB), NEW t \in Slot, NEW p \in Ptr
        PROVE  SlotPtr(disk', rootSB, i, t, p) =
                 IF rootSB.blk[i] = b /\ t = slot THEN frame.dirent.blk[p]
                 ELSE SlotPtr(disk, rootSB, i, t, p)
    <3>1. rootSB.blk[i] \in BlockNo
      BY SlotPtrType DEF SharingInv, TypeInv, ImageInv, TypeOK
    <3>2. CASE rootSB.blk[i] # b
      <4>1. disk'[rootSB.blk[i]] = disk[rootSB.blk[i]]
        BY <2>1, <3>1, <3>2 DEF SharingInv, TypeInv, ImageInv, TypeOK
      <4> QED BY <3>2, <4>1 DEF SlotPtr
    <3>3. CASE rootSB.blk[i] = b
      <4>1. disk'[b] = DirBlock(new)
        BY <2>1, <3>1, <3>3 DEF SharingInv, TypeInv, ImageInv, TypeOK
      <4>2. AsDir(disk[b]) \in [Slot -> Dirent]
        BY <3>1, <3>3, ViewTypes DEF SharingInv, TypeInv, ImageInv, TypeOK
      <4>3. new[t] = IF t = slot THEN grown ELSE AsDir(disk[b])[t]
        BY <4>2
      <4>4. SlotPtr(disk', rootSB, i, t, p) = new[t].blk[p]
        <5> HIDE DEF new
        <5> QED BY <3>3, <4>1 DEF SlotPtr, AsDir, DirBlock
      <4> QED BY <2>3, <3>3, <4>3, <4>4 DEF SlotPtr
    <3> QED BY <3>2, <3>3
  <2>6. /\ Sound(disk, rootSB) /\ PartOf(Root(disk), rootSB)
        /\ \A n : MarkedIn(disk', n) <=> MarkedIn(disk, n)
    BY <2>1, <2>4 DEF SharingInv, CacheSound, MarkedIn
  <2>7. Sound(disk', rootSB)
    <3>1. CASE \A i \in InUse(rootSB) : rootSB.blk[i] # b
      BY <2>4, <2>5, <2>6, <3>1, SoundLater
    <3>2. ASSUME NEW i \in InUse(rootSB), rootSB.blk[i] = b
          PROVE  Sound(disk', rootSB)
      <4>1. \A j \in InUse(rootSB) : rootSB.blk[j] = b => j = i
        BY <2>6, <3>2 DEF Sound
      <4>2. \A p \in Ptr : frame.dirent.blk[p] # 0 =>
              /\ MarkedIn(disk, frame.dirent.blk[p])
              /\ \A q \in Ptr : frame.dirent.blk[p] = frame.dirent.blk[q] => p = q
              /\ \A j \in InUse(rootSB) :
                   /\ rootSB.blk[j] # frame.dirent.blk[p]
                   /\ \A t \in Slot, q \in Ptr :
                        frame.dirent.blk[p] = SlotPtr(disk, rootSB, j, t, q) =>
                          i = j /\ t = slot /\ p = q
        BY <2>1, <3>2 DEF SharingInv, FrameSound, b, slot
      <4>3. \A j \in InUse(rootSB), t \in Slot, p \in Ptr :
              SlotPtr(disk', rootSB, j, t, p) =
                IF j = i /\ t = slot THEN frame.dirent.blk[p]
                ELSE SlotPtr(disk, rootSB, j, t, p)
        BY <2>5, <3>2, <4>1
      <4> QED BY <2>6, <4>2, <4>3 DEF Sound
    <3> QED BY <3>1, <3>2
  <2>8. Sound(disk, Root(disk))' /\ Sound(stable, Root(stable))'
    BY <2>1, <2>4, <2>6, <2>7, SoundPart DEF SharingInv, Root
  <2>9. CacheSound' /\ CallSound' /\ FrameSound'
    BY <2>1, <2>4, <2>6, <2>7 DEF CacheSound, CallSound, FrameSound, Mounted
  <2> QED BY <2>8, <2>9 DEF SharingInv
<1> QED BY <1>1, <1>2, <1>3 DEF WriteDirent

-----------------------------------------------------------------------------
LEMMA SharingStep == SharingInv /\ [NextFormatted]_vars => SharingInv'
<1> SUFFICES ASSUME SharingInv, [NextFormatted]_vars PROVE SharingInv'
  OBVIOUS
<1>1. TypeInv'
  BY TypeInvStep DEF SharingInv
<1>2. CASE Session
  BY <1>1, <1>2, SharingQuit, SharingStart DEF Session
<1>3. CASE Call
  <2>1. CASE FormatMounted \/ \E op \in {"read", "write"} : AccessUnmounted(op)
    BY <1>1, <2>1, SharingCalls DEF FormatMounted, AccessUnmounted, Return, ReturnWith, NoDisk
  <2>2. CASE FormatSuper \/ Mount \/ Umount
    BY <1>1, <2>2, SharingFormat, SharingMount
  <2>3. CASE Lsdir \/ \E name \in Names : Open(name) \/ CreateFails(name)
    BY <1>1, <2>3, SharingCalls
    DEF Lsdir, Open, CreateFails, ScanDirectory, Return, ReturnWith, disk_read, NoDisk
  <2>4. CASE ScanGarbage
    BY <1>1, <2>4, SharingAstray DEF ScanGarbage
  <2>5. CASE Debug
    BY <1>1, <2>5, SharingCalls DEF Debug, disk_read
  <2>6. CASE \E name \in Names : CreateInBlock(name) \/ CreateInNewBlock(name)
    BY <1>1, <2>6, SharingCreateInBlock, SharingCreateInNewBlock
  <2>7. ASSUME NEW inumber \in EntryNumbers(rootSB), NEW offset \in Offsets,
               \E data \in Payloads : WriteCall(inumber, data, offset)
        PROVE  SharingInv'
    BY <1>1, <2>7, SharingWriteCall
  <2>8. ASSUME NEW inumber \in EntryNumbers(rootSB), NEW offset \in Offsets,
               NEW length \in ReadLengths, Read(inumber, length, offset)
        PROVE  SharingInv'
    <3>1. CASE Die
      BY <1>1, <2>8, <3>1, SharingQuit DEF Read, Quit
    <3>2. CASE disk_read /\ UNCHANGED <<nblocks, rootSB>> /\ pc' = "idle"
      BY <1>1, <3>2, SharingCalls DEF disk_read
    <3> QED BY <2>8, <3>1, <3>2 DEF Read, Return, ReturnWith
  <2>9. ASSUME NEW inumber, LoadFails(inumber)
        PROVE  SharingInv'
    BY <1>1, <2>9, SharingQuit, SharingAstray DEF LoadFails
  <2> QED BY <1>3, <2>1, <2>2, <2>3, <2>4, <2>5, <2>6, <2>7, <2>8, <2>9 DEF Call
<1>4. CASE Step
  BY <1>1, <1>4, SharingFormat, SharingCreateDirent, SharingCreateEnd, SharingWriteAlloc,
     SharingWriteBlock, SharingWriteDirent DEF Step
<1>5. CASE Kill
  BY <1>1, <1>5, SharingQuit
<1>6. CASE UNCHANGED vars
  <2>1. UNCHANGED <<disk, stable, rootSB, pc, frame>>
    BY <1>6 DEF vars
  <2>2. Sound(disk, Root(disk))' /\ Sound(stable, Root(stable))'
    BY <2>1 DEF SharingInv, Root
  <2>3. CacheSound' /\ CallSound' /\ FrameSound'
    BY <2>1 DEF SharingInv, CacheSound, CallSound, FrameSound, Root, Mounted, NewSlot, NewBlk
  <2> QED BY <1>1, <2>2, <2>3 DEF SharingInv
<1> QED BY <1>2, <1>3, <1>4, <1>5, <1>6 DEF NextFormatted, NextNoCrash

(* The two results after it, and what makes them inductive: every block of  *)
(* the directory and of the files is marked and has one owner, in the cache *)
(* and in both images, and fs_create and fs_write hold what they are about  *)
(* to write.                                                                *)
THEOREM BlocksHaveOneOwner == SpecFormatted => []SharingInv
  BY SharingInit, SharingStep, PTL DEF SpecFormatted

(* What the invariant says of an image, in the terms of the properties. *)
LEMMA SoundImage ==
  ASSUME NEW D \in [BlockNo -> Block], RootOK(Root(D)), Sound(D, Root(D))
  PROVE  /\ \A b \in Refs(D) : b >= 2 /\ b % BLOCKSIZE \in AsBits(D[1])
         /\ DirRefs(D) \cap FileRefs(D) = {}
         /\ \A i, j \in InUse(Root(D)) : Root(D).blk[i] = Root(D).blk[j] => i = j
         /\ \A h, k \in Holders(D) : PtrAt(D, h) = PtrAt(D, k) => h = k
<1>1. Root(D) \in Superblock
  BY ViewTypes, LayoutAssumption DEF Root, BlockNo
<1>2. ASSUME NEW h \in Holders(D)
      PROVE  /\ h[1] \in InUse(Root(D)) /\ h[2] \in Slot /\ h[3] \in Ptr
             /\ h = <<h[1], h[2], h[3]>>
             /\ PtrAt(D, h) = SlotPtr(D, Root(D), h[1], h[2], h[3])
             /\ PtrAt(D, h) # 0 /\ PtrAt(D, h) \in DataPtr
  <2>1. /\ h[1] \in InUse(Root(D)) /\ h[2] \in Slot /\ h[3] \in Ptr
        /\ h = <<h[1], h[2], h[3]>> /\ PtrAt(D, h) # 0
    BY DEF Holders
  <2>2. PtrAt(D, h) = SlotPtr(D, Root(D), h[1], h[2], h[3])
    BY DEF PtrAt, SlotPtr
  <2> QED BY <1>1, <2>1, <2>2, SlotPtrType
<1>3. ASSUME NEW b \in DirRefs(D)
      PROVE  b >= 2 /\ b % BLOCKSIZE \in AsBits(D[1])
  BY DEF DirRefs, RootOK, Sound, MarkedIn
<1>4. ASSUME NEW b \in FileRefs(D)
      PROVE  b >= 2 /\ b % BLOCKSIZE \in AsBits(D[1]) /\ b \notin DirRefs(D)
  <2>1. PICK h \in Holders(D) : b = PtrAt(D, h)
    BY DEF FileRefs
  <2>2. b % BLOCKSIZE \in AsBits(D[1]) /\ b \notin DirRefs(D)
    BY <1>2, <2>1 DEF Sound, MarkedIn, DirRefs
  <2> QED BY <1>2, <2>1, <2>2 DEF DataPtr, BlockNo
<1>5. \A h, k \in Holders(D) : PtrAt(D, h) = PtrAt(D, k) => h = k
  BY <1>2 DEF Sound
<1> QED BY <1>3, <1>4, <1>5 DEF Refs, Sound

(* A block that the directory or a file refers to is never handed out       *)
(* again by alloc_block: its bit is set, on the disk and in the image a     *)
(* kill would leave, before its number is stored.                           *)
THEOREM ReferredBlocksMarked == SpecFormatted => []RefsMarked
<1>1. SharingInv => RefsMarked
  BY SoundImage DEF SharingInv, TypeInv, ImageInv, TypeOK, RefsMarked, Images
<1> QED BY <1>1, BlocksHaveOneOwner, PTL

(* Two files never share a block, nor a file and the directory, whichever   *)
(* calls are made and wherever the program is killed or aborts, if no kill  *)
(* loses the bitmap of fs_format.                                           *)
THEOREM BlocksNotShared == SpecFormatted => []NoSharing
<1>1. SharingInv => NoSharing
  BY SoundImage DEF SharingInv, TypeInv, ImageInv, TypeOK, NoSharing, Images
<1> QED BY <1>1, BlocksHaveOneOwner, PTL

-----------------------------------------------------------------------------
(* The directory. *)

(* The types of the two images and the root directories.                    *)
LEMMA ImageTypes ==
  ASSUME TypeInv
  PROVE  /\ disk \in [BlockNo -> Block] /\ stable \in [BlockNo -> Block]
         /\ rootSB \in Superblock /\ RootOK(rootSB)
         /\ Root(disk) \in Superblock /\ RootOK(Root(disk))
         /\ Root(stable) \in Superblock /\ RootOK(Root(stable))
         /\ 0 \in BlockNo /\ 1 \in BlockNo
  BY ViewTypes, LayoutAssumption DEF TypeInv, ImageInv, TypeOK, Root, BlockNo

(* The place of entry number n. *)
LEMMA EntryPlace ==
  ASSUME NEW D, NEW sb \in Superblock,
         sb.size <= POINTERS_PER_ENT * DIRENTS_PER_BLOCK,
         NEW n \in 0 .. sb.size - 1
  PROVE  /\ n \in EntryNumbers(sb)
         /\ n \div DIRENTS_PER_BLOCK \in InUse(sb)
         /\ n % DIRENTS_PER_BLOCK \in Slot
         /\ n = DIRENTS_PER_BLOCK * (n \div DIRENTS_PER_BLOCK) + (n % DIRENTS_PER_BLOCK)
         /\ EntryAt(D, sb, n) =
              SlotEntry(D, sb, n \div DIRENTS_PER_BLOCK, n % DIRENTS_PER_BLOCK)
<1> USE LayoutAssumption
<1> DEFINE i == n \div DIRENTS_PER_BLOCK
           s == n % DIRENTS_PER_BLOCK
<1>1. sb.size \in Nat /\ n \in Nat
  BY DEF Superblock
<1>2. n < POINTERS_PER_ENT * DIRENTS_PER_BLOCK
  BY <1>1
<1>3. i \in Ptr
  BY <1>1, <1>2, DivBound DEF Ptr
<1>4. s \in Slot /\ n = DIRENTS_PER_BLOCK * i + s
  BY <1>1, DivMod DEF Slot
<1>5. i * DIRENTS_PER_BLOCK < sb.size
  <2> HIDE DEF i, s
  <2>1. i * DIRENTS_PER_BLOCK <= n
    BY <1>3, <1>4 DEF Ptr, Slot
  <2> QED BY <1>1, <1>3, <2>1 DEF Ptr
<1>6. i \in InUse(sb)
  BY <1>3, <1>5 DEF InUse
<1>7. n \in EntryNumbers(sb)
  BY <1>1, <1>2, <1>6 DEF EntryNumbers
<1> QED BY <1>4, <1>6, <1>7 DEF EntryAt, SlotEntry

(* The entries found in a directory, by block and slot. *)
LEMMA FoundEntry ==
  ASSUME NEW D, NEW sb, NEW n \in ValidEntries(D, sb)
  PROVE  /\ n \div DIRENTS_PER_BLOCK \in InUse(sb)
         /\ n % DIRENTS_PER_BLOCK \in Slot
         /\ n = DIRENTS_PER_BLOCK * (n \div DIRENTS_PER_BLOCK) + (n % DIRENTS_PER_BLOCK)
         /\ EntryAt(D, sb, n) =
              SlotEntry(D, sb, n \div DIRENTS_PER_BLOCK, n % DIRENTS_PER_BLOCK)
         /\ EntryAt(D, sb, n).isvalid
<1>1. n \in Nat /\ n \div DIRENTS_PER_BLOCK \in InUse(sb) /\ EntryAt(D, sb, n).isvalid
  BY DEF ValidEntries, EntryNumbers
<1>2. n % DIRENTS_PER_BLOCK \in Slot
      /\ n = DIRENTS_PER_BLOCK * (n \div DIRENTS_PER_BLOCK) + (n % DIRENTS_PER_BLOCK)
  BY <1>1, DivMod, LayoutAssumption DEF Slot
<1> QED BY <1>1, <1>2 DEF EntryAt, SlotEntry

LEMMA EntryOfSlot ==
  ASSUME NEW D, NEW sb, NEW i \in InUse(sb), NEW s \in Slot
  PROVE  /\ DIRENTS_PER_BLOCK * i + s \in EntryNumbers(sb)
         /\ (DIRENTS_PER_BLOCK * i + s) \div DIRENTS_PER_BLOCK = i
         /\ (DIRENTS_PER_BLOCK * i + s) % DIRENTS_PER_BLOCK = s
         /\ EntryAt(D, sb, DIRENTS_PER_BLOCK * i + s) = SlotEntry(D, sb, i, s)
<1> USE LayoutAssumption
<1> DEFINE n == DIRENTS_PER_BLOCK * i + s
<1>1. i \in Ptr /\ i \in Nat /\ s \in Nat /\ s < DIRENTS_PER_BLOCK
  BY DEF InUse, Ptr, Slot
<1>2. n \in Nat
  BY <1>1
<1>3. n \div DIRENTS_PER_BLOCK = i /\ n % DIRENTS_PER_BLOCK = s
  BY <1>1
<1>4. n < POINTERS_PER_ENT * DIRENTS_PER_BLOCK
  <2>1. i + 1 <= POINTERS_PER_ENT
    BY <1>1 DEF Ptr
  <2>2. DIRENTS_PER_BLOCK * (i + 1) <= DIRENTS_PER_BLOCK * POINTERS_PER_ENT
    BY <1>1, <2>1
  <2> QED BY <1>1, <2>2
<1> HIDE DEF n
<1>5. n \in EntryNumbers(sb)
  BY <1>2, <1>3, <1>4 DEF EntryNumbers
<1> QED BY <1>3, <1>5 DEF EntryAt, SlotEntry, n

(* What the scan of fs_create has seen when it goes on.                     *)
LEMMA NameIsNew ==
  ASSUME NEW D \in [BlockNo -> Block], NEW sb, NEW name,
         name2number(D, sb, name) = -1,
         NEW i \in InUse(sb), NEW s \in Slot, SlotEntry(D, sb, i, s).isvalid
  PROVE  SlotEntry(D, sb, i, s).name # name \/ name \in LongNames
<1> DEFINE n == DIRENTS_PER_BLOCK * i + s
<1>1. n \in ValidEntries(D, sb) /\ EntryAt(D, sb, n) = SlotEntry(D, sb, i, s)
  BY EntryOfSlot DEF ValidEntries
<1>2. Matches(D, sb, name) = {}
  <2>1. Matches(D, sb, name) \in SUBSET Nat
    BY DEF Matches, ValidEntries, EntryNumbers
  <2>2. ASSUME Matches(D, sb, name) # {} PROVE FALSE
    <3>1. Min(Matches(D, sb, name)) \in Nat
      BY <2>1, <2>2, MinOfNats
    <3> QED BY <2>2, <3>1 DEF name2number
  <2> QED BY <2>2
<1> HIDE DEF n
<1> QED BY <1>1, <1>2 DEF Matches

-----------------------------------------------------------------------------
(* How Tidy carries over from one disk, or root directory, to another.      *)

LEMMA NamesLater ==
  ASSUME NEW D, NEW E, NEW sb, NamesDiffer(D, sb),
         \A i \in InUse(sb), s \in Slot : SlotEntry(E, sb, i, s).isvalid =>
           /\ SlotEntry(D, sb, i, s).isvalid
           /\ SlotEntry(E, sb, i, s).name = SlotEntry(D, sb, i, s).name
  PROVE  NamesDiffer(E, sb)
  BY DEF NamesDiffer

LEMMA TidyLater ==
  ASSUME NEW D, NEW E, NEW sb \in Superblock, RootOK(sb), Tidy(D, sb),
         \A i \in InUse(sb), s \in Slot :
           /\ \A p \in Ptr : SlotPtr(E, sb, i, s, p) \in {0, SlotPtr(D, sb, i, s, p)}
           /\ SlotEntry(E, sb, i, s).isvalid =>
                /\ SlotEntry(D, sb, i, s).isvalid
                /\ SlotEntry(E, sb, i, s).name = SlotEntry(D, sb, i, s).name
  PROVE  Tidy(E, sb)
<1>1. \A i \in InUse(sb) : 0 < sb.nblocks
  BY LayoutAssumption DEF Tidy, Bounded, RootOK, Superblock, InUse, DataPtr, BlockNo, NOBLOCK
<1>2. Bounded(E, sb)
  BY <1>1 DEF Tidy, Bounded
<1>3. NamesDiffer(E, sb)
  BY NamesLater DEF Tidy
<1> QED BY <1>2, <1>3 DEF Tidy

LEMMA TidySame ==
  ASSUME NEW D, NEW E, NEW sb, Tidy(D, sb), \A i \in InUse(sb) : E[sb.blk[i]] = D[sb.blk[i]]
  PROVE  Tidy(E, sb)
<1>1. \A i \in InUse(sb), s \in Slot : SlotEntry(E, sb, i, s) = SlotEntry(D, sb, i, s)
  BY DEF SlotEntry
<1>2. \A i \in InUse(sb), s \in Slot, p \in Ptr : SlotPtr(E, sb, i, s, p) = SlotPtr(D, sb, i, s, p)
  BY DEF SlotPtr
<1> QED BY <1>1, <1>2 DEF Tidy, Bounded, NamesDiffer

LEMMA TidyPart ==
  ASSUME NEW D, NEW old \in Superblock, NEW new \in Superblock, PartOf(old, new),
         old.nblocks = new.nblocks, old.size <= new.size, Tidy(D, new)
  PROVE  Tidy(D, old)
<1>1. \A i \in InUse(old), s \in Slot : SlotEntry(D, old, i, s) = SlotEntry(D, new, i, s)
  BY DEF SlotEntry, PartOf
<1>2. \A i \in InUse(old), s \in Slot, p \in Ptr :
        SlotPtr(D, old, i, s, p) = SlotPtr(D, new, i, s, p)
  BY DEF SlotPtr, PartOf
<1>3. old.size <= POINTERS_PER_ENT * DIRENTS_PER_BLOCK
  BY LayoutAssumption DEF Superblock, Tidy, Bounded
<1> QED BY <1>1, <1>2, <1>3 DEF Tidy, Bounded, NamesDiffer, PartOf

LEMMA TidyEmpty ==
  ASSUME NEW D, NEW sb, sb.size = 0
  PROVE  Tidy(D, sb)
<1>1. InUse(sb) = {}
  BY LayoutAssumption DEF InUse, Ptr
<1> QED BY <1>1, LayoutAssumption DEF Tidy, Bounded, NamesDiffer

(* A directory with the same size and blocks is found in the same place.    *)
LEMMA TidyAgain ==
  ASSUME NEW D, NEW old, NEW new, old.size = new.size, old.nblocks = new.nblocks,
         \A i \in InUse(old) : old.blk[i] = new.blk[i], Tidy(D, old)
  PROVE  Tidy(D, new)
<1>1. InUse(new) = InUse(old)
  BY DEF InUse
<1>2. \A i \in InUse(old), s \in Slot : SlotEntry(D, old, i, s) = SlotEntry(D, new, i, s)
  BY DEF SlotEntry
<1>3. \A i \in InUse(old), s \in Slot, p \in Ptr :
        SlotPtr(D, old, i, s, p) = SlotPtr(D, new, i, s, p)
  BY DEF SlotPtr
<1> QED BY <1>1, <1>2, <1>3 DEF Tidy, Bounded, NamesDiffer

(* When a kill would lose nothing, it loses at most one entry.              *)
LEMMA NothingLost ==
  ASSUME NEW S, NEW D, Root(S).size = Root(D).size,
         \A n \in 0 .. Root(S).size - 1 : SameEntry(S, D, n)
  PROVE  OneEntryLost(S, D)
<1>1. 0 \in 0 .. POINTERS_PER_ENT * DIRENTS_PER_BLOCK
  BY LayoutAssumption
<1> QED BY <1>1 DEF OneEntryLost

LEMMA SameImage ==
  ASSUME NEW D
  PROVE  DirectoryOnDisk(D, D) /\ OneEntryLost(D, D)
<1>1. \A n : SameEntry(D, D, n)
  BY DEF SameEntry
<1> QED BY <1>1, NothingLost DEF DirectoryOnDisk

LEMMA DirectoryKept ==
  ASSUME NEW S, NEW D, Root(D) \in Superblock, Tidy(D, Root(D)), DirectoryOnDisk(S, D)
  PROVE  OneEntryLost(S, D)
<1>1. ASSUME NEW n \in 0 .. Root(S).size - 1
      PROVE  SameEntry(S, D, n)
  <2>1. n \div DIRENTS_PER_BLOCK \in InUse(Root(D))
    BY EntryPlace DEF Tidy, Bounded, DirectoryOnDisk
  <2> QED BY <2>1 DEF SameEntry, EntryAt, DirectoryOnDisk
<1> QED BY <1>1, NothingLost DEF DirectoryOnDisk

(* The image on the disk keeps what the invariant says of it when the       *)
(* directory in memory, of which it is a part, does.                        *)
LEMMA ImagesTidy ==
  ASSUME DirectoryInv, SharingInv', Coherent', Mounted', Tidy(disk', rootSB'),
         stable' \in {stable, disk}
  PROVE  /\ Tidy(disk', Root(disk)') /\ Tidy(stable', Root(stable)')
<1>1. PartOf(Root(disk)', rootSB')
  BY DEF SharingInv, CacheSound
<1>2. Root(disk)' \in Superblock /\ rootSB' \in Superblock
  BY ViewTypes, LayoutAssumption DEF SharingInv, TypeInv, ImageInv, TypeOK, Root, BlockNo
<1>3. Root(disk)'.nblocks = rootSB'.nblocks /\ Root(disk)'.size <= rootSB'.size
  BY <1>2 DEF Coherent, Superblock
<1>4. Tidy(disk', Root(disk)')
  BY <1>1, <1>2, <1>3, TidyPart
<1>5. Tidy(stable', Root(stable)')
  BY DEF DirectoryInv, Root
<1> QED BY <1>4, <1>5

-----------------------------------------------------------------------------
LEMMA DirectoryInit == Init => DirectoryInv
<1> SUFFICES ASSUME Init PROVE DirectoryInv
  OBVIOUS
<1>1. Root(disk) = ZeroSB /\ rootSB = ZeroSB /\ stable = disk
  BY LayoutAssumption DEF Init, Root, AsSuper, ZeroBlock, BlockNo
<1>2. ~Mounted /\ Tidy(disk, ZeroSB)
  BY <1>1, TidyEmpty DEF ZeroSB, Mounted
<1> QED
  BY <1>1, <1>2, SharingInit, SameImage
  DEF DirectoryInv, Coherent, CreateFits, WriteFits, LittleLost, Init

(* The steps that write nothing and leave the root directory alone.         *)
Quiet ==
  /\ UNCHANGED <<disk, nblocks, rootSB>> /\ stable' \in {stable, disk}
  /\ pc \in {"idle", "write"} /\ pc' \in {"idle", "astray"}

LEMMA DirectoryQuiet ==
  ASSUME DirectoryInv, SharingInv', Quiet
  PROVE  DirectoryInv'
<1>1. /\ Tidy(disk, Root(disk))' /\ Tidy(stable, Root(stable))'
      /\ Mounted' => Tidy(disk, rootSB)'
  BY DEF Quiet, DirectoryInv, Root, Mounted
<1>2. Coherent' /\ CreateFits' /\ WriteFits'
  BY DEF Quiet, DirectoryInv, Coherent, CreateFits, WriteFits, Mounted, Root
<1>3. LittleLost'
  <2> SUFFICES ASSUME Contiguous(disk') PROVE OneEntryLost(stable', disk')
    BY DEF LittleLost, Quiet
  <2>1. CASE stable' = disk
    BY <2>1, SameImage DEF Quiet
  <2>2. CASE stable' = stable /\ pc = "idle"
    BY <2>2 DEF Quiet, DirectoryInv, LittleLost, Contiguous
  <2>3. CASE stable' = stable /\ pc = "write"
    BY <2>3, DirectoryKept, ImageTypes
    DEF Quiet, DirectoryInv, SharingInv, LittleLost, Contiguous
  <2> QED BY <2>1, <2>2, <2>3 DEF Quiet
<1> QED BY <1>1, <1>2, <1>3 DEF DirectoryInv

(* The steps after which nothing is mounted: Quit, Kill, disk_init and what *)
(* is left of an abort.                                                     *)
LEMMA DirectoryUnmounted ==
  ASSUME DirectoryInv, SharingInv', ~Mounted', pc' \in {"down", "idle", "format"},
         Tidy(disk', Root(disk)'), Tidy(stable', Root(stable)'),
         OneEntryLost(stable', disk') \/ pc' # "idle"
  PROVE  DirectoryInv'
  BY DEF DirectoryInv, Coherent, CreateFits, WriteFits, LittleLost

LEMMA DirectoryQuit ==
  ASSUME DirectoryInv, SharingInv', Quit \/ Kill \/ Abort
  PROVE  DirectoryInv'
<1>1. /\ disk' = stable' /\ stable' \in {stable, disk} /\ pc' = "down" /\ ~Mounted'
  BY EmptyRoot DEF Quit, Kill, Abort, disk_read, Die, Mounted
<1>2. Tidy(disk', Root(disk)') /\ Tidy(stable', Root(stable)')
  BY <1>1 DEF DirectoryInv, Root
<1> QED BY <1>1, <1>2, DirectoryUnmounted

LEMMA DirectoryStart ==
  ASSUME DirectoryInv, SharingInv', NEW n \in DiskSizes, Start(n)
  PROVE  DirectoryInv'
<1>1. /\ stable' = disk' /\ disk'[0] = disk[0] /\ ~Mounted' /\ pc' = "idle"
      /\ \A m \in BlockNo : disk'[m] \in {disk[m], ZeroBlock}
  BY LayoutAssumption, ClientAssumption DEF Start, BlockNo, DirectoryInv, Coherent, Mounted
<1>2. Tidy(disk', Root(disk))
  <2>1. ASSUME NEW i \in InUse(Root(disk)), NEW s \in Slot
        PROVE  \/ SlotEntry(disk', Root(disk), i, s) = SlotEntry(disk, Root(disk), i, s)
               \/ SlotEntry(disk', Root(disk), i, s) = NullDirent
    <3>1. Root(disk).blk[i] \in BlockNo
      BY ImageTypes, SlotPtrType DEF DirectoryInv, SharingInv
    <3>2. CASE disk'[Root(disk).blk[i]] = disk[Root(disk).blk[i]]
      BY <3>2 DEF SlotEntry
    <3>3. CASE disk'[Root(disk).blk[i]] = ZeroBlock
      BY <3>3 DEF SlotEntry, AsDir, ZeroBlock, EmptyDir
    <3> QED BY <1>1, <3>1, <3>2, <3>3
  <2>2. ASSUME NEW i \in InUse(Root(disk)), NEW s \in Slot
        PROVE  /\ \A p \in Ptr : SlotPtr(disk', Root(disk), i, s, p) \in
                                   {0, SlotPtr(disk, Root(disk), i, s, p)}
               /\ SlotEntry(disk', Root(disk), i, s).isvalid =>
                    /\ SlotEntry(disk, Root(disk), i, s).isvalid
                    /\ SlotEntry(disk', Root(disk), i, s).name =
                         SlotEntry(disk, Root(disk), i, s).name
    BY <2>1 DEF SlotPtr, SlotEntry, NullDirent
  <2> QED BY <2>2, TidyLater, ImageTypes DEF DirectoryInv, SharingInv
<1>3. Root(disk)' = Root(disk) /\ Root(stable)' = Root(disk)
  BY <1>1 DEF Root
<1> QED BY <1>1, <1>2, <1>3, SameImage, DirectoryUnmounted

LEMMA DirectoryFormat ==
  ASSUME DirectoryInv, SharingInv', FormatSuper \/ FormatBitmap
  PROVE  DirectoryInv'
<1>1. /\ ~Mounted' /\ stable' = disk /\ pc' \in {"format", "idle"}
      /\ pc' = "idle" => FormatBitmap
  BY DEF FormatSuper, FormatBitmap, DirectoryInv, SharingInv, CallSound, disk_write, Begin,
         Return, ReturnWith, Mounted
<1>2. Tidy(disk', Root(disk)')
  <2>1. CASE FormatSuper
    <3>1. disk'[0] = SuperBlock(FreshSB)
      BY <2>1, ImageTypes DEF FormatSuper, disk_write, DirectoryInv, SharingInv
    <3> QED BY <3>1, TidyEmpty DEF Root, AsSuper, SuperBlock, FreshSB
  <2>2. CASE FormatBitmap
    <3>1. disk'[0] = disk[0] /\ InUse(Root(disk)) = {}
      BY <2>2, ImageTypes
      DEF FormatBitmap, disk_write, DirectoryInv, SharingInv, CallSound
    <3> QED BY <3>1, TidySame DEF Root, DirectoryInv
  <2> QED BY <2>1, <2>2
<1>3. Tidy(stable', Root(stable)')
  BY <1>1 DEF DirectoryInv, Root
<1>4. FormatBitmap => OneEntryLost(stable', disk')
  <2> SUFFICES ASSUME FormatBitmap PROVE OneEntryLost(stable', disk')
    OBVIOUS
  <2>1. /\ disk'[0] = disk[0] /\ InUse(Root(disk)) = {}
    BY ImageTypes DEF FormatBitmap, disk_write, DirectoryInv, SharingInv, CallSound
  <2>2. Root(stable)' = Root(disk) /\ Root(disk)' = Root(disk)
    BY <1>1, <2>1 DEF Root
  <2> QED BY <1>2, <2>1, <2>2, ImageTypes, DirectoryKept
          DEF DirectoryOnDisk, DirectoryInv, SharingInv, Root
<1> QED BY <1>1, <1>2, <1>3, <1>4, DirectoryUnmounted

LEMMA DirectoryMount ==
  ASSUME DirectoryInv, SharingInv', Mount \/ Umount
  PROVE  DirectoryInv'
<1>1. /\ disk' = disk /\ stable' \in {stable, disk} /\ pc = "idle" /\ pc' = "idle"
      /\ nblocks' = nblocks
      /\ \/ rootSB' \in {rootSB, ZeroSB}
         \/ rootSB' = Root(disk) /\ Mountable(Root(disk))
  <2>1. CASE Mount
    <3>1. CASE Mounted
      BY <2>1, <3>1 DEF Mount, NoDisk, Return, ReturnWith
    <3>2. CASE ~Mounted
      BY <2>1, <3>2 DEF Mount, disk_read, Root, Return, ReturnWith
    <3> QED BY <3>1, <3>2
  <2>2. CASE Umount
    BY <2>2 DEF Umount, NoDisk, Return, ReturnWith
  <2> QED BY <2>1, <2>2
<1>2. CASE rootSB' = rootSB
  BY <1>1, <1>2, DirectoryQuiet DEF Quiet
<1>3. Tidy(disk', Root(disk)') /\ Tidy(stable', Root(stable)')
  BY <1>1 DEF DirectoryInv, Root
<1>4. Contiguous(disk) => OneEntryLost(stable', disk')
  BY <1>1, SameImage DEF DirectoryInv, LittleLost
<1>5. CASE rootSB' # rootSB
  <2>1. \/ ~Mounted'
        \/ rootSB' = Root(disk) /\ Mountable(Root(disk))
    BY <1>1, <1>5 DEF Mounted, ZeroSB
  <2>2. Mounted' => Tidy(disk, rootSB)'
    BY <1>1, <1>3, <2>1 DEF Root
  <2>3. Coherent'
    <3>1. Root(disk)' = Root(disk) /\ Root(disk) \in Superblock
      BY <1>1, ImageTypes DEF Root, DirectoryInv, SharingInv
    <3> QED BY <1>1, <2>1, <3>1 DEF Coherent, Mountable, Superblock
  <2>4. LittleLost'
    BY <1>1, <1>4 DEF LittleLost, Contiguous
  <2> QED BY <1>1, <1>3, <2>2, <2>3, <2>4 DEF DirectoryInv, CreateFits, WriteFits
<1> QED BY <1>2, <1>5

-----------------------------------------------------------------------------
(* fs_create *)
LEMMA DirectoryCreateInBlock ==
  ASSUME DirectoryInv, SharingInv', NEW name \in Names, CreateInBlock(name)
  PROVE  DirectoryInv'
<1>1. /\ UNCHANGED <<disk, rootSB, nblocks>> /\ stable' = disk /\ pc = "idle" /\ pc' = "dirent"
      /\ Mounted /\ NewSlot # 0 /\ NewBlk < POINTERS_PER_ENT
      /\ name2number(disk, rootSB, name) = -1
      /\ frame' = [NoFrame EXCEPT !.name = name]
  BY DEF CreateInBlock, CanCreate, disk_read, Begin
<1>2. frame'.name = name
  BY <1>1 DEF NoFrame
<1>3. CreateFits'
  <2>1. NewBlk \in InUse(rootSB)
    <3>1. NewBlk \in Ptr
      BY <1>1, NewEntryPlace, ImageTypes, LayoutAssumption DEF DirectoryInv, SharingInv, Ptr
    <3> QED BY <1>1, <3>1, NewEntryPlace, ImageTypes DEF DirectoryInv, SharingInv
  <2>2. rootSB.blk[NewBlk] < nblocks
    BY <1>1, <2>1 DEF DirectoryInv, Tidy, Bounded, Coherent
  <2>3. ASSUME NEW i \in InUse(rootSB), NEW s \in Slot, SlotEntry(disk, rootSB, i, s).isvalid
        PROVE  SlotEntry(disk, rootSB, i, s).name # name \/ name \in LongNames
    BY <1>1, <2>3, NameIsNew, ImageTypes DEF DirectoryInv, SharingInv
  <2> QED BY <1>1, <1>2, <2>2, <2>3 DEF CreateFits, NewBlk
<1>4. /\ Tidy(disk, Root(disk))' /\ Tidy(stable, Root(stable))' /\ Tidy(disk, rootSB)'
  BY <1>1 DEF DirectoryInv, Root, Mounted
<1>5. Coherent'
  BY <1>1 DEF DirectoryInv, Coherent, Mounted, Root
<1> QED BY <1>1, <1>3, <1>4, <1>5 DEF DirectoryInv, WriteFits, LittleLost

(* A write leaves the other blocks alone. *)
LEMMA OtherBlocks ==
  ASSUME TypeInv, NEW b, NEW content, disk_write(b, content)
  PROVE  /\ \A m \in BlockNo : m # b => disk'[m] = disk[m]
         /\ b \in BlockNo => disk'[b] = content
         /\ stable' = disk
  BY DEF TypeInv, ImageInv, TypeOK, disk_write

(* Marking a block disturbs no directory. *)
LEMMA MarkKeeps ==
  ASSUME TypeInv, NEW content, disk_write(1, content)
  PROVE  /\ disk'[0] = disk[0]
         /\ \A sb \in Superblock : RootOK(sb) =>
              \A i \in InUse(sb) : disk'[sb.blk[i]] = disk[sb.blk[i]]
<1>1. disk'[0] = disk[0]
  BY OtherBlocks, ImageTypes
<1>2. ASSUME NEW sb \in Superblock, RootOK(sb), NEW i \in InUse(sb)
      PROVE  disk'[sb.blk[i]] = disk[sb.blk[i]]
  <2>1. sb.blk[i] \in BlockNo /\ sb.blk[i] # 1
    BY <1>2, SlotPtrType, ImageTypes
  <2> QED BY <2>1, OtherBlocks
<1> QED BY <1>1, <1>2

LEMMA DirectoryCreateInNewBlock ==
  ASSUME DirectoryInv, SharingInv', NEW name \in Names, CreateInNewBlock(name)
  PROVE  DirectoryInv'
<1> DEFINE b == alloc_block(disk, rootSB)
<1>1. /\ NewBlk \in Ptr /\ NewBlk \notin InUse(rootSB) /\ pc = "idle"
      /\ Mounted /\ name2number(disk, rootSB, name) = -1
      /\ rootSB \in Superblock /\ RootOK(rootSB)
      /\ Root(disk) \in Superblock /\ RootOK(Root(disk)) /\ Tidy(disk, rootSB)
  BY NewBlockPlace, ImageTypes
  DEF DirectoryInv, SharingInv, CreateInNewBlock, CanCreate
<1>2. ASSUME NEW c, rootSB' = [rootSB EXCEPT !.blk[NewBlk] = c]
      PROVE  /\ InUse(rootSB') = InUse(rootSB)
             /\ \A i \in InUse(rootSB) : rootSB'.blk[i] = rootSB.blk[i]
             /\ rootSB'.blk[NewBlk] = c /\ NewBlk' = NewBlk /\ Mounted'
             /\ rootSB'.size = rootSB.size /\ rootSB'.nblocks = rootSB.nblocks
             /\ \A D : Tidy(D, rootSB) => Tidy(D, rootSB')
  <2>1. /\ rootSB'.size = rootSB.size /\ rootSB'.blk = [rootSB.blk EXCEPT ![NewBlk] = c]
        /\ rootSB'.nblocks = rootSB.nblocks /\ rootSB'.magic = rootSB.magic
    BY <1>1, <1>2 DEF Superblock
  <2>2. /\ InUse(rootSB') = InUse(rootSB) /\ rootSB'.blk[NewBlk] = c
        /\ \A i \in InUse(rootSB) : rootSB'.blk[i] = rootSB.blk[i]
    BY <1>1, <2>1 DEF Superblock, InUse
  <2>3. \A D : Tidy(D, rootSB) => Tidy(D, rootSB')
    BY <2>1, <2>2, TidyAgain
  <2> QED BY <1>1, <2>1, <2>2, <2>3 DEF NewBlk, Mounted
<1>3. CASE HoldsBits /\ b = NOBLOCK
  <2>1. /\ rootSB' = [rootSB EXCEPT !.blk[NewBlk] = NOBLOCK] /\ disk_read /\ pc' = "idle"
        /\ nblocks' = nblocks
    BY <1>3 DEF CreateInNewBlock, Return, ReturnWith
  <2>2. disk' = disk /\ stable' = disk
    BY <2>1 DEF disk_read
  <2>3. Tidy(disk', rootSB') /\ Mounted' /\ rootSB'.size = rootSB.size
        /\ rootSB'.nblocks = rootSB.nblocks
    BY <1>1, <1>2, <2>1, <2>2
  <2>4. Coherent'
    BY <1>1, <2>1, <2>2, <2>3 DEF DirectoryInv, Coherent, Root
  <2>5. Tidy(disk', Root(disk)') /\ Tidy(stable', Root(stable)')
    BY <2>2, <2>3, <2>4, ImagesTidy
  <2>6. OneEntryLost(stable', disk')
    BY <2>2, SameImage
  <2> QED
    BY <2>1, <2>3, <2>4, <2>5, <2>6 DEF DirectoryInv, CreateFits, WriteFits, LittleLost
<1>4. CASE HoldsBits /\ b # NOBLOCK
  <2>1. /\ rootSB' = [rootSB EXCEPT !.blk[NewBlk] = b] /\ disk_write(1, Marked(b))
        /\ pc' = "dirent" /\ stable' = disk /\ nblocks' = nblocks
        /\ frame' = [NoFrame EXCEPT !.name = name]
    BY <1>4 DEF CreateInNewBlock, Begin, disk_write
  <2>2. b < rootSB.nblocks
    <3>1. b \in FreeBlocks(disk, rootSB)
      BY <1>1, <1>4, AllocType
    <3> HIDE DEF b
    <3> QED BY <1>1, <3>1 DEF FreeBlocks, Superblock
  <2> HIDE DEF b
  <2>3. /\ disk'[0] = disk[0]
        /\ \A i \in InUse(rootSB) : disk'[rootSB.blk[i]] = disk[rootSB.blk[i]]
    BY <1>1, <2>1, MarkKeeps DEF DirectoryInv, SharingInv
  <2>4. Tidy(disk', rootSB') /\ Mounted' /\ rootSB'.size = rootSB.size
        /\ rootSB'.nblocks = rootSB.nblocks
    BY <1>1, <1>2, <2>1, <2>3, TidySame
  <2>5. Coherent'
    BY <1>1, <2>1, <2>3, <2>4 DEF DirectoryInv, Coherent, Root
  <2>6. Tidy(disk', Root(disk)') /\ Tidy(stable', Root(stable)')
    BY <2>1, <2>4, <2>5, ImagesTidy
  <2>7. CreateFits'
    <3>1. rootSB'.blk[NewBlk'] = b /\ b < nblocks' /\ frame'.name = name
      BY <1>1, <1>2, <2>1, <2>2 DEF DirectoryInv, Coherent, NoFrame
    <3>2. ASSUME NEW i \in InUse(rootSB'), NEW s \in Slot, SlotEntry(disk', rootSB', i, s).isvalid
          PROVE  SlotEntry(disk', rootSB', i, s).name # name \/ name \in LongNames
      <4>1. i \in InUse(rootSB) /\ SlotEntry(disk', rootSB', i, s) = SlotEntry(disk, rootSB, i, s)
        BY <1>2, <2>1, <2>3, <3>2 DEF SlotEntry
      <4> QED BY <1>1, <3>2, <4>1, NameIsNew, ImageTypes DEF DirectoryInv, SharingInv
    <3> QED BY <3>1, <3>2 DEF CreateFits
  <2> QED
    BY <2>1, <2>4, <2>5, <2>6, <2>7 DEF DirectoryInv, WriteFits, LittleLost
<1>5. CASE ~HoldsBits
  BY <1>1, <1>5, DirectoryQuiet DEF CreateInNewBlock, Quiet, GoAstray, NoDisk
<1> QED BY <1>3, <1>4, <1>5

(* The entries of the directory after add_dirent. *)
LEMMA CreateDirentEntries ==
  ASSUME SharingInv, CreateDirent
  PROVE  /\ NewBlk \in Ptr /\ NewSlot \in Slot
         /\ rootSB'.size = rootSB.size + 1 /\ rootSB'.blk = rootSB.blk
         /\ rootSB'.nblocks = rootSB.nblocks /\ rootSB'.magic = rootSB.magic
         /\ disk'[0] = disk[0] /\ disk'[rootSB.blk[NewBlk]].kind = "dir"
         /\ \A m \in BlockNo : m # rootSB.blk[NewBlk] => disk'[m] = disk[m]
         /\ SlotEntry(disk', rootSB', NewBlk, NewSlot).isvalid
         /\ SlotEntry(disk', rootSB', NewBlk, NewSlot).name = frame.name
         /\ SlotEntry(disk', rootSB', NewBlk, NewSlot).size = 0
         /\ \A s \in Slot : s # NewSlot =>
              SlotEntry(disk', rootSB', NewBlk, s) =
                IF NewSlot = 0 THEN NullDirent ELSE SlotEntry(disk, rootSB, NewBlk, s)
         /\ \A i \in InUse(rootSB), s \in Slot : i # NewBlk =>
              SlotEntry(disk', rootSB', i, s) = SlotEntry(disk, rootSB, i, s)
<1> USE LayoutAssumption
<1> DEFINE b == rootSB.blk[NewBlk]
           diri == IF NewSlot = 0 THEN EmptyDir ELSE AsDir(disk[b])
           old == diri[NewSlot]
           new == [diri EXCEPT ![NewSlot] = NewDirent(old, frame.name)]
<1>1. /\ NewBlk \in Ptr /\ b \in BlockNo /\ b >= 2
      /\ NewSlot \in Slot
  BY NewEntryPlace DEF SharingInv, TypeInv, ImageInv, TypeOK, InCreate, CreateDirent, Superblock,
     DataPtr, BlockNo, NOBLOCK
<1>2. /\ disk_write(b, DirBlock(new))
      /\ rootSB' = [rootSB EXCEPT !.size = @ + 1]
  BY DEF CreateDirent
<1>3. /\ rootSB'.blk = rootSB.blk /\ rootSB'.size = rootSB.size + 1
      /\ rootSB'.nblocks = rootSB.nblocks /\ rootSB'.magic = rootSB.magic
  BY <1>2 DEF SharingInv, TypeInv, ImageInv, TypeOK, Superblock
<1>4. diri \in [Slot -> Dirent]
  <2>1. AsDir(disk[b]) \in [Slot -> Dirent]
    BY <1>1, ViewTypes DEF SharingInv, TypeInv, ImageInv, TypeOK
  <2>2. EmptyDir \in [Slot -> Dirent]
    BY DEF EmptyDir, NullDirent, Dirent, Ptr, DataPtr, BlockNo, MaxFileSize
  <2> QED BY <2>1, <2>2
<1>5. /\ disk'[b] = DirBlock(new)
      /\ \A m \in BlockNo : m # b => disk'[m] = disk[m]
  <2> HIDE DEF new
  <2> QED BY <1>1, <1>2, OtherBlocks DEF SharingInv
<1>6. \A s \in Slot : SlotEntry(disk', rootSB', NewBlk, s) = new[s]
  <2> HIDE DEF new
  <2> QED BY <1>3, <1>5 DEF SlotEntry, AsDir, DirBlock
<1>7. new[NewSlot] = NewDirent(old, frame.name) /\ old \in Dirent
  BY <1>1, <1>4
<1>8. new[NewSlot].isvalid /\ new[NewSlot].name = frame.name /\ new[NewSlot].size = 0
  <2> HIDE DEF new, old
  <2> QED BY <1>7 DEF NewDirent, Dirent
<1>9. ASSUME NEW s \in Slot, s # NewSlot
      PROVE  new[s] = IF NewSlot = 0 THEN NullDirent ELSE SlotEntry(disk, rootSB, NewBlk, s)
  <2>1. new[s] = diri[s]
    BY <1>4, <1>9
  <2>2. diri[s] = IF NewSlot = 0 THEN NullDirent ELSE SlotEntry(disk, rootSB, NewBlk, s)
    BY DEF EmptyDir, SlotEntry
  <2> QED BY <2>1, <2>2
<1>10. disk'[b].kind = "dir"
  BY <1>5 DEF DirBlock
<1>11. ASSUME NEW i \in InUse(rootSB), i # NewBlk
       PROVE  disk'[rootSB.blk[i]] = disk[rootSB.blk[i]]
  <2>1. rootSB.blk[i] \in BlockNo
    BY SlotPtrType DEF SharingInv, TypeInv, ImageInv, TypeOK
  <2>2. rootSB.blk[i] # b
    <3>1. CASE NewSlot = 0
      BY <3>1 DEF SharingInv, CallSound, CreateDirent, Unheld
    <3>2. CASE NewSlot # 0
      <4>1. NewBlk \in InUse(rootSB)
        BY <1>1, <3>2, NewEntryPlace DEF SharingInv, TypeInv, ImageInv, TypeOK
      <4> QED BY <1>11, <4>1 DEF SharingInv, CacheSound, Sound
    <3> QED BY <3>1, <3>2
  <2> QED BY <1>5, <2>1, <2>2
<1> HIDE DEF new, diri, old
<1>12. disk'[0] = disk[0]
  BY <1>1, <1>5 DEF BlockNo
<1>13. \A i \in InUse(rootSB), s \in Slot : i # NewBlk =>
         SlotEntry(disk', rootSB', i, s) = SlotEntry(disk, rootSB, i, s)
  BY <1>3, <1>11 DEF SlotEntry
<1> QED BY <1>1, <1>3, <1>5, <1>6, <1>8, <1>9, <1>10, <1>12, <1>13

LEMMA DirectoryCreateDirent ==
  ASSUME DirectoryInv, SharingInv', CreateDirent
  PROVE  DirectoryInv'
<1> USE LayoutAssumption
<1>1. /\ pc = "dirent" /\ pc' = "super" /\ stable' = disk /\ nblocks' = nblocks
      /\ Mounted /\ Mounted' /\ Tidy(disk, rootSB) /\ SharingInv
      /\ rootSB \in Superblock /\ rootSB' \in Superblock /\ RootOK(rootSB)
      /\ rootSB.blk[NewBlk] < rootSB.nblocks
  BY ImageTypes, CreateDirentEntries
  DEF CreateDirent, disk_write, DirectoryInv, SharingInv, CallSound, Coherent, CreateFits,
      Mounted, TypeInv, ImageInv, TypeOK
<1>2. \A i \in InUse(rootSB') : i \in InUse(rootSB) \/ i = NewBlk
  BY <1>1, CreateDirentPtrs DEF InUse
<1>3. NewSlot # 0 => NewBlk \in InUse(rootSB)
  BY <1>1, NewEntryPlace, CreateDirentEntries
<1>4. NewSlot = 0 => NewBlk \notin InUse(rootSB)
  BY <1>1, NewBlockPlace, CreateDirentEntries DEF Ptr
<1>5. Bounded(disk', rootSB')
  <2>1. rootSB'.size <= POINTERS_PER_ENT * DIRENTS_PER_BLOCK
    <3>1. /\ rootSB.size = DIRENTS_PER_BLOCK * NewBlk + NewSlot
          /\ NewBlk \in Nat /\ NewBlk + 1 <= POINTERS_PER_ENT /\ NewSlot \in Nat
          /\ NewSlot + 1 <= DIRENTS_PER_BLOCK
      BY <1>1, NewEntryPlace, CreateDirentEntries DEF Ptr, Slot
    <3>2. DIRENTS_PER_BLOCK * (NewBlk + 1) <= DIRENTS_PER_BLOCK * POINTERS_PER_ENT
      BY <3>1
    <3>3. rootSB'.size = rootSB.size + 1
      BY <1>1, CreateDirentEntries
    <3> QED BY <3>1, <3>2, <3>3
  <2>2. rootSB'.blk = rootSB.blk /\ rootSB'.nblocks = rootSB.nblocks
    BY <1>1, CreateDirentEntries
  <2>3. ASSUME NEW i \in InUse(rootSB')
        PROVE  rootSB.blk[i] < rootSB.nblocks
    BY <1>1, <1>2, <2>3 DEF Tidy, Bounded
  <2>4. 0 < rootSB.nblocks
    <3>1. rootSB.blk[NewBlk] >= 2 /\ rootSB.blk[NewBlk] \in Int /\ rootSB.nblocks \in Int
      BY <1>1, CreateDirentEntries
      DEF SharingInv, TypeInv, InCreate, Superblock, DataPtr, BlockNo, NOBLOCK
    <3> QED BY <1>1, <3>1
  <2>5. ASSUME NEW i \in InUse(rootSB'), NEW s \in Slot, NEW p \in Ptr
        PROVE  SlotPtr(disk', rootSB', i, s, p) < rootSB.nblocks
    <3>1. CASE i # NewBlk
      BY <1>1, <1>2, <2>5, <3>1, CreateDirentPtrs DEF Tidy, Bounded
    <3>2. CASE i = NewBlk /\ NewSlot = 0
      BY <1>1, <2>4, <3>2, CreateDirentPtrs
    <3>3. CASE i = NewBlk /\ NewSlot # 0
      BY <1>1, <1>3, <2>4, <3>3, CreateDirentPtrs DEF Tidy, Bounded
    <3> QED BY <3>1, <3>2, <3>3
  <2> QED BY <2>1, <2>2, <2>3, <2>5 DEF Bounded
<1>6. NamesDiffer(disk', rootSB')
  <2> DEFINE Old(i, s) ==
               /\ i \in InUse(rootSB) /\ ~(i = NewBlk /\ s = NewSlot)
               /\ SlotEntry(disk', rootSB', i, s) = SlotEntry(disk, rootSB, i, s)
  <2>1. ASSUME NEW i \in InUse(rootSB'), NEW s \in Slot, SlotEntry(disk', rootSB', i, s).isvalid
        PROVE  \/ Old(i, s)
               \/ i = NewBlk /\ s = NewSlot /\ SlotEntry(disk', rootSB', i, s).name = frame.name
    <3>1. CASE i = NewBlk /\ s = NewSlot
      BY <1>1, <3>1, CreateDirentEntries
    <3>2. CASE i # NewBlk
      BY <1>1, <1>2, <2>1, <3>2, CreateDirentEntries
    <3>3. CASE i = NewBlk /\ s # NewSlot
      <4>1. NewSlot # 0
        BY <1>1, <2>1, <3>3, CreateDirentEntries DEF NullDirent
      <4> QED BY <1>1, <1>3, <3>3, <4>1, CreateDirentEntries
    <3> QED BY <3>1, <3>2, <3>3
  <2>2. ASSUME NEW i, NEW s \in Slot, Old(i, s), SlotEntry(disk', rootSB', i, s).isvalid
        PROVE  SlotEntry(disk', rootSB', i, s).name # frame.name \/ frame.name \in LongNames
    BY <1>1, <2>2 DEF DirectoryInv, CreateFits
  <2>3. ASSUME NEW i, NEW j, NEW s \in Slot, NEW t \in Slot, Old(i, s), Old(j, t),
               SlotEntry(disk', rootSB', i, s).isvalid, SlotEntry(disk', rootSB', j, t).isvalid,
               SlotEntry(disk', rootSB', i, s).name = SlotEntry(disk', rootSB', j, t).name,
               SlotEntry(disk', rootSB', i, s).name \notin LongNames
        PROVE  i = j /\ s = t
    BY <1>1, <2>3 DEF Tidy, NamesDiffer
  <2> HIDE DEF Old
  <2>4. ASSUME NEW i \in InUse(rootSB'), NEW j \in InUse(rootSB'), NEW s \in Slot, NEW t \in Slot,
               SlotEntry(disk', rootSB', i, s).isvalid, SlotEntry(disk', rootSB', j, t).isvalid,
               SlotEntry(disk', rootSB', i, s).name = SlotEntry(disk', rootSB', j, t).name,
               SlotEntry(disk', rootSB', i, s).name \notin LongNames
        PROVE  i = j /\ s = t
    <3>1. CASE Old(i, s) /\ Old(j, t)
      BY <2>3, <2>4, <3>1
    <3>2. CASE ~Old(i, s) /\ ~Old(j, t)
      BY <2>1, <2>4, <3>2
    <3>3. CASE Old(i, s) /\ ~Old(j, t)
      BY <2>1, <2>2, <2>4, <3>3
    <3>4. CASE ~Old(i, s) /\ Old(j, t)
      BY <2>1, <2>2, <2>4, <3>4
    <3> QED BY <3>1, <3>2, <3>3, <3>4
  <2> QED BY <2>4 DEF NamesDiffer
<1>7. Coherent'
  <2>1. Root(disk)' = Root(disk) /\ rootSB'.size = rootSB.size + 1
        /\ rootSB'.nblocks = rootSB.nblocks
    BY <1>1, CreateDirentEntries DEF Root
  <2> QED BY <1>1, <2>1, ImageTypes DEF DirectoryInv, Coherent, SharingInv, Superblock
<1>8. Tidy(disk', Root(disk)') /\ Tidy(stable', Root(stable)')
  BY <1>1, <1>5, <1>6, <1>7, ImagesTidy DEF Tidy
<1> QED
  BY <1>1, <1>5, <1>6, <1>7, <1>8 DEF DirectoryInv, Tidy, CreateFits, WriteFits, LittleLost

(* The superblock reaches the disk: a kill after it loses no more than the  *)
(* new entry.                                                               *)
LEMMA DirectoryCreateEnd ==
  ASSUME DirectoryInv, SharingInv', CreateSuper \/ CreateAborts
  PROVE  DirectoryInv'
<1> DEFINE new == [disk EXCEPT ![0] = SuperBlock(rootSB)]
<1>1. /\ rootSB \in Superblock /\ RootOK(rootSB) /\ Tidy(disk, rootSB) /\ Mounted
      /\ Root(disk) \in Superblock /\ RootOK(Root(disk)) /\ PartOf(Root(disk), rootSB)
      /\ rootSB.size = Root(disk).size + 1 /\ SharingInv
      /\ disk \in [BlockNo -> Block] /\ 0 \in BlockNo
  BY ImageTypes
  DEF DirectoryInv, SharingInv, CacheSound, CallSound, CreateSuper, CreateAborts, Coherent
<1>2. Root(new) = rootSB /\ \A m \in BlockNo : m # 0 => new[m] = disk[m]
  BY <1>1 DEF Root, AsSuper, SuperBlock
<1>3. Tidy(new, rootSB)
  <2>1. \A i \in InUse(rootSB) : new[rootSB.blk[i]] = disk[rootSB.blk[i]]
    BY <1>1, <1>2, SlotPtrType
  <2> HIDE DEF new
  <2> QED BY <1>1, <2>1, TidySame
<1> HIDE DEF new
<1>4. CASE CreateSuper
  <2>1. disk' = new /\ stable' = disk /\ rootSB' = rootSB /\ pc' = "idle" /\ nblocks' = nblocks
    BY <1>4 DEF CreateSuper, disk_write, Return, ReturnWith, new
  <2>2. Tidy(disk, Root(disk))' /\ Tidy(stable, Root(stable))' /\ Mounted' /\ Tidy(disk, rootSB)'
    BY <1>1, <1>2, <1>3, <2>1 DEF DirectoryInv, Root, Mounted
  <2>3. Coherent'
    BY <1>1, <1>2, <2>1 DEF DirectoryInv, Coherent, Root, Superblock
  <2>4. OneEntryLost(stable', disk')
    <3>1. ASSUME NEW n \in 0 .. Root(disk).size - 1
          PROVE  SameEntry(disk, new, n)
      <4>1. n \div DIRENTS_PER_BLOCK \in InUse(Root(disk))
        BY <1>1, EntryPlace DEF DirectoryInv, Tidy, Bounded
      <4>2. /\ rootSB.blk[n \div DIRENTS_PER_BLOCK] = Root(disk).blk[n \div DIRENTS_PER_BLOCK]
            /\ Root(disk).blk[n \div DIRENTS_PER_BLOCK] \in BlockNo \ {0}
        BY <1>1, <4>1, SlotPtrType DEF PartOf
      <4> QED BY <1>2, <4>2 DEF SameEntry, EntryAt
    <3> QED BY <1>1, <1>2, <2>1, <3>1 DEF OneEntryLost
  <2> QED BY <2>1, <2>2, <2>3, <2>4 DEF DirectoryInv, CreateFits, WriteFits, LittleLost
<1>5. CASE CreateAborts
  <2>1. /\ disk' \in {disk, new} /\ stable' = disk' /\ rootSB' = ZeroSB /\ pc' = "down"
        /\ ~Mounted'
    BY <1>5 DEF CreateAborts, Die, new, Mounted, ZeroSB
  <2>2. Tidy(disk', Root(disk)') /\ Tidy(stable', Root(stable)')
    BY <1>1, <1>2, <1>3, <2>1 DEF DirectoryInv, Root
  <2> QED BY <2>1, <2>2, DirectoryUnmounted
<1> QED BY <1>4, <1>5

-----------------------------------------------------------------------------
(* fs_write *)
LEMMA DirectoryWriteCall ==
  ASSUME DirectoryInv, SharingInv', NEW inumber \in EntryNumbers(rootSB),
         NEW data \in Payloads, NEW offset \in Offsets, WriteCall(inumber, data, offset)
  PROVE  DirectoryInv'
<1> DEFINE de == LoadDirent(inumber)
           slot == inumber % DIRENTS_PER_BLOCK
<1>1. CASE ~CanWrite(de, Len(data), offset)
  BY <1>1, DirectoryQuiet DEF Quiet, WriteCall, Return, ReturnWith, disk_read
<1>2. CASE CanWrite(de, Len(data), offset)
  <2>1. /\ UNCHANGED <<disk, rootSB, nblocks>> /\ stable' = disk /\ pc = "idle" /\ pc' = "write"
        /\ Mounted /\ de.isvalid
        /\ frame' = [NoFrame EXCEPT !.inumber = inumber, !.dirent = de,
                       !.data = data, !.offset = offset, !.cur = offset]
    BY <1>2 DEF WriteCall, Begin, disk_read, CanWrite
  <2>2. frame'.inumber = inumber /\ frame'.dirent = de
    BY <2>1 DEF NoFrame
  <2>3. slot \in Slot
    BY DivMod, LayoutAssumption DEF EntryNumbers, Slot
  <2>4. ASSUME NEW i \in InUse(rootSB), rootSB.blk[i] = DirentBlock(inumber)
        PROVE  de = SlotEntry(disk, rootSB, i, slot)
               /\ \A p \in Ptr : de.blk[p] = SlotPtr(disk, rootSB, i, slot, p)
    BY <2>4 DEF LoadDirent, SlotEntry, SlotPtr
  <2> HIDE DEF de, slot
  <2>5. WriteFits'
    <3>1. \A i \in InUse(rootSB) : rootSB.blk[i] = DirentBlock(inumber) =>
            \A p \in Ptr : de.blk[p] < nblocks
      BY <2>1, <2>3, <2>4 DEF DirectoryInv, Tidy, Bounded, Coherent
    <3> QED BY <2>1, <2>2, <2>4, <3>1 DEF WriteFits, slot
  <2>6. Tidy(disk, Root(disk))' /\ Tidy(stable, Root(stable))' /\ Tidy(disk, rootSB)'
    BY <2>1 DEF DirectoryInv, Root, Mounted
  <2>7. Coherent'
    BY <2>1 DEF DirectoryInv, Coherent, Root, Mounted
  <2>8. LittleLost'
    BY <2>1, SameImage DEF LittleLost
  <2> QED BY <2>1, <2>5, <2>6, <2>7, <2>8 DEF DirectoryInv, CreateFits
<1> QED BY <1>1, <1>2

(* Outside fs_create the directory in memory is the one on the disk.        *)
LEMMA SameDirectory ==
  ASSUME DirectoryInv, Mounted, pc # "super"
  PROVE  /\ InUse(Root(disk)) = InUse(rootSB)
         /\ \A i \in InUse(rootSB) : Root(disk).blk[i] = rootSB.blk[i]
         /\ Contiguous(disk) <=> InOrder(rootSB)
<1>1. Root(disk).size = rootSB.size
  BY ImageTypes DEF DirectoryInv, SharingInv, Coherent, Superblock
<1>2. InUse(Root(disk)) = InUse(rootSB)
  BY <1>1 DEF InUse
<1> QED BY <1>2 DEF DirectoryInv, SharingInv, CacheSound, PartOf, Contiguous, InOrder

(* In a directory in order, the entry fs_write has read is in its place.    *)
LEMMA OrderedEntry ==
  ASSUME DirectoryInv, pc = "write", InOrder(rootSB)
  PROVE  /\ frame.inumber \div DIRENTS_PER_BLOCK \in InUse(rootSB)
         /\ rootSB.blk[frame.inumber \div DIRENTS_PER_BLOCK] = DirentBlock(frame.inumber)
  BY DEF DirectoryInv, WriteFits, EntryNumbers, InOrder, DirentBlock

LEMMA DirectoryWriteAlloc ==
  ASSUME DirectoryInv, SharingInv', WriteAlloc
  PROVE  DirectoryInv'
<1> DEFINE b == alloc_block(disk, rootSB)
           slot == frame.inumber % DIRENTS_PER_BLOCK
<1>1. /\ pc = "write" /\ Mounted /\ SharingInv /\ Tidy(disk, rootSB)
      /\ rootSB \in Superblock /\ RootOK(rootSB)
      /\ Root(disk) \in Superblock /\ RootOK(Root(disk))
  BY ImageTypes DEF WriteAlloc, DirectoryInv, SharingInv, CallSound
<1>2. CASE b = NOBLOCK
  <2>1. disk_read /\ pc' = "idle" /\ UNCHANGED <<rootSB, nblocks>>
    BY <1>2 DEF WriteAlloc, Return, ReturnWith
  <2> QED BY <1>1, <2>1, DirectoryQuiet DEF disk_read, Quiet
<1>3. CASE b # NOBLOCK
  <2>1. /\ disk_write(1, Marked(b)) /\ stable' = disk
        /\ frame' = [frame EXCEPT !.dirent.blk[CurPtr] = b]
        /\ frame.dirent.blk[CurPtr] = 0
        /\ pc' = "write" /\ rootSB' = rootSB /\ nblocks' = nblocks
    BY <1>1, <1>3 DEF WriteAlloc, disk_write
  <2>2. b < nblocks /\ CurPtr \in Ptr
    <3>1. b \in FreeBlocks(disk, rootSB)
      BY <1>1, <1>3, AllocType
    <3>2. CurPtr \in Ptr
      BY WritePlace DEF WriteAlloc, DirectoryInv, SharingInv, TypeInv
    <3> HIDE DEF b
    <3> QED BY <1>1, <3>1, <3>2 DEF FreeBlocks, Superblock, DirectoryInv, Coherent
  <2> HIDE DEF b
  <2>3. /\ disk'[0] = disk[0] /\ Root(disk)' = Root(disk)
        /\ \A i \in InUse(rootSB) : disk'[rootSB.blk[i]] = disk[rootSB.blk[i]]
        /\ \A i \in InUse(Root(disk)) : disk'[Root(disk).blk[i]] = disk[Root(disk).blk[i]]
    BY <1>1, <2>1, MarkKeeps DEF SharingInv, Root
  <2>4. Tidy(disk', rootSB') /\ Mounted'
    BY <1>1, <2>1, <2>3, TidySame DEF Mounted
  <2>5. Coherent'
    BY <1>1, <2>1, <2>3 DEF DirectoryInv, Coherent, Mounted
  <2>6. Tidy(disk', Root(disk)') /\ Tidy(stable', Root(stable)')
    BY <2>1, <2>4, <2>5, ImagesTidy
  <2>7. /\ frame'.inumber = frame.inumber
        /\ frame'.dirent.isvalid = frame.dirent.isvalid
        /\ frame'.dirent.name = frame.dirent.name
        /\ frame'.dirent.size = frame.dirent.size
        /\ frame'.dirent.blk[CurPtr] = b
        /\ \A p \in Ptr : p # CurPtr => frame'.dirent.blk[p] = frame.dirent.blk[p]
    BY <2>1, <2>2 DEF DirectoryInv, SharingInv, TypeInv, ImageInv, TypeOK, Frame, Dirent
  <2>8. WriteFits'
    <3>1. ASSUME NEW i \in InUse(rootSB), rootSB.blk[i] = DirentBlock(frame.inumber)
          PROVE  LET e == SlotEntry(disk', rootSB, i, slot)
                 IN  /\ e.isvalid /\ e.name = frame'.dirent.name /\ e.size = frame'.dirent.size
                     /\ \A p \in Ptr : /\ frame'.dirent.blk[p] < nblocks
                                       /\ e.blk[p] \in {0, frame'.dirent.blk[p]}
      <4> DEFINE e == SlotEntry(disk, rootSB, i, slot)
      <4>1. SlotEntry(disk', rootSB, i, slot) = e
        BY <2>3 DEF SlotEntry
      <4>2. /\ e.isvalid /\ e.name = frame.dirent.name /\ e.size = frame.dirent.size
            /\ \A p \in Ptr : /\ frame.dirent.blk[p] < nblocks
                              /\ e.blk[p] \in {0, frame.dirent.blk[p]}
        BY <1>1, <3>1 DEF DirectoryInv, WriteFits
      <4> HIDE DEF e
      <4> QED BY <2>1, <2>2, <2>7, <4>1, <4>2
    <3>2. frame.inumber \in EntryNumbers(rootSB) /\ frame.dirent.isvalid
      BY <1>1 DEF DirectoryInv, WriteFits
    <3>3. rootSB' = rootSB /\ nblocks' = nblocks /\ frame'.inumber = frame.inumber
          /\ frame'.dirent.isvalid = frame.dirent.isvalid
      BY <2>1, <2>7
    <3> QED BY <3>1, <3>2, <3>3 DEF WriteFits
  <2>9. LittleLost'
    <3>1. DirectoryOnDisk(stable', disk')
      BY <2>1, <2>3 DEF DirectoryOnDisk, Root
    <3> QED BY <2>1, <3>1 DEF LittleLost
  <2> QED BY <2>1, <2>4, <2>5, <2>6, <2>8, <2>9 DEF DirectoryInv, CreateFits
<1> QED BY <1>2, <1>3

(* The block a step of fs_write fills: none of the directory's, when the    *)
(* entry was read from one of those.                                        *)
LEMMA WriteBlockPlace ==
  ASSUME SharingInv, WriteBlock, ~Abort
  PROVE  LET b == frame.dirent.blk[CurPtr] IN
         /\ CurPtr \in Ptr /\ b \in BlockNo /\ b >= 2
         /\ pc = "write" /\ pc' = "write" /\ Mounted /\ Mounted'
         /\ UNCHANGED <<rootSB, nblocks>> /\ stable' = disk
         /\ frame'.inumber = frame.inumber /\ frame'.dirent = frame.dirent
         /\ \A m \in BlockNo : m # b => disk'[m] = disk[m]
         /\ disk'[b].kind = "data" /\ Root(disk)' = Root(disk)
         /\ \A i, j \in InUse(rootSB) :
              rootSB.blk[i] = DirentBlock(frame.inumber) => rootSB.blk[j] # b
<1> DEFINE b == frame.dirent.blk[CurPtr]
<1>1. /\ pc = "write" /\ pc' = "write" /\ UNCHANGED <<rootSB, nblocks>> /\ stable' = disk
      /\ \E bytes : disk_write(b, DataBlock(bytes))
      /\ frame' = [frame EXCEPT !.cur = @ + nCopy] /\ b # 0
  BY DEF WriteBlock, disk_write
<1>2. CurPtr \in Ptr
  BY WritePlace DEF WriteBlock, SharingInv, TypeInv
<1>3. b \in BlockNo /\ b >= 2
  BY <1>1, <1>2 DEF SharingInv, TypeInv, ImageInv, TypeOK, Frame, Dirent, DataPtr, BlockNo
<1>4. /\ frame'.inumber = frame.inumber /\ frame'.dirent = frame.dirent
  BY <1>1 DEF SharingInv, TypeInv, ImageInv, TypeOK, Frame
<1>5. Mounted /\ Mounted'
  BY <1>1 DEF SharingInv, CallSound, Mounted
<1>6. \A i, j \in InUse(rootSB) :
        rootSB.blk[i] = DirentBlock(frame.inumber) => rootSB.blk[j] # b
  BY <1>1, <1>2 DEF SharingInv, FrameSound
<1> HIDE DEF b
<1>7. /\ disk'[b].kind = "data"
      /\ \A m \in BlockNo : m # b => disk'[m] = disk[m]
  BY <1>1, <1>3, OtherBlocks DEF SharingInv, DataBlock
<1>8. Root(disk)' = Root(disk)
  BY <1>3, <1>7, ImageTypes DEF Root, SharingInv
<1> QED BY <1>1, <1>2, <1>3, <1>4, <1>5, <1>6, <1>7, <1>8 DEF b

LEMMA DirectoryWriteBlock ==
  ASSUME DirectoryInv, SharingInv', WriteBlock
  PROVE  DirectoryInv'
<1> DEFINE b == frame.dirent.blk[CurPtr]
           slot == frame.inumber % DIRENTS_PER_BLOCK
<1> SUFFICES ASSUME ~Abort PROVE DirectoryInv'
  BY DirectoryQuit
<1>1. /\ b \in BlockNo /\ b >= 2 /\ SharingInv /\ Tidy(disk, rootSB)
      /\ pc = "write" /\ pc' = "write" /\ Mounted /\ Mounted'
      /\ rootSB' = rootSB /\ nblocks' = nblocks /\ stable' = disk
      /\ frame'.inumber = frame.inumber /\ frame'.dirent = frame.dirent
      /\ \A m \in BlockNo : m # b => disk'[m] = disk[m]
      /\ disk'[b].kind = "data" /\ Root(disk)' = Root(disk)
      /\ \A i, j \in InUse(rootSB) :
           rootSB.blk[i] = DirentBlock(frame.inumber) => rootSB.blk[j] # b
      /\ rootSB \in Superblock /\ RootOK(rootSB)
  BY WriteBlockPlace, ImageTypes DEF DirectoryInv, SharingInv
<1> HIDE DEF b
<1>2. \A i \in InUse(rootSB) : rootSB.blk[i] \in BlockNo
  BY <1>1, SlotPtrType, ImageTypes DEF SharingInv
<1>3. Tidy(disk', rootSB)
  <2>1. ASSUME NEW i \in InUse(rootSB), NEW s \in Slot
        PROVE  \/ SlotEntry(disk', rootSB, i, s) = SlotEntry(disk, rootSB, i, s)
               \/ SlotEntry(disk', rootSB, i, s) = NullDirent
    <3>1. CASE rootSB.blk[i] # b
      BY <1>1, <1>2, <3>1 DEF SlotEntry
    <3>2. CASE rootSB.blk[i] = b
      BY <1>1, <3>2 DEF SlotEntry, AsDir, EmptyDir
    <3> QED BY <3>1, <3>2
  <2>2. ASSUME NEW i \in InUse(rootSB), NEW s \in Slot
        PROVE  /\ \A p \in Ptr : SlotPtr(disk', rootSB, i, s, p) \in
                                   {0, SlotPtr(disk, rootSB, i, s, p)}
               /\ SlotEntry(disk', rootSB, i, s).isvalid =>
                    /\ SlotEntry(disk, rootSB, i, s).isvalid
                    /\ SlotEntry(disk', rootSB, i, s).name = SlotEntry(disk, rootSB, i, s).name
    BY <2>1 DEF SlotPtr, SlotEntry, NullDirent
  <2> QED BY <1>1, <2>2, TidyLater
<1>4. Coherent'
  BY <1>1 DEF DirectoryInv, Coherent, Mounted
<1>5. Tidy(disk', Root(disk)') /\ Tidy(stable', Root(stable)')
  BY <1>1, <1>3, <1>4, ImagesTidy
<1>6. WriteFits'
  <2>1. ASSUME NEW i \in InUse(rootSB), rootSB.blk[i] = DirentBlock(frame.inumber)
        PROVE  SlotEntry(disk', rootSB, i, slot) = SlotEntry(disk, rootSB, i, slot)
    BY <1>1, <1>2, <2>1 DEF SlotEntry
  <2> QED BY <1>1, <2>1 DEF DirectoryInv, WriteFits
<1>7. LittleLost'
  <2> SUFFICES ASSUME Contiguous(disk') PROVE DirectoryOnDisk(stable', disk')
    BY <1>1 DEF LittleLost
  <2>1. InOrder(rootSB)
    BY <1>1, SameDirectory DEF Contiguous, Root
  <2>2. \A i \in InUse(rootSB) : disk'[rootSB.blk[i]] = disk[rootSB.blk[i]]
    BY <1>1, <1>2, <2>1, OrderedEntry
  <2> QED BY <1>1, <2>2, SameDirectory DEF DirectoryOnDisk, Root
<1> QED BY <1>1, <1>3, <1>4, <1>5, <1>6, <1>7 DEF DirectoryInv, CreateFits

(* The entry fs_write brings up to date keeps its name.                     *)
WritesDirent ==
  /\ pc = "write" /\ frame.cur >= WriteEnd /\ frame.cur > frame.dirent.size
  /\ disk_write(DirentBlock(frame.inumber),
                DirBlock([AsDir(disk[DirentBlock(frame.inumber)]) EXCEPT
                   ![frame.inumber % DIRENTS_PER_BLOCK] =
                      [frame.dirent EXCEPT !.size = frame.cur]]))
  /\ pc' = "idle" /\ UNCHANGED <<nblocks, rootSB>>

LEMMA WritesDirentPlace ==
  ASSUME SharingInv, WritesDirent
  PROVE  LET b == DirentBlock(frame.inumber)
             slot == frame.inumber % DIRENTS_PER_BLOCK
         IN  /\ b \in Nat /\ b >= 2 /\ slot \in Slot
             /\ pc = "write" /\ pc' = "idle" /\ Mounted /\ Mounted'
             /\ UNCHANGED <<rootSB, nblocks>> /\ stable' = disk
             /\ \A m \in BlockNo : m # b => disk'[m] = disk[m]
             /\ b \in BlockNo => disk'[b].kind = "dir"
             /\ Root(disk)' = Root(disk)
             /\ \A i \in InUse(rootSB), t \in Slot :
                  IF rootSB.blk[i] = b /\ t = slot
                  THEN /\ SlotEntry(disk', rootSB, i, t).isvalid = frame.dirent.isvalid
                       /\ SlotEntry(disk', rootSB, i, t).name = frame.dirent.name
                       /\ SlotEntry(disk', rootSB, i, t).size = frame.cur
                       /\ SlotEntry(disk', rootSB, i, t).blk = frame.dirent.blk
                  ELSE SlotEntry(disk', rootSB, i, t) = SlotEntry(disk, rootSB, i, t)
<1> DEFINE b == DirentBlock(frame.inumber)
           slot == frame.inumber % DIRENTS_PER_BLOCK
           grown == [frame.dirent EXCEPT !.size = frame.cur]
           new == [AsDir(disk[b]) EXCEPT ![slot] = grown]
<1>1. /\ pc = "write" /\ pc' = "idle" /\ UNCHANGED <<rootSB, nblocks>> /\ stable' = disk
      /\ disk_write(b, DirBlock(new)) /\ Mounted /\ Mounted'
  BY DEF WritesDirent, disk_write, SharingInv, CallSound, Mounted
<1>2. b \in Nat /\ b >= 2 /\ slot \in Slot
  <2>1. frame.inumber \in Nat
    BY DEF SharingInv, TypeInv, ImageInv, TypeOK, Frame
  <2>2. slot \in Slot /\ frame.inumber \div DIRENTS_PER_BLOCK \in Nat
    BY <2>1, DivMod, LayoutAssumption DEF Slot
  <2> QED BY <2>2 DEF DirentBlock
<1>3. /\ grown.isvalid = frame.dirent.isvalid /\ grown.name = frame.dirent.name
      /\ grown.size = frame.cur /\ grown.blk = frame.dirent.blk
  BY DEF SharingInv, TypeInv, ImageInv, TypeOK, Frame, Dirent
<1> HIDE DEF b, slot, grown
<1>4. /\ \A m \in BlockNo : m # b => disk'[m] = disk[m]
      /\ b \in BlockNo => disk'[b] = DirBlock(new)
  <2> HIDE DEF new
  <2> QED BY <1>1, OtherBlocks DEF SharingInv
<1>5. Root(disk)' = Root(disk)
  BY <1>2, <1>4, ImageTypes DEF Root, SharingInv
<1>6. ASSUME NEW i \in InUse(rootSB), NEW t \in Slot
      PROVE  SlotEntry(disk', rootSB, i, t) =
               IF rootSB.blk[i] = b /\ t = slot THEN grown ELSE SlotEntry(disk, rootSB, i, t)
  <2>1. rootSB.blk[i] \in BlockNo
    BY SlotPtrType, ImageTypes DEF SharingInv
  <2>2. CASE rootSB.blk[i] # b
    BY <1>4, <2>1, <2>2 DEF SlotEntry
  <2>3. CASE rootSB.blk[i] = b
    <3>1. AsDir(disk[b]) \in [Slot -> Dirent]
      BY <2>1, <2>3, ViewTypes DEF SharingInv, TypeInv, ImageInv, TypeOK
    <3>2. new[t] = IF t = slot THEN grown ELSE AsDir(disk[b])[t]
      BY <3>1
    <3>3. SlotEntry(disk', rootSB, i, t) = new[t]
      <4> HIDE DEF new
      <4> QED BY <1>4, <2>1, <2>3 DEF SlotEntry, AsDir, DirBlock
    <3> QED BY <2>3, <3>2, <3>3 DEF SlotEntry
  <2> QED BY <2>2, <2>3
<1>7. b \in BlockNo => disk'[b].kind = "dir"
  BY <1>4 DEF DirBlock
<1> QED BY <1>1, <1>2, <1>3, <1>4, <1>5, <1>6, <1>7 DEF b, slot

LEMMA DirectoryWritesDirent ==
  ASSUME DirectoryInv, SharingInv', WritesDirent
  PROVE  DirectoryInv'
<1> DEFINE b == DirentBlock(frame.inumber)
           slot == frame.inumber % DIRENTS_PER_BLOCK
<1>1. /\ slot \in Slot /\ pc = "write" /\ pc' = "idle" /\ Mounted /\ Mounted'
      /\ rootSB' = rootSB /\ nblocks' = nblocks /\ stable' = disk
      /\ \A m \in BlockNo : m # b => disk'[m] = disk[m]
      /\ Root(disk)' = Root(disk) /\ SharingInv /\ Tidy(disk, rootSB)
      /\ \A i \in InUse(rootSB), t \in Slot :
           IF rootSB.blk[i] = b /\ t = slot
           THEN /\ SlotEntry(disk', rootSB, i, t).isvalid = frame.dirent.isvalid
                /\ SlotEntry(disk', rootSB, i, t).name = frame.dirent.name
                /\ SlotEntry(disk', rootSB, i, t).blk = frame.dirent.blk
           ELSE SlotEntry(disk', rootSB, i, t) = SlotEntry(disk, rootSB, i, t)
      /\ frame.inumber \in EntryNumbers(rootSB) /\ nblocks = rootSB.nblocks
  BY WritesDirentPlace DEF DirectoryInv, Coherent, WriteFits
<1>2. \A i \in InUse(rootSB) : rootSB.blk[i] = b =>
        /\ SlotEntry(disk, rootSB, i, slot).isvalid
        /\ SlotEntry(disk, rootSB, i, slot).name = frame.dirent.name
        /\ \A p \in Ptr : frame.dirent.blk[p] < nblocks
  BY <1>1 DEF DirectoryInv, WriteFits
<1> HIDE DEF b, slot
<1>3. Tidy(disk', rootSB)
  <2>1. NamesDiffer(disk', rootSB)
    <3>1. ASSUME NEW i \in InUse(rootSB), NEW t \in Slot, SlotEntry(disk', rootSB, i, t).isvalid
          PROVE  /\ SlotEntry(disk, rootSB, i, t).isvalid
                 /\ SlotEntry(disk', rootSB, i, t).name = SlotEntry(disk, rootSB, i, t).name
      BY <1>1, <1>2, <3>1
    <3> QED BY <1>1, <3>1, NamesLater DEF Tidy
  <2>2. ASSUME NEW i \in InUse(rootSB), NEW t \in Slot, NEW p \in Ptr
        PROVE  SlotPtr(disk', rootSB, i, t, p) < rootSB.nblocks
    <3>1. SlotPtr(disk', rootSB, i, t, p) = SlotEntry(disk', rootSB, i, t).blk[p]
      BY DEF SlotPtr, SlotEntry
    <3>2. CASE rootSB.blk[i] = b /\ t = slot
      BY <1>1, <1>2, <3>1, <3>2
    <3>3. CASE ~(rootSB.blk[i] = b /\ t = slot)
      <4>1. SlotPtr(disk', rootSB, i, t, p) = SlotPtr(disk, rootSB, i, t, p)
        BY <1>1, <3>1, <3>3 DEF SlotPtr, SlotEntry
      <4> QED BY <1>1, <4>1 DEF Tidy, Bounded
    <3> QED BY <3>2, <3>3
  <2> QED BY <1>1, <2>1, <2>2 DEF Tidy, Bounded
<1>4. Coherent'
  BY <1>1 DEF DirectoryInv, Coherent, Mounted
<1>5. Tidy(disk', Root(disk)') /\ Tidy(stable', Root(stable)')
  BY <1>1, <1>3, <1>4, ImagesTidy
<1>6. LittleLost'
  <2> SUFFICES ASSUME Contiguous(disk') PROVE OneEntryLost(disk, disk')
    BY <1>1 DEF LittleLost
  <2>1. /\ InOrder(rootSB) /\ InUse(Root(disk)) = InUse(rootSB)
        /\ \A i \in InUse(rootSB) : Root(disk).blk[i] = rootSB.blk[i]
    BY <1>1, SameDirectory DEF Contiguous, Root
  <2>2. frame.inumber \in 0 .. POINTERS_PER_ENT * DIRENTS_PER_BLOCK
    BY <1>1, LayoutAssumption DEF EntryNumbers
  <2>3. ASSUME NEW n \in 0 .. Root(disk).size - 1, n # frame.inumber
        PROVE  SameEntry(disk, disk', n)
    <3> DEFINE i == n \div DIRENTS_PER_BLOCK
               s == n % DIRENTS_PER_BLOCK
    <3>1. i \in InUse(rootSB) /\ s \in Slot /\ n = DIRENTS_PER_BLOCK * i + s
      BY <2>1, EntryPlace, ImageTypes DEF DirectoryInv, SharingInv, Tidy, Bounded
    <3>2. ~(rootSB.blk[i] = b /\ s = slot)
      <4>1. frame.inumber \in Nat
        BY <1>1 DEF EntryNumbers
      <4>2. /\ frame.inumber = DIRENTS_PER_BLOCK * (frame.inumber \div DIRENTS_PER_BLOCK) + slot
            /\ frame.inumber \div DIRENTS_PER_BLOCK \in Nat
        BY <4>1, DivMod, LayoutAssumption DEF slot
      <4>3. rootSB.blk[i] = b => i = frame.inumber \div DIRENTS_PER_BLOCK
        BY <2>1, <3>1, <4>2, LayoutAssumption DEF InOrder, InUse, Ptr, b, DirentBlock
      <4> HIDE DEF i, s
      <4> QED BY <2>3, <3>1, <4>2, <4>3
    <3>3. SlotEntry(disk', rootSB, i, s) = SlotEntry(disk, rootSB, i, s)
      BY <1>1, <3>1, <3>2
    <3>4. /\ EntryAt(disk, Root(disk), n) = SlotEntry(disk, rootSB, i, s)
          /\ EntryAt(disk', Root(disk), n) = SlotEntry(disk', rootSB, i, s)
      BY <2>1, <3>1 DEF EntryAt, SlotEntry
    <3> QED BY <1>1, <3>3, <3>4 DEF SameEntry, Root
  <2> QED BY <1>1, <2>2, <2>3 DEF OneEntryLost, Root
<1> QED BY <1>1, <1>3, <1>4, <1>5, <1>6 DEF DirectoryInv, CreateFits, WriteFits

LEMMA WriteDirentCases ==
  ASSUME SharingInv, WriteDirent
  PROVE  Quiet \/ WritesDirent
<1>1. CASE NoDisk /\ Return("write", Written, Len(frame.data)) /\ UNCHANGED <<nblocks, rootSB>>
  BY <1>1 DEF WriteDirent, Quiet, NoDisk, Return, ReturnWith
<1>2. CASE GoAstray
  BY <1>2 DEF WriteDirent, Quiet, GoAstray, NoDisk
<1>3. CASE WritesDirent
  BY <1>3
<1> QED BY <1>1, <1>2, <1>3 DEF WriteDirent, WritesDirent, Return, ReturnWith

-----------------------------------------------------------------------------
LEMMA DirectoryStep == DirectoryInv /\ [NextFormatted]_vars => DirectoryInv'
<1> SUFFICES ASSUME DirectoryInv, [NextFormatted]_vars PROVE DirectoryInv'
  OBVIOUS
<1>1. SharingInv /\ SharingInv'
  BY SharingStep DEF DirectoryInv
<1>2. CASE Session
  BY <1>1, <1>2, DirectoryQuit, DirectoryStart DEF Session
<1>3. CASE Call
  <2>1. CASE FormatMounted \/ \E op \in {"read", "write"} : AccessUnmounted(op)
    BY <1>1, <2>1, DirectoryQuiet
    DEF Quiet, FormatMounted, AccessUnmounted, Return, ReturnWith, NoDisk
  <2>2. CASE FormatSuper \/ Mount \/ Umount
    BY <1>1, <2>2, DirectoryFormat, DirectoryMount
  <2>3. CASE Lsdir \/ \E name \in Names : Open(name) \/ CreateFails(name)
    BY <1>1, <2>3, DirectoryQuiet
    DEF Quiet, Lsdir, Open, CreateFails, ScanDirectory, Return, ReturnWith, disk_read, NoDisk
  <2>4. CASE ScanGarbage
    BY <1>1, <2>4, DirectoryQuiet DEF Quiet, ScanGarbage, GoAstray, NoDisk
  <2>5. CASE Debug
    BY <1>1, <2>5, DirectoryQuiet DEF Quiet, Debug, disk_read
  <2>6. CASE \E name \in Names : CreateInBlock(name) \/ CreateInNewBlock(name)
    BY <1>1, <2>6, DirectoryCreateInBlock, DirectoryCreateInNewBlock
  <2>7. ASSUME NEW inumber \in EntryNumbers(rootSB), NEW offset \in Offsets,
               \E data \in Payloads : WriteCall(inumber, data, offset)
        PROVE  DirectoryInv'
    BY <1>1, <2>7, DirectoryWriteCall
  <2>8. ASSUME NEW inumber \in EntryNumbers(rootSB), NEW offset \in Offsets,
               NEW length \in ReadLengths, Read(inumber, length, offset)
        PROVE  DirectoryInv'
    <3>1. CASE Die
      BY <1>1, <2>8, <3>1, DirectoryQuit DEF Read, Quit
    <3>2. CASE UNCHANGED <<nblocks, rootSB>> /\ pc' = "idle"
      BY <1>1, <2>8, <3>2, DirectoryQuiet DEF Quiet, Read, disk_read
    <3> QED BY <2>8, <3>1, <3>2 DEF Read, Return, ReturnWith
  <2>9. ASSUME NEW inumber \in EntryNumbers(rootSB), LoadFails(inumber)
        PROVE  DirectoryInv'
    <3>1. CASE Abort
      BY <1>1, <3>1, DirectoryQuit
    <3>2. CASE GoAstray
      BY <1>1, <2>9, <3>2, DirectoryQuiet DEF Quiet, LoadFails, GoAstray, NoDisk
    <3> QED BY <2>9, <3>1, <3>2 DEF LoadFails
  <2> QED BY <1>3, <2>1, <2>2, <2>3, <2>4, <2>5, <2>6, <2>7, <2>8, <2>9 DEF Call
<1>4. CASE Step
  <2>1. CASE FormatBitmap \/ CreateDirent \/ CreateSuper \/ CreateAborts
    BY <1>1, <2>1, DirectoryFormat, DirectoryCreateDirent, DirectoryCreateEnd
  <2>2. CASE WriteAlloc \/ WriteBlock
    BY <1>1, <2>2, DirectoryWriteAlloc, DirectoryWriteBlock
  <2>3. CASE WriteDirent
    BY <1>1, <2>3, WriteDirentCases, DirectoryQuiet, DirectoryWritesDirent
  <2> QED BY <1>4, <2>1, <2>2, <2>3 DEF Step
<1>5. CASE Kill
  BY <1>1, <1>5, DirectoryQuit
<1>6. CASE UNCHANGED vars
  <2>1. UNCHANGED <<disk, stable, nblocks, rootSB, pc, frame>>
    BY <1>6 DEF vars
  <2>2. Tidy(disk, Root(disk))' /\ Tidy(stable, Root(stable))' /\ (Mounted => Tidy(disk, rootSB))'
    BY <2>1 DEF DirectoryInv, Root, Mounted
  <2>3. Coherent' /\ CreateFits' /\ WriteFits' /\ LittleLost'
    BY <2>1 DEF DirectoryInv, Coherent, CreateFits, WriteFits, LittleLost, Root, Mounted,
                NewBlk, Contiguous
  <2> QED BY <1>1, <2>2, <2>3 DEF DirectoryInv
<1> QED BY <1>2, <1>3, <1>4, <1>5, <1>6 DEF NextFormatted, NextNoCrash

(* All of it together: what the other results about the directory rest on.  *)
THEOREM DirectoryKeepsItsShape == SpecFormatted => []DirectoryInv
  BY DirectoryInit, DirectoryStep, PTL DEF SpecFormatted

(* No two files share a name that fits, also in the image a kill leaves and *)
(* with the entry fs_create is adding, if no kill loses fs_format's bitmap. *)
THEOREM NamesNotShared == SpecFormatted => []UniqueNames
<1>1. ASSUME NEW D, NamesDiffer(D, Root(D)),
             NEW n \in ValidEntries(D, Root(D)), NEW m \in ValidEntries(D, Root(D)),
             EntryAt(D, Root(D), n).name = EntryAt(D, Root(D), m).name,
             EntryAt(D, Root(D), n).name \notin LongNames
      PROVE  n = m
  <2>1. /\ n \div DIRENTS_PER_BLOCK = m \div DIRENTS_PER_BLOCK
        /\ n % DIRENTS_PER_BLOCK = m % DIRENTS_PER_BLOCK
    BY <1>1, FoundEntry DEF NamesDiffer
  <2> QED BY <2>1, FoundEntry
<1>2. DirectoryInv => UniqueNames
  BY <1>1 DEF DirectoryInv, Tidy, UniqueNames, Images
<1> QED BY <1>2, DirectoryKeepsItsShape, PTL

(* rootSB never differs from the superblock on the disk but by the entry    *)
(* that fs_create is adding.                                                *)
THEOREM SuperblockCached == SpecFormatted => []CacheCoherent
<1>1. DirectoryInv => CacheCoherent
  BY DEF DirectoryInv, Coherent, SharingInv, CacheSound, PartOf, CacheCoherent
<1> QED BY <1>1, DirectoryKeepsItsShape, PTL

(* fs_mount refuses a disk of another size, and no block beyond the disk is *)
(* ever referred to: sanity_check does not abort for a block of a mounted   *)
(* volume.                                                                  *)
THEOREM ReferredBlocksExist == SpecFormatted => []BlocksOnDisk
<1>1. ASSUME DirectoryInv, Mounted, NEW b \in Refs(disk)
      PROVE  b < nblocks
  <2>1. Bounded(disk, Root(disk)) /\ nblocks = Root(disk).nblocks
    BY <1>1 DEF DirectoryInv, Tidy, Coherent
  <2>2. CASE b \in DirRefs(disk)
    BY <2>1, <2>2 DEF DirRefs, Bounded
  <2>3. CASE b \in FileRefs(disk)
    <3>1. PICK h \in Holders(disk) : b = PtrAt(disk, h)
      BY <2>3 DEF FileRefs
    <3>2. h[1] \in InUse(Root(disk)) /\ h[2] \in Slot /\ h[3] \in Ptr
      BY DEF Holders
    <3>3. b = SlotPtr(disk, Root(disk), h[1], h[2], h[3])
      BY <3>1 DEF PtrAt, SlotPtr
    <3> QED BY <2>1, <3>2, <3>3 DEF Bounded
  <2> QED BY <2>2, <2>3 DEF Refs
<1>2. DirectoryInv => BlocksOnDisk
  BY <1>1 DEF BlocksOnDisk
<1> QED BY <1>2, DirectoryKeepsItsShape, PTL

(* All but one of the first n numbers are n - 1 at least.                   *)
LEMMA AllButOne ==
  ASSUME NEW n \in Nat, NEW lost, NEW kept \in SUBSET (0 .. n - 1),
         \A k \in 0 .. n - 1 : k # lost => k \in kept
  PROVE  n <= Cardinality(kept) + 1
<1>1. IsFiniteSet(0 .. n - 1) /\ Cardinality(0 .. n - 1) = n
  BY FS_Interval
<1>2. IsFiniteSet(kept) /\ Cardinality(kept) \in Nat
  BY <1>1, FS_Subset, FS_CardinalityType
<1>3. IsFiniteSet(kept \cup {lost}) /\ Cardinality(kept \cup {lost}) <= Cardinality(kept) + 1
  BY <1>2, FS_AddElement
<1>4. Cardinality(0 .. n - 1) <= Cardinality(kept \cup {lost})
  BY <1>3, FS_Subset
<1>5. Cardinality(kept \cup {lost}) \in Nat
  BY <1>3, FS_CardinalityType
<1> QED BY <1>1, <1>2, <1>3, <1>4, <1>5

(* A kill between two calls loses the effect of the last one at most.       *)
THEOREM KillLosesLittle == SpecFormatted => []KillLosesOneCall
<1>1. ASSUME DirectoryInv, Root(stable).magic, Contiguous(disk), pc = "idle"
      PROVE  RootDir.size <=
               Cardinality({n \in 0 .. Root(stable).size - 1 :
                              EntryAt(stable, Root(stable), n) = EntryAt(disk, RootDir, n)}) + 1
  <2> DEFINE kept == {n \in 0 .. Root(stable).size - 1 :
                        EntryAt(stable, Root(stable), n) = EntryAt(disk, RootDir, n)}
  <2>1. Root(stable) \in Superblock /\ Root(disk) \in Superblock /\ Root(stable).size \in Nat
    BY <1>1, ImageTypes DEF DirectoryInv, SharingInv, Superblock
  <2>2. OneEntryLost(stable, disk)
    BY <1>1 DEF DirectoryInv, LittleLost
  <2>3. RootDir.size = Root(disk).size
    BY <1>1, <2>1 DEF RootDir, DirectoryInv, Coherent, Superblock
  <2>4. ASSUME NEW n \in 0 .. Root(stable).size - 1, SameEntry(stable, disk, n)
        PROVE  n \in kept
    <3>1. n \in 0 .. Root(disk).size - 1
      BY <2>1, <2>2 DEF OneEntryLost
    <3>2. n \div DIRENTS_PER_BLOCK \in InUse(Root(disk))
      BY <1>1, <2>1, <3>1, EntryPlace DEF DirectoryInv, Tidy, Bounded
    <3>3. EntryAt(disk, RootDir, n) = EntryAt(disk, Root(disk), n)
      BY <1>1, <3>2, SameDirectory DEF RootDir, EntryAt
    <3> QED BY <2>4, <3>3 DEF SameEntry
  <2>5. kept \in SUBSET (0 .. Root(stable).size - 1)
    OBVIOUS
  <2> HIDE DEF kept
  <2>6. ASSUME Root(disk).size = Root(stable).size,
               NEW lost, \A n \in 0 .. Root(stable).size - 1 :
                           n # lost => SameEntry(stable, disk, n)
        PROVE  RootDir.size <= Cardinality(kept) + 1
    <3>1. \A n \in 0 .. Root(stable).size - 1 : n # lost => n \in kept
      BY <2>4, <2>6
    <3>2. Root(stable).size <= Cardinality(kept) + 1
      BY <2>1, <2>5, <3>1, AllButOne
    <3> QED BY <2>3, <2>6, <3>2
  <2>7. ASSUME Root(disk).size = Root(stable).size + 1,
               \A n \in 0 .. Root(stable).size - 1 : SameEntry(stable, disk, n)
        PROVE  RootDir.size <= Cardinality(kept) + 1
    <3>1. kept = 0 .. Root(stable).size - 1
      BY <2>4, <2>5, <2>7
    <3>2. Cardinality(kept) = Root(stable).size
      BY <2>1, <3>1, FS_Interval
    <3> QED BY <2>1, <2>3, <2>7, <3>2
  <2>8. RootDir.size <= Cardinality(kept) + 1
    BY <2>2, <2>6, <2>7 DEF OneEntryLost
  <2> QED BY <2>8 DEF kept
<1>2. DirectoryInv => KillLosesOneCall
  BY <1>1 DEF KillLosesOneCall
<1> QED BY <1>2, DirectoryKeepsItsShape, PTL
=============================================================================
