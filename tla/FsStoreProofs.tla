----------------------------- MODULE FsStoreProofs -----------------------------
(***************************************************************************)
(* The file system of fs.c on a disk that is always started with the same  *)
(* number of blocks: what the files hold, also after a kill; then, without *)
(* kills and until the directory outgrows its first block, the bitmap and  *)
(* the step by step proof that fs.c implements FileStore.                  *)
(***************************************************************************)
EXTENDS FsDirectoryProofs

(* The contents of the files, on a disk that is always started with the     *)
(* same number of blocks.                                                   *)

(* The block and the offset of a byte of a file. *)
LEMMA BytePlace ==
  ASSUME NEW size \in 0 .. MaxFileSize, NEW pos \in 0 .. size - 1
  PROVE  /\ pos \div BLOCKSIZE \in Ptr /\ pos % BLOCKSIZE \in Offset
         /\ pos \in Nat /\ pos = BLOCKSIZE * (pos \div BLOCKSIZE) + (pos % BLOCKSIZE)
<1>1. pos \in Nat /\ pos < POINTERS_PER_ENT * BLOCKSIZE
  BY LayoutAssumption DEF MaxFileSize
<1> QED BY <1>1, DivBound, DivMod, LayoutAssumption DEF Ptr, Offset

(* Block 0 never holds data, so a byte that was written has its own block.  *)
LEMMA FilledLater ==
  ASSUME NEW D, NEW E, NEW de, NEW size \in 0 .. MaxFileSize, Filled(D, de, size),
         D[0].kind # "data",
         \A p \in Ptr : de.blk[p] # 0 => \A o \in Offset :
           AsData(D[de.blk[p]])[o] \in Byte => AsData(E[de.blk[p]])[o] \in Byte
  PROVE  Filled(E, de, size)
<1> SUFFICES ASSUME NEW pos \in 0 .. size - 1
             PROVE  AsData(E[de.blk[pos \div BLOCKSIZE]])[pos % BLOCKSIZE] \in Byte
  BY DEF Filled
<1> DEFINE p == pos \div BLOCKSIZE
           o == pos % BLOCKSIZE
<1>1. p \in Ptr /\ o \in Offset
  BY BytePlace
<1>2. AsData(D[de.blk[p]])[o] \in Byte
  BY DEF Filled
<1> HIDE DEF p, o
<1>3. de.blk[p] # 0
  <2>1. ASSUME de.blk[p] = 0 PROVE FALSE
    <3>1. AsData(D[0])[o] = Stale
      BY <1>1 DEF AsData
    <3> QED BY <1>2, <2>1, <3>1, LayoutAssumption
  <2> QED BY <2>1
<1>4. AsData(E[de.blk[p]])[o] \in Byte
  BY <1>1, <1>2, <1>3
<1> QED BY <1>4 DEF p, o

LEMMA CompleteLater ==
  ASSUME NEW D \in [BlockNo -> Block], NEW E, NEW sb \in Superblock, RootOK(sb), Complete(D, sb),
         D[0].kind # "data",
         \A i \in InUse(sb) : E[sb.blk[i]] = D[sb.blk[i]],
         \A i \in InUse(sb), s \in Slot, p \in Ptr : SlotPtr(D, sb, i, s, p) # 0 =>
           \A o \in Offset : AsData(D[SlotPtr(D, sb, i, s, p)])[o] \in Byte =>
                             AsData(E[SlotPtr(D, sb, i, s, p)])[o] \in Byte
  PROVE  Complete(E, sb)
<1> SUFFICES ASSUME InOrder(sb), NEW i \in InUse(sb)
             PROVE  /\ E[sb.blk[i]].kind = "dir"
                    /\ \A s \in Slot :
                         /\ i * DIRENTS_PER_BLOCK + s < sb.size => SlotEntry(E, sb, i, s).isvalid
                         /\ SlotEntry(E, sb, i, s).isvalid =>
                              Filled(E, SlotEntry(E, sb, i, s), SlotEntry(E, sb, i, s).size)
  BY DEF Complete
<1>1. \A s \in Slot : SlotEntry(E, sb, i, s) = SlotEntry(D, sb, i, s)
  BY DEF SlotEntry
<1>2. ASSUME NEW s \in Slot, SlotEntry(D, sb, i, s).isvalid
      PROVE  Filled(E, SlotEntry(D, sb, i, s), SlotEntry(D, sb, i, s).size)
  <2> DEFINE de == SlotEntry(D, sb, i, s)
  <2>1. de.size \in 0 .. MaxFileSize
    BY SlotPtrType, ViewTypes DEF SlotEntry, Dirent
  <2>2. \A p \in Ptr : de.blk[p] = SlotPtr(D, sb, i, s, p)
    BY DEF SlotEntry, SlotPtr
  <2>3. Filled(D, de, de.size)
    BY <1>2 DEF Complete
  <2> HIDE DEF de
  <2>4. Filled(E, de, de.size)
    BY <2>1, <2>2, <2>3, FilledLater
  <2> QED BY <2>4 DEF de
<1> QED BY <1>1, <1>2 DEF Complete

LEMMA CompleteAgain ==
  ASSUME NEW D, NEW old, NEW new, old.size = new.size,
         \A i \in InUse(old) : old.blk[i] = new.blk[i], Complete(D, old)
  PROVE  Complete(D, new)
<1>1. InUse(new) = InUse(old)
  BY DEF InUse
<1>2. \A i \in InUse(old), s \in Slot : SlotEntry(D, old, i, s) = SlotEntry(D, new, i, s)
  BY DEF SlotEntry
<1> QED BY <1>1, <1>2 DEF Complete, InOrder

LEMMA CompleteEmpty ==
  ASSUME NEW D, NEW sb, InUse(sb) = {}
  PROVE  Complete(D, sb)
  BY DEF Complete

LEMMA NoBlocksIfEmpty ==
  ASSUME NEW sb \in Superblock
  PROVE  InUse(sb) = {} <=> sb.size = 0
<1>1. sb.size \in Nat /\ 0 \in Ptr /\ 0 * DIRENTS_PER_BLOCK = 0
  BY LayoutAssumption DEF Superblock, Ptr
<1>2. sb.size # 0 => 0 \in InUse(sb)
  BY <1>1 DEF InUse
<1>3. sb.size = 0 => InUse(sb) = {}
  BY LayoutAssumption DEF InUse, Ptr
<1> QED BY <1>2, <1>3

LEMMA ContentsInit == Init => ContentsInv
<1> SUFFICES ASSUME Init PROVE ContentsInv
  OBVIOUS
<1>1. Root(disk) = ZeroSB /\ rootSB = ZeroSB /\ stable = disk /\ disk[0].kind = "zero"
  BY LayoutAssumption DEF Init, Root, AsSuper, ZeroBlock, BlockNo
<1>2. InUse(ZeroSB) = {} /\ ZeroSB.size = 0
  BY LayoutAssumption DEF InUse, ZeroSB, Ptr
<1> QED
  BY <1>1, <1>2, DirectoryInit, CompleteEmpty DEF ContentsInv, SizeKept, WriteFills, Init

(* Most steps change nothing below the directory in memory.                 *)
LEMMA ContentsKept ==
  ASSUME ContentsInv, DirectoryInv', disk' = disk, stable' \in {stable, disk},
         Complete(disk, rootSB'), WriteFills'
  PROVE  ContentsInv'
  BY DEF ContentsInv, SizeKept, Root

LEMMA ContentsQuit ==
  ASSUME ContentsInv, DirectoryInv', Quit \/ Kill \/ Abort
  PROVE  ContentsInv'
<1>1. disk' = stable' /\ stable' \in {stable, disk} /\ pc' = "down" /\ InUse(rootSB') = {}
  BY FrameTypes DEF Quit, Kill, Abort, disk_read, Die
<1>2. Complete(disk', rootSB')
  BY <1>1, CompleteEmpty
<1> QED BY <1>1, <1>2 DEF ContentsInv, SizeKept, Root, WriteFills

LEMMA ContentsStart ==
  ASSUME ContentsInv, DirectoryInv', NEW n, DiskSizes = {n}, Start(n)
  PROVE  ContentsInv'
<1>1. /\ stable' = disk' /\ disk'[0] = disk[0] /\ pc' = "idle" /\ rootSB' = rootSB
      /\ \A m \in BlockNo : m < n => disk'[m] = disk[m]
      /\ Root(disk)' = Root(disk) /\ Root(stable)' = Root(disk)
  BY LayoutAssumption, ClientAssumption DEF Start, BlockNo, Root
<1>2. /\ Root(disk) \in Superblock /\ RootOK(Root(disk)) /\ disk \in [BlockNo -> Block]
      /\ rootSB \in Superblock
  BY ImageTypes DEF ContentsInv, DirectoryInv, SharingInv
<1>3. Complete(disk', Root(disk))
  <2>1. CASE InUse(Root(disk)) = {}
    BY <2>1, CompleteEmpty
  <2>2. CASE InUse(Root(disk)) # {}
    <3>1. Root(disk).nblocks = n
      BY <1>2, <2>2, NoBlocksIfEmpty DEF ContentsInv, SizeKept, Superblock
    <3>2. ASSUME NEW i \in InUse(Root(disk))
          PROVE  /\ disk'[Root(disk).blk[i]] = disk[Root(disk).blk[i]]
                 /\ \A s \in Slot, p \in Ptr :
                      disk'[SlotPtr(disk, Root(disk), i, s, p)] =
                        disk[SlotPtr(disk, Root(disk), i, s, p)]
      BY <1>1, <1>2, <3>1, SlotPtrType DEF ContentsInv, DirectoryInv, Tidy, Bounded, DataPtr
    <3> QED BY <1>2, <3>2, CompleteLater DEF ContentsInv, SizeKept
  <2> QED BY <2>1, <2>2
<1>4. Complete(disk', rootSB')
  <2>1. InUse(rootSB) = {}
    BY DEF Start, ContentsInv, DirectoryInv, Coherent, SharingInv, CacheSound
  <2> QED BY <1>1, <2>1, CompleteEmpty
<1> QED BY <1>1, <1>3, <1>4 DEF ContentsInv, SizeKept, Root, WriteFills

LEMMA ContentsFormat ==
  ASSUME ContentsInv, DirectoryInv', FormatSuper \/ FormatBitmap
  PROVE  ContentsInv'
<1>1. /\ InUse(rootSB') = {} /\ stable' = disk /\ pc' \in {"format", "idle"}
  BY DEF FormatSuper, FormatBitmap, ContentsInv, DirectoryInv, SharingInv, CallSound,
         CacheSound, disk_write, Begin, Return, ReturnWith
<1>2. SizeKept(disk') /\ InUse(Root(disk)') = {}
  <2>1. CASE FormatSuper
    <3>1. disk'[0] = SuperBlock(FreshSB)
      BY <2>1, ImageTypes DEF FormatSuper, disk_write, ContentsInv, DirectoryInv, SharingInv
    <3>2. Root(disk') = FreshSB /\ Root(disk)' = FreshSB
      BY <3>1 DEF Root, AsSuper, SuperBlock
    <3>3. FreshSB.size = 0 /\ InUse(FreshSB) = {}
      BY LayoutAssumption DEF FreshSB, InUse, Ptr
    <3> QED BY <3>1, <3>2, <3>3 DEF SizeKept, SuperBlock
  <2>2. CASE FormatBitmap
    <3>1. disk'[0] = disk[0] /\ InUse(Root(disk)) = {}
      BY <2>2, ImageTypes
      DEF FormatBitmap, disk_write, ContentsInv, DirectoryInv, SharingInv, CallSound
    <3> QED BY <3>1 DEF Root, ContentsInv, SizeKept
  <2> QED BY <2>1, <2>2
<1>3. Complete(disk', Root(disk)') /\ Complete(disk', rootSB')
  BY <1>1, <1>2, CompleteEmpty
<1> QED BY <1>1, <1>2, <1>3 DEF ContentsInv, WriteFills, Root

LEMMA ContentsMount ==
  ASSUME ContentsInv, DirectoryInv', Mount \/ Umount
  PROVE  ContentsInv'
<1>1. /\ disk' = disk /\ stable' \in {stable, disk} /\ pc' = "idle"
      /\ rootSB' \in {rootSB, ZeroSB, Root(disk)}
  <2>1. CASE Mount
    <3>1. CASE Mounted
      BY <2>1, <3>1 DEF Mount, NoDisk, Return, ReturnWith
    <3>2. CASE ~Mounted
      BY <2>1, <3>2 DEF Mount, disk_read, Root, Return, ReturnWith
    <3> QED BY <3>1, <3>2
  <2>2. CASE Umount
    BY <2>2 DEF Umount, NoDisk, Return, ReturnWith
  <2> QED BY <2>1, <2>2
<1>2. InUse(ZeroSB) = {}
  BY LayoutAssumption DEF InUse, ZeroSB, Ptr
<1>3. Complete(disk, rootSB')
  BY <1>1, <1>2, CompleteEmpty DEF ContentsInv
<1> QED BY <1>1, <1>3, ContentsKept DEF WriteFills

(* Marking a block changes neither the directory nor the files. *)
LEMMA MarkContents ==
  ASSUME ContentsInv, NEW content, disk_write(1, content)
  PROVE  /\ \A m \in DataPtr : disk'[m] = disk[m]
         /\ Complete(disk', Root(disk)') /\ Complete(disk', rootSB)
         /\ SizeKept(disk') /\ Root(disk)' = Root(disk)
<1>1. /\ Root(disk) \in Superblock /\ RootOK(Root(disk))
      /\ rootSB \in Superblock /\ RootOK(rootSB) /\ disk \in [BlockNo -> Block]
      /\ 0 \in BlockNo
  BY ImageTypes DEF ContentsInv, DirectoryInv, SharingInv
<1>2. \A m \in DataPtr : disk'[m] = disk[m]
  BY OtherBlocks DEF ContentsInv, DirectoryInv, SharingInv, DataPtr
<1>3. disk'[0] = disk[0] /\ Root(disk)' = Root(disk) /\ disk[0].kind # "data"
  BY <1>1, <1>2 DEF DataPtr, Root, ContentsInv, SizeKept
<1>4. ASSUME NEW sb \in Superblock, RootOK(sb), Complete(disk, sb)
      PROVE  Complete(disk', sb)
  <2>1. \A i \in InUse(sb) : disk'[sb.blk[i]] = disk[sb.blk[i]]
    BY <1>1, <1>2, <1>4, SlotPtrType DEF DataPtr
  <2>2. \A i \in InUse(sb), s \in Slot, p \in Ptr :
          disk'[SlotPtr(disk, sb, i, s, p)] = disk[SlotPtr(disk, sb, i, s, p)]
    BY <1>1, <1>2, <1>4, SlotPtrType
  <2> QED BY <1>1, <1>3, <1>4, <2>1, <2>2, CompleteLater
<1>5. Complete(disk', Root(disk)') /\ Complete(disk', rootSB)
  BY <1>1, <1>3, <1>4 DEF ContentsInv
<1>6. SizeKept(disk')
  BY <1>3 DEF ContentsInv, SizeKept, Root
<1> QED BY <1>2, <1>3, <1>5, <1>6

LEMMA ContentsCreateInNewBlock ==
  ASSUME ContentsInv, DirectoryInv', NEW name \in Names, CreateInNewBlock(name)
  PROVE  ContentsInv'
<1> DEFINE b == alloc_block(disk, rootSB)
<1>1. /\ NewBlk \in Ptr /\ NewBlk \notin InUse(rootSB) /\ pc = "idle"
      /\ rootSB \in Superblock /\ Complete(disk, rootSB)
  BY NewBlockPlace, ImageTypes
  DEF ContentsInv, DirectoryInv, SharingInv, CreateInNewBlock, CanCreate
<1>2. ASSUME NEW c, rootSB' = [rootSB EXCEPT !.blk[NewBlk] = c]
      PROVE  \A D : Complete(D, rootSB) => Complete(D, rootSB')
  <2>1. /\ rootSB'.size = rootSB.size /\ rootSB'.blk = [rootSB.blk EXCEPT ![NewBlk] = c]
    BY <1>1, <1>2 DEF Superblock
  <2>2. \A i \in InUse(rootSB) : rootSB'.blk[i] = rootSB.blk[i]
    BY <1>1, <2>1 DEF Superblock, InUse
  <2> QED BY <2>1, <2>2, CompleteAgain
<1>3. CASE HoldsBits /\ b = NOBLOCK
  <2>1. /\ rootSB' = [rootSB EXCEPT !.blk[NewBlk] = NOBLOCK] /\ disk_read /\ pc' = "idle"
    BY <1>3 DEF CreateInNewBlock, Return, ReturnWith
  <2>2. Complete(disk, rootSB')
    BY <1>1, <1>2, <2>1
  <2>3. WriteFills' /\ disk' = disk /\ stable' = disk
    BY <2>1 DEF WriteFills, disk_read
  <2> QED BY <2>2, <2>3, ContentsKept
<1>4. CASE HoldsBits /\ b # NOBLOCK
  <2>1. /\ rootSB' = [rootSB EXCEPT !.blk[NewBlk] = b] /\ disk_write(1, Marked(b))
        /\ pc' = "dirent" /\ stable' = disk
    BY <1>4 DEF CreateInNewBlock, Begin, disk_write
  <2> HIDE DEF b
  <2>2. /\ Complete(disk', Root(disk)') /\ Complete(disk', rootSB') /\ SizeKept(disk')
    BY <1>2, <2>1, MarkContents
  <2> QED BY <2>1, <2>2 DEF ContentsInv, WriteFills, Root
<1>5. CASE ~HoldsBits
  <2>1. disk' = disk /\ stable' = stable /\ rootSB' = rootSB /\ WriteFills'
    BY <1>5 DEF CreateInNewBlock, GoAstray, NoDisk, WriteFills
  <2> QED BY <1>1, <2>1, ContentsKept
<1> QED BY <1>3, <1>4, <1>5

(* The block that add_dirent writes belongs to no file. *)
LEMMA CreateDirentBlock ==
  ASSUME SharingInv, CreateDirent
  PROVE  /\ rootSB.blk[NewBlk] \in BlockNo /\ rootSB.blk[NewBlk] >= 2
         /\ \A i \in InUse(rootSB), s \in Slot, p \in Ptr :
              /\ SlotPtr(disk, rootSB, i, s, p) # rootSB.blk[NewBlk]
              /\ SlotPtr(disk, rootSB, i, s, p) \in BlockNo
<1>1. NewBlk \in Ptr /\ rootSB.blk[NewBlk] \in BlockNo /\ rootSB.blk[NewBlk] >= 2
  BY CreateDirentEntries, LayoutAssumption
  DEF SharingInv, TypeInv, ImageInv, TypeOK, InCreate, CreateDirent, Superblock, DataPtr, BlockNo, NOBLOCK
<1>2. ASSUME NEW i \in InUse(rootSB), NEW s \in Slot, NEW p \in Ptr
      PROVE  /\ SlotPtr(disk, rootSB, i, s, p) # rootSB.blk[NewBlk]
             /\ SlotPtr(disk, rootSB, i, s, p) \in BlockNo
  <2>1. SlotPtr(disk, rootSB, i, s, p) \in DataPtr
    BY SlotPtrType, ImageTypes DEF SharingInv
  <2>2. CASE NewSlot = 0
    BY <2>1, <2>2 DEF SharingInv, CallSound, CreateDirent, Unheld, DataPtr
  <2>3. CASE NewSlot # 0
    <3>1. NewBlk \in InUse(rootSB)
      BY <1>1, <2>3, NewEntryPlace, ImageTypes DEF SharingInv
    <3>2. SlotPtr(disk, rootSB, i, s, p) # 0 =>
            SlotPtr(disk, rootSB, i, s, p) # rootSB.blk[NewBlk]
      BY <3>1 DEF SharingInv, CacheSound, Sound
    <3> QED BY <1>1, <2>1, <3>2 DEF DataPtr
  <2> QED BY <2>2, <2>3
<1> QED BY <1>1, <1>2

LEMMA ContentsCreateDirent ==
  ASSUME ContentsInv, DirectoryInv', CreateDirent
  PROVE  ContentsInv'
<1> USE LayoutAssumption
<1>1. /\ pc = "dirent" /\ pc' = "super" /\ stable' = disk /\ Mounted /\ SharingInv
      /\ rootSB \in Superblock /\ RootOK(rootSB) /\ disk \in [BlockNo -> Block]
      /\ Root(disk) \in Superblock /\ RootOK(Root(disk)) /\ disk[0].kind # "data"
      /\ PartOf(Root(disk), rootSB)
  BY ImageTypes
  DEF CreateDirent, disk_write, ContentsInv, DirectoryInv, SharingInv, CallSound, CacheSound,
      SizeKept
<1>2. /\ NewBlk \in Ptr /\ NewSlot \in Slot
      /\ rootSB'.size = rootSB.size + 1 /\ rootSB'.blk = rootSB.blk
      /\ disk'[0] = disk[0] /\ disk'[rootSB.blk[NewBlk]].kind = "dir"
      /\ \A m \in BlockNo : m # rootSB.blk[NewBlk] => disk'[m] = disk[m]
      /\ SlotEntry(disk', rootSB', NewBlk, NewSlot).isvalid
      /\ SlotEntry(disk', rootSB', NewBlk, NewSlot).size = 0
      /\ \A s \in Slot : s # NewSlot =>
           SlotEntry(disk', rootSB', NewBlk, s) =
             IF NewSlot = 0 THEN NullDirent ELSE SlotEntry(disk, rootSB, NewBlk, s)
      /\ \A i \in InUse(rootSB), s \in Slot : i # NewBlk =>
           SlotEntry(disk', rootSB', i, s) = SlotEntry(disk, rootSB, i, s)
      /\ Root(disk)' = Root(disk)
  BY <1>1, CreateDirentEntries, CreateDirentPtrs
<1>3. /\ \A i \in InUse(rootSB') : i \in InUse(rootSB) \/ i = NewBlk
      /\ \A i \in InUse(rootSB) : i \in InUse(rootSB')
      /\ NewSlot # 0 => NewBlk \in InUse(rootSB)
      /\ NewSlot = 0 => NewBlk \notin InUse(rootSB)
      /\ rootSB.size = DIRENTS_PER_BLOCK * NewBlk + NewSlot
  <2>1. \A i \in Ptr : i \in InUse(rootSB') <=> i \in InUse(rootSB) \/ i = NewBlk
    BY <1>1, CreateDirentPtrs
  <2>2. \A i \in InUse(rootSB) \cup InUse(rootSB') : i \in Ptr
    BY DEF InUse
  <2>3. NewSlot # 0 => NewBlk \in InUse(rootSB)
    BY <1>1, <1>2, NewEntryPlace
  <2>4. NewSlot = 0 => NewBlk \notin InUse(rootSB)
    BY <1>1, <1>2, NewBlockPlace DEF Ptr
  <2>5. rootSB.size = DIRENTS_PER_BLOCK * NewBlk + NewSlot
    BY <1>1, NewEntryPlace
  <2> QED BY <2>1, <2>2, <2>3, <2>4, <2>5
<1>4. ASSUME NEW i \in InUse(rootSB), NEW s \in Slot
      PROVE  \A size \in 0 .. MaxFileSize :
               Filled(disk, SlotEntry(disk, rootSB, i, s), size) =>
               Filled(disk', SlotEntry(disk, rootSB, i, s), size)
  <2>1. \A p \in Ptr : SlotEntry(disk, rootSB, i, s).blk[p] = SlotPtr(disk, rootSB, i, s, p)
    BY DEF SlotEntry, SlotPtr
  <2>2. \A p \in Ptr :
          disk'[SlotEntry(disk, rootSB, i, s).blk[p]] = disk[SlotEntry(disk, rootSB, i, s).blk[p]]
    BY <1>1, <1>2, <2>1, CreateDirentBlock
  <2> QED BY <1>1, <2>2, FilledLater
<1>5. ASSUME NEW i \in InUse(rootSB), disk[rootSB.blk[i]].kind = "dir"
      PROVE  disk'[rootSB.blk[i]].kind = "dir"
  BY <1>1, <1>2, <1>5, SlotPtrType
<1>6. \A i \in InUse(rootSB), s \in Slot :
        SlotEntry(disk, rootSB, i, s).size \in 0 .. MaxFileSize
  BY <1>1, SlotPtrType, ViewTypes DEF SlotEntry, Dirent
<1>7. \A de : Filled(disk', de, 0)
  BY DEF Filled
<1>8. ASSUME NEW i \in InUse(rootSB), NEW s \in Slot,
             SlotEntry(disk, rootSB, i, s).isvalid =>
               Filled(disk, SlotEntry(disk, rootSB, i, s), SlotEntry(disk, rootSB, i, s).size)
      PROVE  /\ SlotEntry(disk, rootSB, i, s).isvalid => SlotEntry(disk', rootSB', i, s).isvalid
             /\ SlotEntry(disk', rootSB', i, s).isvalid =>
                  Filled(disk', SlotEntry(disk', rootSB', i, s), SlotEntry(disk', rootSB', i, s).size)
  <2>1. CASE i = NewBlk /\ s = NewSlot
    BY <1>2, <1>7, <2>1
  <2>2. CASE ~(i = NewBlk /\ s = NewSlot)
    <3>1. SlotEntry(disk', rootSB', i, s) = SlotEntry(disk, rootSB, i, s)
      BY <1>2, <1>3, <2>2
    <3> QED BY <1>4, <1>6, <1>8, <3>1
  <2> QED BY <2>1, <2>2
<1>9. Complete(disk', Root(disk))
  <2> SUFFICES ASSUME InOrder(Root(disk)), NEW i \in InUse(Root(disk))
               PROVE  /\ disk'[Root(disk).blk[i]].kind = "dir"
                      /\ \A s \in Slot :
                           /\ i * DIRENTS_PER_BLOCK + s < Root(disk).size =>
                                SlotEntry(disk', Root(disk), i, s).isvalid
                           /\ SlotEntry(disk', Root(disk), i, s).isvalid =>
                                Filled(disk', SlotEntry(disk', Root(disk), i, s),
                                       SlotEntry(disk', Root(disk), i, s).size)
    BY DEF Complete
  <2>1. i \in InUse(rootSB) /\ rootSB.blk[i] = Root(disk).blk[i]
    BY <1>1 DEF PartOf
  <2>2. \A s \in Slot : /\ SlotEntry(disk', Root(disk), i, s) = SlotEntry(disk', rootSB', i, s)
                        /\ SlotEntry(disk, Root(disk), i, s) = SlotEntry(disk, rootSB, i, s)
    BY <1>2, <2>1 DEF SlotEntry
  <2>3. /\ disk[Root(disk).blk[i]].kind = "dir"
        /\ \A s \in Slot :
             /\ i * DIRENTS_PER_BLOCK + s < Root(disk).size =>
                  SlotEntry(disk, Root(disk), i, s).isvalid
             /\ SlotEntry(disk, Root(disk), i, s).isvalid =>
                  Filled(disk, SlotEntry(disk, Root(disk), i, s),
                         SlotEntry(disk, Root(disk), i, s).size)
    BY DEF ContentsInv, Complete
  <2> QED BY <1>5, <1>8, <2>1, <2>2, <2>3
<1>10. Complete(disk', rootSB')
  <2> SUFFICES ASSUME InOrder(rootSB'), NEW i \in InUse(rootSB')
               PROVE  /\ disk'[rootSB'.blk[i]].kind = "dir"
                      /\ \A s \in Slot :
                           /\ i * DIRENTS_PER_BLOCK + s < rootSB'.size =>
                                SlotEntry(disk', rootSB', i, s).isvalid
                           /\ SlotEntry(disk', rootSB', i, s).isvalid =>
                                Filled(disk', SlotEntry(disk', rootSB', i, s),
                                       SlotEntry(disk', rootSB', i, s).size)
    BY DEF Complete
  <2>1. InOrder(rootSB)
    BY <1>2, <1>3 DEF InOrder
  <2>2. ASSUME NEW s \in Slot, i * DIRENTS_PER_BLOCK + s < rootSB'.size
        PROVE  i * DIRENTS_PER_BLOCK + s < rootSB.size \/ (i = NewBlk /\ s = NewSlot)
    <3>1. i \in Nat /\ NewBlk \in Nat /\ s \in 0 .. DIRENTS_PER_BLOCK - 1
          /\ NewSlot \in 0 .. DIRENTS_PER_BLOCK - 1
      BY <1>2 DEF InUse, Ptr, Slot
    <3>2. i * DIRENTS_PER_BLOCK + s \in Nat
      BY <3>1
    <3>3. ASSUME i * DIRENTS_PER_BLOCK + s = DIRENTS_PER_BLOCK * NewBlk + NewSlot
          PROVE  i = NewBlk /\ s = NewSlot
      <4>1. (DIRENTS_PER_BLOCK * i + s) \div DIRENTS_PER_BLOCK = i
            /\ (DIRENTS_PER_BLOCK * NewBlk + NewSlot) \div DIRENTS_PER_BLOCK = NewBlk
        BY <3>1
      <4>2. DIRENTS_PER_BLOCK * i + s = i * DIRENTS_PER_BLOCK + s
        BY <3>1
      <4>3. i = NewBlk
        BY <3>3, <4>1, <4>2
      <4> QED BY <3>1, <3>3, <4>3
    <3> QED BY <1>1, <1>2, <1>3, <2>2, <3>2, <3>3 DEF Superblock
  <2>3. CASE i \in InUse(rootSB)
    <3>1. /\ disk[rootSB.blk[i]].kind = "dir"
          /\ \A s \in Slot :
               /\ i * DIRENTS_PER_BLOCK + s < rootSB.size => SlotEntry(disk, rootSB, i, s).isvalid
               /\ SlotEntry(disk, rootSB, i, s).isvalid =>
                    Filled(disk, SlotEntry(disk, rootSB, i, s), SlotEntry(disk, rootSB, i, s).size)
      BY <2>1, <2>3 DEF ContentsInv, Complete
    <3>2. \A s \in Slot : i * DIRENTS_PER_BLOCK + s < rootSB'.size =>
            SlotEntry(disk', rootSB', i, s).isvalid
      BY <1>2, <1>8, <2>2, <2>3, <3>1
    <3> QED BY <1>2, <1>5, <1>8, <2>3, <3>1, <3>2
  <2>4. CASE i \notin InUse(rootSB)
    <3>1. i = NewBlk /\ NewSlot = 0
      BY <1>2, <1>3, <2>4
    <3>2. ASSUME NEW s \in Slot, s # NewSlot
          PROVE  ~SlotEntry(disk', rootSB', i, s).isvalid
      BY <1>2, <3>1, <3>2 DEF NullDirent
    <3>3. ASSUME NEW s \in Slot, i * DIRENTS_PER_BLOCK + s < rootSB'.size
          PROVE  SlotEntry(disk', rootSB', i, s).isvalid
      <4>1. i * DIRENTS_PER_BLOCK + s < rootSB.size => FALSE
        BY <1>1, <1>3, <2>4, <3>1 DEF Slot, Ptr, Superblock, InUse
      <4> QED BY <1>2, <2>2, <3>3, <4>1
    <3> QED BY <1>2, <1>7, <3>1, <3>2, <3>3
  <2> QED BY <2>3, <2>4
<1>11. SizeKept(disk')
  BY <1>2 DEF ContentsInv, SizeKept, Root
<1> QED BY <1>1, <1>2, <1>9, <1>10, <1>11 DEF ContentsInv, WriteFills, Root

LEMMA ContentsCreateEnd ==
  ASSUME ContentsInv, DirectoryInv', CreateSuper \/ CreateAborts
  PROVE  ContentsInv'
<1> DEFINE new == [disk EXCEPT ![0] = SuperBlock(rootSB)]
<1>1. /\ rootSB \in Superblock /\ RootOK(rootSB) /\ Complete(disk, rootSB) /\ Mounted
      /\ disk \in [BlockNo -> Block] /\ 0 \in BlockNo /\ disk[0].kind # "data"
      /\ rootSB.nblocks \in DiskSizes
  BY ImageTypes
  DEF ContentsInv, DirectoryInv, SharingInv, CallSound, CreateSuper, CreateAborts, SizeKept,
      Coherent, TypeInv, ImageInv, TypeOK
<1>2. /\ Root(new) = rootSB /\ \A m \in BlockNo : m # 0 => new[m] = disk[m]
      /\ new[0].kind = "super"
  BY <1>1 DEF Root, AsSuper, SuperBlock
<1> HIDE DEF new
<1>3. Complete(new, rootSB)
  <2>1. \A i \in InUse(rootSB) : new[rootSB.blk[i]] = disk[rootSB.blk[i]]
    BY <1>1, <1>2, SlotPtrType
  <2>2. \A i \in InUse(rootSB), s \in Slot, p \in Ptr :
          SlotPtr(disk, rootSB, i, s, p) # 0 =>
            new[SlotPtr(disk, rootSB, i, s, p)] = disk[SlotPtr(disk, rootSB, i, s, p)]
    BY <1>1, <1>2, SlotPtrType DEF DataPtr
  <2> QED BY <1>1, <2>1, <2>2, CompleteLater
<1>4. SizeKept(new)
  BY <1>1, <1>2 DEF SizeKept
<1>5. CASE CreateSuper
  <2>1. disk' = new /\ stable' = disk /\ rootSB' = rootSB /\ pc' = "idle"
    BY <1>5 DEF CreateSuper, disk_write, Return, ReturnWith, new
  <2>2. Root(disk)' = rootSB
    BY <1>2, <2>1 DEF Root
  <2> QED BY <1>3, <1>4, <2>1, <2>2 DEF ContentsInv, WriteFills, Root
<1>6. CASE CreateAborts
  <2>1. disk' \in {disk, new} /\ stable' = disk' /\ rootSB' = ZeroSB /\ pc' = "down"
    BY <1>6 DEF CreateAborts, Die, new
  <2>2. Complete(disk', rootSB')
    <3>1. InUse(ZeroSB) = {}
      BY LayoutAssumption DEF InUse, ZeroSB, Ptr
    <3> QED BY <2>1, <3>1, CompleteEmpty
  <2>3. Complete(disk', Root(disk)') /\ SizeKept(disk')
    BY <1>2, <1>3, <1>4, <2>1 DEF ContentsInv, Root
  <2> QED BY <2>1, <2>2, <2>3 DEF ContentsInv, WriteFills, Root
<1> QED BY <1>5, <1>6

LEMMA ContentsWriteCall ==
  ASSUME ContentsInv, DirectoryInv', NEW inumber \in EntryNumbers(rootSB),
         NEW data \in Payloads, NEW offset \in Offsets, WriteCall(inumber, data, offset)
  PROVE  ContentsInv'
<1> DEFINE de == LoadDirent(inumber)
<1>1. disk' = disk /\ stable' \in {stable, disk} /\ rootSB' = rootSB
  BY DEF WriteCall, disk_read
<1>2. CASE pc' # "write"
  BY <1>1, <1>2, ContentsKept DEF ContentsInv, WriteFills
<1>3. CASE pc' = "write"
  <2>1. /\ frame' = [NoFrame EXCEPT !.inumber = inumber, !.dirent = de,
                       !.data = data, !.offset = offset, !.cur = offset]
        /\ CanWrite(de, Len(data), offset)
    BY <1>3 DEF WriteCall, Begin, Return, ReturnWith
  <2>2. frame'.dirent = de /\ frame'.cur = offset
    BY <2>1 DEF NoFrame
  <2>3. de.isvalid /\ offset <= de.size /\ offset \in Nat
    BY <2>1, ClientAssumption DEF CanWrite
  <2>4. WriteFills'
    <3> SUFFICES ASSUME InOrder(rootSB)
                 PROVE  Filled(disk, de, offset) /\ Filled(disk, de, de.size)
      BY <1>1, <2>2 DEF WriteFills
    <3> DEFINE i == inumber \div DIRENTS_PER_BLOCK
               s == inumber % DIRENTS_PER_BLOCK
    <3>1. i \in InUse(rootSB) /\ s \in Slot /\ rootSB.blk[i] = DirentBlock(inumber)
      BY EntryTypes, ImageTypes, RootPlaced
      DEF ContentsInv, DirectoryInv, SharingInv, InOrder, DirentBlock
    <3>2. de = SlotEntry(disk, rootSB, i, s)
      BY <3>1 DEF LoadDirent, SlotEntry
    <3>3. de.size \in 0 .. MaxFileSize
      BY <3>1, <3>2, SlotPtrType, ImageTypes, ViewTypes
      DEF ContentsInv, DirectoryInv, SharingInv, SlotEntry, Dirent
    <3> HIDE DEF de, i, s
    <3>4. Filled(disk, de, de.size)
      BY <2>3, <3>1, <3>2 DEF ContentsInv, Complete
    <3>5. Filled(disk, de, offset)
      <4>1. \A pos \in 0 .. offset - 1 : pos \in 0 .. de.size - 1
        BY <2>3, <3>3
      <4> QED BY <3>4, <4>1 DEF Filled
    <3> QED BY <3>4, <3>5
  <2> QED BY <1>1, <2>4, ContentsKept DEF ContentsInv
<1> QED BY <1>2, <1>3

(* How far fs_write may have come. *)
LEMMA FrameSizes ==
  ASSUME TypeInv, pc = "write"
  PROVE  /\ frame.cur \in 0 .. MaxFileSize /\ frame.dirent.size \in 0 .. MaxFileSize
         /\ frame.offset \in Nat /\ frame.offset <= frame.cur
         /\ frame.dirent.blk \in [Ptr -> DataPtr]
  BY LayoutAssumption DEF TypeInv, ImageInv, TypeOK, InWrite, Frame, Dirent, MaxFileSize

LEMMA ContentsWriteAlloc ==
  ASSUME ContentsInv, DirectoryInv', WriteAlloc
  PROVE  ContentsInv'
<1> DEFINE b == alloc_block(disk, rootSB)
<1>1. /\ pc = "write" /\ rootSB \in Superblock /\ TypeInv /\ disk[0].kind # "data"
      /\ Complete(disk, rootSB)
  BY ImageTypes DEF WriteAlloc, ContentsInv, DirectoryInv, SharingInv, SizeKept
<1>2. CASE b = NOBLOCK
  <2>1. disk' = disk /\ stable' = disk /\ rootSB' = rootSB /\ WriteFills'
    BY <1>2 DEF WriteAlloc, Return, ReturnWith, disk_read, WriteFills
  <2> QED BY <1>1, <2>1, ContentsKept
<1>3. CASE b # NOBLOCK
  <2>1. /\ disk_write(1, Marked(b)) /\ stable' = disk
        /\ frame' = [frame EXCEPT !.dirent.blk[CurPtr] = b]
        /\ frame.dirent.blk[CurPtr] = 0
        /\ pc' = "write" /\ rootSB' = rootSB
    BY <1>1, <1>3 DEF WriteAlloc, disk_write
  <2>2. CurPtr \in Ptr
    BY WritePlace DEF WriteAlloc, ContentsInv, DirectoryInv, SharingInv, TypeInv
  <2> HIDE DEF b
  <2>3. /\ \A m \in DataPtr : disk'[m] = disk[m]
        /\ Complete(disk', Root(disk)') /\ Complete(disk', rootSB) /\ SizeKept(disk')
    BY <2>1, MarkContents
  <2>4. /\ frame'.dirent.size = frame.dirent.size /\ frame'.cur = frame.cur
        /\ \A p \in Ptr : frame.dirent.blk[p] # 0 => frame'.dirent.blk[p] = frame.dirent.blk[p]
    BY <1>1, <2>1, <2>2 DEF TypeInv, ImageInv, TypeOK, Frame, Dirent
  <2>5. ASSUME NEW size \in 0 .. MaxFileSize, Filled(disk, frame.dirent, size)
        PROVE  Filled(disk', frame'.dirent, size)
    <3> SUFFICES ASSUME NEW pos \in 0 .. size - 1
                 PROVE  AsData(disk'[frame'.dirent.blk[pos \div BLOCKSIZE]])[pos % BLOCKSIZE] \in Byte
      BY DEF Filled
    <3> DEFINE p == pos \div BLOCKSIZE
               o == pos % BLOCKSIZE
    <3>1. p \in Ptr /\ o \in Offset
      BY BytePlace
    <3>2. AsData(disk[frame.dirent.blk[p]])[o] \in Byte
      BY <2>5 DEF Filled
    <3> HIDE DEF p, o
    <3>3. frame.dirent.blk[p] # 0
      <4>1. AsData(disk[0])[o] = Stale
        BY <1>1, <3>1 DEF AsData
      <4> QED BY <3>2, <4>1, LayoutAssumption
    <3>4. disk'[frame'.dirent.blk[p]] = disk[frame.dirent.blk[p]]
      BY <1>1, <2>3, <2>4, <3>1, <3>3, FrameSizes
    <3>5. AsData(disk'[frame'.dirent.blk[p]])[o] \in Byte
      BY <3>2, <3>4
    <3> QED BY <3>5 DEF p, o
  <2>6. WriteFills'
    <3> SUFFICES ASSUME InOrder(rootSB)
                 PROVE  Filled(disk', frame'.dirent, frame.cur)
                        /\ Filled(disk', frame'.dirent, frame.dirent.size)
      BY <2>1, <2>4 DEF WriteFills
    <3>1. Filled(disk, frame.dirent, frame.cur) /\ Filled(disk, frame.dirent, frame.dirent.size)
      BY <1>1 DEF ContentsInv, WriteFills
    <3>2. frame.cur \in 0 .. MaxFileSize /\ frame.dirent.size \in 0 .. MaxFileSize
      BY <1>1, FrameSizes
    <3> QED BY <2>5, <3>1, <3>2
  <2> QED BY <2>1, <2>3, <2>6 DEF ContentsInv, Root
<1> QED BY <1>2, <1>3

LEMMA SameBlock ==
  ASSUME NEW cur \in Nat, NEW n \in Nat \ {0}, (cur % BLOCKSIZE) + n <= BLOCKSIZE,
         NEW pos \in Nat, cur <= pos, pos <= cur + n - 1
  PROVE  /\ pos \div BLOCKSIZE = cur \div BLOCKSIZE /\ pos % BLOCKSIZE \in Offset
         /\ pos % BLOCKSIZE \in (cur % BLOCKSIZE) .. (cur % BLOCKSIZE) + n - 1
<1> DEFINE k == pos - cur
           q == cur \div BLOCKSIZE
           r == cur % BLOCKSIZE
<1>1. q \in Nat /\ r \in 0 .. BLOCKSIZE - 1 /\ cur = BLOCKSIZE * q + r /\ BLOCKSIZE \in Nat \ {0}
  BY DivMod, LayoutAssumption
<1>2. k \in Nat /\ k <= n - 1 /\ pos = cur + k
  OBVIOUS
<1> HIDE DEF k, q, r
<1>3. r + k \in 0 .. BLOCKSIZE - 1 /\ pos = BLOCKSIZE * q + (r + k)
  <2>1. r + n <= BLOCKSIZE
    BY DEF r
  <2> QED BY <1>1, <1>2, <2>1
<1>4. pos \div BLOCKSIZE = q /\ pos % BLOCKSIZE = r + k
  <2> DEFINE t == r + k
  <2>1. t \in 0 .. BLOCKSIZE - 1 /\ pos = BLOCKSIZE * q + t
    BY <1>3
  <2> HIDE DEF t
  <2>2. pos \div BLOCKSIZE = q /\ pos % BLOCKSIZE = t
    BY <1>1, <2>1
  <2> QED BY <2>2 DEF t
<1>5. pos % BLOCKSIZE \in Offset /\ pos % BLOCKSIZE \in r .. r + n - 1
  BY <1>1, <1>2, <1>3, <1>4 DEF Offset
<1> QED BY <1>4, <1>5 DEF q, r

(* The bytes a step of fs_write puts in a block, over those that were there. *)
LEMMA BytesWritten ==
  ASSUME TypeInv, WriteBlock, ~Abort
  PROVE  \A o \in Offset :
           LET b == frame.dirent.blk[CurPtr] IN
           /\ AsData(disk[b])[o] \in Byte => AsData(disk'[b])[o] \in Byte
           /\ o \in CurInBlock .. CurInBlock + nCopy - 1 => AsData(disk'[b])[o] \in Byte
<1> DEFINE b == frame.dirent.blk[CurPtr]
           dst == frame.cur - frame.offset
           bytes == [o \in Offset |->
                       IF o \in CurInBlock .. CurInBlock + nCopy - 1
                       THEN frame.data[dst + o - CurInBlock + 1]
                       ELSE AsData(disk[b])[o]]
<1>1. /\ CurPtr \in Ptr /\ CurInBlock \in Offset /\ nCopy \in Nat \ {0}
      /\ frame.cur + nCopy <= WriteEnd /\ pc = "write"
  BY WritePlace DEF WriteBlock, TypeInv
<1>2. b \in BlockNo
  BY <1>1, FrameSizes DEF DataPtr
<1>3. disk_write(b, DataBlock(bytes))
  BY DEF WriteBlock
<1>4. \A o \in Offset : bytes[o] =
        IF o \in CurInBlock .. CurInBlock + nCopy - 1
        THEN frame.data[dst + o - CurInBlock + 1]
        ELSE AsData(disk[b])[o]
  OBVIOUS
<1> HIDE DEF b, bytes
<1>5. AsData(disk'[b]) = bytes
  BY <1>2, <1>3, OtherBlocks DEF AsData, DataBlock
<1>6. ASSUME NEW o \in Offset, o \in CurInBlock .. CurInBlock + nCopy - 1
      PROVE  frame.data[dst + o - CurInBlock + 1] \in Byte
  <2>1. frame.data \in Seq(Byte) /\ frame.cur \in Nat /\ frame.offset \in Nat
        /\ frame.offset <= frame.cur
    BY <1>1, FrameSizes DEF TypeInv, ImageInv, TypeOK, Frame
  <2>2. dst + o - CurInBlock + 1 \in 1 .. Len(frame.data)
    <3>1. o \in Nat /\ CurInBlock \in Nat /\ CurInBlock <= o /\ o <= CurInBlock + nCopy - 1
      BY <1>1, <1>6 DEF Offset
    <3>2. frame.cur + nCopy <= frame.offset + Len(frame.data) /\ Len(frame.data) \in Nat
      BY <1>1, <2>1 DEF WriteEnd
    <3> HIDE DEF CurInBlock, nCopy
    <3> QED BY <1>1, <2>1, <3>1, <3>2
  <2> HIDE DEF dst
  <2> QED BY <2>1, <2>2, ElementOfSeq
<1> HIDE DEF dst
<1> QED BY <1>4, <1>5, <1>6 DEF b

LEMMA ContentsWriteBlock ==
  ASSUME ContentsInv, DirectoryInv', WriteBlock
  PROVE  ContentsInv'
<1> DEFINE b == frame.dirent.blk[CurPtr]
<1> SUFFICES ASSUME ~Abort PROVE ContentsInv'
  BY ContentsQuit
<1>1. /\ CurPtr \in Ptr /\ b \in BlockNo /\ b >= 2 /\ b # 0
      /\ pc = "write" /\ Mounted /\ rootSB' = rootSB /\ stable' = disk
      /\ frame'.dirent = frame.dirent /\ frame'.cur = frame.cur + nCopy
      /\ \A m \in BlockNo : m # b => disk'[m] = disk[m]
      /\ Root(disk)' = Root(disk)
      /\ \A i, j \in InUse(rootSB) :
           rootSB.blk[i] = DirentBlock(frame.inumber) => rootSB.blk[j] # b
  BY WriteBlockPlace DEF ContentsInv, DirectoryInv, SharingInv, WriteBlock, TypeInv, ImageInv, TypeOK, Frame
<1>2. /\ rootSB \in Superblock /\ RootOK(rootSB) /\ disk \in [BlockNo -> Block] /\ TypeInv
      /\ disk[0].kind # "data" /\ Complete(disk, rootSB) /\ 0 \in BlockNo
      /\ frame.cur < WriteEnd
  BY ImageTypes DEF ContentsInv, DirectoryInv, SharingInv, SizeKept, WriteBlock
<1>3. \A o \in Offset :
        /\ AsData(disk[b])[o] \in Byte => AsData(disk'[b])[o] \in Byte
        /\ o \in CurInBlock .. CurInBlock + nCopy - 1 => AsData(disk'[b])[o] \in Byte
  BY <1>2, BytesWritten
<1> HIDE DEF b
<1>4. \A m \in BlockNo, o \in Offset : AsData(disk[m])[o] \in Byte => AsData(disk'[m])[o] \in Byte
  BY <1>1, <1>3
<1>5. Complete(disk', rootSB)
  <2>1. CASE InOrder(rootSB)
    <3>1. \A i \in InUse(rootSB) : rootSB.blk[i] # b
      BY <1>1, <2>1, OrderedEntry DEF ContentsInv
    <3>2. \A i \in InUse(rootSB) : disk'[rootSB.blk[i]] = disk[rootSB.blk[i]]
      BY <1>1, <1>2, <3>1, SlotPtrType
    <3>3. \A i \in InUse(rootSB), s \in Slot, p \in Ptr : SlotPtr(disk, rootSB, i, s, p) \in BlockNo
      BY <1>2, SlotPtrType DEF DataPtr
    <3> QED BY <1>2, <1>4, <3>2, <3>3, CompleteLater
  <2>2. CASE ~InOrder(rootSB)
    BY <2>2 DEF Complete
  <2> QED BY <2>1, <2>2
<1>6. Complete(disk', Root(disk))
  <2>1. /\ \A i \in InUse(rootSB) : Root(disk).blk[i] = rootSB.blk[i]
        /\ Root(disk).size = rootSB.size
    BY <1>1, SameDirectory, ImageTypes
    DEF ContentsInv, DirectoryInv, Coherent, SharingInv, Superblock
  <2> QED BY <1>5, <2>1, CompleteAgain
<1>7. SizeKept(disk')
  BY <1>1, <1>2 DEF ContentsInv, SizeKept, Root
<1>8. ASSUME NEW size \in 0 .. MaxFileSize, Filled(disk, frame.dirent, size)
      PROVE  Filled(disk', frame.dirent, size)
  <2>1. \A p \in Ptr : frame.dirent.blk[p] \in BlockNo
    BY <1>1, <1>2, FrameSizes DEF DataPtr
  <2> QED BY <1>2, <1>4, <1>8, <2>1, FilledLater
<1>9. WriteFills'
  <2> SUFFICES ASSUME InOrder(rootSB)
               PROVE  /\ Filled(disk', frame.dirent, frame.cur + nCopy)
                      /\ Filled(disk', frame.dirent, frame.dirent.size)
    BY <1>1 DEF WriteFills
  <2>1. /\ Filled(disk, frame.dirent, frame.cur) /\ Filled(disk, frame.dirent, frame.dirent.size)
        /\ frame.cur \in 0 .. MaxFileSize /\ frame.dirent.size \in 0 .. MaxFileSize
    BY <1>1, <1>2, FrameSizes DEF ContentsInv, WriteFills
  <2>2. Filled(disk', frame.dirent, frame.cur) /\ Filled(disk', frame.dirent, frame.dirent.size)
    BY <1>8, <2>1
  <2> DEFINE size == frame.cur + nCopy
  <2>3. ASSUME NEW pos \in 0 .. size - 1
        PROVE  AsData(disk'[frame.dirent.blk[pos \div BLOCKSIZE]])[pos % BLOCKSIZE] \in Byte
    <3>1. /\ CurInBlock \in Offset /\ nCopy \in Nat \ {0} /\ CurInBlock + nCopy <= BLOCKSIZE
          /\ frame.cur \in Nat
      BY <1>1, <1>2, <2>1, WritePlace DEF TypeInv
    <3>2. CASE pos < frame.cur
      BY <2>1, <2>2, <3>1, <3>2 DEF Filled
    <3>3. CASE pos >= frame.cur
      <4>1. /\ pos \div BLOCKSIZE = CurPtr /\ pos % BLOCKSIZE \in Offset
            /\ pos % BLOCKSIZE \in CurInBlock .. CurInBlock + nCopy - 1
        BY <3>1, <3>3, SameBlock DEF CurPtr, CurInBlock
      <4> HIDE DEF CurInBlock, nCopy, CurPtr
      <4> QED BY <1>3, <4>1 DEF b
    <3> QED BY <2>1, <3>1, <3>2, <3>3
  <2> HIDE DEF size
  <2>4. Filled(disk', frame.dirent, size)
    BY <2>3 DEF Filled
  <2> QED BY <2>2, <2>4 DEF size
<1> QED BY <1>1, <1>5, <1>6, <1>7, <1>9 DEF ContentsInv, Root

LEMMA ContentsWritesDirent ==
  ASSUME ContentsInv, DirectoryInv', WritesDirent
  PROVE  ContentsInv'
<1> DEFINE b == DirentBlock(frame.inumber)
           slot == frame.inumber % DIRENTS_PER_BLOCK
<1>1. /\ slot \in Slot /\ pc = "write" /\ pc' = "idle" /\ Mounted
      /\ rootSB' = rootSB /\ stable' = disk
      /\ \A m \in BlockNo : m # b => disk'[m] = disk[m]
      /\ b \in BlockNo => disk'[b].kind = "dir"
      /\ Root(disk)' = Root(disk) /\ b >= 2 /\ b \in Nat
      /\ frame.cur > frame.dirent.size
  BY WritesDirentPlace DEF ContentsInv, DirectoryInv, WritesDirent
<1>2. \A i \in InUse(rootSB), t \in Slot :
        IF rootSB.blk[i] = b /\ t = slot
        THEN /\ SlotEntry(disk', rootSB, i, t).isvalid
             /\ SlotEntry(disk', rootSB, i, t).size = frame.cur
             /\ SlotEntry(disk', rootSB, i, t).blk = frame.dirent.blk
        ELSE SlotEntry(disk', rootSB, i, t) = SlotEntry(disk, rootSB, i, t)
  BY WritesDirentPlace DEF ContentsInv, DirectoryInv, WriteFits
<1>3. /\ rootSB \in Superblock /\ RootOK(rootSB) /\ disk \in [BlockNo -> Block] /\ TypeInv
      /\ disk[0].kind # "data" /\ Complete(disk, rootSB) /\ 0 \in BlockNo
      /\ Sound(disk, rootSB) /\ frame.cur \in 0 .. MaxFileSize
      /\ \A p \in Ptr : frame.dirent.blk[p] \in BlockNo
  BY <1>1, ImageTypes, FrameSizes
  DEF ContentsInv, DirectoryInv, SharingInv, CacheSound, SizeKept, DataPtr
<1>4. \A i \in InUse(rootSB) : rootSB.blk[i] \in BlockNo
  BY <1>3, SlotPtrType
<1>5. ASSUME InOrder(rootSB)
      PROVE  /\ \E i \in InUse(rootSB) : rootSB.blk[i] = b
             /\ Filled(disk, frame.dirent, frame.cur)
  BY <1>1, <1>5, OrderedEntry DEF ContentsInv, WriteFills
<1>6. ASSUME NEW i \in InUse(rootSB), rootSB.blk[i] = b, NEW p \in Ptr, frame.dirent.blk[p] # 0
      PROVE  frame.dirent.blk[p] # b
  BY <1>1, <1>6 DEF ContentsInv, DirectoryInv, SharingInv, FrameSound
<1> HIDE DEF b, slot
<1>7. Complete(disk', rootSB)
  <2> SUFFICES ASSUME InOrder(rootSB), NEW i \in InUse(rootSB)
               PROVE  /\ disk'[rootSB.blk[i]].kind = "dir"
                      /\ \A t \in Slot :
                           /\ i * DIRENTS_PER_BLOCK + t < rootSB.size =>
                                SlotEntry(disk', rootSB, i, t).isvalid
                           /\ SlotEntry(disk', rootSB, i, t).isvalid =>
                                Filled(disk', SlotEntry(disk', rootSB, i, t),
                                       SlotEntry(disk', rootSB, i, t).size)
    BY DEF Complete
  <2>1. disk'[rootSB.blk[i]].kind = "dir"
    <3>1. disk[rootSB.blk[i]].kind = "dir"
      BY <1>3 DEF Complete
    <3> QED BY <1>1, <1>4, <3>1
  <2>2. PICK d \in InUse(rootSB) : rootSB.blk[d] = b
    BY <1>5
  <2>3. ASSUME NEW t \in Slot, rootSB.blk[i] = b, t = slot
        PROVE  Filled(disk', SlotEntry(disk', rootSB, i, t), frame.cur)
    <3>1. Filled(disk, frame.dirent, frame.cur)
      BY <1>5
    <3>2. \A p \in Ptr : frame.dirent.blk[p] # 0 =>
            disk'[frame.dirent.blk[p]] = disk[frame.dirent.blk[p]]
      BY <1>1, <1>3, <1>6, <2>2
    <3>3. Filled(disk', frame.dirent, frame.cur)
      BY <1>3, <3>1, <3>2, FilledLater
    <3> QED BY <1>2, <2>3, <3>3 DEF Filled
  <2>4. ASSUME NEW t \in Slot, ~(rootSB.blk[i] = b /\ t = slot),
               SlotEntry(disk, rootSB, i, t).isvalid
        PROVE  Filled(disk', SlotEntry(disk, rootSB, i, t), SlotEntry(disk, rootSB, i, t).size)
    <3>1. Filled(disk, SlotEntry(disk, rootSB, i, t), SlotEntry(disk, rootSB, i, t).size)
      BY <1>3, <2>4 DEF Complete
    <3>2. SlotEntry(disk, rootSB, i, t).size \in 0 .. MaxFileSize
      BY <1>3, SlotPtrType, ViewTypes DEF SlotEntry, Dirent
    <3>3. \A p \in Ptr : SlotEntry(disk, rootSB, i, t).blk[p] = SlotPtr(disk, rootSB, i, t, p)
      BY DEF SlotEntry, SlotPtr
    <3>4. \A p \in Ptr : SlotPtr(disk, rootSB, i, t, p) # 0 =>
            disk'[SlotPtr(disk, rootSB, i, t, p)] = disk[SlotPtr(disk, rootSB, i, t, p)]
      <4>1. ASSUME NEW p \in Ptr, SlotPtr(disk, rootSB, i, t, p) # 0
            PROVE  SlotPtr(disk, rootSB, i, t, p) # b /\ SlotPtr(disk, rootSB, i, t, p) \in BlockNo
        BY <1>3, <2>2, <4>1, SlotPtrType DEF Sound, DataPtr
      <4> QED BY <1>1, <4>1
    <3> QED BY <1>3, <3>1, <3>2, <3>3, <3>4, FilledLater
  <2>5. ASSUME NEW t \in Slot
        PROVE  /\ i * DIRENTS_PER_BLOCK + t < rootSB.size => SlotEntry(disk', rootSB, i, t).isvalid
               /\ SlotEntry(disk', rootSB, i, t).isvalid =>
                    Filled(disk', SlotEntry(disk', rootSB, i, t), SlotEntry(disk', rootSB, i, t).size)
    <3>1. CASE rootSB.blk[i] = b /\ t = slot
      BY <1>2, <2>3, <3>1
    <3>2. CASE ~(rootSB.blk[i] = b /\ t = slot)
      <4>1. SlotEntry(disk', rootSB, i, t) = SlotEntry(disk, rootSB, i, t)
        BY <1>2, <3>2
      <4>2. i * DIRENTS_PER_BLOCK + t < rootSB.size => SlotEntry(disk, rootSB, i, t).isvalid
        BY <1>3 DEF Complete
      <4> QED BY <2>4, <3>2, <4>1, <4>2
    <3> QED BY <3>1, <3>2
  <2> QED BY <2>1, <2>5
<1>8. Complete(disk', Root(disk))
  <2>1. /\ \A i \in InUse(rootSB) : Root(disk).blk[i] = rootSB.blk[i]
        /\ Root(disk).size = rootSB.size
    BY <1>1, SameDirectory, ImageTypes
    DEF ContentsInv, DirectoryInv, Coherent, SharingInv, Superblock
  <2> QED BY <1>7, <2>1, CompleteAgain
<1>9. SizeKept(disk')
  BY <1>1, <1>3 DEF ContentsInv, SizeKept, Root
<1> QED BY <1>1, <1>7, <1>8, <1>9 DEF ContentsInv, WriteFills, Root

LEMMA ContentsStep ==
  ASSUME NEW n, DiskSizes = {n}, ContentsInv, [NextFormatted]_vars
  PROVE  ContentsInv'
<1>1. DirectoryInv'
  BY DirectoryStep DEF ContentsInv
<1>2. ASSUME Quiet PROVE ContentsInv'
  BY <1>1, <1>2, ContentsKept DEF Quiet, ContentsInv, WriteFills
<1>3. CASE Session
  BY <1>1, <1>3, ContentsQuit, ContentsStart DEF Session
<1>4. CASE Call
  <2>1. CASE FormatMounted \/ \E op \in {"read", "write"} : AccessUnmounted(op)
    BY <1>2, <2>1 DEF Quiet, FormatMounted, AccessUnmounted, Return, ReturnWith, NoDisk
  <2>2. CASE FormatSuper \/ Mount \/ Umount
    BY <1>1, <2>2, ContentsFormat, ContentsMount
  <2>3. CASE Lsdir \/ \E name \in Names : Open(name) \/ CreateFails(name)
    BY <1>2, <2>3
    DEF Quiet, Lsdir, Open, CreateFails, ScanDirectory, Return, ReturnWith, disk_read, NoDisk
  <2>4. CASE ScanGarbage
    BY <1>2, <2>4 DEF Quiet, ScanGarbage, GoAstray, NoDisk
  <2>5. CASE Debug
    BY <1>2, <2>5 DEF Quiet, Debug, disk_read
  <2>6. CASE \E name \in Names : CreateInBlock(name)
    BY <1>1, <2>6, ContentsKept DEF CreateInBlock, disk_read, Begin, ContentsInv, WriteFills
  <2>7. CASE \E name \in Names : CreateInNewBlock(name)
    BY <1>1, <2>7, ContentsCreateInNewBlock
  <2>8. ASSUME NEW inumber \in EntryNumbers(rootSB), NEW offset \in Offsets,
               \E data \in Payloads : WriteCall(inumber, data, offset)
        PROVE  ContentsInv'
    BY <1>1, <2>8, ContentsWriteCall
  <2>9. ASSUME NEW inumber \in EntryNumbers(rootSB), NEW offset \in Offsets,
               NEW length \in ReadLengths, Read(inumber, length, offset)
        PROVE  ContentsInv'
    <3>1. CASE Die
      BY <1>1, <2>9, <3>1, ContentsQuit DEF Read, Quit
    <3>2. CASE UNCHANGED <<nblocks, rootSB>> /\ pc' = "idle"
      BY <1>2, <2>9, <3>2 DEF Quiet, Read, disk_read
    <3> QED BY <2>9, <3>1, <3>2 DEF Read, Return, ReturnWith
  <2>10. ASSUME NEW inumber \in EntryNumbers(rootSB), LoadFails(inumber)
         PROVE  ContentsInv'
    <3>1. CASE Abort
      BY <1>1, <3>1, ContentsQuit
    <3>2. CASE GoAstray
      BY <1>2, <2>10, <3>2 DEF Quiet, LoadFails, GoAstray, NoDisk
    <3> QED BY <2>10, <3>1, <3>2 DEF LoadFails
  <2> QED BY <1>4, <2>1, <2>2, <2>3, <2>4, <2>5, <2>6, <2>7, <2>8, <2>9, <2>10 DEF Call
<1>5. CASE Step
  <2>1. CASE FormatBitmap \/ CreateDirent \/ CreateSuper \/ CreateAborts
    BY <1>1, <2>1, ContentsFormat, ContentsCreateDirent, ContentsCreateEnd
  <2>2. CASE WriteAlloc \/ WriteBlock
    BY <1>1, <2>2, ContentsWriteAlloc, ContentsWriteBlock
  <2>3. CASE WriteDirent
    BY <1>1, <1>2, <2>3, WriteDirentCases, ContentsWritesDirent DEF ContentsInv, DirectoryInv
  <2> QED BY <1>5, <2>1, <2>2, <2>3 DEF Step
<1>6. CASE Kill
  BY <1>1, <1>6, ContentsQuit
<1>7. CASE UNCHANGED vars
  <2>1. UNCHANGED <<disk, stable, rootSB, pc, frame>>
    BY <1>7 DEF vars
  <2>2. WriteFills' /\ Complete(disk, rootSB')
    BY <2>1 DEF ContentsInv, WriteFills
  <2> QED BY <1>1, <2>1, <2>2, ContentsKept
<1> QED BY <1>3, <1>4, <1>5, <1>6, <1>7 DEF NextFormatted, NextNoCrash

(* All that is proved of an image file that is always opened with the same  *)
(* number of blocks, as fso-sh.c's user must do for fs_mount to accept it.  *)
THEOREM ContentsKeepTheirShape ==
  ASSUME NEW n, DiskSizes = {n}
  PROVE  SpecFormatted => []ContentsInv
<1>1. ContentsInv /\ [NextFormatted]_vars => ContentsInv'
  BY ContentsStep
<1> QED BY <1>1, ContentsInit, PTL DEF SpecFormatted

(* What the invariant says of an image whose directory blocks are in order. *)
LEMMA CompleteEntry ==
  ASSUME NEW D, Complete(D, Root(D)), Contiguous(D), NEW n \in ValidEntries(D, Root(D))
  PROVE  Filled(D, EntryAt(D, Root(D), n), EntryAt(D, Root(D), n).size)
<1>1. InOrder(Root(D))
  BY DEF Contiguous, InOrder
<1> QED BY <1>1, FoundEntry DEF Complete

(* Every entry below the directory's size is a file, and the directory's    *)
(* blocks hold dirents, whichever disk_write the program is killed before.  *)
THEOREM EntriesExist ==
  ASSUME NEW n, DiskSizes = {n}
  PROVE  SpecFormatted => []ListedEntriesExist
<1>1. ASSUME NEW D, Root(D) \in Superblock, Bounded(D, Root(D)), Complete(D, Root(D)),
             Contiguous(D)
      PROVE  /\ \A b \in DirRefs(D) : D[b].kind = "dir"
             /\ \A k \in 0 .. Root(D).size - 1 : k \in ValidEntries(D, Root(D))
  <2>1. InOrder(Root(D))
    BY <1>1 DEF Contiguous, InOrder
  <2>2. \A b \in DirRefs(D) : D[b].kind = "dir"
    BY <1>1, <2>1 DEF DirRefs, Complete
  <2>3. ASSUME NEW k \in 0 .. Root(D).size - 1
        PROVE  k \in ValidEntries(D, Root(D))
    <3> DEFINE i == k \div DIRENTS_PER_BLOCK
               s == k % DIRENTS_PER_BLOCK
    <3>1. /\ k \in EntryNumbers(Root(D)) /\ i \in InUse(Root(D)) /\ s \in Slot
          /\ k = DIRENTS_PER_BLOCK * i + s /\ EntryAt(D, Root(D), k) = SlotEntry(D, Root(D), i, s)
      BY <1>1, EntryPlace DEF Bounded
    <3> HIDE DEF i, s
    <3>2. i * DIRENTS_PER_BLOCK + s < Root(D).size
      <4>1. Root(D).size \in Nat /\ i \in Nat /\ s \in Nat
        BY <1>1, <3>1 DEF Superblock, InUse, Ptr, Slot
      <4> QED BY <3>1, <4>1, LayoutAssumption
    <3> QED BY <1>1, <2>1, <3>1, <3>2 DEF Complete, ValidEntries
  <2> QED BY <2>2, <2>3
<1>2. ContentsInv => ListedEntriesExist
  BY <1>1, ImageTypes
  DEF ContentsInv, DirectoryInv, SharingInv, Tidy, ListedEntriesExist, Images
<1> QED BY <1>2, ContentsKeepTheirShape, PTL

(* The bytes below the size of a file were all written by an fs_write, also *)
(* in the image a kill leaves.                                              *)
THEOREM BytesBelowSizeWritten ==
  ASSUME NEW n, DiskSizes = {n}
  PROVE  SpecFormatted => []SizedBytesWritten
<1>1. ASSUME NEW D \in [BlockNo -> Block], Root(D) \in Superblock, RootOK(Root(D)),
             Complete(D, Root(D)), Contiguous(D), NEW m \in ValidEntries(D, Root(D)),
             NEW k \in 1 .. EntryAt(D, Root(D), m).size
      PROVE  FileBytes(D, EntryAt(D, Root(D), m), 0, EntryAt(D, Root(D), m).size)[k] \in Byte
  <2> DEFINE de == EntryAt(D, Root(D), m)
  <2>1. Filled(D, de, de.size)
    BY <1>1, CompleteEntry
  <2>6. k \in 1 .. de.size /\ de \in Dirent
    <3>1. m \in EntryNumbers(Root(D))
      BY DEF ValidEntries
    <3> QED BY <1>1, <3>1, EntryTypes, RootPlaced
  <2> HIDE DEF de
  <2>2. k \in 1 .. de.size /\ de.size \in Nat
    BY <2>6, LayoutAssumption DEF Dirent, MaxFileSize
  <2>3. 0 + k - 1 \in 0 .. de.size - 1
    BY <2>2
  <2>4. FileBytes(D, de, 0, de.size)[k] =
          AsData(D[de.blk[(0 + k - 1) \div BLOCKSIZE]])[(0 + k - 1) % BLOCKSIZE]
    BY <2>2 DEF FileBytes
  <2>5. FileBytes(D, de, 0, de.size)[k] \in Byte
    BY <2>1, <2>3, <2>4 DEF Filled
  <2> QED BY <2>5 DEF de
<1>2. ContentsInv => SizedBytesWritten
  BY <1>1, ImageTypes DEF ContentsInv, DirectoryInv, SharingInv, SizedBytesWritten, Images
<1> QED BY <1>2, ContentsKeepTheirShape, PTL

-----------------------------------------------------------------------------
(* The bitmap of a volume whose directory is in one block.                  *)

(* fs_create is about to append the entry that the assertion refuses.       *)
Doomed == pc = "dirent" /\ rootSB.size >= DIRENTS_PER_BLOCK

(* HeldBlocks, as a predicate.                                              *)
Holds(b) ==
  \/ b = 2 /\ (RootDir.size > 0 \/ pc = "dirent")
  \/ RootDir.size > 0 /\ \E s \in Slot, p \in Ptr : b = DirEntry(s).blk[p]
  \/ pc = "write" /\ \E p \in Ptr : b = frame.dirent.blk[p]

LEMMA HeldMember ==
  ASSUME NEW b
  PROVE  /\ b \in HeldBlocks <=> Holds(b)
         /\ b \in HeldBlocks' <=> Holds(b)'
<1>1. b \in HeldBlocks <=> Holds(b)
  BY DEF HeldBlocks, Holds
<1>2. b \in HeldBlocks' <=> Holds(b)'
  BY DEF HeldBlocks, Holds
<1> QED BY <1>1, <1>2

(* The bitmap changes as the blocks held do.                                *)
LEMMA BitmapLater ==
  ASSUME BitmapExact, NEW new,
         \A b : b \in AsBits(disk'[1]) <=> b \in AsBits(disk[1]) \/ b = new,
         \A b : b \in {0, 1} \/ Holds(b)' <=> b \in {0, 1, new} \/ Holds(b)
  PROVE  BitmapExact'
  BY HeldMember DEF BitmapExact

LEMMA FirstBlockOnly ==
  ASSUME NEW sb \in Superblock, sb.size <= DIRENTS_PER_BLOCK
  PROVE  /\ sb.size \in Nat
         /\ InUse(sb) = IF sb.size > 0 THEN {0} ELSE {}
<1>1. sb.size \in Nat /\ 0 \in Ptr
  BY LayoutAssumption DEF Superblock, Ptr
<1>2. ASSUME NEW i \in InUse(sb) PROVE i = 0
  <2>1. i \in Nat /\ i * DIRENTS_PER_BLOCK < DIRENTS_PER_BLOCK
    BY <1>1, LayoutAssumption DEF InUse, Ptr
  <2>2. i >= 1 => i * DIRENTS_PER_BLOCK >= DIRENTS_PER_BLOCK
    BY <2>1, LayoutAssumption
  <2> QED BY <2>1, <2>2, LayoutAssumption
<1>3. 0 \in InUse(sb) <=> sb.size > 0
  BY <1>1, LayoutAssumption DEF InUse
<1> QED BY <1>1, <1>2, <1>3

(* Between calls the directory in memory is the one on the disk.            *)
LEMMA SameRoot ==
  ASSUME DirectoryInv, Mounted, pc # "super"
  PROVE  /\ Root(disk).size = rootSB.size
         /\ rootSB.size > 0 => Root(disk).blk[0] = rootSB.blk[0]
<1>1. Root(disk).size = rootSB.size /\ rootSB.size \in Nat
  BY ImageTypes DEF DirectoryInv, Coherent, SharingInv, Superblock
<1>2. rootSB.size > 0 => 0 \in InUse(rootSB)
  BY <1>1, LayoutAssumption DEF InUse, Ptr
<1> QED BY <1>1, <1>2, SameDirectory

(* The steps between calls: the directory stays, wherever it is looked for. *)
LEMMA VolumeIdle ==
  ASSUME VolumeInv, pc \in {"idle", "down"}, pc' \in {"idle", "down"},
         disk'[0] = disk[0], disk'[1] = disk[1],
         Root(disk).magic /\ RootDir.size > 0 => disk'[2] = disk[2],
         RootDir'.size = RootDir.size, RootDir.size > 0 => RootDir'.blk[0] = RootDir.blk[0],
         Mounted' => Root(disk).magic
  PROVE  VolumeInv'
<1>1. Root(disk)' = Root(disk)
  BY DEF Root
<1>2. Root(disk).magic /\ RootDir.size > 0 => \A s : DirEntry(s)' = DirEntry(s)
  BY DEF DirEntry
<1>3. Root(disk).magic /\ OneBlock => OneBlock'
  BY <1>2 DEF OneBlock
<1>4. Root(disk).magic /\ BitmapExact => BitmapExact'
  <2>1. Root(disk).magic => HeldBlocks' = HeldBlocks
    BY <1>2 DEF HeldBlocks
  <2> QED BY <2>1 DEF BitmapExact
<1> QED BY <1>1, <1>3, <1>4 DEF VolumeInv, TakesOne

LEMMA VolumeMount ==
  ASSUME DirectoryInv, VolumeInv, pc = "idle", pc' \in {"idle", "down"}, disk' = disk,
         rootSB' \in {rootSB, ZeroSB} \/ (rootSB' = Root(disk) /\ Root(disk).magic /\ ~Mounted)
  PROVE  VolumeInv'
<1>1. Root(disk)' = Root(disk)
  BY DEF Root
<1>2. CASE rootSB' = rootSB
  BY <1>1, <1>2, VolumeIdle DEF RootDir, Mounted, VolumeInv
<1>3. CASE rootSB' = ZeroSB
  <2>1. RootDir' = Root(disk) /\ ~Mounted'
    BY <1>1, <1>3 DEF RootDir, Mounted, ZeroSB
  <2>2. RootDir.size = Root(disk).size /\ (RootDir.size > 0 => Root(disk).blk[0] = RootDir.blk[0])
    BY SameRoot DEF RootDir
  <2> QED BY <2>1, <2>2, VolumeIdle
<1>4. CASE rootSB' = Root(disk) /\ Root(disk).magic /\ ~Mounted
  BY <1>1, <1>4, VolumeIdle DEF RootDir, Mounted
<1> QED BY <1>2, <1>3, <1>4

LEMMA VolumeStart ==
  ASSUME NEW n, DiskSizes = {n}, ContentsInv, VolumeInv, Start(n)
  PROVE  VolumeInv'
<1>1. /\ n \in Nat /\ n >= 2 /\ n <= MaxBlocks /\ MaxBlocks \in Nat
  BY LayoutAssumption, ClientAssumption
<1>2. /\ pc = "down" /\ pc' = "idle" /\ rootSB' = rootSB /\ ~Mounted
      /\ \A m \in BlockNo : m < n => disk'[m] = disk[m]
  BY <1>1 DEF Start, ContentsInv, DirectoryInv, Coherent, BlockNo
<1>3. disk'[0] = disk[0] /\ disk'[1] = disk[1] /\ RootDir = Root(disk) /\ RootDir' = RootDir
  BY <1>1, <1>2 DEF BlockNo, RootDir, Root, Mounted
<1>4. Root(disk).magic /\ RootDir.size > 0 => disk'[2] = disk[2]
  <2> SUFFICES ASSUME Root(disk).magic, RootDir.size > 0 PROVE disk'[2] = disk[2]
    OBVIOUS
  <2>1. Root(disk).blk[0] = 2 /\ Root(disk).size <= DIRENTS_PER_BLOCK
    BY <1>2, <1>3 DEF VolumeInv, OneBlock
  <2>2. 0 \in InUse(Root(disk))
    BY <1>3, <2>1, FirstBlockOnly, ImageTypes DEF ContentsInv, DirectoryInv, SharingInv
  <2>3. 2 < Root(disk).nblocks
    BY <2>1, <2>2 DEF ContentsInv, DirectoryInv, Tidy, Bounded
  <2>4. Root(disk).nblocks = n
    BY <1>3 DEF ContentsInv, SizeKept
  <2> QED BY <1>1, <1>2, <2>3, <2>4 DEF BlockNo
<1> QED BY <1>2, <1>3, <1>4, VolumeIdle DEF Mounted

(* A fresh volume has no directory, and its bitmap says so.                 *)
LEMMA VolumeFormat ==
  ASSUME ContentsInv, VolumeInv, FormatSuper \/ FormatBitmap
  PROVE  VolumeInv'
<1>1. CASE FormatSuper
  <2>1. ~Mounted' /\ pc' = "format"
    BY <1>1 DEF FormatSuper, Begin, Mounted
  <2> QED BY <2>1 DEF VolumeInv, TakesOne
<1>2. CASE FormatBitmap
  <2>1. /\ pc = "format" /\ pc' = "idle" /\ ~Mounted /\ ~Mounted'
        /\ disk'[0] = disk[0] /\ disk'[1] = BitsBlock({0, 1}) /\ InUse(Root(disk)) = {}
    BY <1>2, ImageTypes
    DEF FormatBitmap, disk_write, Return, ReturnWith, ContentsInv, DirectoryInv, SharingInv,
        CallSound, Mounted
  <2>2. RootDir' = Root(disk) /\ Root(disk).size = 0
    <3>1. Root(disk).size \in Nat /\ 0 \in Ptr
      BY ImageTypes, LayoutAssumption DEF ContentsInv, DirectoryInv, SharingInv, Superblock, Ptr
    <3>2. Root(disk).size = 0
      BY <2>1, <3>1, LayoutAssumption DEF InUse
    <3> QED BY <2>1, <3>2 DEF RootDir, Root
  <2>3. OneBlock'
    BY <2>1, <2>2, LayoutAssumption DEF OneBlock
  <2>4. HeldBlocks' = {}
    BY <2>1, <2>2 DEF HeldBlocks
  <2>5. BitmapExact'
    BY <2>1, <2>4 DEF BitmapExact, AsBits, BitsBlock
  <2> QED BY <2>1, <2>3, <2>5 DEF VolumeInv, TakesOne
<1> QED BY <1>1, <1>2

(* The block that alloc_block finds in the bitmap of a volume: never a      *)
(* metadata block, always one that has a bit of its own, and the first      *)
(* after the metadata if the volume is fresh.                               *)
LEMMA AllocExact ==
  ASSUME NEW D, NEW sb \in Superblock, alloc_block(D, sb) >= 2
  PROVE  /\ alloc_block(D, sb) < BLOCKSIZE
         /\ alloc_block(D, sb) \in Nat
         /\ AsBits(D[1]) = {0, 1} => alloc_block(D, sb) = 2
<1> DEFINE b == alloc_block(D, sb)
<1>1. b # NOBLOCK
  BY DEF NOBLOCK
<1>2. /\ FreeBlocks(D, sb) \in SUBSET Nat /\ FreeBlocks(D, sb) # {}
      /\ b = Min(FreeBlocks(D, sb)) /\ sb.nblocks \in Nat
  BY <1>1, LayoutAssumption DEF alloc_block, FreeBlocks, Superblock
<1>3. b \in FreeBlocks(D, sb) /\ \A x \in FreeBlocks(D, sb) : b <= x
  BY <1>2, MinOfNats
<1> HIDE DEF b
<1>4. /\ b \in Nat /\ b < sb.nblocks /\ b % BLOCKSIZE \notin AsBits(D[1])
      /\ b % BLOCKSIZE \in 0 .. BLOCKSIZE - 1 /\ b % BLOCKSIZE <= b
      /\ (b % BLOCKSIZE) % BLOCKSIZE = b % BLOCKSIZE
  <2>1. b \in Nat /\ b < sb.nblocks /\ b % BLOCKSIZE \notin AsBits(D[1])
    BY <1>2, <1>3 DEF FreeBlocks
  <2>2. b % BLOCKSIZE \in 0 .. BLOCKSIZE - 1 /\ b % BLOCKSIZE <= b
    <3> DEFINE q == b \div BLOCKSIZE
               r == b % BLOCKSIZE
    <3>1. q \in Nat /\ r \in 0 .. BLOCKSIZE - 1 /\ b = BLOCKSIZE * q + r
      BY <2>1, DivMod, LayoutAssumption
    <3> HIDE DEF q, r
    <3>2. BLOCKSIZE * q \in Nat
      BY <3>1, LayoutAssumption
    <3>3. r <= b
      BY <2>1, <3>1, <3>2
    <3> QED BY <3>1, <3>3 DEF r
  <2>3. \A r \in 0 .. BLOCKSIZE - 1 : r % BLOCKSIZE = r
    BY LayoutAssumption
  <2> QED BY <2>1, <2>2, <2>3
<1>5. b % BLOCKSIZE \in FreeBlocks(D, sb)
  BY <1>2, <1>4 DEF FreeBlocks
<1>6. b < BLOCKSIZE
  BY <1>3, <1>4, <1>5, LayoutAssumption
<1>7. ASSUME AsBits(D[1]) = {0, 1} PROVE b = 2
  <2>1. BLOCKSIZE > 2 /\ 2 % BLOCKSIZE = 2
    BY <1>4, <1>7, LayoutAssumption
  <2>2. b >= 2
    BY DEF b
  <2>3. 2 \in FreeBlocks(D, sb)
    BY <1>2, <1>4, <1>7, <2>1, <2>2 DEF FreeBlocks
  <2> QED BY <1>3, <1>4, <2>2, <2>3
<1> QED BY <1>4, <1>6, <1>7 DEF b

LEMMA VolumeCreateInBlock ==
  ASSUME DirectoryInv, VolumeInv, NEW name, CreateInBlock(name)
  PROVE  VolumeInv'
<1>1. /\ pc = "idle" /\ pc' = "dirent" /\ disk' = disk /\ rootSB' = rootSB
      /\ Mounted /\ Mounted' /\ NewSlot # 0
  BY DEF CreateInBlock, disk_read, Begin, CanCreate, Mounted
<1>2. rootSB.size > 0 /\ RootDir = rootSB /\ RootDir' = RootDir /\ Root(disk)' = Root(disk)
  <2>1. rootSB.size \in Nat
    BY ImageTypes DEF DirectoryInv, SharingInv, Superblock
  <2> QED BY <1>1, <2>1, LayoutAssumption DEF NewSlot, RootDir, Root
<1>3. Root(disk).magic /\ OneBlock /\ BitmapExact
  BY <1>1 DEF VolumeInv
<1>4. \A s : DirEntry(s)' = DirEntry(s)
  BY <1>1 DEF DirEntry
<1>5. OneBlock'
  BY <1>1, <1>2, <1>3, <1>4 DEF OneBlock
<1>6. HeldBlocks' = HeldBlocks
  BY <1>1, <1>2, <1>4 DEF HeldBlocks
<1>7. BitmapExact'
  BY <1>1, <1>3, <1>6 DEF BitmapExact
<1> QED BY <1>1, <1>2, <1>3, <1>5, <1>7 DEF VolumeInv, TakesOne

LEMMA VolumeCreateInNewBlock ==
  ASSUME DirectoryInv, VolumeInv, NEW name, CreateInNewBlock(name)
  PROVE  VolumeInv' \/ Doomed' \/ pc' = "astray"
<1> DEFINE b == alloc_block(disk, rootSB)
<1>1. /\ pc = "idle" /\ Mounted /\ NewSlot = 0 /\ NewBlk < POINTERS_PER_ENT
      /\ rootSB \in Superblock /\ rootSB.size \in Nat /\ rootSB.blk \in [Ptr -> BlockNo \cup {NOBLOCK}]
      /\ RootDir = rootSB /\ 0 \in Ptr
  BY ImageTypes, LayoutAssumption
  DEF CreateInNewBlock, CanCreate, DirectoryInv, SharingInv, Superblock, RootDir, Ptr
<1>2. NewBlk \in Ptr /\ NewBlk \notin InUse(rootSB)
  BY <1>1, NewBlockPlace
<1>3. rootSB.size > 0 => NewBlk # 0
  BY <1>1, <1>2, LayoutAssumption DEF InUse
<1>4. Root(disk).magic /\ OneBlock /\ BitmapExact
  BY <1>1 DEF VolumeInv
<1>5. CASE /\ b = NOBLOCK /\ rootSB' = [rootSB EXCEPT !.blk[NewBlk] = NOBLOCK]
           /\ disk_read /\ Return("create", name, -1)
  <2>1. /\ disk' = disk /\ pc' = "idle" /\ rootSB'.size = rootSB.size
        /\ rootSB'.magic = rootSB.magic
        /\ rootSB.size > 0 => rootSB'.blk[0] = rootSB.blk[0]
    BY <1>1, <1>3, <1>5 DEF disk_read, Return, ReturnWith, Superblock
  <2>2. RootDir' = rootSB'
    BY <1>1, <2>1 DEF RootDir, Mounted
  <2> QED BY <1>1, <1>4, <2>1, <2>2, VolumeIdle
<1>6. CASE /\ b # NOBLOCK /\ rootSB' = [rootSB EXCEPT !.blk[NewBlk] = b]
           /\ disk_write(1, Marked(b)) /\ Begin("dirent", [NoFrame EXCEPT !.name = name])
  <2>1. /\ pc' = "dirent" /\ rootSB'.size = rootSB.size /\ rootSB'.magic = rootSB.magic
        /\ rootSB'.blk[NewBlk] = b
    BY <1>1, <1>2, <1>6 DEF Begin, Superblock
  <2>2. CASE rootSB.size > 0
    <3>1. rootSB.size >= DIRENTS_PER_BLOCK
      BY <1>1, <2>2, LayoutAssumption DEF NewSlot
    <3> QED BY <2>1, <3>1 DEF Doomed
  <2>3. CASE rootSB.size = 0
    <3>1. HeldBlocks = {} /\ NewBlk = 0
      BY <1>1, <2>3, LayoutAssumption DEF HeldBlocks, NewBlk
    <3>2. AsBits(disk[1]) = {0, 1}
      BY <1>4, <3>1 DEF BitmapExact
    <3>3. b = 2 /\ 2 < BLOCKSIZE
      <4>1. b \in DataPtr \ {0}
        BY <1>1, <1>6, AllocNotMetadata DEF DirectoryInv, SharingInv
      <4>2. b >= 2
        BY <4>1, LayoutAssumption DEF DataPtr, BlockNo
      <4> QED BY <1>1, <3>2, <4>2, AllocExact
    <3>4. disk'[0] = disk[0] /\ disk'[1] = Marked(2)
      BY <1>6, <3>3, OtherBlocks, ImageTypes DEF DirectoryInv, SharingInv
    <3>5. RootDir' = rootSB' /\ Mounted' /\ Root(disk)' = Root(disk)
      BY <1>1, <2>1, <3>4 DEF RootDir, Mounted, Root
    <3>6. HeldBlocks' = {2}
      BY <2>1, <2>3, <3>5 DEF HeldBlocks
    <3>7. AsBits(disk'[1]) = {0, 1, 2}
      BY <3>2, <3>3, <3>4, LayoutAssumption DEF Marked, BitsBlock, AsBits
    <3>8. BitmapExact'
      BY <3>6, <3>7 DEF BitmapExact
    <3>9. OneBlock'
      BY <2>1, <2>3, <3>1, <3>3, <3>5, LayoutAssumption DEF OneBlock
    <3> QED BY <1>4, <2>1, <3>5, <3>8, <3>9 DEF VolumeInv, TakesOne
  <2> QED BY <1>1, <2>2, <2>3
<1>7. CASE GoAstray
  BY <1>7 DEF GoAstray
<1> QED BY <1>5, <1>6, <1>7 DEF CreateInNewBlock

LEMMA VolumeCreateDirent ==
  ASSUME DirectoryInv, VolumeInv, CreateDirent, AppendedIsLast'
  PROVE  VolumeInv'
<1> DEFINE k == rootSB.size
           diri == IF k = 0 THEN EmptyDir ELSE AsDir(disk[2])
           new == NewDirent(NullDirent, frame.name)
           Later(s) == AsDir(disk'[2])[s]
<1>1. /\ pc = "dirent" /\ pc' = "super" /\ Mounted /\ Mounted'
      /\ rootSB \in Superblock /\ k \in Nat /\ rootSB'.size = k + 1
      /\ rootSB'.blk = rootSB.blk /\ disk \in [BlockNo -> Block] /\ 1 \in BlockNo
      /\ disk'[0] = disk[0]
  BY CreateDirentEntries, ImageTypes
  DEF CreateDirent, DirectoryInv, SharingInv, CallSound, Superblock, Mounted
<1>2. Root(disk).magic /\ OneBlock /\ BitmapExact /\ RootDir = rootSB /\ RootDir' = rootSB'
      /\ Root(disk)' = Root(disk)
  BY <1>1 DEF VolumeInv, RootDir, Root
<1>3. k < DIRENTS_PER_BLOCK
  <2>1. (rootSB'.size - 1) % DIRENTS_PER_BLOCK = rootSB'.size - 1
    BY <1>1 DEF AppendedIsLast, EntAssertion
  <2> QED BY <1>1, <2>1, LayoutAssumption
<1>4. NewBlk = 0 /\ NewSlot = k /\ rootSB.blk[0] = 2 /\ k \in Slot
  BY <1>1, <1>2, <1>3, LayoutAssumption DEF NewBlk, NewSlot, OneBlock, Slot
<1>5. /\ 2 \in BlockNo
      /\ disk'[2] = DirBlock([diri EXCEPT ![k] = NewDirent(@, frame.name)])
      /\ \A m \in BlockNo : m # 2 => disk'[m] = disk[m]
  <2>1. 2 \in BlockNo
    BY <1>4, CreateDirentBlock DEF DirectoryInv
  <2>2. disk_write(2, DirBlock([diri EXCEPT ![k] = NewDirent(@, frame.name)]))
    BY <1>4 DEF CreateDirent
  <2> HIDE DEF diri
  <2> QED BY <2>1, <2>2, OtherBlocks DEF DirectoryInv, SharingInv
<1>6. /\ diri \in [Slot -> Dirent]
      /\ \A s \in Slot : s >= k => diri[s] = NullDirent
      /\ \A s \in Slot : k > 0 => diri[s] = DirEntry(s)
  <2>1. AsDir(disk[2]) \in [Slot -> Dirent]
    BY <1>1, <1>5, ViewTypes
  <2>2. CASE k = 0
    <3>1. EmptyDir \in [Slot -> Dirent] /\ \A s \in Slot : EmptyDir[s] = NullDirent
      <4>1. EmptyDir = AsDir(ZeroBlock) /\ ZeroBlock \in Block
        BY BlockTypes DEF AsDir, ZeroBlock
      <4>2. EmptyDir \in [Slot -> Dirent]
        BY <4>1, ViewTypes
      <4> QED BY <4>2 DEF EmptyDir
    <3> QED BY <1>1, <2>2, <3>1
  <2>3. CASE k # 0
    BY <1>1, <1>2, <2>1, <2>3 DEF OneBlock, DirEntry
  <2> QED BY <2>2, <2>3
<1>7. \A s \in Slot : Later(s) = IF s = k THEN new ELSE diri[s]
  <2>1. Later(k) = NewDirent(diri[k], frame.name) /\ \A s \in Slot : s # k => Later(s) = diri[s]
    <3> HIDE DEF diri
    <3>1. AsDir(disk'[2]) = [diri EXCEPT ![k] = NewDirent(@, frame.name)]
      BY <1>5 DEF AsDir, DirBlock
    <3> QED BY <1>4, <1>6, <3>1
  <2>2. diri[k] = NullDirent
    BY <1>1, <1>4, <1>6
  <2> HIDE DEF diri
  <2> QED BY <2>1, <2>2
<1>8. \A p \in Ptr : new.blk[p] = 0
  BY LayoutAssumption DEF NewDirent, NullDirent, Ptr
<1>9. OneBlock'
  <2> HIDE DEF diri, new
  <2>1. \A s \in Slot : s >= k + 1 => Later(s) = NullDirent
    BY <1>1, <1>6, <1>7 DEF Slot
  <2> QED BY <1>1, <1>2, <1>3, <1>4, <2>1, LayoutAssumption DEF OneBlock, DirEntry
<1>10. BitmapExact'
  <2> HIDE DEF new
  <2>1. ASSUME NEW b
        PROVE  b \in {0, 1} \/ Holds(b)' <=> b \in {0, 1, 0} \/ Holds(b)
    <3>1. Holds(b)' <=> b = 2 \/ \E s \in Slot, p \in Ptr : b = Later(s).blk[p]
      BY <1>1, <1>2 DEF Holds, DirEntry
    <3>2. Holds(b) <=> b = 2 \/ (k > 0 /\ \E s \in Slot, p \in Ptr : b = DirEntry(s).blk[p])
      BY <1>1, <1>2 DEF Holds
    <3>3. CASE k = 0
      <4>1. \A s \in Slot, p \in Ptr : Later(s).blk[p] = 0
        BY <1>7, <1>8, <3>3 DEF EmptyDir, NullDirent
      <4> QED BY <3>1, <3>2, <3>3, <4>1
    <3>4. CASE k > 0
      <4> HIDE DEF diri
      <4>1. \A s \in Slot : s # k => Later(s) = DirEntry(s)
        BY <1>6, <1>7, <3>4
      <4>2. \A p \in Ptr : Later(k).blk[p] = 0 /\ DirEntry(k).blk[p] = 0
        <5>1. DirEntry(k) = NullDirent
          BY <1>1, <1>2, <1>4, <3>4 DEF OneBlock
        <5> QED BY <1>4, <1>7, <1>8, <5>1 DEF NullDirent
      <4> QED BY <3>1, <3>2, <3>4, <4>1, <4>2
    <3> QED BY <1>1, <3>3, <3>4
  <2>2. \A b : b \in AsBits(disk'[1]) <=> b \in AsBits(disk[1]) \/ b = 0
    <3>1. 0 \in AsBits(disk[1])
      BY <1>2 DEF BitmapExact
    <3> QED BY <1>1, <1>5, <3>1
  <2> QED BY <1>2, <2>1, <2>2, BitmapLater
<1> QED BY <1>1, <1>2, <1>9, <1>10 DEF VolumeInv, TakesOne

LEMMA VolumeCreateSuper ==
  ASSUME DirectoryInv, VolumeInv, AppendedIsLast, CreateSuper \/ CreateAborts
  PROVE  VolumeInv'
<1>1. CreateSuper
  BY DEF CreateAborts, AppendedIsLast
<1>2. /\ pc = "super" /\ pc' = "idle" /\ rootSB' = rootSB /\ Mounted /\ Mounted'
      /\ disk'[0] = SuperBlock(rootSB) /\ disk'[1] = disk[1]
      /\ 2 \in BlockNo => disk'[2] = disk[2]
  BY <1>1, OtherBlocks, ImageTypes
  DEF CreateSuper, Return, ReturnWith, DirectoryInv, SharingInv, CallSound, Mounted
<1>3. /\ Root(disk).magic /\ OneBlock /\ BitmapExact /\ RootDir = rootSB /\ RootDir' = rootSB
      /\ Root(disk').magic
  BY <1>2 DEF VolumeInv, RootDir, Mounted, Root, AsSuper, SuperBlock
<1>4. rootSB.size > 0 => disk'[2] = disk[2]
  <2>1. rootSB.size > 0 => rootSB.blk[0] = 2 /\ 0 \in InUse(rootSB)
    BY <1>3, FirstBlockOnly, ImageTypes DEF OneBlock, DirectoryInv, SharingInv
  <2>2. rootSB.size > 0 => 2 \in BlockNo
    BY <2>1, SlotPtrType, ImageTypes DEF DirectoryInv, SharingInv
  <2> QED BY <1>2, <2>2
<1>5. rootSB.size > 0 => \A s : DirEntry(s)' = DirEntry(s)
  BY <1>4 DEF DirEntry
<1>6. OneBlock'
  BY <1>2, <1>3, <1>5 DEF OneBlock
<1>7. HeldBlocks' = HeldBlocks
  BY <1>2, <1>3, <1>5 DEF HeldBlocks
<1> QED BY <1>2, <1>3, <1>6, <1>7 DEF VolumeInv, TakesOne, BitmapExact

(* What is known of the directory while fs_write works on an entry of it.   *)
LEMMA VolumeInWrite ==
  ASSUME DirectoryInv, VolumeInv, Mounted, pc \notin {"format", "dirent"},
         NEW inumber \in EntryNumbers(rootSB)
  PROVE  /\ Root(disk).magic /\ OneBlock /\ BitmapExact /\ RootDir = rootSB
         /\ rootSB.size > 0 /\ rootSB.blk[0] = 2 /\ InUse(rootSB) = {0} /\ InOrder(rootSB)
         /\ inumber \in Slot /\ DirentBlock(inumber) = 2 /\ inumber % DIRENTS_PER_BLOCK = inumber
         /\ \A s : SlotEntry(disk, rootSB, 0, s) = DirEntry(s)
         /\ 0 \in BlockNo /\ 1 \in BlockNo /\ 2 \in BlockNo
<1>1. Root(disk).magic /\ OneBlock /\ BitmapExact /\ RootDir = rootSB
  BY DEF VolumeInv, RootDir
<1>2. /\ rootSB \in Superblock /\ RootOK(rootSB) /\ disk \in [BlockNo -> Block]
      /\ 0 \in BlockNo /\ 1 \in BlockNo
  BY ImageTypes DEF DirectoryInv, SharingInv
<1>3. InUse(rootSB) = IF rootSB.size > 0 THEN {0} ELSE {}
  BY <1>1, <1>2, FirstBlockOnly DEF OneBlock
<1>4. inumber \in Nat /\ inumber \div DIRENTS_PER_BLOCK \in InUse(rootSB)
  BY DEF EntryNumbers
<1>5. inumber \div DIRENTS_PER_BLOCK = 0 /\ rootSB.size > 0 /\ InUse(rootSB) = {0}
  BY <1>3, <1>4
<1>6. rootSB.blk[0] = 2 /\ DirentBlock(inumber) = 2
  BY <1>1, <1>5 DEF OneBlock, DirentBlock
<1>7. inumber \in Slot /\ inumber % DIRENTS_PER_BLOCK = inumber
  <2>1. inumber % DIRENTS_PER_BLOCK \in Slot
        /\ inumber = DIRENTS_PER_BLOCK * (inumber \div DIRENTS_PER_BLOCK) + (inumber % DIRENTS_PER_BLOCK)
    BY <1>4, DivMod, LayoutAssumption DEF Slot
  <2>2. inumber = inumber % DIRENTS_PER_BLOCK
    BY <1>5, <2>1, LayoutAssumption DEF Slot
  <2> QED BY <2>1, <2>2
<1>8. InOrder(rootSB) /\ \A s : SlotEntry(disk, rootSB, 0, s) = DirEntry(s)
  BY <1>5, <1>6 DEF InOrder, SlotEntry, DirEntry
<1>9. 2 \in BlockNo
  BY <1>2, <1>5, <1>6, SlotPtrType
<1> QED BY <1>1, <1>2, <1>5, <1>6, <1>7, <1>8, <1>9

LEMMA VolumeWriteCall ==
  ASSUME DirectoryInv, VolumeInv, NEW inumber \in EntryNumbers(rootSB), NEW offset \in Offsets,
         NEW data \in Payloads, Len(data) <= BLOCKSIZE, WriteCall(inumber, data, offset)
  PROVE  VolumeInv'
<1> DEFINE de == LoadDirent(inumber)
<1>1. CASE disk_read /\ UNCHANGED rootSB /\ pc' = "idle"
  BY <1>1, VolumeMount DEF WriteCall, disk_read
<1>2. CASE /\ disk_read /\ UNCHANGED rootSB /\ CanWrite(de, Len(data), offset)
           /\ Begin("write", [NoFrame EXCEPT !.inumber = inumber, !.dirent = de,
                                !.data = data, !.offset = offset, !.cur = offset])
  <2>1. /\ pc = "idle" /\ pc' = "write" /\ disk' = disk /\ rootSB' = rootSB /\ Mounted /\ Mounted'
        /\ Root(disk)' = Root(disk) /\ RootDir' = RootDir
    BY <1>2 DEF WriteCall, disk_read, Begin, Mounted, Root, RootDir
  <2>2. /\ frame'.inumber = inumber /\ frame'.dirent = de /\ frame'.data = data
        /\ frame'.offset = offset /\ frame'.cur = offset
    BY <1>2 DEF Begin, NoFrame
  <2>3. /\ Root(disk).magic /\ OneBlock /\ BitmapExact /\ RootDir.size > 0 /\ inumber \in Slot
        /\ DirentBlock(inumber) = 2 /\ inumber % DIRENTS_PER_BLOCK = inumber
    BY <2>1, VolumeInWrite
  <2>4. de = DirEntry(inumber) /\ \A s : DirEntry(s)' = DirEntry(s)
    BY <2>1, <2>3 DEF LoadDirent, DirEntry
  <2>5. offset <= de.size
    BY <1>2 DEF CanWrite
  <2> HIDE DEF de
  <2>6. OneBlock'
    BY <2>1, <2>3, <2>4 DEF OneBlock
  <2>7. BitmapExact'
    <3>1. ASSUME NEW b PROVE Holds(b)' <=> Holds(b)
      BY <2>1, <2>2, <2>3, <2>4 DEF Holds
    <3>2. \A b : b \in AsBits(disk'[1]) <=> b \in AsBits(disk[1]) \/ b = 0
      BY <2>1, <2>3 DEF BitmapExact
    <3> QED BY <2>3, <3>1, <3>2, BitmapLater
  <2>8. TakesOne'
    <3>1. frame'.dirent.blk = DirEntry(frame.inumber)'.blk
      <4>1. DirEntry(frame.inumber)' = AsDir(disk[2])[inumber]
        BY <2>1, <2>2 DEF DirEntry
      <4> QED BY <2>2, <2>4, <4>1 DEF DirEntry
    <3>2. Offsets \subseteq Nat
      BY ClientAssumption
    <3> QED BY <2>1, <2>2, <2>5, <3>1, <3>2 DEF TakesOne, WriteEnd, DirEntry
  <2> QED BY <2>1, <2>3, <2>6, <2>7, <2>8 DEF VolumeInv
<1> QED BY <1>1, <1>2 DEF WriteCall, Return, ReturnWith

(* fs_write returns without an update of the entry, which has every block   *)
(* that the call has taken.                                                 *)
LEMMA VolumeReturn ==
  ASSUME DirectoryInv, VolumeInv, pc = "write", pc' = "idle", disk' = disk, rootSB' = rootSB,
         frame.dirent.blk = DirEntry(frame.inumber).blk
  PROVE  VolumeInv'
<1>1. Mounted /\ Mounted' /\ Root(disk)' = Root(disk) /\ RootDir' = RootDir
  BY DEF DirectoryInv, SharingInv, CallSound, Mounted, Root, RootDir
<1>2. /\ Root(disk).magic /\ OneBlock /\ BitmapExact /\ RootDir.size > 0 /\ frame.inumber \in Slot
  BY <1>1, VolumeInWrite DEF DirectoryInv, WriteFits
<1>3. \A s : DirEntry(s)' = AsDir(disk[2])[s]
  BY DEF DirEntry
<1>4. OneBlock'
  BY <1>1, <1>2, <1>3 DEF OneBlock, DirEntry
<1>5. BitmapExact'
  <2>1. ASSUME NEW b PROVE Holds(b)' <=> Holds(b)
    <3>1. Holds(b)' <=> b = 2 \/ \E s \in Slot, p \in Ptr : b = DirEntry(s).blk[p]
      BY <1>1, <1>2 DEF Holds, DirEntry
    <3>2. Holds(b) <=> \/ b = 2 \/ \E s \in Slot, p \in Ptr : b = DirEntry(s).blk[p]
                       \/ \E p \in Ptr : b = frame.dirent.blk[p]
      BY <1>2 DEF Holds
    <3>3. (\E p \in Ptr : b = frame.dirent.blk[p]) =>
            \E s \in Slot, p \in Ptr : b = DirEntry(s).blk[p]
      BY <1>2
    <3> QED BY <3>1, <3>2, <3>3
  <2>2. \A b : b \in AsBits(disk'[1]) <=> b \in AsBits(disk[1]) \/ b = 0
    BY <1>2 DEF BitmapExact
  <2> QED BY <1>2, <2>1, <2>2, BitmapLater
<1> QED BY <1>1, <1>2, <1>4, <1>5 DEF VolumeInv, TakesOne

(* The bytes below the size of a file are in blocks of it, so the block that *)
(* fs_write lacks comes after them, and is the last one of the call.         *)
LEMMA LastBlock ==
  ASSUME ContentsInv, TakesOne, pc = "write", InOrder(rootSB), frame.cur < WriteEnd,
         frame.dirent.blk[CurPtr] = 0
  PROVE  /\ WriteEnd > frame.dirent.size
         /\ \A pos \in frame.cur .. WriteEnd - 1 : pos \div BLOCKSIZE = CurPtr
<1> USE LayoutAssumption
<1> DEFINE size == frame.dirent.size
           cur == frame.cur
           offset == frame.offset
           end == WriteEnd
<1>1. /\ cur \in Nat /\ size \in 0 .. MaxFileSize /\ size \in Nat /\ offset \in Nat
      /\ offset <= cur /\ end \in Nat /\ end <= offset + BLOCKSIZE /\ offset <= size /\ cur < end
      /\ TypeInv
  <2>1. TypeInv
    BY DEF ContentsInv, DirectoryInv, SharingInv
  <2>2. frame.data \in Seq(Byte)
    BY <2>1 DEF TypeInv, ImageInv, TypeOK, Frame
  <2> QED BY <2>1, <2>2, FrameSizes DEF TakesOne, WriteEnd, MaxFileSize
<1>2. /\ CurInBlock \in 0 .. BLOCKSIZE - 1 /\ CurPtr \in Nat
      /\ cur = BLOCKSIZE * CurPtr + CurInBlock
  BY <1>1, DivMod DEF CurInBlock, CurPtr
<1>3. \A pos \in 0 .. size - 1 : frame.dirent.blk[pos \div BLOCKSIZE] # 0
  <2> SUFFICES ASSUME NEW pos \in 0 .. size - 1, frame.dirent.blk[pos \div BLOCKSIZE] = 0
               PROVE  FALSE
    OBVIOUS
  <2>1. AsData(disk[0])[pos % BLOCKSIZE] \in Byte
    BY DEF ContentsInv, WriteFills, Filled
  <2>2. disk[0].kind # "data" /\ pos % BLOCKSIZE \in Offset
    BY <1>1, BytePlace DEF ContentsInv, SizeKept
  <2> QED BY <2>1, <2>2 DEF AsData
<1>4. cur >= size
  <2>1. cur \notin 0 .. size - 1
    BY <1>3 DEF CurPtr
  <2> QED BY <1>1, <2>1
<1>5. CurInBlock = 0
  <2>1. CASE offset < cur
    BY <2>1 DEF TakesOne
  <2>2. CASE offset = cur
    <3> SUFFICES ASSUME CurInBlock > 0 PROVE FALSE
      BY <1>2
    <3>1. cur = size /\ cur - 1 \in 0 .. size - 1
      <4>1. BLOCKSIZE * CurPtr >= 0
        BY <1>2
      <4> QED BY <1>1, <1>2, <1>4, <2>2, <4>1
    <3>2. (cur - 1) \div BLOCKSIZE = CurPtr
      <4> DEFINE q == CurPtr
                 r == CurInBlock
      <4>1. cur - 1 = BLOCKSIZE * q + (r - 1) /\ r - 1 \in 0 .. BLOCKSIZE - 1 /\ q \in Nat
        BY <1>1, <1>2
      <4> HIDE DEF q, r, cur
      <4>2. (BLOCKSIZE * q + (r - 1)) \div BLOCKSIZE = q
        BY <4>1
      <4> QED BY <4>1, <4>2 DEF q
    <3> QED BY <1>3, <3>1, <3>2
  <2> QED BY <1>1, <2>1, <2>2
<1>6. ASSUME NEW pos \in cur .. end - 1
      PROVE  pos \div BLOCKSIZE = CurPtr
  <2>1. pos \in Nat /\ cur <= pos /\ pos <= cur + (end - cur) - 1 /\ end - cur \in Nat \ {0}
    BY <1>1
  <2>2. (cur % BLOCKSIZE) + (end - cur) <= BLOCKSIZE
    BY <1>1, <1>5 DEF CurInBlock
  <2> HIDE DEF cur, end
  <2>3. pos \div BLOCKSIZE = cur \div BLOCKSIZE
    BY <1>1, <2>1, <2>2, SameBlock
  <2> QED BY <2>3 DEF CurPtr, cur
<1> QED BY <1>1, <1>4, <1>6

LEMMA VolumeWriteAlloc ==
  ASSUME ContentsInv, VolumeInv, WriteAlloc
  PROVE  VolumeInv'
<1> DEFINE b == alloc_block(disk, rootSB)
<1>1. /\ pc = "write" /\ frame.cur < WriteEnd /\ frame.dirent.blk[CurPtr] = 0 /\ Mounted
      /\ DirectoryInv /\ TypeInv /\ rootSB \in Superblock /\ TakesOne
      /\ frame.inumber \in EntryNumbers(rootSB)
  BY ImageTypes
  DEF WriteAlloc, ContentsInv, DirectoryInv, SharingInv, CallSound, WriteFits, VolumeInv
<1>2. /\ Root(disk).magic /\ OneBlock /\ BitmapExact /\ RootDir = rootSB /\ rootSB.size > 0
      /\ InOrder(rootSB) /\ 0 \in BlockNo /\ 1 \in BlockNo /\ 2 \in BlockNo
  BY <1>1, VolumeInWrite
<1>3. CASE disk_read /\ Return("write", Written, -1) /\ UNCHANGED <<nblocks, rootSB>>
  <2>1. frame.dirent.blk = DirEntry(frame.inumber).blk
    <3>1. frame.cur \in frame.cur .. WriteEnd - 1 /\ frame.cur \div BLOCKSIZE = CurPtr
      <4>1. frame.cur \in Nat /\ WriteEnd \in Int
        BY <1>1 DEF TypeInv, ImageInv, TypeOK, Frame, WriteEnd
      <4> QED BY <1>1, <4>1 DEF CurPtr
    <3> QED BY <1>1, <3>1 DEF TakesOne
  <2> QED BY <1>1, <1>3, <2>1, VolumeReturn DEF disk_read, Return, ReturnWith
<1>4. CASE /\ b # NOBLOCK /\ disk_write(1, Marked(b)) /\ frame' = [frame EXCEPT !.dirent.blk[CurPtr] = b]
           /\ UNCHANGED <<nblocks, rootSB, pc, ret>>
  <2>1. b \in Nat /\ b < BLOCKSIZE /\ b # 0
    <3>1. b \in DataPtr \ {0}
      BY <1>1, <1>4, AllocNotMetadata
    <3>2. b >= 2
      BY <3>1, LayoutAssumption DEF DataPtr, BlockNo
    <3> QED BY <1>1, <3>2, AllocExact
  <2>2. CurPtr \in Ptr
    BY <1>1, WritePlace DEF TypeInv
  <2> HIDE DEF b
  <2>3. /\ disk'[0] = disk[0] /\ disk'[1] = Marked(b) /\ disk'[2] = disk[2]
        /\ rootSB' = rootSB /\ pc' = pc /\ Mounted' /\ Root(disk)' = Root(disk) /\ RootDir' = rootSB
    BY <1>1, <1>2, <1>4, OtherBlocks DEF Mounted, Root, RootDir
  <2>4. /\ frame'.inumber = frame.inumber /\ frame'.data = frame.data
        /\ frame'.offset = frame.offset /\ frame'.cur = frame.cur
        /\ frame'.dirent.size = frame.dirent.size
        /\ \A p \in Ptr : frame'.dirent.blk[p] = IF p = CurPtr THEN b ELSE frame.dirent.blk[p]
    BY <1>1, <1>4, <2>2 DEF TypeInv, ImageInv, TypeOK, Frame, Dirent
  <2>5. \A s : DirEntry(s)' = AsDir(disk[2])[s]
    BY <2>3 DEF DirEntry
  <2>6. OneBlock'
    BY <1>1, <1>2, <2>3, <2>5 DEF OneBlock, DirEntry
  <2>7. BitmapExact'
    <3>1. ASSUME NEW x
          PROVE  x \in {0, 1} \/ Holds(x)' <=> x \in {0, 1, b} \/ Holds(x)
      <4>1. Holds(x) <=> \/ x = 2 \/ \E s \in Slot, p \in Ptr : x = DirEntry(s).blk[p]
                         \/ \E p \in Ptr : x = frame.dirent.blk[p]
        BY <1>1, <1>2 DEF Holds
      <4>2. Holds(x)' <=> \/ x = 2 \/ \E s \in Slot, p \in Ptr : x = DirEntry(s).blk[p]
                          \/ \E p \in Ptr : x = frame'.dirent.blk[p]
        BY <1>1, <1>2, <2>3 DEF Holds, DirEntry
      <4> QED BY <1>1, <2>2, <2>4, <4>1, <4>2
    <3>2. \A x : x \in AsBits(disk'[1]) <=> x \in AsBits(disk[1]) \/ x = b
      <4>1. b % BLOCKSIZE = b
        BY <2>1, LayoutAssumption
      <4> QED BY <2>3, <4>1 DEF Marked, AsBits, BitsBlock
    <3> QED BY <1>2, <3>1, <3>2, BitmapLater
  <2>8. TakesOne'
    <3>1. /\ WriteEnd' = WriteEnd /\ CurInBlock' = CurInBlock
      BY <2>4 DEF WriteEnd, CurInBlock
    <3>2. /\ WriteEnd > frame.dirent.size
          /\ \A pos \in frame.cur .. WriteEnd - 1 : pos \div BLOCKSIZE = CurPtr
      BY <1>1, <1>2, LastBlock
    <3>3. b # 0
      BY <2>1
    <3>4. \A pos \in frame.cur .. WriteEnd - 1 : frame'.dirent.blk[pos \div BLOCKSIZE] # 0
      BY <2>2, <2>4, <3>2, <3>3
    <3> QED BY <1>1, <2>3, <2>4, <3>1, <3>2, <3>4 DEF TakesOne
  <2> QED BY <1>1, <1>2, <2>3, <2>6, <2>7, <2>8 DEF VolumeInv
<1> QED BY <1>3, <1>4 DEF WriteAlloc

LEMMA NextBlockStarts ==
  ASSUME NEW cur \in Nat
  PROVE  (cur + (BLOCKSIZE - (cur % BLOCKSIZE))) % BLOCKSIZE = 0
<1> USE LayoutAssumption
<1> DEFINE q == cur \div BLOCKSIZE
           r == cur % BLOCKSIZE
<1>1. q \in Nat /\ r \in 0 .. BLOCKSIZE - 1 /\ cur = BLOCKSIZE * q + r
  BY DivMod
<1> HIDE DEF q, r
<1>2. cur + (BLOCKSIZE - r) = BLOCKSIZE * (q + 1)
  BY <1>1
<1>3. (BLOCKSIZE * (q + 1)) % BLOCKSIZE = 0
  BY <1>1
<1> QED BY <1>2, <1>3 DEF r

(* The directory and the files are on the disk, so sanity_check lets every   *)
(* access to them pass.                                                      *)
LEMMA AccessesOnDisk ==
  ASSUME DirectoryInv, VolumeInv
  PROVE  /\ Mounted /\ pc = "idle" =>
              \A inumber \in EntryNumbers(rootSB) : ~PastEnd(DirentBlock(inumber))
         /\ WriteBlock => ~PastEnd(frame.dirent.blk[CurPtr]) /\ ~Abort
<1>1. /\ rootSB \in Superblock /\ nblocks \in Nat /\ TypeInv
  BY ImageTypes, ClientAssumption, LayoutAssumption
  DEF DirectoryInv, SharingInv, TypeInv, ImageInv, TypeOK
<1>2. ASSUME Mounted, pc = "idle", NEW inumber \in EntryNumbers(rootSB)
      PROVE  ~PastEnd(DirentBlock(inumber))
  <2>1. DirentBlock(inumber) = rootSB.blk[0] /\ 0 \in InUse(rootSB) /\ rootSB.blk[0] = 2
    BY <1>2, VolumeInWrite
  <2>2. rootSB.blk[0] < rootSB.nblocks /\ nblocks = rootSB.nblocks
    BY <1>2, <2>1 DEF DirectoryInv, Tidy, Bounded, Coherent
  <2> QED BY <1>1, <2>1, <2>2 DEF PastEnd
<1>3. ASSUME WriteBlock
      PROVE  ~PastEnd(frame.dirent.blk[CurPtr]) /\ ~Abort
  <2>1. pc = "write" /\ frame.cur < WriteEnd /\ Mounted /\ frame.inumber \in EntryNumbers(rootSB)
    BY <1>3 DEF WriteBlock, DirectoryInv, SharingInv, CallSound, WriteFits
  <2>2. 0 \in InUse(rootSB) /\ rootSB.blk[0] = DirentBlock(frame.inumber)
    BY <2>1, VolumeInWrite
  <2>3. CurPtr \in Ptr /\ frame.dirent.blk[CurPtr] \in Nat
    <3>1. CurPtr \in Ptr
      BY <1>1, <2>1, WritePlace DEF TypeInv
    <3>2. frame.dirent.blk[CurPtr] \in DataPtr
      BY <1>1, <3>1 DEF TypeInv, ImageInv, TypeOK, Frame, Dirent
    <3> QED BY <3>1, <3>2, LayoutAssumption DEF DataPtr, BlockNo
  <2>4. frame.dirent.blk[CurPtr] < nblocks
    BY <2>1, <2>2, <2>3 DEF DirectoryInv, WriteFits
  <2>5. ~PastEnd(frame.dirent.blk[CurPtr])
    BY <1>1, <2>3, <2>4 DEF PastEnd
  <2> QED BY <1>3, <2>1, <2>5 DEF WriteBlock, Abort, Die
<1> QED BY <1>2, <1>3

LEMMA VolumeWriteBlock ==
  ASSUME ContentsInv, VolumeInv, WriteBlock
  PROVE  VolumeInv'
<1> DEFINE b == frame.dirent.blk[CurPtr]
<1>1. /\ pc = "write" /\ frame.cur < WriteEnd /\ Mounted
      /\ DirectoryInv /\ SharingInv /\ TypeInv /\ TakesOne
      /\ frame.inumber \in EntryNumbers(rootSB)
  BY DEF WriteBlock, ContentsInv, DirectoryInv, SharingInv, CallSound, WriteFits, VolumeInv
<1>2. /\ Root(disk).magic /\ OneBlock /\ BitmapExact /\ RootDir = rootSB /\ rootSB.size > 0
      /\ rootSB.blk[0] = 2 /\ InUse(rootSB) = {0} /\ DirentBlock(frame.inumber) = 2
      /\ 1 \in BlockNo /\ 2 \in BlockNo
  BY <1>1, VolumeInWrite
<1>3. /\ b >= 2 /\ b \in BlockNo /\ pc' = "write" /\ Mounted' /\ rootSB' = rootSB
      /\ frame'.inumber = frame.inumber /\ frame'.dirent = frame.dirent
      /\ \A m \in BlockNo : m # b => disk'[m] = disk[m]
      /\ Root(disk)' = Root(disk) /\ b # 2
  BY <1>1, <1>2, AccessesOnDisk, WriteBlockPlace
<1> HIDE DEF b
<1>4. disk'[1] = disk[1] /\ disk'[2] = disk[2] /\ RootDir' = rootSB
  BY <1>2, <1>3 DEF BlockNo, RootDir
<1>5. /\ frame'.offset = frame.offset /\ frame'.data = frame.data
      /\ frame'.cur = frame.cur + nCopy /\ frame.cur \in Nat /\ WriteEnd \in Int
  BY <1>1, AccessesOnDisk DEF WriteBlock, TypeInv, ImageInv, TypeOK, Frame, WriteEnd
<1>6. OneBlock'
  BY <1>1, <1>2, <1>3, <1>4 DEF OneBlock, DirEntry
<1>7. HeldBlocks' = HeldBlocks
  BY <1>1, <1>2, <1>3, <1>4 DEF HeldBlocks, DirEntry
<1>8. BitmapExact'
  BY <1>2, <1>4, <1>7 DEF BitmapExact
<1>9. TakesOne'
  <2>1. WriteEnd' = WriteEnd /\ DirEntry(frame.inumber)' = DirEntry(frame.inumber)
    BY <1>3, <1>4, <1>5 DEF WriteEnd, DirEntry
  <2>2. /\ CurInBlock \in Offset /\ nCopy \in Nat \ {0} /\ frame.cur + nCopy <= WriteEnd
    BY <1>1, WritePlace DEF TypeInv
  <2>3. frame.cur + nCopy < WriteEnd => CurInBlock' = 0
    <3> SUFFICES ASSUME frame.cur + nCopy < WriteEnd PROVE CurInBlock' = 0
      OBVIOUS
    <3>1. nCopy = Room
      <4>1. Room \in Int
        BY <2>2, LayoutAssumption DEF Room, Offset
      <4> QED BY <1>5, <2>2, <4>1 DEF nCopy
    <3>2. CurInBlock' = (frame.cur + (BLOCKSIZE - (frame.cur % BLOCKSIZE))) % BLOCKSIZE
      BY <1>5, <3>1 DEF Room, CurInBlock
    <3> QED BY <1>5, <3>2, NextBlockStarts
  <2>4. \A pos \in frame.cur + nCopy .. WriteEnd - 1 : pos \in frame.cur .. WriteEnd - 1
    BY <1>5, <2>2
  <2> QED BY <1>1, <1>3, <1>5, <2>1, <2>3, <2>4 DEF TakesOne
<1> QED BY <1>2, <1>3, <1>6, <1>8, <1>9 DEF VolumeInv

LEMMA VolumeWritesDirent ==
  ASSUME DirectoryInv, VolumeInv, WritesDirent
  PROVE  VolumeInv'
<1> DEFINE slot == frame.inumber
           Later(s) == AsDir(disk'[2])[s]
<1>1. /\ pc = "write" /\ SharingInv /\ Mounted /\ frame.inumber \in EntryNumbers(rootSB)
      /\ frame.dirent.isvalid
  BY DEF WritesDirent, DirectoryInv, SharingInv, CallSound, WriteFits
<1>2. /\ Root(disk).magic /\ OneBlock /\ BitmapExact /\ RootDir = rootSB /\ rootSB.size > 0
      /\ rootSB.blk[0] = 2 /\ InUse(rootSB) = {0} /\ slot \in Slot
      /\ DirentBlock(frame.inumber) = 2 /\ frame.inumber % DIRENTS_PER_BLOCK = slot
      /\ \A s : SlotEntry(disk, rootSB, 0, s) = DirEntry(s)
      /\ 1 \in BlockNo /\ 2 \in BlockNo
  BY <1>1, VolumeInWrite
<1>3. /\ pc' = "idle" /\ Mounted' /\ rootSB' = rootSB /\ Root(disk)' = Root(disk)
      /\ \A m \in BlockNo : m # 2 => disk'[m] = disk[m]
      /\ \A s \in Slot : IF s = slot THEN SlotEntry(disk', rootSB, 0, s).blk = frame.dirent.blk
                         ELSE SlotEntry(disk', rootSB, 0, s) = SlotEntry(disk, rootSB, 0, s)
  BY <1>1, <1>2, WritesDirentPlace
<1>4. /\ \A s \in Slot : s # slot => Later(s) = DirEntry(s)
      /\ Later(slot).blk = frame.dirent.blk
  BY <1>2, <1>3 DEF SlotEntry
<1>5. /\ DirEntry(slot).isvalid
      /\ \A p \in Ptr : DirEntry(slot).blk[p] \in {0, frame.dirent.blk[p]}
  BY <1>1, <1>2 DEF DirectoryInv, WriteFits
<1>6. disk'[1] = disk[1] /\ RootDir' = rootSB
  BY <1>2, <1>3 DEF RootDir
<1>7. OneBlock'
  <2>1. slot < rootSB.size
    <3>1. rootSB.size \in Nat
      BY <1>1, ImageTypes DEF SharingInv, Superblock
    <3>2. slot >= rootSB.size => DirEntry(slot) = NullDirent
      BY <1>2 DEF OneBlock
    <3> QED BY <1>2, <1>5, <3>1, <3>2 DEF NullDirent, Slot
  <2>2. \A s \in Slot : s >= rootSB.size => Later(s) = NullDirent
    <3>1. rootSB.size \in Nat
      BY <1>1, ImageTypes DEF SharingInv, Superblock
    <3>2. \A s \in Slot : s >= rootSB.size => s # slot
      BY <1>2, <2>1, <3>1 DEF Slot
    <3> HIDE DEF Later, slot
    <3> QED BY <1>2, <1>4, <3>2 DEF OneBlock
  <2> QED BY <1>2, <1>3, <1>6, <2>2 DEF OneBlock, DirEntry
<1>8. BitmapExact'
  <2>1. ASSUME NEW x
        PROVE  x \in {0, 1} \/ Holds(x)' <=> x \in {0, 1, 0} \/ Holds(x)
    <3>1. Holds(x) <=> \/ x = 2 \/ \E s \in Slot, p \in Ptr : x = DirEntry(s).blk[p]
                       \/ \E p \in Ptr : x = frame.dirent.blk[p]
      BY <1>1, <1>2 DEF Holds
    <3>2. Holds(x)' <=> x = 2 \/ \E s \in Slot, p \in Ptr : x = Later(s).blk[p]
      BY <1>2, <1>3, <1>6 DEF Holds, DirEntry
    <3> HIDE DEF Later, slot
    <3>3. (\E s \in Slot, p \in Ptr : x = Later(s).blk[p]) <=>
            \/ \E s \in Slot, p \in Ptr : s # slot /\ x = DirEntry(s).blk[p]
            \/ \E p \in Ptr : x = frame.dirent.blk[p]
      BY <1>2, <1>4
    <3>4. (\E p \in Ptr : x = DirEntry(slot).blk[p]) =>
            x = 0 \/ \E p \in Ptr : x = frame.dirent.blk[p]
      BY <1>5
    <3> QED BY <3>1, <3>2, <3>3, <3>4
  <2>2. \A x : x \in AsBits(disk'[1]) <=> x \in AsBits(disk[1]) \/ x = 0
    BY <1>2, <1>6 DEF BitmapExact
  <2> QED BY <1>2, <2>1, <2>2, BitmapLater
<1> QED BY <1>2, <1>3, <1>7, <1>8 DEF VolumeInv, TakesOne

LEMMA VolumeWriteDirent ==
  ASSUME DirectoryInv, VolumeInv, WriteDirent
  PROVE  VolumeInv' \/ pc' = "astray"
<1>1. CASE /\ frame.cur <= frame.dirent.size /\ NoDisk
           /\ Return("write", Written, Len(frame.data)) /\ UNCHANGED <<nblocks, rootSB>>
  <2>1. pc = "write" /\ frame.cur >= WriteEnd
    BY DEF WriteDirent
  <2>2. WriteEnd <= frame.dirent.size
    <3>1. /\ frame.cur \in Nat /\ frame.dirent.size \in Nat /\ WriteEnd \in Int
      BY LayoutAssumption
      DEF DirectoryInv, SharingInv, TypeInv, ImageInv, TypeOK, Frame, Dirent, WriteEnd, MaxFileSize
    <3> QED BY <1>1, <2>1, <3>1
  <2>3. frame.dirent.blk = DirEntry(frame.inumber).blk
    <3>1. frame.dirent.size \in Nat /\ WriteEnd \in Int
      BY LayoutAssumption
      DEF DirectoryInv, SharingInv, TypeInv, ImageInv, TypeOK, Frame, Dirent, WriteEnd, MaxFileSize
    <3> QED BY <2>1, <2>2, <3>1 DEF VolumeInv, TakesOne
  <2> QED BY <1>1, <2>1, <2>3, VolumeReturn DEF NoDisk, Return, ReturnWith
<1>2. CASE WritesDirent
  BY <1>2, VolumeWritesDirent
<1>3. CASE GoAstray
  BY <1>3 DEF GoAstray
<1> QED BY <1>1, <1>2, <1>3 DEF WriteDirent, WritesDirent, Return, ReturnWith

VolumeState == VolumeInv \/ Doomed \/ pc = "astray"

LEMMA VolumeInit == Init => VolumeState
<1> SUFFICES ASSUME Init PROVE VolumeInv
  BY DEF VolumeState
<1>1. Root(disk) = ZeroSB /\ rootSB = ZeroSB
  BY LayoutAssumption DEF Init, Root, AsSuper, ZeroBlock, BlockNo
<1> QED BY <1>1 DEF Init, VolumeInv, TakesOne, ZeroSB, Mounted

(* The two states in which the volume may be in any shape: the program is   *)
(* about to fail the assertion, or has stopped.                             *)
LEMMA VolumeEnds ==
  ASSUME DirectoryInv, AppendedIsLast', NextNoCrash
  PROVE  pc # "astray" /\ ~Doomed
<1>1. CASE Session
  BY <1>1 DEF Session, Quit, Start, Doomed
<1>2. CASE Call
  BY <1>2
  DEF Call, FormatMounted, FormatSuper, Mount, Umount, Lsdir, ScanGarbage, Debug, AccessUnmounted,
      Open, CreateFails, CreateInBlock, CreateInNewBlock, LoadFails, WriteCall, Read, Doomed
<1>3. CASE CreateDirent
  <2>1. /\ pc = "dirent" /\ pc' = "super" /\ rootSB'.size = rootSB.size + 1 /\ rootSB.size \in Nat
    BY <1>3, CreateDirentEntries, ImageTypes DEF CreateDirent, DirectoryInv, SharingInv, Superblock
  <2>2. rootSB.size % DIRENTS_PER_BLOCK = rootSB.size
    BY <2>1 DEF AppendedIsLast, EntAssertion
  <2>3. rootSB.size < DIRENTS_PER_BLOCK
    BY <2>1, <2>2, LayoutAssumption
  <2> QED BY <2>1, <2>3, LayoutAssumption DEF Doomed
<1>4. CASE Step /\ ~CreateDirent
  BY <1>4
  DEF Step, FormatBitmap, CreateSuper, CreateAborts, WriteAlloc, WriteBlock, WriteDirent, Doomed
<1> QED BY <1>1, <1>2, <1>3, <1>4 DEF NextNoCrash, Step

LEMMA VolumeStep ==
  ASSUME NEW n, DiskSizes = {n}, \A data \in Payloads : Len(data) <= BLOCKSIZE,
         ContentsInv, VolumeState, AppendedIsLast, AppendedIsLast', [NextNoCrash]_vars
  PROVE  VolumeState'
<1>1. DirectoryInv
  BY DEF ContentsInv
<1>2. CASE UNCHANGED vars
  <2>1. UNCHANGED <<disk, rootSB, pc, frame>>
    BY <1>2 DEF vars
  <2>2. Doomed' = Doomed
    BY <2>1 DEF Doomed
  <2>3. VolumeInv' = VolumeInv
    BY <2>1
    DEF VolumeInv, OneBlock, BitmapExact, HeldBlocks, TakesOne, RootDir, Root, Mounted, DirEntry,
        WriteEnd, CurInBlock
  <2> QED BY <2>1, <2>2, <2>3 DEF VolumeState
<1>3. ASSUME NextNoCrash PROVE VolumeInv
  BY <1>1, <1>3, VolumeEnds DEF VolumeState
<1>4. ASSUME VolumeInv, pc = "idle", disk' = disk, rootSB' = rootSB, pc' \in {"idle", "astray"}
      PROVE  VolumeState'
  BY <1>1, <1>4, VolumeMount DEF VolumeState
<1>5. CASE Session
  <2>1. CASE Quit
    BY <1>1, <1>3, <2>1, VolumeMount DEF Quit, disk_read, Die, VolumeState, NextNoCrash, Session
  <2>2. CASE \E m \in DiskSizes : Start(m)
    BY <1>3, <1>5, <2>2, VolumeStart DEF VolumeState, NextNoCrash
  <2> QED BY <1>5, <2>1, <2>2 DEF Session
<1>6. CASE Call
  <2>1. VolumeInv
    BY <1>3, <1>6 DEF NextNoCrash
  <2>2. CASE FormatMounted \/ \E op \in {"read", "write"} : AccessUnmounted(op)
    BY <1>4, <2>1, <2>2 DEF FormatMounted, AccessUnmounted, Return, ReturnWith, NoDisk
  <2>3. CASE Lsdir \/ ScanGarbage \/ Debug \/ \E name \in Names : Open(name) \/ CreateFails(name)
    BY <1>4, <2>1, <2>3
    DEF Lsdir, ScanGarbage, Debug, Open, CreateFails, ScanDirectory, GoAstray, Return, ReturnWith,
        disk_read, NoDisk
  <2>4. CASE FormatSuper
    BY <2>1, <2>4, VolumeFormat DEF VolumeState
  <2>5. CASE Mount \/ Umount
    <3>1. /\ pc = "idle" /\ pc' = "idle" /\ disk' = disk
          /\ rootSB' \in {rootSB, ZeroSB} \/ (rootSB' = Root(disk) /\ Root(disk).magic /\ ~Mounted)
      BY <2>5 DEF Mount, Umount, Return, ReturnWith, disk_read, NoDisk, Mountable, Root
    <3> QED BY <1>1, <2>1, <3>1, VolumeMount DEF VolumeState
  <2>6. CASE \E name \in Names : CreateInBlock(name) \/ CreateInNewBlock(name)
    BY <1>1, <2>1, <2>6, VolumeCreateInBlock, VolumeCreateInNewBlock DEF VolumeState
  <2>7. ASSUME NEW inumber \in EntryNumbers(rootSB), NEW offset \in Offsets, NEW data \in Payloads,
               WriteCall(inumber, data, offset)
        PROVE  VolumeState'
    <3>1. Len(data) <= BLOCKSIZE
      OBVIOUS
    <3> QED BY <1>1, <2>1, <2>7, <3>1, VolumeWriteCall DEF VolumeState
  <2>8. ASSUME NEW inumber \in EntryNumbers(rootSB), NEW offset \in Offsets,
               NEW length \in ReadLengths, Read(inumber, length, offset)
        PROVE  VolumeState'
    <3>1. pc = "idle" /\ disk' = disk /\ pc' \in {"idle", "down"} /\ rootSB' \in {rootSB, ZeroSB}
      BY <2>8 DEF Read, Die, disk_read, Return, ReturnWith
    <3> QED BY <1>1, <2>1, <3>1, VolumeMount DEF VolumeState
  <2>9. ASSUME NEW inumber \in EntryNumbers(rootSB), LoadFails(inumber)
        PROVE  VolumeState'
    <3>1. GoAstray
      BY <1>1, <2>1, <2>9, AccessesOnDisk DEF LoadFails
    <3> QED BY <3>1 DEF GoAstray, VolumeState
  <2> QED BY <1>6, <2>2, <2>3, <2>4, <2>5, <2>6, <2>7, <2>8, <2>9 DEF Call
<1>7. CASE Step
  <2>1. VolumeInv
    BY <1>3, <1>7 DEF NextNoCrash
  <2>2. CASE FormatBitmap
    BY <2>1, <2>2, VolumeFormat DEF VolumeState
  <2>3. CASE CreateDirent \/ CreateSuper \/ CreateAborts
    BY <1>1, <2>1, <2>3, VolumeCreateDirent, VolumeCreateSuper DEF VolumeState
  <2>4. CASE WriteAlloc \/ WriteBlock \/ WriteDirent
    BY <1>1, <2>1, <2>4, VolumeWriteAlloc, VolumeWriteBlock, VolumeWriteDirent DEF VolumeState
  <2> QED BY <1>7, <2>2, <2>3, <2>4 DEF Step
<1> QED BY <1>2, <1>5, <1>6, <1>7 DEF NextNoCrash

(* What the invariant says of the bitmap between calls.                     *)
LEMMA NothingLeaked ==
  ASSUME ContentsInv, VolumeState
  PROVE  NoLeak
<1> SUFFICES ASSUME pc = "idle", Root(disk).magic PROVE AsBits(disk[1]) \ {0, 1} = Refs(disk)
  BY DEF NoLeak
<1> DEFINE sb == Root(disk)
<1>1. /\ OneBlock /\ BitmapExact /\ DirectoryInv /\ sb \in Superblock /\ RootOK(sb)
      /\ disk \in [BlockNo -> Block] /\ Sound(disk, sb) /\ Complete(disk, sb)
  BY ImageTypes DEF VolumeState, VolumeInv, Doomed, ContentsInv, DirectoryInv, SharingInv
<1>2. sb.size = RootDir.size /\ (sb.size > 0 => sb.blk[0] = RootDir.blk[0])
  BY <1>1, SameRoot DEF RootDir
<1>3. /\ sb.size \in Nat /\ InUse(sb) = IF sb.size > 0 THEN {0} ELSE {}
      /\ sb.size > 0 => sb.blk[0] = 2
  BY <1>1, <1>2, FirstBlockOnly DEF OneBlock
<1> HIDE DEF sb
<1>4. ASSUME NEW s \in Slot, sb.size > 0, s < sb.size
      PROVE  DirEntry(s).isvalid
  <2>1. InOrder(sb) /\ 0 \in InUse(sb) /\ SlotEntry(disk, sb, 0, s) = DirEntry(s)
    BY <1>3, <1>4 DEF InOrder, SlotEntry, DirEntry
  <2>2. 0 * DIRENTS_PER_BLOCK + s < sb.size
    BY <1>3, <1>4, LayoutAssumption DEF Slot
  <2> QED BY <1>1, <2>1, <2>2 DEF Complete
<1>5. ASSUME NEW b
      PROVE  b \in Refs(disk) <=>
               /\ sb.size > 0
               /\ \/ b = 2
                  \/ \E s \in Slot, p \in Ptr :
                       b = DirEntry(s).blk[p] /\ b # 0 /\ DirEntry(s).isvalid
  <2>1. b \in DirRefs(disk) <=> sb.size > 0 /\ b = 2
    BY <1>3 DEF DirRefs, sb
  <2>2. b \in FileRefs(disk) =>
          sb.size > 0 /\ \E s \in Slot, p \in Ptr :
                           b = DirEntry(s).blk[p] /\ b # 0 /\ DirEntry(s).isvalid
    <3> SUFFICES ASSUME NEW h \in Holders(disk), b = PtrAt(disk, h)
                 PROVE  sb.size > 0 /\ \E s \in Slot, p \in Ptr :
                          b = DirEntry(s).blk[p] /\ b # 0 /\ DirEntry(s).isvalid
      BY DEF FileRefs
    <3>1. /\ h[1] \in InUse(sb) /\ h[2] \in Slot /\ h[3] \in Ptr
          /\ AsDir(disk[sb.blk[h[1]]])[h[2]].isvalid /\ b # 0
      BY DEF Holders, sb
    <3>2. sb.size > 0 /\ sb.blk[h[1]] = 2
      BY <1>3, <3>1
    <3>3. b = DirEntry(h[2]).blk[h[3]] /\ DirEntry(h[2]).isvalid
      BY <3>1, <3>2 DEF PtrAt, DirEntry, sb
    <3> QED BY <3>1, <3>2, <3>3
  <2>3. ASSUME sb.size > 0, NEW s \in Slot, NEW p \in Ptr,
               b = DirEntry(s).blk[p], b # 0, DirEntry(s).isvalid
        PROVE  b \in FileRefs(disk)
    <3>1. <<0, s, p>> \in InUse(sb) \X Slot \X Ptr /\ sb.blk[0] = 2
      BY <1>3, <2>3
    <3>2. PtrAt(disk, <<0, s, p>>) = b /\ <<0, s, p>> \in Holders(disk)
      BY <2>3, <3>1 DEF PtrAt, DirEntry, Holders, sb
    <3> QED BY <3>2 DEF FileRefs
  <2> QED BY <2>1, <2>2, <2>3 DEF Refs
<1>6. ASSUME NEW b, b \notin {0, 1}
      PROVE  Holds(b) <=> b \in Refs(disk)
  <2>1. Holds(b) <=> sb.size > 0 /\ (b = 2 \/ \E s \in Slot, p \in Ptr : b = DirEntry(s).blk[p])
    BY <1>2 DEF Holds
  <2>2. ASSUME sb.size > 0, NEW s \in Slot, NEW p \in Ptr, b = DirEntry(s).blk[p]
        PROVE  DirEntry(s).isvalid
    <3>1. CASE s < sb.size
      BY <1>4, <2>2, <3>1
    <3>2. CASE s >= sb.size
      <4>1. DirEntry(s) = NullDirent
        BY <1>1, <1>2, <2>2, <3>2 DEF OneBlock
      <4> QED BY <1>6, <2>2, <4>1 DEF NullDirent
    <3>3. s < sb.size \/ s >= sb.size
      BY <1>3, LayoutAssumption DEF Slot
    <3> QED BY <3>1, <3>2, <3>3
  <2> QED BY <1>5, <1>6, <2>1, <2>2
<1>7. \A b \in Refs(disk) : b \notin {0, 1}
  <2>1. \A b \in Refs(disk) : b >= 2
    BY <1>1, SoundImage DEF sb
  <2> QED BY <2>1
<1> QED BY <1>1, <1>6, <1>7, HeldMember DEF BitmapExact

(* Without kills, and with clients that write at most a block in a call, no *)
(* call loses a block: between calls the bitmap marks the blocks the volume *)
(* refers to and no other, as long as the assertion of add_dirent holds.    *)
THEOREM NoBlockLost ==
  ASSUME NEW n, DiskSizes = {n}, \A data \in Payloads : Len(data) <= BLOCKSIZE
  PROVE  SpecNoCrash /\ []AppendedIsLast => []NoLeak
<1>1. SpecNoCrash => SpecFormatted
  <2>1. [NextNoCrash]_vars => [NextFormatted]_vars
    BY DEF NextFormatted
  <2> QED BY <2>1, PTL DEF SpecFormatted, SpecNoCrash
<1>2. ContentsInv /\ VolumeState /\ AppendedIsLast /\ AppendedIsLast' /\ [NextNoCrash]_vars
        => VolumeState'
  BY VolumeStep
<1>3. ContentsInv /\ VolumeState => NoLeak
  BY NothingLeaked
<1>4. SpecFormatted => []ContentsInv
  BY ContentsKeepTheirShape
<1> QED
  BY <1>1, <1>2, <1>3, <1>4, VolumeInit, PTL DEF SpecNoCrash

-----------------------------------------------------------------------------
(* fs.c implements FileStore: the files as the mapping sees them, and       *)
(* StoreInv, with which it is defined.                                      *)

(* The directory of a volume is its first entries, all of them files.       *)
LEMMA DirectoryView ==
  ASSUME ContentsInv, VolumeInv, Root(disk).magic, pc # "format"
  PROVE  /\ RootDir \in Superblock /\ RootDir.size \in 0 .. DIRENTS_PER_BLOCK
         /\ Listed \in 0 .. DIRENTS_PER_BLOCK /\ Listed <= RootDir.size
         /\ RootDir.size > 0 => /\ 2 \in BlockNo /\ 2 < RootDir.nblocks /\ disk[2].kind = "dir"
                                /\ InUse(RootDir) = {0} /\ RootDir.blk[0] = 2
         /\ \A n \in 0 .. RootDir.size - 1 :
              /\ n \in Slot /\ n % DIRENTS_PER_BLOCK = n
              /\ EntryAt(disk, RootDir, n) = DirEntry(n)
              /\ DirEntry(n) \in Dirent /\ DirEntry(n).isvalid
              /\ Filled(disk, DirEntry(n), DirEntry(n).size)
         /\ ValidEntries(disk, RootDir) = 0 .. RootDir.size - 1
<1> USE LayoutAssumption
<1> DEFINE sb == RootDir
<1>1. /\ sb \in Superblock /\ RootOK(sb) /\ disk \in [BlockNo -> Block]
      /\ Complete(disk, sb) /\ Bounded(disk, sb) /\ OneBlock
  BY ImageTypes DEF RootDir, ContentsInv, DirectoryInv, SharingInv, Tidy, VolumeInv
<1>2. sb.size \in Nat /\ InUse(sb) = (IF sb.size > 0 THEN {0} ELSE {})
      /\ sb.size <= DIRENTS_PER_BLOCK /\ (sb.size > 0 => sb.blk[0] = 2)
  BY <1>1, FirstBlockOnly DEF OneBlock
<1>3. pc = "super" => sb.size > 0
  <2> SUFFICES ASSUME pc = "super" PROVE sb.size > 0
    OBVIOUS
  <2>1. Mounted /\ rootSB.size = Root(disk).size + 1 /\ Root(disk).size \in Nat
    BY ImageTypes DEF ContentsInv, DirectoryInv, SharingInv, CallSound, Coherent, Superblock
  <2> QED BY <2>1 DEF RootDir
<1>4. Listed \in 0 .. DIRENTS_PER_BLOCK /\ Listed <= sb.size
  BY <1>2, <1>3 DEF Listed
<1> HIDE DEF sb
<1>5. ASSUME sb.size > 0
      PROVE  /\ 2 \in BlockNo /\ 2 < sb.nblocks /\ disk[2].kind = "dir" /\ InOrder(sb)
             /\ \A s \in Slot : /\ EntryAt(disk, sb, s) = DirEntry(s) /\ DirEntry(s) \in Dirent
                                /\ s % DIRENTS_PER_BLOCK = s /\ SlotEntry(disk, sb, 0, s) = DirEntry(s)
             /\ EntryNumbers(sb) = Slot
  <2>1. InOrder(sb) /\ 0 \in InUse(sb) /\ sb.blk[0] = 2 /\ 2 < sb.nblocks
    BY <1>1, <1>2, <1>5 DEF InOrder, Bounded
  <2>2. 2 \in BlockNo /\ disk[2].kind = "dir"
    BY <1>1, <2>1 DEF Complete, Superblock, BlockNo
  <2>3. AsDir(disk[2]) \in [Slot -> Dirent]
    BY <1>1, <2>2, ViewTypes
  <2>4. ASSUME NEW s \in Slot
        PROVE  /\ s \div DIRENTS_PER_BLOCK = 0 /\ s % DIRENTS_PER_BLOCK = s
               /\ s \in EntryNumbers(sb)
    <3>1. s \in Nat /\ s < DIRENTS_PER_BLOCK
      BY DEF Slot
    <3>2. s \div DIRENTS_PER_BLOCK = 0 /\ s % DIRENTS_PER_BLOCK = s
      BY <3>1
    <3>3. s < POINTERS_PER_ENT * DIRENTS_PER_BLOCK
      BY <3>1
    <3> QED BY <2>1, <3>1, <3>2, <3>3 DEF EntryNumbers
  <2>5. ASSUME NEW n \in EntryNumbers(sb)
        PROVE  n \in Slot
    <3>1. n \in Nat /\ n \div DIRENTS_PER_BLOCK = 0
      BY <1>2, <1>5 DEF EntryNumbers
    <3>2. n = DIRENTS_PER_BLOCK * 0 + (n % DIRENTS_PER_BLOCK) /\ n % DIRENTS_PER_BLOCK \in Slot
      BY <3>1, DivMod DEF Slot
    <3> QED BY <3>1, <3>2 DEF Slot
  <2> QED BY <2>1, <2>2, <2>3, <2>4, <2>5 DEF EntryAt, SlotEntry, DirEntry
<1>6. ASSUME NEW n \in 0 .. sb.size - 1
      PROVE  /\ n \in Slot /\ n % DIRENTS_PER_BLOCK = n
             /\ EntryAt(disk, sb, n) = DirEntry(n)
             /\ DirEntry(n) \in Dirent /\ DirEntry(n).isvalid
             /\ Filled(disk, DirEntry(n), DirEntry(n).size)
  <2>1. n \in Slot /\ sb.size > 0
    BY <1>2 DEF Slot
  <2>2. 0 \in InUse(sb) /\ 0 * DIRENTS_PER_BLOCK + n < sb.size
    BY <1>2, <2>1
  <2>3. SlotEntry(disk, sb, 0, n).isvalid
        /\ Filled(disk, SlotEntry(disk, sb, 0, n), SlotEntry(disk, sb, 0, n).size)
    BY <1>1, <1>5, <2>1, <2>2 DEF Complete
  <2> QED BY <1>5, <2>1, <2>3
<1>7. ValidEntries(disk, sb) = 0 .. sb.size - 1
  <2>1. CASE sb.size = 0
    <3>1. EntryNumbers(sb) = {}
      BY <1>2, <2>1 DEF EntryNumbers
    <3> QED BY <2>1, <3>1 DEF ValidEntries
  <2>2. CASE sb.size > 0
    <3>1. \A s \in Slot : s >= sb.size => ~DirEntry(s).isvalid
      BY <1>1, <2>2 DEF OneBlock, sb, NullDirent
    <3>2. \A s \in Slot : s < sb.size => s \in 0 .. sb.size - 1
      BY <1>2 DEF Slot
    <3> QED BY <1>2, <1>5, <1>6, <2>2, <3>1, <3>2 DEF ValidEntries, Slot
  <2> QED BY <1>2, <2>1, <2>2
<1> QED BY <1>1, <1>2, <1>4, <1>5, <1>6, <1>7 DEF sb

(* The bytes of a file are those of its blocks, so the files are the same   *)
(* as long as the entries and the bytes in the blocks are.                  *)
LEMMA SameBytes ==
  ASSUME NEW D, NEW E, NEW de \in Dirent, \A m \in DataPtr : AsData(E[m]) = AsData(D[m])
  PROVE  FileBytes(E, de, 0, de.size) = FileBytes(D, de, 0, de.size)
<1>1. ASSUME NEW k \in 1 .. de.size
      PROVE  de.blk[(0 + k - 1) \div BLOCKSIZE] \in DataPtr
  <2>1. de.size \in 0 .. MaxFileSize /\ 0 + k - 1 \in 0 .. de.size - 1
    BY LayoutAssumption DEF Dirent, MaxFileSize
  <2>2. (0 + k - 1) \div BLOCKSIZE \in Ptr
    BY <2>1, BytePlace
  <2> QED BY <2>2 DEF Dirent
<1> QED BY <1>1 DEF FileBytes

LEMMA FilesSame ==
  ASSUME Listed' = Listed,
         \A n \in 0 .. Listed - 1 : /\ EntryAt(disk, RootDir, n) \in Dirent
                                    /\ EntryAt(disk', RootDir', n) = EntryAt(disk, RootDir, n),
         \A m \in DataPtr : AsData(disk'[m]) = AsData(disk[m]), Listed \in Nat
  PROVE  Files' = Files
<1>1. ASSUME NEW n \in 0 .. Listed - 1 PROVE File(n)' = File(n)
  <2>1. FileBytes(disk', EntryAt(disk, RootDir, n), 0, EntryAt(disk, RootDir, n).size)
          = FileBytes(disk, EntryAt(disk, RootDir, n), 0, EntryAt(disk, RootDir, n).size)
    BY SameBytes
  <2> QED BY <2>1 DEF File
<1>2. \A k \in 1 .. Listed : k - 1 \in 0 .. Listed - 1
  OBVIOUS
<1> QED BY <1>1, <1>2 DEF Files

(* Files, entry by entry. *)
LEMMA FilesView ==
  ASSUME ContentsInv, VolumeInv, Root(disk).magic, pc # "format"
  PROVE  /\ Len(Files) = Listed /\ DOMAIN Files = 1 .. Listed
         /\ \A n \in 0 .. Listed - 1 :
              /\ n + 1 \in 1 .. Listed
              /\ Files[n + 1].name = DirEntry(n).name
              /\ Files[n + 1].data = FileBytes(disk, DirEntry(n), 0, DirEntry(n).size)
              /\ Files[n + 1] = [name |-> DirEntry(n).name,
                                 data |-> FileBytes(disk, DirEntry(n), 0, DirEntry(n).size)]
              /\ Len(Files[n + 1].data) = DirEntry(n).size
<1>1. Listed \in Nat /\ Listed <= RootDir.size /\ RootDir.size \in Nat
  BY DirectoryView, LayoutAssumption
<1>2. Len(Files) = Listed /\ DOMAIN Files = 1 .. Listed
  BY <1>1 DEF Files
<1>3. ASSUME NEW n \in 0 .. Listed - 1
      PROVE  /\ n + 1 \in 1 .. Listed
             /\ Files[n + 1] = [name |-> DirEntry(n).name,
                                data |-> FileBytes(disk, DirEntry(n), 0, DirEntry(n).size)]
             /\ DirEntry(n).size \in Nat
  <2>1. n \in 0 .. RootDir.size - 1 /\ n + 1 \in 1 .. Listed /\ (n + 1) - 1 = n
    BY <1>1
  <2>2. EntryAt(disk, RootDir, n) = DirEntry(n) /\ DirEntry(n) \in Dirent
    BY <2>1, DirectoryView
  <2>3. Files[n + 1] = File(n)
    BY <2>1 DEF Files
  <2> QED BY <2>1, <2>2, <2>3, LayoutAssumption DEF File, Dirent, MaxFileSize
<1>4. ASSUME NEW n \in 0 .. Listed - 1
      PROVE  Len(FileBytes(disk, DirEntry(n), 0, DirEntry(n).size)) = DirEntry(n).size
  <2>1. DirEntry(n).size \in Nat
    BY <1>3
  <2> QED BY <2>1 DEF FileBytes
<1> QED BY <1>2, <1>3, <1>4

(* While the directory is in one block, nothing leads the code astray.      *)
LEMMA DirectoryReadable ==
  ASSUME ContentsInv, VolumeInv, Mounted, pc \notin {"format", "dirent"}
  PROVE  /\ Scannable
         /\ \A inumber \in EntryNumbers(rootSB) : Readable(inumber)
<1>1. Root(disk).magic /\ RootDir = rootSB /\ nblocks = rootSB.nblocks
  BY DEF VolumeInv, RootDir, ContentsInv, DirectoryInv, Coherent
<1>2. Scannable
  <2>1. ASSUME NEW i \in InUse(rootSB) PROVE HoldsDirents(rootSB.blk[i])
    <3>1. rootSB.size > 0
      <4>1. rootSB.size \in 0 .. DIRENTS_PER_BLOCK
        BY <1>1, DirectoryView
      <4>2. rootSB.size # 0
        BY <2>1, <4>1, LayoutAssumption DEF InUse, Ptr
      <4> QED BY <4>1, <4>2, LayoutAssumption
    <3>2. rootSB.blk[i] = 2 /\ disk[2].kind = "dir"
      BY <1>1, <3>1, DirectoryView
    <3> QED BY <3>2 DEF HoldsDirents
  <2> QED BY <2>1 DEF Scannable
<1>3. ASSUME NEW inumber \in EntryNumbers(rootSB) PROVE Readable(inumber)
  <2>1. rootSB.size > 0 /\ DirentBlock(inumber) = 2
    BY VolumeInWrite DEF ContentsInv
  <2>2. 2 < rootSB.nblocks /\ disk[2].kind = "dir"
    BY <1>1, <2>1, DirectoryView
  <2>3. ~PastEnd(2)
    <3>1. nblocks \in Nat
      BY ClientAssumption, LayoutAssumption
      DEF ContentsInv, DirectoryInv, SharingInv, TypeInv, ImageInv, TypeOK
    <3> QED BY <1>1, <2>2, <3>1 DEF PastEnd
  <2> QED BY <2>1, <2>2, <2>3 DEF Readable, HoldsDirents
<1> QED BY <1>2, <1>3

LEMMA NeverAstray ==
  ASSUME ContentsInv, VolumeInv, NextNoCrash, pc # "astray"
  PROVE  pc' # "astray"
<1>2. CASE Session
  BY <1>2 DEF Session, Quit, Start, Die
<1>3. ASSUME pc = "idle", Mounted
      PROVE  /\ Scannable /\ HoldsBits
             /\ \A inumber \in EntryNumbers(rootSB) : Readable(inumber)
  <2>1. BitmapExact
    BY <1>3 DEF VolumeInv
  <2>2. HoldsBits
    <3>1. AsBits(disk[1]) # {}
      BY <2>1 DEF BitmapExact
    <3> QED BY <3>1 DEF HoldsBits, AsBits
  <2> QED BY <1>3, <2>2, DirectoryReadable
<1>4. CASE Call
  <2>1. CASE \/ FormatMounted \/ FormatSuper \/ Mount \/ Umount \/ Lsdir \/ Debug
             \/ \E op \in {"read", "write"} : AccessUnmounted(op)
    BY <2>1
    DEF FormatMounted, FormatSuper, Mount, Umount, Lsdir, Debug, AccessUnmounted, Begin, Return,
        ReturnWith
  <2>2. CASE ScanGarbage
    BY <1>3, <2>2 DEF ScanGarbage
  <2>3. ASSUME NEW name \in Names, Open(name) \/ CreateFails(name) \/ CreateInBlock(name)
        PROVE  pc' # "astray"
    BY <2>3 DEF Open, CreateFails, CreateInBlock, Begin, Return, ReturnWith
  <2>4. ASSUME NEW name \in Names, CreateInNewBlock(name) PROVE pc' # "astray"
    BY <1>3, <2>4 DEF CreateInNewBlock, CanCreate, Begin, Return, ReturnWith
  <2>5. ASSUME NEW inumber \in EntryNumbers(rootSB), NEW offset, NEW data,
               WriteCall(inumber, data, offset)
        PROVE  pc' # "astray"
    BY <1>3, <2>5 DEF WriteCall, Begin, Return, ReturnWith
  <2>6. ASSUME NEW inumber \in EntryNumbers(rootSB), NEW offset, NEW length,
               Read(inumber, length, offset)
        PROVE  pc' # "astray"
    BY <1>3, <2>6 DEF Read, Die, Return, ReturnWith
  <2>7. ASSUME NEW inumber \in EntryNumbers(rootSB), LoadFails(inumber)
        PROVE  pc' # "astray"
    BY <1>3, <2>7 DEF LoadFails, Readable
  <2> QED BY <1>4, <2>1, <2>2, <2>3, <2>4, <2>5, <2>6, <2>7 DEF Call
<1>5. CASE Step
  <2>1. CASE FormatBitmap \/ CreateDirent \/ CreateSuper \/ CreateAborts \/ WriteBlock
    BY <2>1
    DEF FormatBitmap, CreateDirent, CreateSuper, CreateAborts, WriteBlock, Abort, Return, ReturnWith, Die
  <2>2. pc = "write" => HoldsDirents(DirentBlock(frame.inumber))
    <3> SUFFICES ASSUME pc = "write" PROVE HoldsDirents(DirentBlock(frame.inumber))
      OBVIOUS
    <3>1. Mounted /\ frame.inumber \in EntryNumbers(rootSB)
      BY DEF ContentsInv, DirectoryInv, SharingInv, CallSound, WriteFits
    <3>2. Readable(frame.inumber)
      BY <3>1, DirectoryReadable
    <3> QED BY <3>2 DEF Readable
  <2>3. CASE WriteAlloc
    BY <2>3 DEF WriteAlloc, Return, ReturnWith
  <2>4. CASE WriteDirent
    BY <2>2, <2>4 DEF WriteDirent, Return, ReturnWith
  <2> QED BY <1>5, <2>1, <2>2, <2>3, <2>4 DEF Step
<1> QED BY <1>2, <1>4, <1>5 DEF NextNoCrash

(* While fs_write works on a file: its entry, as fs_write has it, has the   *)
(* blocks of the entry on the disk and those the call has taken, which are  *)
(* no other file's.                                                         *)
LEMMA WriteView ==
  ASSUME ContentsInv, VolumeInv, pc = "write"
  PROVE  /\ Mounted /\ Root(disk).magic /\ RootDir = rootSB /\ Listed = rootSB.size
         /\ rootSB.size \in 0 .. DIRENTS_PER_BLOCK /\ rootSB.blk[0] = 2
         /\ frame.inumber \in 0 .. rootSB.size - 1 /\ frame.inumber \in Slot
         /\ DirentBlock(frame.inumber) = 2 /\ frame.inumber % DIRENTS_PER_BLOCK = frame.inumber
         /\ 1 \in BlockNo /\ 2 \in BlockNo /\ disk[2].kind = "dir"
         /\ DirEntry(frame.inumber).size = frame.dirent.size
         /\ DirEntry(frame.inumber).name = frame.dirent.name
         /\ DirEntry(frame.inumber).isvalid
         /\ frame.dirent \in Dirent /\ frame.dirent.isvalid
         /\ \A p \in Ptr : DirEntry(frame.inumber).blk[p] \in {0, frame.dirent.blk[p]}
         /\ \A p \in Ptr : frame.dirent.blk[p] # 0 =>
              /\ frame.dirent.blk[p] # 2
              /\ \A q \in Ptr : frame.dirent.blk[p] = frame.dirent.blk[q] => p = q
              /\ \A n \in 0 .. rootSB.size - 1, q \in Ptr :
                   DirEntry(n).blk[q] = frame.dirent.blk[p] => n = frame.inumber /\ p = q
<1>1. /\ Mounted /\ frame.inumber \in EntryNumbers(rootSB) /\ DirectoryInv /\ FrameSound
      /\ frame.dirent.isvalid /\ frame.dirent \in Dirent
  BY DEF ContentsInv, DirectoryInv, SharingInv, CallSound, WriteFits, TypeInv, ImageInv, TypeOK, Frame
<1>2. /\ Root(disk).magic /\ RootDir = rootSB /\ rootSB.blk[0] = 2
      /\ rootSB.size > 0 /\ InUse(rootSB) = {0} /\ frame.inumber \in Slot
      /\ DirentBlock(frame.inumber) = 2 /\ frame.inumber % DIRENTS_PER_BLOCK = frame.inumber
      /\ \A s : SlotEntry(disk, rootSB, 0, s) = DirEntry(s)
      /\ 1 \in BlockNo /\ 2 \in BlockNo
  BY <1>1, VolumeInWrite
<1>3. /\ rootSB.size \in 0 .. DIRENTS_PER_BLOCK /\ Listed = rootSB.size /\ disk[2].kind = "dir"
      /\ \A n \in 0 .. rootSB.size - 1 : n \in Slot
  BY <1>2, DirectoryView DEF Listed
<1>4. /\ DirEntry(frame.inumber).size = frame.dirent.size
      /\ DirEntry(frame.inumber).name = frame.dirent.name
      /\ DirEntry(frame.inumber).isvalid
      /\ \A p \in Ptr : DirEntry(frame.inumber).blk[p] \in {0, frame.dirent.blk[p]}
  BY <1>1, <1>2 DEF DirectoryInv, WriteFits
<1>5. frame.inumber \in 0 .. rootSB.size - 1
  <2>1. frame.inumber >= rootSB.size => DirEntry(frame.inumber) = NullDirent
    BY <1>1, <1>2 DEF VolumeInv, OneBlock
  <2>2. frame.inumber < rootSB.size
    BY <1>2, <1>3, <1>4, <2>1, LayoutAssumption DEF NullDirent, Slot
  <2> QED BY <1>2, <1>3, <2>2, LayoutAssumption DEF Slot
<1>6. \A s : AsDir(disk[rootSB.blk[0]])[s] = DirEntry(s)
  BY <1>2 DEF DirEntry
<1>7. ASSUME NEW p \in Ptr, frame.dirent.blk[p] # 0
      PROVE  /\ frame.dirent.blk[p] # 2
             /\ \A q \in Ptr : frame.dirent.blk[p] = frame.dirent.blk[q] => p = q
             /\ \A n \in 0 .. rootSB.size - 1, q \in Ptr :
                  DirEntry(n).blk[q] = frame.dirent.blk[p] => n = frame.inumber /\ p = q
  <2>1. /\ \A q \in Ptr : frame.dirent.blk[p] = frame.dirent.blk[q] => p = q
        /\ rootSB.blk[0] # frame.dirent.blk[p]
        /\ \A t \in Slot, q \in Ptr : frame.dirent.blk[p] = SlotPtr(disk, rootSB, 0, t, q) =>
             t = frame.inumber /\ p = q
    BY <1>1, <1>2, <1>7 DEF FrameSound
  <2>2. \A t \in Slot, q \in Ptr : SlotPtr(disk, rootSB, 0, t, q) = DirEntry(t).blk[q]
    BY <1>6 DEF SlotPtr
  <2> QED BY <1>2, <1>3, <2>1, <2>2
<1> QED BY <1>1, <1>2, <1>3, <1>4, <1>5, <1>7

(* The bytes of the file are in the blocks that fs_write has.               *)
LEMMA WriteBlocksKnown ==
  ASSUME ContentsInv, VolumeInv, pc = "write", NEW pos \in 0 .. frame.dirent.size - 1
  PROVE  /\ pos \div BLOCKSIZE \in Ptr /\ pos % BLOCKSIZE \in Offset
         /\ DirEntry(frame.inumber).blk[pos \div BLOCKSIZE] = frame.dirent.blk[pos \div BLOCKSIZE]
         /\ frame.dirent.blk[pos \div BLOCKSIZE] # 0
<1> DEFINE e == DirEntry(frame.inumber)
<1>1. /\ e.size = frame.dirent.size /\ frame.dirent \in Dirent
      /\ \A p \in Ptr : e.blk[p] \in {0, frame.dirent.blk[p]}
  BY WriteView
<1>2. Filled(disk, e, e.size)
  <2>1. RootDir = rootSB /\ Root(disk).magic /\ frame.inumber \in 0 .. rootSB.size - 1
    BY WriteView
  <2> QED BY <2>1, DirectoryView
<1> HIDE DEF e
<1>3. /\ pos \div BLOCKSIZE \in Ptr /\ pos % BLOCKSIZE \in Offset
  BY <1>1, BytePlace DEF Dirent
<1>4. AsData(disk[e.blk[pos \div BLOCKSIZE]])[pos % BLOCKSIZE] \in Byte
  BY <1>1, <1>2 DEF Filled
<1>5. e.blk[pos \div BLOCKSIZE] # 0
  <2>1. AsData(disk[0])[pos % BLOCKSIZE] = Stale
    BY <1>3 DEF ContentsInv, SizeKept, AsData
  <2> QED BY <1>4, <2>1, LayoutAssumption
<1> QED BY <1>1, <1>3, <1>5 DEF e

-----------------------------------------------------------------------------
LEMMA StoreIdle ==
  ASSUME StoreInv, pc \in {"idle", "down"}, pc' \in {"idle", "down"}, Root(disk)' = Root(disk),
         frame' \in {frame, NoFrame}
  PROVE  StoreInv'
  BY DEF StoreInv

LEMMA StoreFormat ==
  ASSUME ContentsInv, StoreInv, FormatSuper \/ FormatBitmap
  PROVE  StoreInv'
<1>1. /\ disk \in [BlockNo -> Block] /\ nblocks \in DiskSizes /\ 0 \in BlockNo /\ 1 \in BlockNo
      /\ TypeInv
  BY ImageTypes DEF ContentsInv, DirectoryInv, SharingInv, TypeInv, ImageInv, TypeOK
<1>2. CASE FormatSuper
  <2>1. disk'[0] = SuperBlock(FreshSB) /\ pc' = "format" /\ frame' = NoFrame
    BY <1>1, <1>2, OtherBlocks DEF FormatSuper, Begin
  <2>2. Root(disk').nblocks = nblocks
    BY <2>1 DEF Root, AsSuper, SuperBlock, FreshSB
  <2>3. DiskSizes' = DiskSizes
    OBVIOUS
  <2> QED BY <1>1, <2>1, <2>2 DEF StoreInv
<1>3. CASE FormatBitmap
  <2>1. disk'[0] = disk[0] /\ pc = "format" /\ pc' = "idle" /\ frame' = NoFrame
    BY <1>1, <1>3, OtherBlocks DEF FormatBitmap, Return, ReturnWith
  <2>2. Root(disk)' = Root(disk)
    BY <2>1 DEF Root
  <2> QED BY <2>1, <2>2 DEF StoreInv
<1> QED BY <1>2, <1>3

LEMMA StoreCreateDirent ==
  ASSUME ContentsInv, VolumeInv, StoreInv, CreateDirent, AppendedIsLast'
  PROVE  StoreInv'
<1> DEFINE k == rootSB.size
<1>1. /\ pc = "dirent" /\ pc' = "super" /\ Mounted /\ frame' = frame
      /\ k \in Nat /\ rootSB'.size = k + 1 /\ rootSB'.blk = rootSB.blk
      /\ disk'[0] = disk[0] /\ rootSB \in Superblock
      /\ SlotEntry(disk', rootSB', NewBlk, NewSlot).name = frame.name
      /\ SlotEntry(disk', rootSB', NewBlk, NewSlot).size = 0
  BY CreateDirentEntries, ImageTypes
  DEF CreateDirent, ContentsInv, DirectoryInv, SharingInv, CallSound, Superblock
<1>2. Root(disk)' = Root(disk) /\ RootDir = rootSB /\ OneBlock /\ Root(disk).magic
  BY <1>1 DEF Root, RootDir, VolumeInv
<1>3. NewBlk = 0 /\ NewSlot = k /\ rootSB.blk[0] = 2
  <2>1. (rootSB'.size - 1) % DIRENTS_PER_BLOCK = rootSB'.size - 1
    BY <1>1 DEF AppendedIsLast, EntAssertion
  <2>2. k < DIRENTS_PER_BLOCK
    BY <1>1, <2>1, LayoutAssumption
  <2> QED BY <1>1, <1>2, <2>2, LayoutAssumption DEF NewBlk, NewSlot, OneBlock
<1>4. SlotEntry(disk', rootSB', 0, k) = AsDir(disk'[2])[rootSB'.size - 1]
  BY <1>1, <1>3 DEF SlotEntry
<1>5. DirEntry(rootSB.size - 1)' = AsDir(disk'[2])[rootSB'.size - 1]
  BY DEF DirEntry
<1> QED BY <1>1, <1>2, <1>3, <1>4, <1>5 DEF StoreInv

LEMMA StoreCreateSuper ==
  ASSUME ContentsInv, StoreInv, CreateSuper
  PROVE  StoreInv'
<1>1. /\ nblocks \in DiskSizes /\ 0 \in BlockNo /\ TypeInv /\ nblocks = rootSB.nblocks
  BY ImageTypes
  DEF CreateSuper, ContentsInv, DirectoryInv, SharingInv, TypeInv, ImageInv, TypeOK, CallSound, Coherent
<1>2. disk'[0] = SuperBlock(rootSB) /\ pc' = "idle" /\ frame' = NoFrame
  BY <1>1, OtherBlocks DEF CreateSuper, Return, ReturnWith
<1>3. Root(disk').nblocks = nblocks
  BY <1>1, <1>2 DEF Root, AsSuper, SuperBlock
<1> QED BY <1>1, <1>2, <1>3 DEF StoreInv

(* The bytes of the file after a step of fs_write: those of the call where  *)
(* the step copied them, the old ones elsewhere.                            *)
LEMMA BlockWritten ==
  ASSUME TypeInv, WriteBlock, ~Abort, NEW o \in Offset
  PROVE  AsData(disk'[frame.dirent.blk[CurPtr]])[o] =
           IF o \in CurInBlock .. CurInBlock + nCopy - 1
           THEN frame.data[(frame.cur - frame.offset) + o - CurInBlock + 1]
           ELSE AsData(disk[frame.dirent.blk[CurPtr]])[o]
<1> DEFINE b == frame.dirent.blk[CurPtr]
           bytes == [x \in Offset |->
                       IF x \in CurInBlock .. CurInBlock + nCopy - 1
                       THEN frame.data[(frame.cur - frame.offset) + x - CurInBlock + 1]
                       ELSE AsData(disk[b])[x]]
<1>1. b \in BlockNo
  BY WritePlace, FrameSizes DEF WriteBlock, DataPtr, TypeInv
<1>2. disk_write(b, DataBlock(bytes))
  BY DEF WriteBlock, Abort, Die
<1>3. bytes[o] = IF o \in CurInBlock .. CurInBlock + nCopy - 1
                 THEN frame.data[(frame.cur - frame.offset) + o - CurInBlock + 1]
                 ELSE AsData(disk[b])[o]
  OBVIOUS
<1> HIDE DEF b, bytes
<1>4. AsData(disk'[b]) = bytes
  BY <1>1, <1>2, OtherBlocks DEF AsData, DataBlock
<1> QED BY <1>3, <1>4 DEF b

LEMMA ByteWritten ==
  ASSUME ContentsInv, VolumeInv, WriteBlock, NEW pos \in 0 .. MaxFileSize - 1,
         frame.dirent.blk[pos \div BLOCKSIZE] # 0
  PROVE  AsData(disk'[frame.dirent.blk[pos \div BLOCKSIZE]])[pos % BLOCKSIZE] =
           IF pos \in frame.cur .. frame.cur + nCopy - 1
           THEN frame.data[pos - frame.offset + 1]
           ELSE AsData(disk[frame.dirent.blk[pos \div BLOCKSIZE]])[pos % BLOCKSIZE]
<1> USE LayoutAssumption
<1> DEFINE n == nCopy
           cur == frame.cur
           off == frame.offset
           q == pos \div BLOCKSIZE
           r == pos % BLOCKSIZE
<1>1. /\ pc = "write" /\ frame.cur < WriteEnd /\ TypeInv /\ SharingInv /\ ~Abort
  BY AccessesOnDisk DEF WriteBlock, ContentsInv, DirectoryInv, SharingInv
<1>2. /\ CurPtr \in Ptr /\ CurInBlock \in Offset /\ n \in Nat \ {0} /\ CurInBlock + n <= BLOCKSIZE
      /\ cur \in Nat /\ off \in Nat /\ frame.dirent \in Dirent
  BY <1>1, WritePlace, FrameSizes, WriteView DEF MaxFileSize, TypeInv
<1>3. /\ q \in Ptr /\ r \in Offset /\ pos = BLOCKSIZE * q + r /\ pos \in Nat
  <2>1. MaxFileSize \in 0 .. MaxFileSize
    BY DEF MaxFileSize
  <2> QED BY <2>1, BytePlace
<1>4. cur = BLOCKSIZE * CurPtr + CurInBlock
  BY <1>2, DivMod DEF CurPtr, CurInBlock
<1> HIDE DEF n, q, r
<1>5. CASE q = CurPtr
  <2> DEFINE d == BLOCKSIZE * CurPtr
  <2>1. d \in Int /\ pos = d + r /\ cur = d + CurInBlock /\ r \in Int /\ CurInBlock \in Int /\ n \in Int
    BY <1>2, <1>3, <1>4, <1>5 DEF Ptr, Offset
  <2>2. frame.data[(cur - off) + r - CurInBlock + 1] = frame.data[pos - off + 1]
    <3> HIDE DEF d, cur, off
    <3>1. (cur - off) + r - CurInBlock + 1 = pos - off + 1
      BY <1>2, <2>1
    <3> QED BY <3>1
  <2>3. r \in CurInBlock .. CurInBlock + n - 1 <=> pos \in cur .. cur + n - 1
    <3> HIDE DEF d, cur, off
    <3> QED BY <1>2, <2>1
  <2> QED BY <1>1, <1>3, <1>5, <2>2, <2>3, BlockWritten DEF q, r, n
<1>6. CASE q # CurPtr
  <2>1. pos \notin cur .. cur + n - 1
    <3> SUFFICES ASSUME pos \in cur .. cur + n - 1 PROVE FALSE
      OBVIOUS
    <3>1. cur <= pos /\ pos <= cur + n - 1 /\ (cur % BLOCKSIZE) + n <= BLOCKSIZE
      BY <1>2, <1>3 DEF CurInBlock
    <3>2. pos \div BLOCKSIZE = cur \div BLOCKSIZE
      <4> HIDE DEF cur
      <4> QED BY <1>2, <1>3, <3>1, SameBlock
    <3> QED BY <1>6, <3>2 DEF q, CurPtr
  <2>2. frame.dirent.blk[q] # frame.dirent.blk[CurPtr] /\ frame.dirent.blk[q] \in BlockNo
    <3>1. frame.dirent.blk[q] \in DataPtr
      BY <1>2, <1>3 DEF Dirent
    <3> QED BY <1>1, <1>2, <1>3, <1>6, <3>1, WriteView DEF q, DataPtr
  <2>3. disk'[frame.dirent.blk[q]] = disk[frame.dirent.blk[q]]
    BY <1>1, <2>2, WriteBlockPlace
  <2> QED BY <2>1, <2>3 DEF q, n, r
<1> QED BY <1>5, <1>6

LEMMA StoreWriteBlock ==
  ASSUME ContentsInv, VolumeInv, StoreInv, WriteBlock
  PROVE  StoreInv'
<1> USE LayoutAssumption
<1>1. /\ pc = "write" /\ pc' = "write" /\ frame'.dirent = frame.dirent /\ SharingInv /\ TypeInv
      /\ Root(disk)' = Root(disk) /\ frame.cur < WriteEnd
  BY AccessesOnDisk, WriteBlockPlace DEF WriteBlock, ContentsInv, DirectoryInv, SharingInv
<1>2. /\ frame'.data = frame.data /\ frame'.offset = frame.offset /\ frame'.cur = frame.cur + nCopy
  BY <1>1 DEF WriteBlock, Abort, Die, TypeInv, ImageInv, TypeOK, Frame
<1>3. /\ frame.cur \in 0 .. MaxFileSize /\ frame.offset \in Nat /\ nCopy \in Nat
      /\ frame.cur + nCopy <= MaxFileSize /\ MaxFileSize \in Nat
  <2>1. MaxFileSize \in Nat /\ frame.data \in Seq(Byte)
    BY <1>1 DEF MaxFileSize, TypeInv, ImageInv, TypeOK, Frame
  <2>2. frame.cur + nCopy <= WriteEnd /\ WriteEnd <= MaxFileSize /\ nCopy \in Nat
    BY <1>1, WritePlace DEF TypeInv, ImageInv, InWrite, WriteEnd
  <2>3. frame.cur \in 0 .. MaxFileSize /\ frame.offset \in Nat
    BY <1>1, FrameSizes
  <2>4. WriteEnd \in Int
    BY <2>1, <2>3 DEF WriteEnd
  <2> QED BY <2>1, <2>2, <2>3, <2>4
<1>4. ASSUME NEW pos \in frame.offset .. frame.cur + nCopy - 1
      PROVE  AsData(disk'[frame.dirent.blk[pos \div BLOCKSIZE]])[pos % BLOCKSIZE] =
               frame.data[pos - frame.offset + 1]
  <2>1. pos \in 0 .. MaxFileSize - 1 /\ (pos \in frame.offset .. frame.cur - 1
                                         \/ pos \in frame.cur .. frame.cur + nCopy - 1)
    BY <1>3
  <2>2. frame.dirent.blk[pos \div BLOCKSIZE] # 0
    <3>1. CASE pos \in frame.offset .. frame.cur - 1
      <4>1. pos \in 0 .. frame.cur - 1
        BY <1>3, <3>1
      <4>2. Filled(disk, frame.dirent, frame.cur)
        BY <1>1, WriteView, VolumeInWrite
        DEF ContentsInv, WriteFills, DirectoryInv, WriteFits
      <4>3. AsData(disk[frame.dirent.blk[pos \div BLOCKSIZE]])[pos % BLOCKSIZE] \in Byte
        BY <4>1, <4>2 DEF Filled
      <4>4. pos % BLOCKSIZE \in Offset
        BY <1>3, <4>1, BytePlace
      <4>5. AsData(disk[0])[pos % BLOCKSIZE] = Stale
        BY <4>4 DEF ContentsInv, SizeKept, AsData
      <4> QED BY <4>3, <4>5
    <3>2. CASE pos \in frame.cur .. frame.cur + nCopy - 1
      <4>1. /\ frame.cur <= pos /\ pos <= frame.cur + nCopy - 1 /\ pos \in Nat /\ frame.cur \in Nat
            /\ (frame.cur % BLOCKSIZE) + nCopy <= BLOCKSIZE /\ nCopy \in Nat \ {0}
        BY <1>1, <1>3, <3>2, WritePlace DEF CurInBlock, TypeInv
      <4>2. pos \div BLOCKSIZE = frame.cur \div BLOCKSIZE
        BY <4>1, SameBlock
      <4> QED BY <4>2 DEF WriteBlock, CurPtr
    <3> QED BY <2>1, <3>1, <3>2
  <2>3. CASE pos \in frame.cur .. frame.cur + nCopy - 1
    BY <2>1, <2>2, <2>3, ByteWritten
  <2>4. CASE pos \notin frame.cur .. frame.cur + nCopy - 1
    <3>1. AsData(disk'[frame.dirent.blk[pos \div BLOCKSIZE]])[pos % BLOCKSIZE] =
            AsData(disk[frame.dirent.blk[pos \div BLOCKSIZE]])[pos % BLOCKSIZE]
      BY <2>1, <2>2, <2>4, ByteWritten
    <3> QED BY <1>1, <2>1, <2>4, <3>1 DEF StoreInv
  <2> QED BY <2>3, <2>4
<1>5. Root(disk').nblocks = Root(disk).nblocks /\ Root(disk').magic = Root(disk).magic
  BY <1>1
<1>6. \A pos \in frame'.offset .. frame'.cur - 1 :
        AsData(disk'[frame'.dirent.blk[pos \div BLOCKSIZE]])[pos % BLOCKSIZE] =
          frame'.data[pos - frame'.offset + 1]
  <2> SUFFICES ASSUME NEW pos \in frame'.offset .. frame'.cur - 1
               PROVE  AsData(disk'[frame'.dirent.blk[pos \div BLOCKSIZE]])[pos % BLOCKSIZE] =
                        frame'.data[pos - frame'.offset + 1]
    OBVIOUS
  <2>1. pos \in frame.offset .. frame.cur + nCopy - 1
    BY <1>2, <1>3
  <2>2. frame'.dirent.blk[pos \div BLOCKSIZE] = frame.dirent.blk[pos \div BLOCKSIZE]
        /\ frame'.data[pos - frame'.offset + 1] = frame.data[pos - frame.offset + 1]
    BY <1>1, <1>2
  <2> QED BY <1>4, <2>1, <2>2
<1> QED BY <1>1, <1>5, <1>6 DEF StoreInv

LEMMA StoreWriteAlloc ==
  ASSUME ContentsInv, VolumeInv, StoreInv, WriteAlloc
  PROVE  StoreInv'
<1> USE LayoutAssumption
<1> DEFINE b == alloc_block(disk, rootSB)
<1>1. /\ pc = "write" /\ TypeInv /\ Root(disk).magic /\ CurPtr \in Ptr /\ frame.cur < WriteEnd
      /\ frame.dirent.blk[CurPtr] = 0 /\ 0 \in BlockNo
  BY WriteView, WritePlace, ImageTypes DEF WriteAlloc, TypeInv, ContentsInv, DirectoryInv, SharingInv
<1>2. CASE disk_read /\ Return("write", Written, -1) /\ UNCHANGED <<nblocks, rootSB>>
  BY <1>2, <1>1 DEF disk_read, Return, ReturnWith, StoreInv, Root
<1>3. CASE /\ b # NOBLOCK /\ disk_write(1, Marked(b)) /\ frame' = [frame EXCEPT !.dirent.blk[CurPtr] = b]
           /\ UNCHANGED <<nblocks, rootSB, pc, ret>>
  <2> HIDE DEF b
  <2>1. \A m \in BlockNo : m # 1 => disk'[m] = disk[m]
    BY <1>1, <1>3, OtherBlocks
  <2>2. Root(disk)' = Root(disk)
    BY <1>1, <2>1 DEF Root
  <2>3. /\ frame'.data = frame.data /\ frame'.offset = frame.offset /\ frame'.cur = frame.cur
        /\ \A p \in Ptr : p # CurPtr => frame'.dirent.blk[p] = frame.dirent.blk[p]
    BY <1>1, <1>3 DEF TypeInv, ImageInv, TypeOK, Frame, Dirent
  <2>4. ASSUME NEW pos \in frame.offset .. frame.cur - 1
        PROVE  AsData(disk'[frame'.dirent.blk[pos \div BLOCKSIZE]])[pos % BLOCKSIZE] =
                 frame.data[pos - frame.offset + 1]
    <3>1. AsData(disk[frame.dirent.blk[pos \div BLOCKSIZE]])[pos % BLOCKSIZE] =
            frame.data[pos - frame.offset + 1]
      BY <1>1 DEF StoreInv
    <3>2. /\ frame.cur \in 0 .. MaxFileSize /\ pos \in 0 .. frame.cur - 1
          /\ frame.dirent.blk \in [Ptr -> DataPtr]
      <4>1. frame.cur \in 0 .. MaxFileSize /\ frame.offset \in Nat /\ MaxFileSize \in Nat
        BY <1>1, FrameSizes DEF MaxFileSize
      <4> QED BY <1>1, <4>1, FrameSizes
    <3>3. pos \div BLOCKSIZE \in Ptr /\ pos % BLOCKSIZE \in Offset
      BY <3>2, BytePlace
    <3>4. pos - frame.offset + 1 \in 1 .. Len(frame.data) /\ frame.data \in Seq(Byte)
      <4>1. /\ frame.data \in Seq(Byte) /\ frame.cur \in Nat /\ frame.offset \in Nat
            /\ frame.cur < frame.offset + Len(frame.data)
        BY <1>1 DEF TypeInv, ImageInv, TypeOK, Frame, WriteEnd
      <4> QED BY <4>1
    <3>5. frame.data[pos - frame.offset + 1] \in Byte
      BY <3>4, ElementOfSeq
    <3>6. pos \div BLOCKSIZE # CurPtr
      <4>1. AsData(disk[0])[pos % BLOCKSIZE] = Stale
        BY <3>3 DEF ContentsInv, SizeKept, AsData
      <4> QED BY <1>1, <3>1, <3>5, <4>1
    <3>7. frame.dirent.blk[pos \div BLOCKSIZE] \in DataPtr
      BY <3>2, <3>3
    <3> QED BY <2>1, <2>3, <3>1, <3>3, <3>6, <3>7 DEF DataPtr
  <2>5. \A pos \in frame'.offset .. frame'.cur - 1 :
          AsData(disk'[frame'.dirent.blk[pos \div BLOCKSIZE]])[pos % BLOCKSIZE] =
            frame'.data[pos - frame'.offset + 1]
    BY <2>3, <2>4
  <2> QED BY <1>1, <1>3, <2>2, <2>5 DEF StoreInv
<1> QED BY <1>2, <1>3 DEF WriteAlloc

LEMMA StoreWriteCall ==
  ASSUME ContentsInv, VolumeInv, StoreInv, NEW inumber, NEW offset \in Offsets,
         NEW data, WriteCall(inumber, data, offset)
  PROVE  StoreInv'
<1>1. pc = "idle" /\ Root(disk)' = Root(disk) /\ Root(disk).magic
  BY DEF WriteCall, disk_read, VolumeInv, Root
<1>2. CASE /\ disk_read
           /\ Begin("write", [NoFrame EXCEPT !.inumber = inumber, !.dirent = LoadDirent(inumber),
                                !.data = data, !.offset = offset, !.cur = offset])
  <2>1. pc' = "write" /\ frame'.offset = offset /\ frame'.cur = offset /\ offset \in Nat
    BY <1>2, ClientAssumption DEF Begin, NoFrame
  <2>2. \A pos : pos \notin frame'.offset .. frame'.cur - 1
    BY <2>1
  <2> QED BY <1>1, <2>1, <2>2 DEF StoreInv
<1>3. CASE pc' = "idle" /\ frame' = NoFrame
  BY <1>1, <1>3, StoreIdle
<1> QED BY <1>2, <1>3 DEF WriteCall, Return, ReturnWith

LEMMA StoreStep ==
  ASSUME ContentsInv, VolumeInv, StoreInv, NextNoCrash, AppendedIsLast, AppendedIsLast',
         pc' # "astray", DiskSizes = {MaxBlocks}
  PROVE  StoreInv'
<1>1. ASSUME pc \in {"idle", "down"}, pc' \in {"idle", "down"}, disk' = disk,
             frame' \in {frame, NoFrame}
      PROVE  StoreInv'
  BY <1>1, StoreIdle DEF Root
<1>2. CASE Session
  <2>1. CASE Quit
    BY <1>1, <2>1 DEF Quit, disk_read, Die
  <2>2. CASE Start(MaxBlocks)
    <3>1. disk' = [b \in BlockNo |-> disk[b]] /\ disk \in [BlockNo -> Block]
      BY <2>2, ImageTypes, LayoutAssumption DEF Start, BlockNo, ContentsInv, DirectoryInv, SharingInv
    <3> QED BY <1>1, <2>2, <3>1 DEF Start
  <2> QED BY <1>2, <2>1, <2>2 DEF Session
<1>3. CASE Call
  <2>1. CASE \/ FormatMounted \/ Mount \/ Umount \/ Lsdir \/ Debug \/ ScanGarbage
             \/ \E op \in {"read", "write"} : AccessUnmounted(op)
             \/ \E name \in Names : Open(name) \/ CreateFails(name)
    BY <1>1, <2>1
    DEF FormatMounted, Mount, Umount, Lsdir, Debug, AccessUnmounted, Open, CreateFails,
        ScanDirectory, ScanGarbage, GoAstray, disk_read, NoDisk, Return, ReturnWith
  <2>2. CASE FormatSuper
    BY <2>2, StoreFormat
  <2>3. ASSUME NEW name \in Names, CreateInBlock(name) \/ CreateInNewBlock(name)
        PROVE  StoreInv'
    <3>1. Root(disk)' = Root(disk) /\ pc = "idle"
      <4>1. TypeInv /\ 0 \in BlockNo
        BY ImageTypes DEF ContentsInv, DirectoryInv, SharingInv
      <4>2. disk'[0] = disk[0]
        BY <2>3, <4>1, OtherBlocks
        DEF CreateInBlock, CreateInNewBlock, disk_read, GoAstray
      <4> QED BY <2>3, <4>2 DEF Root, CreateInBlock, CreateInNewBlock
    <3>2. pc' = "dirent" \/ (pc' = "idle" /\ frame' = NoFrame)
      BY <2>3 DEF CreateInBlock, CreateInNewBlock, Begin, Return, ReturnWith, GoAstray
    <3> QED BY <3>1, <3>2 DEF StoreInv
  <2>4. ASSUME NEW inumber \in EntryNumbers(rootSB), NEW offset \in Offsets, NEW data \in Payloads,
               WriteCall(inumber, data, offset)
        PROVE  StoreInv'
    BY <2>4, StoreWriteCall
  <2>5. ASSUME NEW inumber, NEW offset, NEW length, Read(inumber, length, offset)
        PROVE  StoreInv'
    BY <1>1, <2>5 DEF Read, disk_read, Die, Return, ReturnWith
  <2>6. ASSUME NEW inumber \in EntryNumbers(rootSB), LoadFails(inumber)
        PROVE  FALSE
    BY <2>6, DirectoryReadable DEF LoadFails, Readable
  <2> QED BY <1>3, <2>1, <2>2, <2>3, <2>4, <2>5, <2>6 DEF Call
<1>4. CASE Step
  <2>1. CASE FormatBitmap
    BY <2>1, StoreFormat
  <2>2. CASE CreateDirent
    BY <2>2, StoreCreateDirent
  <2>3. CASE CreateSuper \/ CreateAborts
    BY <2>3, StoreCreateSuper DEF CreateAborts, AppendedIsLast
  <2>4. CASE WriteAlloc
    BY <2>4, StoreWriteAlloc
  <2>5. CASE WriteBlock
    BY <2>5, StoreWriteBlock
  <2>6. CASE WriteDirent
    <3>1. pc = "write" /\ pc' = "idle" /\ frame' = NoFrame /\ Root(disk).magic /\ 2 \in BlockNo
          /\ DirentBlock(frame.inumber) = 2 /\ TypeInv /\ 0 \in BlockNo
      BY <2>6, WriteView, ImageTypes
      DEF WriteDirent, Return, ReturnWith, GoAstray, ContentsInv, DirectoryInv, SharingInv
    <3>2. disk'[0] = disk[0]
      BY <2>6, <3>1, OtherBlocks DEF WriteDirent, NoDisk, GoAstray
    <3> QED BY <3>1, <3>2 DEF StoreInv, Root
  <2> QED BY <1>4, <2>1, <2>2, <2>3, <2>4, <2>5, <2>6 DEF Step
<1> QED BY <1>2, <1>3, <1>4 DEF NextNoCrash

-----------------------------------------------------------------------------
(* The calls that change no file, and fs_format.                            *)

(* The calls as FileStore sees them. *)
LEMMA ReturnsAs ==
  ASSUME NEW op, NEW on, NEW r, NEW o, ReturnWith(op, on, r, o), op # "lsdir" \/ r # 1
  PROVE  FileStore!ReturnWith(op, on, r, o)
<1>1. pc' = "idle" /\ frame' = NoFrame /\ ret' = [op |-> op, on |-> on, val |-> r, out |-> o]
  BY DEF ReturnWith
<1>2. Phase' = "idle"
  BY <1>1 DEF Phase
<1>3. Request' = FileStore!NoReq
  BY <1>1 DEF Request, FileStore!NoReq, NoFrame
<1>4. Result' = ret'
  BY <1>1 DEF Result
<1> QED BY <1>1, <1>2, <1>3, <1>4 DEF FileStore!ReturnWith

LEMMA Returns ==
  ASSUME NEW op, NEW on, NEW r, Return(op, on, r), op # "lsdir" \/ r # 1
  PROVE  FileStore!Return(op, on, r)
  BY ReturnsAs DEF Return, FileStore!Return

LEMMA Begins ==
  ASSUME NEW where, NEW f, Begin(where, f)
  PROVE  /\ Phase' = IF where \in {"dirent", "super"} THEN "create" ELSE where
         /\ Request' = [name |-> f.name, id |-> f.inumber, data |-> f.data,
                        offset |-> f.offset, done |-> f.cur - f.offset]
         /\ Result' = FileStore!NoCall
  BY DEF Begin, Phase, Request, Result, NoCall, FileStore!NoCall

(* The files stay as long as the entries and the bytes in the blocks do.    *)
LEMMA FilesKept ==
  ASSUME ContentsInv, VolumeInv, Root(disk).magic, pc # "format", Listed' = Listed,
         Listed > 0 => RootDir'.blk[0] = 2,
         \A n \in 0 .. Listed - 1 : AsDir(disk'[2])[n] = DirEntry(n),
         \A m \in DataPtr : AsData(disk'[m]) = AsData(disk[m])
  PROVE  Files' = Files
<1>1. Listed \in Nat /\ Listed <= RootDir.size /\ RootDir.size \in Nat
  BY DirectoryView, LayoutAssumption
<1>2. ASSUME NEW n \in 0 .. Listed - 1
      PROVE  /\ EntryAt(disk, RootDir, n) \in Dirent
             /\ EntryAt(disk', RootDir', n) = EntryAt(disk, RootDir, n)
  <2>1. n \in 0 .. RootDir.size - 1
    BY <1>1
  <2>2. /\ EntryAt(disk, RootDir, n) = DirEntry(n) /\ DirEntry(n) \in Dirent
        /\ n % DIRENTS_PER_BLOCK = n /\ n \in Slot
    BY <2>1, DirectoryView
  <2>3. n \div DIRENTS_PER_BLOCK = 0
    BY <2>2, LayoutAssumption DEF Slot
  <2>4. EntryAt(disk', RootDir', n) = AsDir(disk'[2])[n]
    BY <1>1, <2>2, <2>3 DEF EntryAt
  <2> QED BY <2>2, <2>4
<1> QED BY <1>1, <1>2, FilesSame

LEMMA StoreKept ==
  ASSUME ContentsInv, VolumeInv, pc \in {"idle", "down"}, pc' \in {"idle", "down"}, disk' = disk,
         rootSB' \in {rootSB, ZeroSB} \/ (rootSB' = Root(disk) /\ Root(disk).magic /\ ~Mounted)
  PROVE  Formatted' = Formatted /\ Files' = Files /\ Free' = Free
<1>1. Root(disk)' = Root(disk)
  BY DEF Root
<1>2. Formatted' = Formatted /\ Free' = Free
  BY <1>1 DEF Formatted, Free
<1>3. RootDir'.size = RootDir.size /\ (RootDir.size > 0 => RootDir'.blk[0] = RootDir.blk[0])
  <2>1. Mounted => /\ Root(disk).size = rootSB.size
                   /\ rootSB.size > 0 => Root(disk).blk[0] = rootSB.blk[0]
    BY SameRoot DEF ContentsInv
  <2>2. RootDir' \in {rootSB', Root(disk)} /\ (Mounted' <=> rootSB'.magic) /\ ~ZeroSB.magic
    BY <1>1 DEF RootDir, Mounted, ZeroSB
  <2> QED BY <1>1, <2>1, <2>2 DEF RootDir, Mounted
<1>4. CASE ~Root(disk).magic
  <2>1. RootDir' = RootDir
    BY <1>1, <1>4 DEF RootDir, Mounted, VolumeInv, ZeroSB
  <2> QED BY <1>2, <2>1 DEF Files, File, Listed
<1>5. CASE Root(disk).magic
  <2>1. Listed' = Listed /\ Listed = RootDir.size
    BY <1>3 DEF Listed
  <2>2. RootDir.size > 0 => RootDir.blk[0] = 2
    BY <1>5, DirectoryView
  <2>3. Files' = Files
    BY <1>3, <1>5, <2>1, <2>2, FilesKept DEF DirEntry
  <2> QED BY <1>2, <2>3
<1> QED BY <1>4, <1>5

Store == ContentsInv /\ VolumeInv /\ StoreInv

LEMMA StoreSession ==
  ASSUME Store, DiskSizes = {MaxBlocks}, Session
  PROVE  FileStore!Start \/ FileStore!Quit
<1> USE DEF Store
<1>1. CASE Start(MaxBlocks)
  <2>1. disk' = disk
    <3>1. disk' = [b \in BlockNo |-> disk[b]] /\ disk \in [BlockNo -> Block]
      BY <1>1, ImageTypes, LayoutAssumption DEF Start, BlockNo, ContentsInv, DirectoryInv, SharingInv
    <3> QED BY <3>1
  <2>2. pc = "down" /\ pc' = "idle" /\ rootSB' = rootSB /\ frame' = frame /\ ret' = ret
    BY <1>1 DEF Start
  <2>3. Formatted' = Formatted /\ Files' = Files /\ Free' = Free
    BY <2>1, <2>2, StoreKept
  <2>4. Mounted' = Mounted /\ Request' = Request /\ Result' = Result
        /\ Phase = "down" /\ Phase' = "idle"
    BY <2>2 DEF Mounted, Request, Result, Phase
  <2> QED BY <2>3, <2>4 DEF FileStore!Start
<1>2. CASE Quit
  <2>1. /\ pc = "idle" /\ pc' = "down" /\ rootSB' = ZeroSB /\ frame' = NoFrame /\ ret' = NoCall
        /\ disk' = disk /\ frame = NoFrame
    BY <1>2 DEF Quit, disk_read, Die, StoreInv
  <2>2. Formatted' = Formatted /\ Files' = Files /\ Free' = Free
    BY <2>1, StoreKept
  <2>3. Mounted' = FALSE /\ Request' = Request /\ Result' = FileStore!NoCall
        /\ Phase = "idle" /\ Phase' = "down"
    BY <2>1 DEF Mounted, ZeroSB, Request, Result, Phase, NoCall, FileStore!NoCall
  <2> QED BY <2>2, <2>3 DEF FileStore!Quit
<1> QED BY <1>1, <1>2 DEF Session

(* On a disk with at most as many blocks as the bitmap block has bits, each *)
(* block has a bit of its own.                                              *)
LEMMA FreeMember ==
  ASSUME MaxBlocks <= BLOCKSIZE, NEW D, NEW sb \in Superblock
  PROVE  /\ FreeBlocks(D, sb) = (0 .. sb.nblocks - 1) \ AsBits(D[1])
         /\ IsFiniteSet(FreeBlocks(D, sb)) /\ Cardinality(FreeBlocks(D, sb)) \in Nat
<1>1. /\ sb.nblocks \in Nat /\ sb.nblocks <= BLOCKSIZE
  BY LayoutAssumption DEF Superblock
<1>2. \A i \in 0 .. sb.nblocks - 1 : i % BLOCKSIZE = i
  BY <1>1, LayoutAssumption
<1>3. FreeBlocks(D, sb) = (0 .. sb.nblocks - 1) \ AsBits(D[1])
  BY <1>2 DEF FreeBlocks
<1>4. IsFiniteSet(0 .. sb.nblocks - 1)
  BY <1>1, FS_Interval
<1>5. IsFiniteSet(FreeBlocks(D, sb))
  BY <1>3, <1>4, FS_Subset
<1> QED BY <1>3, <1>5, FS_CardinalityType

LEMMA StoreFormats ==
  ASSUME Store, DiskSizes = {MaxBlocks}, MaxBlocks <= BLOCKSIZE,
         FormatMounted \/ FormatSuper \/ FormatBitmap
  PROVE  FileStore!FormatRefused \/ FileStore!FormatBegin \/ FileStore!FormatEnd
<1> USE LayoutAssumption
<1>1. /\ TypeInv /\ disk \in [BlockNo -> Block] /\ 0 \in BlockNo /\ 1 \in BlockNo
      /\ Root(disk) \in Superblock
  BY ImageTypes DEF Store, ContentsInv, DirectoryInv, SharingInv
<1>2. CASE FormatMounted
  <2>1. pc = "idle" /\ pc' = "idle" /\ disk' = disk /\ rootSB' = rootSB /\ Mounted
    BY <1>2 DEF FormatMounted, NoDisk, Return, ReturnWith
  <2>2. Formatted' = Formatted /\ Files' = Files /\ Free' = Free
    BY <2>1, StoreKept DEF Store
  <2>3. FileStore!Return("format", NoName, 0)
    BY <1>2, Returns DEF FormatMounted
  <2>4. Phase = "idle" /\ Mounted' = Mounted
    BY <2>1 DEF Phase, Mounted
  <2> QED BY <2>1, <2>2, <2>3, <2>4 DEF FileStore!FormatRefused
<1>3. CASE FormatSuper
  <2>1. /\ pc = "idle" /\ pc' = "format" /\ ~Mounted /\ rootSB' = rootSB
        /\ disk'[0] = SuperBlock(FreshSB)
    BY <1>1, <1>3, OtherBlocks DEF FormatSuper, Begin
  <2>2. Root(disk)' = FreshSB
    BY <2>1 DEF Root, AsSuper, SuperBlock
  <2>3. Formatted' = TRUE /\ Free' = MaxBlocks - 2 /\ Phase = "idle" /\ Mounted' = Mounted
    BY <2>1, <2>2 DEF Formatted, Free, FreshSB, Phase, Mounted
  <2>4. Listed' = 0
    BY <2>1, <2>2 DEF Listed, RootDir, FreshSB, Mounted
  <2>5. Files' = <<>>
    BY <2>4 DEF Files
  <2>6. Phase' = "format" /\ Request' = FileStore!NoReq /\ Result' = FileStore!NoCall
    <3>1. Begin("format", NoFrame)
      BY <1>3 DEF FormatSuper
    <3> QED BY <3>1, Begins DEF NoFrame, FileStore!NoReq
  <2> QED BY <2>1, <2>3, <2>5, <2>6 DEF FileStore!FormatBegin, FileStore!Begin
<1>4. CASE FormatBitmap
  <2>1. /\ pc = "format" /\ pc' = "idle" /\ ~Mounted /\ rootSB' = rootSB
        /\ disk'[0] = disk[0] /\ disk'[1] = BitsBlock({0, 1})
        /\ InUse(Root(disk)) = {} /\ Root(disk).nblocks = MaxBlocks
    BY <1>1, <1>4, OtherBlocks
    DEF FormatBitmap, Return, ReturnWith, Store, StoreInv, ContentsInv, DirectoryInv, SharingInv, CallSound
  <2>2. Root(disk)' = Root(disk) /\ Root(disk).size = 0
    BY <1>1, <2>1, NoBlocksIfEmpty DEF Root
  <2>3. Formatted' = Formatted /\ Mounted' = Mounted /\ Phase = "format" /\ Free = MaxBlocks - 2
    BY <2>1, <2>2 DEF Formatted, Mounted, Phase, Free
  <2>4. Listed = 0 /\ Listed' = 0
    BY <2>1, <2>2 DEF Listed, RootDir, Mounted
  <2>5. Files' = Files
    BY <2>4 DEF Files
  <2>6. Free' = MaxBlocks - 2
    <3>1. FreeBlocks(disk', Root(disk)) = (0 .. MaxBlocks - 1) \ {0, 1}
      BY <1>1, <2>1, FreeMember DEF AsBits, BitsBlock
    <3>2. (0 .. MaxBlocks - 1) \ {0, 1} = 2 .. MaxBlocks - 1
      OBVIOUS
    <3>3. Cardinality(2 .. MaxBlocks - 1) = MaxBlocks - 2
      BY FS_Interval
    <3> QED BY <2>1, <2>2, <3>1, <3>2, <3>3 DEF Free
  <2>7. FileStore!Return("format", NoName, 1)
    BY <1>4, Returns DEF FormatBitmap
  <2> QED BY <2>3, <2>5, <2>6, <2>7 DEF FileStore!FormatEnd
<1> QED BY <1>2, <1>3, <1>4

LEMMA StoreMounts ==
  ASSUME Store, DiskSizes = {MaxBlocks}, Mount \/ Umount
  PROVE  FileStore!Mount \/ FileStore!Umount
<1>1. /\ pc = "idle" /\ pc' = "idle" /\ disk' = disk
      /\ rootSB' \in {rootSB, ZeroSB} \/ (rootSB' = Root(disk) /\ Root(disk).magic /\ ~Mounted)
  BY DEF Mount, Umount, Return, ReturnWith, disk_read, NoDisk, Mountable, Root
<1>2. Formatted' = Formatted /\ Files' = Files /\ Free' = Free
  BY <1>1, StoreKept DEF Store
<1>3. Phase = "idle" /\ nblocks = MaxBlocks /\ Root(disk).magic \in BOOLEAN
  <2>1. Root(disk) \in Superblock /\ nblocks \in DiskSizes
    BY ImageTypes DEF Store, ContentsInv, DirectoryInv, SharingInv, TypeInv, ImageInv, TypeOK
  <2> QED BY <1>1, <2>1 DEF Phase, Superblock
<1>4. CASE Umount
  <2>1. Mounted' = FALSE /\ FileStore!Return("umount", NoName, 1)
    BY <1>4, Returns DEF Umount, Mounted, ZeroSB
  <2> QED BY <1>2, <1>3, <2>1 DEF FileStore!Umount
<1>5. CASE Mount
  <2>1. Mounted => Formatted
    BY DEF Formatted, Store, VolumeInv
  <2>2. Formatted => Mountable(Root(disk))
    BY <1>3 DEF Formatted, Mountable, Store, StoreInv
  <2>3. CASE Mounted
    <3>1. Mounted' = Mounted /\ FileStore!Return("mount", NoName, 0)
      BY <1>5, <2>3, Returns DEF Mount, Mounted
    <3> QED BY <1>2, <1>3, <2>1, <2>3, <3>1 DEF FileStore!Mount, Formatted, Mounted
  <2>4. CASE ~Mounted /\ Formatted
    <3>1. rootSB' = Root(disk) /\ FileStore!Return("mount", NoName, 1)
      BY <1>5, <2>2, <2>4, Returns DEF Mount, Root
    <3>2. Mounted' = Formatted
      BY <3>1 DEF Mounted, Formatted
    <3> QED BY <1>2, <1>3, <2>4, <3>1, <3>2 DEF FileStore!Mount
  <2>5. CASE ~Mounted /\ ~Formatted
    <3>1. rootSB' = rootSB /\ FileStore!Return("mount", NoName, 0)
      BY <1>5, <2>5, Returns DEF Mount, Root, Mountable, Formatted
    <3>2. Mounted' = Formatted
      BY <1>3, <2>5, <3>1, ImageTypes
      DEF Mounted, Formatted, Store, ContentsInv, DirectoryInv, SharingInv, Superblock
    <3> QED BY <1>2, <1>3, <2>5, <3>1, <3>2 DEF FileStore!Mount
  <2> QED BY <2>3, <2>4, <2>5
<1> QED BY <1>4, <1>5

(* Between calls, on a mounted volume.                                      *)
LEMMA MountedView ==
  ASSUME Store, Mounted, pc = "idle"
  PROVE  /\ Root(disk).magic /\ RootDir = rootSB /\ Listed = rootSB.size /\ Phase = "idle"
         /\ FileStore!Ids = 0 .. rootSB.size - 1 /\ Len(Files) = rootSB.size
         /\ rootSB.size \in 0 .. DIRENTS_PER_BLOCK /\ rootSB \in Superblock
         /\ ValidEntries(disk, rootSB) = 0 .. rootSB.size - 1
         /\ \A n \in 0 .. rootSB.size - 1 :
              /\ n \in Slot /\ n % DIRENTS_PER_BLOCK = n
              /\ EntryAt(disk, rootSB, n) = DirEntry(n) /\ DirEntry(n) \in Dirent
              /\ DirEntry(n).isvalid
              /\ Files[n + 1].name = DirEntry(n).name
              /\ Files[n + 1].data = FileBytes(disk, DirEntry(n), 0, DirEntry(n).size)
              /\ Len(Files[n + 1].data) = DirEntry(n).size
<1>1. Root(disk).magic /\ RootDir = rootSB /\ Listed = rootSB.size /\ Phase = "idle"
  BY DEF Store, VolumeInv, RootDir, Listed, Phase
<1>2. Len(Files) = rootSB.size /\ FileStore!Ids = 0 .. rootSB.size - 1
  BY <1>1, FilesView DEF Store, FileStore!Ids
<1>3. /\ rootSB.size \in 0 .. DIRENTS_PER_BLOCK /\ rootSB \in Superblock
      /\ ValidEntries(disk, rootSB) = 0 .. rootSB.size - 1
      /\ \A n \in 0 .. rootSB.size - 1 :
           /\ n \in Slot /\ n % DIRENTS_PER_BLOCK = n
           /\ EntryAt(disk, rootSB, n) = DirEntry(n) /\ DirEntry(n) \in Dirent
           /\ DirEntry(n).isvalid
  BY <1>1, DirectoryView DEF Store
<1>4. \A n \in 0 .. rootSB.size - 1 :
        /\ Files[n + 1].name = DirEntry(n).name
        /\ Files[n + 1].data = FileBytes(disk, DirEntry(n), 0, DirEntry(n).size)
        /\ Len(Files[n + 1].data) = DirEntry(n).size
  BY <1>1, FilesView DEF Store
<1> QED BY <1>1, <1>2, <1>3, <1>4

LEMMA FoundByName ==
  ASSUME Store, Mounted, pc = "idle", LongNames = {}, NEW name
  PROVE  LET id == name2number(disk, rootSB, name) IN
         /\ FileStore!Exists(name) <=> id # -1
         /\ id # -1 => id \in FileStore!Ids /\ Files[id + 1].name = name
<1> DEFINE found == Matches(disk, rootSB, name)
<1>1. /\ FileStore!Ids = 0 .. rootSB.size - 1 /\ rootSB.size \in Nat
      /\ ValidEntries(disk, rootSB) = 0 .. rootSB.size - 1
      /\ \A n \in 0 .. rootSB.size - 1 : Files[n + 1].name = EntryAt(disk, rootSB, n).name
  BY MountedView, LayoutAssumption
<1>2. found = {n \in FileStore!Ids : Files[n + 1].name = name}
  BY <1>1 DEF Matches
<1>3. FileStore!Exists(name) <=> found # {}
  BY <1>2 DEF FileStore!Exists
<1>4. name2number(disk, rootSB, name) = IF found = {} THEN -1 ELSE Min(found)
  BY DEF name2number
<1>5. found \in SUBSET Nat
  BY <1>1, <1>2
<1> HIDE DEF found
<1>6. found # {} => Min(found) \in found /\ Min(found) # -1
  <2>1. found # {} => Min(found) \in found
    BY <1>5, MinOfNats
  <2>2. found # {} => Min(found) \in Nat
    BY <1>5, <2>1
  <2> QED BY <2>1, <2>2
<1> QED BY <1>2, <1>3, <1>4, <1>6

(* The calls that only look. *)
LEMMA LooksKeep ==
  ASSUME Store, pc = "idle", pc' = "idle", disk' = disk, rootSB' = rootSB
  PROVE  Formatted' = Formatted /\ Files' = Files /\ Free' = Free /\ Mounted' = Mounted
         /\ Phase = "idle"
<1>1. Formatted' = Formatted /\ Files' = Files /\ Free' = Free
  BY StoreKept DEF Store
<1> QED BY <1>1 DEF Mounted, Phase

LEMMA StoreOpen ==
  ASSUME Store, LongNames = {}, NEW name, Open(name)
  PROVE  FileStore!Open(name)
<1>1. pc = "idle" /\ pc' = "idle" /\ disk' = disk /\ rootSB' = rootSB
  BY DEF Open, ScanDirectory, disk_read, NoDisk, Return, ReturnWith
<1>2. Formatted' = Formatted /\ Files' = Files /\ Free' = Free /\ Mounted' = Mounted
      /\ Phase = "idle"
  BY <1>1, LooksKeep
<1>3. CASE Mounted
  <2> DEFINE id == name2number(disk, rootSB, name)
  <2>1. FileStore!Return("open", name, id)
    BY <1>3, Returns DEF Open
  <2>2. /\ FileStore!Exists(name) <=> id # -1
        /\ id # -1 => id \in FileStore!Ids /\ Files[id + 1].name = name
    BY <1>1, <1>3, FoundByName
  <2> QED BY <1>2, <1>3, <2>1, <2>2 DEF FileStore!Open
<1>4. CASE ~Mounted
  <2>1. FileStore!Return("open", name, -1)
    BY <1>4, Returns DEF Open
  <2> QED BY <1>2, <1>4, <2>1 DEF FileStore!Open
<1> QED BY <1>3, <1>4

LEMMA StoreList ==
  ASSUME Store, Lsdir
  PROVE  FileStore!List
<1>1. pc = "idle" /\ pc' = "idle" /\ disk' = disk /\ rootSB' = rootSB
  BY DEF Lsdir, ScanDirectory, disk_read, NoDisk, Return, ReturnWith
<1>2. Formatted' = Formatted /\ Files' = Files /\ Free' = Free /\ Mounted' = Mounted
      /\ Phase = "idle"
  BY <1>1, LooksKeep
<1>3. CASE Mounted
  <2>1. ReturnWith("lsdir", NoName, 1, Listing(disk, rootSB))
    BY <1>3 DEF Lsdir
  <2>2. Phase' = "idle" /\ Request' = FileStore!NoReq
    BY <2>1 DEF ReturnWith, Phase, Request, FileStore!NoReq, NoFrame
  <2>3. Result' = [op |-> "lsdir", on |-> NoName, val |-> 1, out |-> Summary(Listing(disk, rootSB))]
    BY <2>1 DEF ReturnWith, Result
  <2>4. Summary(Listing(disk, rootSB)) = FileStore!Listed
    <3> DEFINE Of(n) == [entry |-> n, size |-> DirEntry(n).size, name |-> DirEntry(n).name]
    <3>1. /\ ValidEntries(disk, rootSB) = FileStore!Ids
          /\ \A n \in FileStore!Ids :
               /\ n % DIRENTS_PER_BLOCK = n /\ EntryAt(disk, rootSB, n) = DirEntry(n)
               /\ Files[n + 1].name = DirEntry(n).name
               /\ Len(Files[n + 1].data) = DirEntry(n).size
      BY <1>1, <1>3, MountedView
    <3>2. FileStore!Listed = {Of(n) : n \in FileStore!Ids}
      BY <3>1 DEF FileStore!Listed
    <3> DEFINE Full(n) == [entry |-> n, size |-> DirEntry(n).size, name |-> DirEntry(n).name,
                           blk |-> DirEntry(n).blk]
    <3>3. Listing(disk, rootSB) = {Full(n) : n \in FileStore!Ids}
      BY <3>1 DEF Listing
    <3>4. \A n : [entry |-> Full(n).entry, size |-> Full(n).size, name |-> Full(n).name] = Of(n)
      OBVIOUS
    <3> HIDE DEF Full, Of
    <3>5. Summary(Listing(disk, rootSB)) = {Of(n) : n \in FileStore!Ids}
      BY <3>3, <3>4 DEF Summary
    <3> QED BY <3>2, <3>5
  <2> QED BY <1>2, <1>3, <2>2, <2>3, <2>4 DEF FileStore!List, FileStore!ReturnWith
<1>4. CASE ~Mounted
  <2>1. FileStore!Return("lsdir", NoName, 0)
    BY <1>4, Returns DEF Lsdir
  <2> QED BY <1>2, <1>4, <2>1 DEF FileStore!List
<1> QED BY <1>3, <1>4

LEMMA StoreUnmounted ==
  ASSUME Store, NEW op \in {"read", "write"}, AccessUnmounted(op)
  PROVE  FileStore!AccessUnmounted(op)
<1>1. pc = "idle" /\ pc' = "idle" /\ disk' = disk /\ rootSB' = rootSB /\ ~Mounted
  BY DEF AccessUnmounted, NoDisk, Return, ReturnWith
<1>2. Formatted' = Formatted /\ Files' = Files /\ Free' = Free /\ Mounted' = Mounted
      /\ Phase = "idle"
  BY <1>1, LooksKeep
<1>3. FileStore!Return(op, NoName, -1)
  BY Returns DEF AccessUnmounted
<1> QED BY <1>1, <1>2, <1>3 DEF FileStore!AccessUnmounted

LEMMA StoreDebug ==
  ASSUME Store, Debug
  PROVE  UNCHANGED FileStore!vars
<1>1. /\ pc = "idle" /\ pc' = "idle" /\ disk' = disk /\ rootSB' = rootSB
      /\ frame' = frame /\ ret' = ret
  BY DEF Debug, disk_read
<1>2. Formatted' = Formatted /\ Files' = Files /\ Free' = Free /\ Mounted' = Mounted
  BY <1>1, LooksKeep
<1>3. Phase' = Phase /\ Request' = Request /\ Result' = Result
  BY <1>1 DEF Phase, Request, Result
<1> QED BY <1>2, <1>3 DEF FileStore!vars

(* An entry that fs_read or fs_write asks for is one of the files or was    *)
(* never used.                                                              *)
LEMMA EntryLoaded ==
  ASSUME Store, Mounted, pc = "idle", NEW inumber \in EntryNumbers(rootSB)
  PROVE  /\ Readable(inumber) /\ LoadDirent(inumber) = DirEntry(inumber)
         /\ inumber \in Nat /\ inumber \in 0 .. POINTERS_PER_ENT * DIRENTS_PER_BLOCK - 1
         /\ DirEntry(inumber).isvalid <=> inumber \in FileStore!Ids
         /\ \A p \in Ptr : ~PastEnd(DirEntry(inumber).blk[p])
<1>1. Readable(inumber)
  BY DirectoryReadable DEF Store
<1>2. /\ DirentBlock(inumber) = 2 /\ inumber % DIRENTS_PER_BLOCK = inumber /\ inumber \in Slot
      /\ OneBlock /\ RootDir = rootSB /\ rootSB.size > 0
  BY VolumeInWrite DEF Store, ContentsInv
<1>3. LoadDirent(inumber) = DirEntry(inumber)
  BY <1>2 DEF LoadDirent, DirEntry
<1>4. FileStore!Ids = 0 .. rootSB.size - 1 /\ rootSB.size \in Nat
      /\ \A n \in 0 .. rootSB.size - 1 : DirEntry(n).isvalid
  BY MountedView, LayoutAssumption
<1>5. inumber >= rootSB.size => ~DirEntry(inumber).isvalid
  BY <1>2 DEF OneBlock, NullDirent
<1>6. inumber \in Nat /\ inumber \in 0 .. POINTERS_PER_ENT * DIRENTS_PER_BLOCK - 1
  BY DEF EntryNumbers
<1>7. inumber >= rootSB.size \/ inumber \in 0 .. rootSB.size - 1
  BY <1>4, <1>6
<1>8. inumber \in 0 .. rootSB.size - 1 => ~(inumber >= rootSB.size)
  BY <1>4
<1>9. ASSUME NEW p \in Ptr PROVE ~PastEnd(DirEntry(inumber).blk[p])
  <2>1. /\ 0 \in InUse(rootSB) /\ DirEntry(inumber) = SlotEntry(disk, rootSB, 0, inumber)
        /\ inumber \in Slot
    BY VolumeInWrite DEF Store, ContentsInv
  <2>2. SlotPtr(disk, rootSB, 0, inumber, p) < rootSB.nblocks /\ nblocks = rootSB.nblocks
    BY <2>1 DEF Store, ContentsInv, DirectoryInv, Tidy, Bounded, Coherent
  <2>3. DirEntry(inumber).blk[p] < nblocks
    BY <2>1, <2>2 DEF SlotEntry, SlotPtr
  <2>4. nblocks \in Nat
    BY ClientAssumption, LayoutAssumption
    DEF Store, ContentsInv, DirectoryInv, SharingInv, TypeInv, ImageInv, TypeOK
  <2>5. DirEntry(inumber).blk[p] \in Nat
    <3>1. DirEntry(inumber).blk[p] \in DataPtr
      BY <2>1, SlotPtrType, ImageTypes
      DEF SlotEntry, SlotPtr, Store, ContentsInv, DirectoryInv, SharingInv
    <3> QED BY <3>1, LayoutAssumption DEF DataPtr, BlockNo
  <2> QED BY <2>3, <2>4, <2>5 DEF PastEnd
<1> QED BY <1>9, <1>1, <1>3, <1>4, <1>5, <1>6, <1>7, <1>8

LEMMA StoreRead ==
  ASSUME Store, NEW inumber \in EntryNumbers(rootSB), NEW offset \in Offsets,
         NEW length \in ReadLengths, Read(inumber, length, offset)
  PROVE  FileStore!Read(inumber, length, offset)
<1> DEFINE de == DirEntry(inumber)
           data == Files[inumber + 1].data
           count == ReadCount(de, length, offset)
           last == IF offset + length < Len(data) THEN offset + length ELSE Len(data)
<1>1. /\ pc = "idle" /\ Mounted /\ offset \in Nat /\ length \in Nat
  BY ClientAssumption DEF Read
<1>2. /\ Readable(inumber) /\ LoadDirent(inumber) = de
      /\ inumber \in Nat
      /\ de.isvalid <=> inumber \in FileStore!Ids
      /\ \A p \in Ptr : ~PastEnd(de.blk[p])
  BY <1>1, EntryLoaded
<1>10. CanRead(de, offset) => \A b \in BlocksRead(de, offset, count) : ~PastEnd(b)
  <2> SUFFICES ASSUME CanRead(de, offset), NEW pos \in offset .. offset + count - 1
               PROVE  ~PastEnd(de.blk[pos \div BLOCKSIZE])
    BY DEF BlocksRead
  <2>1. de.size \in 0 .. MaxFileSize /\ MaxFileSize \in Nat
    <3>1. de \in Dirent
      BY <1>1, <1>2, MountedView DEF CanRead
    <3> QED BY <3>1, LayoutAssumption DEF Dirent, MaxFileSize
  <2>2. offset <= de.size
    BY DEF CanRead
  <2> HIDE DEF de
  <2>3. offset + count <= de.size /\ count \in Nat
    BY <1>1, <2>1, <2>2 DEF ReadCount
  <2>4. pos \in 0 .. de.size - 1
    BY <1>1, <2>1, <2>3
  <2>5. pos \div BLOCKSIZE \in Ptr
    BY <2>1, <2>4, BytePlace
  <2> QED BY <1>2, <2>5
<1>3. disk' = disk /\ rootSB' = rootSB /\ pc' = "idle"
  BY <1>2, <1>10 DEF Read, disk_read, Return, ReturnWith
<1>4. Formatted' = Formatted /\ Files' = Files /\ Free' = Free /\ Mounted' = Mounted
      /\ Phase = "idle"
  BY <1>1, <1>3, LooksKeep
<1>5. inumber \in FileStore!Ids => /\ data = FileBytes(disk, de, 0, de.size)
                                   /\ Len(data) = de.size /\ de \in Dirent
  BY <1>1, MountedView
<1>6. CASE inumber \in FileStore!Ids /\ offset <= Len(data)
  <2> DEFINE old == FileBytes(disk, de, 0, de.size)
             got == FileBytes(disk, de, offset, count)
             S == Byte \cup {Stale}
  <2>1. ReturnWith("read", <<inumber, length, offset>>, count, got)
    <3>1. CanRead(de, offset)
      <4> HIDE DEF de, data
      <4> QED BY <1>2, <1>5, <1>6 DEF CanRead
    <3> QED BY <1>2, <1>10, <3>1 DEF Read
  <2>2. /\ de.size \in 0 .. MaxFileSize /\ MaxFileSize \in Nat /\ de \in Dirent /\ disk \in [BlockNo -> Block]
    BY <1>5, <1>6, ImageTypes, LayoutAssumption
    DEF Dirent, MaxFileSize, Store, ContentsInv, DirectoryInv, SharingInv
  <2>3. count = last - offset /\ count \in Nat /\ offset + count = last
        /\ last \in offset .. de.size /\ offset + count <= MaxFileSize
    BY <1>1, <1>5, <1>6, <2>2 DEF ReadCount
  <2>4. old \in Seq(S) /\ got \in Seq(S)
    <3>1. 0 \in Nat /\ de.size \in Nat /\ 0 + de.size <= MaxFileSize
      BY <2>2
    <3> HIDE DEF count
    <3> QED BY <1>1, <2>2, <2>3, <3>1, FileBytesType
  <2> HIDE DEF last, count
  <2>5. /\ SubSeq(old, offset + 1, last) \in Seq(S)
        /\ Len(SubSeq(old, offset + 1, last)) = count
        /\ \A i \in 1 .. count : SubSeq(old, offset + 1, last)[i] = old[(offset + 1) + i - 1]
    <3>1. Len(old) = de.size
      BY <1>5, <1>6
    <3>2. offset + 1 \in 1 .. Len(old) + 1 /\ last \in (offset + 1) - 1 .. Len(old)
      BY <1>1, <2>2, <2>3, <3>1
    <3>3. last - (offset + 1) + 1 = count
      BY <1>1, <2>2, <2>3
    <3> HIDE DEF old
    <3> QED BY <2>4, <3>2, <3>3, SubSeqProperties
  <2>6. ASSUME NEW i \in 1 .. count PROVE got[i] = old[(offset + 1) + i - 1]
    <3>1. (offset + 1) + i - 1 \in 1 .. de.size /\ 0 + ((offset + 1) + i - 1) - 1 = offset + i - 1
      BY <1>1, <2>2, <2>3
    <3> QED BY <2>6, <3>1 DEF FileBytes
  <2>7. Len(got) = count
    BY <2>3 DEF FileBytes
  <2>8. got = SubSeq(data, offset + 1, last)
    <3> HIDE DEF got, old
    <3>1. got = SubSeq(old, offset + 1, last)
      BY <2>4, <2>5, <2>6, <2>7, SeqEqual
    <3> QED BY <1>5, <1>6, <3>1 DEF old
  <2>9. FileStore!ReturnWith("read", <<inumber, length, offset>>, last - offset,
                             SubSeq(data, offset + 1, last))
    <3> HIDE DEF got
    <3> QED BY <2>1, <2>3, <2>8, ReturnsAs
  <2> QED BY <1>1, <1>4, <1>6, <2>9 DEF FileStore!Read, last
<1>7. CASE ~(inumber \in FileStore!Ids /\ offset <= Len(data))
  <2>1. ~(de.isvalid /\ offset <= de.size)
    <3> HIDE DEF de, data
    <3> QED BY <1>2, <1>5, <1>7
  <2>2. Return("read", <<inumber, length, offset>>, -1)
    <3>1. ~CanRead(de, offset)
      BY <2>1 DEF CanRead
    <3> QED BY <1>2, <3>1 DEF Read
  <2>3. FileStore!Return("read", <<inumber, length, offset>>, -1)
    BY <2>2, Returns
  <2> QED BY <1>1, <1>4, <1>7, <2>3 DEF FileStore!Read
<1> QED BY <1>6, <1>7

-----------------------------------------------------------------------------
(* fs_create.                                                               *)

(* fs_create fails on a mounted volume that has the name or no entry left.  *)
LEMMA DirectoryFull ==
  ASSUME Store, Mounted, pc = "idle"
  PROVE  /\ NewBlk < POINTERS_PER_ENT => Len(Files) < POINTERS_PER_ENT * DIRENTS_PER_BLOCK
         /\ ~(NewBlk < POINTERS_PER_ENT) => Len(Files) = POINTERS_PER_ENT * DIRENTS_PER_BLOCK
<1> USE LayoutAssumption
<1>1. Len(Files) = rootSB.size /\ rootSB.size \in 0 .. DIRENTS_PER_BLOCK
  BY MountedView
<1>2. CASE rootSB.size < DIRENTS_PER_BLOCK
  <2>1. NewBlk = 0
    BY <1>1, <1>2 DEF NewBlk
  <2>2. DIRENTS_PER_BLOCK <= POINTERS_PER_ENT * DIRENTS_PER_BLOCK
    OBVIOUS
  <2> QED BY <1>1, <1>2, <2>1, <2>2
<1>3. CASE rootSB.size = DIRENTS_PER_BLOCK
  <2>1. NewBlk = 1
    BY <1>3 DEF NewBlk
  <2>2. POINTERS_PER_ENT = 1 \/ POINTERS_PER_ENT >= 2
    OBVIOUS
  <2>3. POINTERS_PER_ENT = 1 => DIRENTS_PER_BLOCK = POINTERS_PER_ENT * DIRENTS_PER_BLOCK
    OBVIOUS
  <2>4. POINTERS_PER_ENT >= 2 => DIRENTS_PER_BLOCK < POINTERS_PER_ENT * DIRENTS_PER_BLOCK
    OBVIOUS
  <2> QED BY <1>1, <1>3, <2>1, <2>2, <2>3, <2>4
<1> QED BY <1>1, <1>2, <1>3

LEMMA StoreCreateFails ==
  ASSUME Store, LongNames = {}, NEW name, CreateFails(name)
  PROVE  FileStore!CreateRefused(name)
<1>1. pc = "idle" /\ pc' = "idle" /\ disk' = disk /\ rootSB' = rootSB
  BY DEF CreateFails, ScanDirectory, disk_read, NoDisk, Return, ReturnWith
<1>2. Formatted' = Formatted /\ Files' = Files /\ Free' = Free /\ Mounted' = Mounted
      /\ Phase = "idle"
  BY <1>1, LooksKeep
<1>3. FileStore!Return("create", name, -1)
  BY Returns DEF CreateFails
<1>4. \/ ~Mounted \/ FileStore!Exists(name)
      \/ Len(Files) = POINTERS_PER_ENT * DIRENTS_PER_BLOCK
  <2> SUFFICES ASSUME Mounted PROVE \/ FileStore!Exists(name)
                                    \/ Len(Files) = POINTERS_PER_ENT * DIRENTS_PER_BLOCK
    OBVIOUS
  <2>1. name2number(disk, rootSB, name) # -1 \/ ~(NewBlk < POINTERS_PER_ENT)
    BY DEF CreateFails, CanCreate
  <2>2. name2number(disk, rootSB, name) # -1 => FileStore!Exists(name)
    BY <1>1, FoundByName
  <2> QED BY <1>1, <2>1, <2>2, DirectoryFull
<1> QED BY <1>2, <1>3, <1>4 DEF FileStore!CreateRefused

(* alloc_block and the number of free blocks. *)
LEMMA SameFree ==
  ASSUME ContentsInv, Mounted
  PROVE  FreeBlocks(disk, Root(disk)) = FreeBlocks(disk, rootSB)
         /\ rootSB \in Superblock /\ Root(disk) \in Superblock
<1>1. Root(disk).nblocks = rootSB.nblocks
  BY DEF ContentsInv, DirectoryInv, Coherent
<1>2. rootSB \in Superblock /\ Root(disk) \in Superblock
  BY ImageTypes DEF ContentsInv, DirectoryInv, SharingInv
<1> QED BY <1>1, <1>2 DEF FreeBlocks

LEMMA NoFreeBlock ==
  ASSUME ContentsInv, Mounted, pc # "format", alloc_block(disk, rootSB) = NOBLOCK
  PROVE  Free = 0
<1> DEFINE S == FreeBlocks(disk, rootSB)
<1>1. S \in SUBSET Nat
  BY SameFree, LayoutAssumption DEF FreeBlocks, Superblock
<1>2. S = {}
  <2> SUFFICES ASSUME S # {} PROVE FALSE
    OBVIOUS
  <2>1. Min(S) \in Nat
    <3>1. Min(S) \in S
      <4> HIDE DEF S
      <4> QED BY <1>1, MinOfNats
    <3> QED BY <1>1, <3>1
  <2>2. Min(S) = -1
    BY DEF alloc_block, NOBLOCK
  <2> QED BY <2>1, <2>2
<1>3. Free = Cardinality(S)
  BY SameFree DEF Free
<1> QED BY <1>2, <1>3, FS_EmptySet

LEMMA TakesBlock ==
  ASSUME ContentsInv, MaxBlocks <= BLOCKSIZE, Mounted, pc # "format", pc' # "format",
         alloc_block(disk, rootSB) # NOBLOCK, disk_write(1, Marked(alloc_block(disk, rootSB)))
  PROVE  /\ Free \in Nat /\ Free > 0 /\ Free' = Free - 1
         /\ Root(disk)' = Root(disk) /\ \A m \in BlockNo : m # 1 => disk'[m] = disk[m]
<1> DEFINE b == alloc_block(disk, rootSB)
           S == FreeBlocks(disk, Root(disk))
<1>1. /\ rootSB \in Superblock /\ Root(disk) \in Superblock /\ S = FreeBlocks(disk, rootSB)
      /\ TypeInv /\ 0 \in BlockNo /\ 1 \in BlockNo
  BY SameFree, ImageTypes DEF ContentsInv, DirectoryInv, SharingInv
<1>2. b \in Nat /\ b < BLOCKSIZE /\ b >= 2
  <2>1. b \in DataPtr \ {0}
    BY <1>1, AllocNotMetadata
  <2>2. b >= 2
    BY <2>1, LayoutAssumption DEF DataPtr, BlockNo
  <2> QED BY <1>1, <2>2, AllocExact
<1>3. b \in S
  <2>1. b # NOBLOCK
    BY <1>2 DEF NOBLOCK
  <2> QED BY <1>1, <2>1, AllocType
<1> HIDE DEF b
<1>4. /\ \A m \in BlockNo : m # 1 => disk'[m] = disk[m]
      /\ disk'[1] = Marked(b)
  BY <1>1, OtherBlocks DEF b
<1>5. Root(disk)' = Root(disk)
  BY <1>1, <1>4 DEF Root
<1>6. AsBits(disk'[1]) = AsBits(disk[1]) \cup {b}
  <2>1. b % BLOCKSIZE = b
    BY <1>2, LayoutAssumption
  <2> QED BY <1>4, <2>1 DEF Marked, AsBits, BitsBlock
<1>7. FreeBlocks(disk', Root(disk)) = S \ {b}
  <2>1. FreeBlocks(disk', Root(disk)) = (0 .. Root(disk).nblocks - 1) \ AsBits(disk'[1])
    BY <1>1, FreeMember
  <2>2. S = (0 .. Root(disk).nblocks - 1) \ AsBits(disk[1])
    BY <1>1, FreeMember
  <2> HIDE DEF S
  <2> QED BY <1>6, <2>1, <2>2
<1>8. IsFiniteSet(S) /\ Cardinality(S) \in Nat
  BY <1>1, FreeMember
<1>9. Free = Cardinality(S) /\ Free' = Cardinality(S \ {b})
  BY <1>5, <1>7 DEF Free
<1> HIDE DEF S
<1>10. Cardinality(S \ {b}) = Cardinality(S) - 1 /\ Cardinality(S \ {b}) \in Nat
  <2>1. IsFiniteSet(S \ {b})
    BY <1>8, FS_Subset
  <2> QED BY <1>3, <1>8, <2>1, FS_RemoveElement, FS_CardinalityType
<1> QED BY <1>4, <1>5, <1>8, <1>9, <1>10

(* fs_create begins: the directory that the client sees stays, whether or   *)
(* not the entry gets a new block.                                          *)
LEMMA CreateKeeps ==
  ASSUME Store, Mounted, pc = "idle", pc' # "super", Root(disk)' = Root(disk),
         \A m \in BlockNo : m # 1 => disk'[m] = disk[m],
         rootSB'.size = rootSB.size, Mounted', 
         rootSB.size > 0 => rootSB'.blk[0] = rootSB.blk[0]
  PROVE  Formatted' = Formatted /\ Files' = Files /\ Mounted' = Mounted
<1>1. Root(disk).magic /\ RootDir = rootSB /\ RootDir' = rootSB' /\ Listed = rootSB.size
  BY MountedView DEF RootDir
<1>2. Listed' = Listed
  BY <1>1 DEF Listed
<1>3. rootSB.size > 0 => 2 \in BlockNo /\ rootSB.blk[0] = 2
  BY <1>1, DirectoryView DEF Store
<1>4. \A n \in 0 .. Listed - 1 : AsDir(disk'[2])[n] = DirEntry(n)
  <2>1. rootSB.size \in Nat
    BY MountedView, LayoutAssumption
  <2>2. rootSB.size > 0 => disk'[2] = disk[2]
    BY <1>3
  <2> QED BY <1>1, <2>1, <2>2 DEF DirEntry
<1>5. \A m \in DataPtr : AsData(disk'[m]) = AsData(disk[m])
  BY DEF DataPtr
<1>6. Listed > 0 => RootDir'.blk[0] = 2
  BY <1>1, <1>3
<1>7. Files' = Files
  BY <1>1, <1>2, <1>4, <1>5, <1>6, FilesKept DEF Store
<1> QED BY <1>7 DEF Formatted

LEMMA CreateRequest ==
  ASSUME pc = "idle", NEW name, Begin("dirent", [NoFrame EXCEPT !.name = name])
  PROVE  FileStore!Begin("create", [FileStore!NoReq EXCEPT !.name = name]) /\ Phase = "idle"
<1> DEFINE f == [NoFrame EXCEPT !.name = name]
<1>1. /\ f.name = name /\ f.inumber = 0 /\ f.data = <<>> /\ f.offset = 0 /\ f.cur = 0
  BY DEF NoFrame
<1>2. /\ Phase' = "create" /\ Result' = FileStore!NoCall
      /\ Request' = [name |-> f.name, id |-> f.inumber, data |-> f.data,
                     offset |-> f.offset, done |-> f.cur - f.offset]
  <2>1. Begin("dirent", f)
    OBVIOUS
  <2> HIDE DEF f
  <2> QED BY <2>1, Begins
<1>3. Request' = [FileStore!NoReq EXCEPT !.name = name]
  BY <1>1, <1>2 DEF FileStore!NoReq
<1> QED BY <1>2, <1>3 DEF FileStore!Begin, Phase

LEMMA StoreCreateInBlock ==
  ASSUME Store, LongNames = {}, NEW name, CreateInBlock(name)
  PROVE  FileStore!CreateBegin(name)
<1>1. /\ pc = "idle" /\ pc' = "dirent" /\ disk' = disk /\ rootSB' = rootSB /\ Mounted /\ Mounted'
      /\ name2number(disk, rootSB, name) = -1 /\ NewBlk < POINTERS_PER_ENT
      /\ Begin("dirent", [NoFrame EXCEPT !.name = name])
  BY DEF CreateInBlock, disk_read, Begin, CanCreate, Mounted
<1>2. Formatted' = Formatted /\ Files' = Files /\ Mounted' = Mounted
  BY <1>1, CreateKeeps DEF Root
<1>3. Free' = Free
  BY <1>1 DEF Free, Root
<1>4. ~FileStore!Exists(name) /\ Len(Files) < POINTERS_PER_ENT * DIRENTS_PER_BLOCK
  BY <1>1, FoundByName, DirectoryFull
<1>5. FileStore!Begin("create", [FileStore!NoReq EXCEPT !.name = name]) /\ Phase = "idle"
  BY <1>1, CreateRequest
<1> QED BY <1>1, <1>2, <1>3, <1>4, <1>5 DEF FileStore!CreateBegin

LEMMA StoreCreateInNewBlock ==
  ASSUME Store, LongNames = {}, MaxBlocks <= BLOCKSIZE, NEW name, CreateInNewBlock(name),
         pc' # "astray"
  PROVE  FileStore!CreateBegin(name) \/ FileStore!CreateRefused(name)
<1> DEFINE b == alloc_block(disk, rootSB)
<1>1. /\ pc = "idle" /\ Mounted /\ NewSlot = 0 /\ NewBlk < POINTERS_PER_ENT
      /\ name2number(disk, rootSB, name) = -1
      /\ rootSB \in Superblock /\ NewBlk \in Ptr /\ NewBlk \notin InUse(rootSB)
  BY ImageTypes, NewBlockPlace
  DEF CreateInNewBlock, CanCreate, Store, ContentsInv, DirectoryInv, SharingInv
<1>2. ASSUME NEW x, rootSB' = [rootSB EXCEPT !.blk[NewBlk] = x]
      PROVE  /\ rootSB'.size = rootSB.size /\ Mounted' = Mounted
             /\ rootSB.size > 0 => rootSB'.blk[0] = rootSB.blk[0]
  <2>1. rootSB.size > 0 => 0 \in InUse(rootSB)
    BY <1>1, LayoutAssumption DEF InUse, Ptr
  <2>2. rootSB.size > 0 => NewBlk # 0
    BY <1>1, <2>1
  <2>3. /\ rootSB'.size = rootSB.size /\ rootSB'.magic = rootSB.magic
        /\ \A i \in Ptr : i # NewBlk => rootSB'.blk[i] = rootSB.blk[i]
    BY <1>1, <1>2 DEF Superblock
  <2>4. 0 \in Ptr
    BY LayoutAssumption DEF Ptr
  <2> QED BY <2>2, <2>3, <2>4 DEF Mounted
<1>3. CASE /\ b = NOBLOCK /\ rootSB' = [rootSB EXCEPT !.blk[NewBlk] = NOBLOCK]
           /\ disk_read /\ Return("create", name, -1)
  <2>1. /\ disk' = disk /\ pc' = "idle" /\ rootSB'.size = rootSB.size /\ Mounted'
        /\ rootSB.size > 0 => rootSB'.blk[0] = rootSB.blk[0]
    BY <1>1, <1>2, <1>3 DEF disk_read, Return, ReturnWith
  <2>2. Formatted' = Formatted /\ Files' = Files /\ Mounted' = Mounted
    BY <1>1, <2>1, CreateKeeps DEF Root
  <2>3. Free' = Free /\ Free = 0
    BY <1>1, <1>3, <2>1, NoFreeBlock DEF Free, Root, Store
  <2>4. FileStore!Return("create", name, -1) /\ Phase = "idle"
    BY <1>1, <1>3, Returns DEF Phase
  <2> QED BY <2>2, <2>3, <2>4 DEF FileStore!CreateRefused
<1>4. CASE /\ b # NOBLOCK /\ rootSB' = [rootSB EXCEPT !.blk[NewBlk] = b]
           /\ disk_write(1, Marked(b)) /\ Begin("dirent", [NoFrame EXCEPT !.name = name])
  <2>1. /\ pc' = "dirent" /\ rootSB'.size = rootSB.size /\ Mounted'
        /\ rootSB.size > 0 => rootSB'.blk[0] = rootSB.blk[0]
    BY <1>1, <1>2, <1>4 DEF Begin
  <2>2. /\ Free \in Nat /\ Free > 0 /\ Free' = Free - 1
        /\ Root(disk)' = Root(disk) /\ \A m \in BlockNo : m # 1 => disk'[m] = disk[m]
    BY <1>1, <1>4, <2>1, TakesBlock DEF Store
  <2>3. Formatted' = Formatted /\ Files' = Files /\ Mounted' = Mounted
    BY <1>1, <2>1, <2>2, CreateKeeps
  <2>4. ~FileStore!Exists(name) /\ Len(Files) < POINTERS_PER_ENT * DIRENTS_PER_BLOCK
    BY <1>1, FoundByName, DirectoryFull
  <2>5. FileStore!Begin("create", [FileStore!NoReq EXCEPT !.name = name]) /\ Phase = "idle"
    BY <1>1, <1>4, CreateRequest
  <2> QED BY <1>1, <2>2, <2>3, <2>4, <2>5 DEF FileStore!CreateBegin
<1> QED BY <1>3, <1>4 DEF CreateInNewBlock, GoAstray

(* A file of the next state, from its entry.                                *)
LEMMA FileLater ==
  ASSUME NEW n \in Slot, RootDir'.blk[0] = 2
  PROVE  File(n)' = [name |-> AsDir(disk'[2])[n].name,
                     data |-> FileBytes(disk', AsDir(disk'[2])[n], 0, AsDir(disk'[2])[n].size)]
<1>1. n \div DIRENTS_PER_BLOCK = 0 /\ n % DIRENTS_PER_BLOCK = n
  BY LayoutAssumption DEF Slot
<1>2. EntryAt(disk', RootDir', n) = AsDir(disk'[2])[n]
  BY <1>1 DEF EntryAt
<1> QED BY <1>2 DEF File

(* fs_create writes the entry: the client sees it when the call returns.    *)
LEMMA StoreDirentWritten ==
  ASSUME Store, CreateDirent, AppendedIsLast'
  PROVE  UNCHANGED FileStore!vars
<1> USE LayoutAssumption
<1> DEFINE k == rootSB.size
<1>1. /\ pc = "dirent" /\ pc' = "super" /\ Mounted /\ Mounted' /\ frame' = frame /\ ret' = ret
      /\ k \in Nat /\ rootSB'.size = k + 1 /\ rootSB'.blk = rootSB.blk /\ rootSB \in Superblock
      /\ disk'[0] = disk[0] /\ SharingInv /\ TypeInv /\ 0 \in BlockNo /\ 1 \in BlockNo
  BY CreateDirentEntries, ImageTypes
  DEF CreateDirent, Store, ContentsInv, DirectoryInv, SharingInv, CallSound, Superblock, Mounted
<1>2. /\ Root(disk)' = Root(disk) /\ RootDir = rootSB /\ RootDir' = rootSB' /\ OneBlock
      /\ Root(disk).magic
  BY <1>1 DEF Root, RootDir, Store, VolumeInv
<1>3. NewBlk = 0 /\ NewSlot = k /\ rootSB.blk[0] = 2
  <2>1. (rootSB'.size - 1) % DIRENTS_PER_BLOCK = rootSB'.size - 1
    BY <1>1 DEF AppendedIsLast, EntAssertion
  <2>2. k < DIRENTS_PER_BLOCK
    BY <1>1, <2>1
  <2> QED BY <1>1, <1>2, <2>2 DEF NewBlk, NewSlot, OneBlock
<1>4. /\ 2 \in BlockNo /\ disk'[2].kind = "dir" /\ \A m \in BlockNo : m # 2 => disk'[m] = disk[m]
  BY <1>1, <1>3, CreateDirentEntries, CreateDirentBlock
<1>5. Listed = k /\ Listed' = k
  BY <1>1, <1>2 DEF Listed
<1>6. Files' = Files
  <2>1. CASE k = 0
    BY <1>5, <2>1 DEF Files
  <2>2. CASE k > 0
    <3>1. disk[2].kind = "dir" /\ \A n \in 0 .. k - 1 : n \in Slot
      BY <1>1, <1>2, <2>2, DirectoryView DEF Store
    <3>2. 0 \in Ptr
      BY DEF Ptr
    <3>3. ASSUME NEW n \in 0 .. k - 1 PROVE AsDir(disk'[2])[n] = DirEntry(n)
      <4>1. n \in Slot /\ n # NewSlot /\ NewSlot # 0
        BY <1>1, <1>3, <2>2, <3>1
      <4>2. SlotEntry(disk', rootSB', 0, n) = SlotEntry(disk, rootSB, 0, n)
        BY <1>1, <1>3, <4>1, CreateDirentEntries
      <4> QED BY <1>1, <1>3, <4>2 DEF SlotEntry, DirEntry
    <3>4. \A m \in DataPtr : AsData(disk'[m]) = AsData(disk[m])
      <4>1. ASSUME NEW m \in DataPtr PROVE AsData(disk'[m]) = AsData(disk[m])
        BY <1>4, <3>1 DEF AsData, DataPtr
      <4> QED BY <4>1
    <3>5. Listed > 0 => RootDir'.blk[0] = 2
      BY <1>1, <1>2, <1>3
    <3> QED BY <1>1, <1>2, <1>5, <3>3, <3>4, <3>5, FilesKept DEF Store
  <2> QED BY <1>1, <2>1, <2>2
<1>7. Free' = Free
  <2>1. disk'[1] = disk[1]
    BY <1>1, <1>4
  <2>2. FreeBlocks(disk', Root(disk)) = FreeBlocks(disk, Root(disk))
    BY <2>1 DEF FreeBlocks
  <2> QED BY <1>1, <1>2, <2>2 DEF Free
<1>8. Phase' = Phase /\ Request' = Request /\ Result' = Result /\ Mounted' = Mounted
      /\ Formatted' = Formatted
  <2>1. Mounted \in BOOLEAN /\ Mounted' \in BOOLEAN
    <3>1. rootSB' = [rootSB EXCEPT !.size = @ + 1]
      BY DEF CreateDirent
    <3> QED BY <1>1, <3>1 DEF Mounted, Superblock
  <2> QED BY <1>1, <1>2, <2>1 DEF Phase, Request, Result, Formatted
<1> QED BY <1>6, <1>7, <1>8 DEF FileStore!vars

LEMMA SeqOfFunction ==
  ASSUME NEW S, NEW k \in Nat, NEW f \in [1 .. k -> S]
  PROVE  f \in Seq(S) /\ Len(f) = k
  OBVIOUS

LEMMA StoreCreateEnds ==
  ASSUME Store, CreateSuper
  PROVE  FileStore!CreateEnd
<1> USE LayoutAssumption
<1> DEFINE k == rootSB.size
           x == [name |-> frame.name, data |-> <<>>]
<1>1. /\ pc = "super" /\ pc' = "idle" /\ Mounted /\ rootSB' = rootSB /\ rootSB \in Superblock
      /\ SharingInv /\ TypeInv /\ 0 \in BlockNo /\ 1 \in BlockNo /\ Root(disk) \in Superblock
      /\ k = Root(disk).size + 1
  BY ImageTypes
  DEF CreateSuper, Return, ReturnWith, Store, ContentsInv, DirectoryInv, SharingInv, CallSound, Coherent
<1>2. /\ disk'[0] = SuperBlock(rootSB) /\ \A m \in BlockNo : m # 0 => disk'[m] = disk[m]
  BY <1>1, OtherBlocks DEF CreateSuper
<1>3. /\ Root(disk)' = rootSB /\ RootDir = rootSB /\ RootDir' = rootSB
      /\ Root(disk).magic /\ Mounted' = Mounted /\ rootSB.magic
  <2>1. Root(disk)' = rootSB
    BY <1>2 DEF Root, AsSuper, SuperBlock
  <2>2. Mounted' = Mounted /\ rootSB.magic
    BY <1>1 DEF Mounted
  <2>3. RootDir = rootSB /\ RootDir' = rootSB
    BY <1>1, <2>2 DEF RootDir
  <2> QED BY <1>1, <2>1, <2>2, <2>3 DEF Store, VolumeInv
<1>4. k \in Nat \ {0} /\ Listed = k - 1 /\ Listed' = k
  BY <1>1, <1>3 DEF Listed, Superblock
<1>5. /\ 2 \in BlockNo /\ rootSB.blk[0] = 2
      /\ \A n \in 0 .. k - 1 : n \in Slot /\ DirEntry(n) \in Dirent
  BY <1>1, <1>3, <1>4, DirectoryView DEF Store
<1>6. \A n : AsDir(disk'[2])[n] = DirEntry(n)
  BY <1>2, <1>5 DEF DirEntry
<1>7. \A m \in DataPtr : AsData(disk'[m]) = AsData(disk[m])
  <2>1. ASSUME NEW m \in DataPtr PROVE AsData(disk'[m]) = AsData(disk[m])
    <3>1. disk[0].kind # "data" /\ disk'[0].kind # "data"
      BY <1>2 DEF Store, ContentsInv, SizeKept, SuperBlock
    <3> QED BY <1>2, <3>1 DEF AsData, DataPtr
  <2> QED BY <2>1
<1>8. ASSUME NEW n \in 0 .. k - 1
      PROVE  File(n)' = [name |-> DirEntry(n).name,
                         data |-> FileBytes(disk, DirEntry(n), 0, DirEntry(n).size)]
  <2>1. File(n)' = [name |-> AsDir(disk'[2])[n].name,
                    data |-> FileBytes(disk', AsDir(disk'[2])[n], 0, AsDir(disk'[2])[n].size)]
    BY <1>3, <1>5, FileLater
  <2>2. FileBytes(disk', DirEntry(n), 0, DirEntry(n).size)
          = FileBytes(disk, DirEntry(n), 0, DirEntry(n).size)
    BY <1>5, <1>7, SameBytes
  <2> QED BY <1>6, <2>1, <2>2
<1>9. /\ DOMAIN Files' = 1 .. k /\ Files' = [j \in 1 .. k |-> File(j - 1)']
      /\ DOMAIN Files = 1 .. k - 1 /\ Len(Files) = k - 1
      /\ Files = [j \in 1 .. k - 1 |-> File(j - 1)]
  BY <1>4 DEF Files
<1>10. \A j \in 1 .. k - 1 : Files'[j] = Files[j]
  <2> SUFFICES ASSUME NEW j \in 1 .. k - 1 PROVE Files'[j] = Files[j]
    OBVIOUS
  <2>1. j - 1 \in 0 .. k - 1 /\ j - 1 \in 0 .. Listed - 1 /\ (j - 1) + 1 = j
    BY <1>4
  <2>2. Files[(j - 1) + 1] = [name |-> DirEntry(j - 1).name,
                    data |-> FileBytes(disk, DirEntry(j - 1), 0, DirEntry(j - 1).size)]
    BY <1>1, <1>3, <2>1, FilesView DEF Store
  <2>3. Files'[j] = File(j - 1)'
    BY <1>4, <1>9
  <2> QED BY <1>8, <2>1, <2>2, <2>3
<1>11. Files'[k] = x
  <2>1. k - 1 \in 0 .. k - 1
    BY <1>4
  <2>2. DirEntry(k - 1).name = frame.name /\ DirEntry(k - 1).size = 0
    BY <1>1 DEF Store, StoreInv
  <2>3. FileBytes(disk, DirEntry(k - 1), 0, 0) = <<>>
    BY DEF FileBytes
  <2> QED BY <1>4, <1>8, <1>9, <2>1, <2>2, <2>3
<1>12. Files' = Append(Files, x)
  <2> DEFINE S == {Files'[j] : j \in 1 .. k}
  <2>1. Files' \in Seq(S) /\ Len(Files') = k
    <3>1. Files' \in [1 .. k -> S]
      BY <1>9
    <3> HIDE DEF S
    <3> QED BY <1>4, <3>1, SeqOfFunction
  <2>2. Files \in Seq(S) /\ Len(Files) = k - 1
    <3>1. \A j \in 1 .. k - 1 : j \in 1 .. k /\ Files[j] \in S
      BY <1>4, <1>10
    <3>2. Files \in [1 .. k - 1 -> S] /\ k - 1 \in Nat
      <4>1. Files = [j \in 1 .. k - 1 |-> Files[j]]
        BY <1>9
      <4>2. k - 1 \in Nat
        BY <1>4
      <4> HIDE DEF S, k
      <4> QED BY <3>1, <4>1, <4>2
    <3> HIDE DEF S
    <3> QED BY <3>2, SeqOfFunction
  <2>3. x \in S
    BY <1>4, <1>11
  <2> HIDE DEF S, x
  <2>4. /\ Append(Files, x) \in Seq(S) /\ Len(Append(Files, x)) = Len(Files) + 1
        /\ \A i \in 1 .. Len(Files) : Append(Files, x)[i] = Files[i]
        /\ Append(Files, x)[Len(Files) + 1] = x
    BY <2>2, <2>3, AppendProperties
  <2>5. \A i \in 1 .. k : Append(Files, x)[i] = Files'[i]
    BY <1>4, <1>10, <1>11, <2>2, <2>4 DEF x
  <2>6. Len(Append(Files, x)) = k
    BY <1>4, <2>2, <2>4
  <2> HIDE DEF k
  <2> QED BY <2>1, <2>4, <2>5, <2>6, SeqEqual
<1>13. Free' = Free
  <2>1. disk'[1] = disk[1]
    BY <1>1, <1>2
  <2>2. rootSB.nblocks = Root(disk).nblocks
    BY <1>1 DEF Store, ContentsInv, DirectoryInv, Coherent
  <2> QED BY <1>1, <1>3, <2>1, <2>2 DEF Free, FreeBlocks
<1>14. Formatted' = Formatted /\ Phase = "create"
  BY <1>1, <1>3 DEF Formatted, Phase, Superblock
<1>15. FileStore!Return("create", Request.name, Len(Files))
  <2>1. Request.name = frame.name /\ Len(Files) = rootSB.size - 1
    BY <1>9 DEF Request
  <2> QED BY <2>1, Returns DEF CreateSuper
<1>16. Request.name = frame.name
  BY DEF Request
<1> QED BY <1>3, <1>12, <1>13, <1>14, <1>15, <1>16 DEF FileStore!CreateEnd

-----------------------------------------------------------------------------
(* fs_write.                                                                *)

(* fs_write finds the entry and begins, or refuses. *)
LEMMA StoreWriteBegins ==
  ASSUME Store, NEW inumber \in EntryNumbers(rootSB), NEW offset \in Offsets,
         NEW data \in Payloads, WriteCall(inumber, data, offset)
  PROVE  FileStore!WriteBegin(inumber, data, offset) \/ FileStore!WriteRefused(inumber, data, offset)
<1> DEFINE de == DirEntry(inumber)
           old == Files[inumber + 1].data
           f == [NoFrame EXCEPT !.inumber = inumber, !.dirent = de, !.data = data,
                                !.offset = offset, !.cur = offset]
<1>1. pc = "idle" /\ Mounted /\ offset \in Nat
  BY ClientAssumption DEF WriteCall
<1>2. /\ Readable(inumber) /\ LoadDirent(inumber) = de
      /\ inumber \in Nat
      /\ de.isvalid <=> inumber \in FileStore!Ids
  BY <1>1, EntryLoaded
<1>3. /\ disk' = disk /\ rootSB' = rootSB
      /\ IF CanWrite(de, Len(data), offset)
         THEN Begin("write", f)
         ELSE Return("write", <<inumber, Len(data), offset>>, -1)
  BY <1>2 DEF WriteCall, disk_read
<1>4. /\ Root(disk)' = Root(disk) /\ Mounted' = Mounted /\ pc' \in {"write", "idle"}
      /\ Phase = "idle"
  BY <1>1, <1>3 DEF Root, Mounted, Begin, Return, ReturnWith, Phase
<1>5. Formatted' = Formatted /\ Files' = Files /\ Mounted' = Mounted
  BY <1>1, <1>3, <1>4, CreateKeeps
<1>6. Free' = Free
  BY <1>1, <1>3, <1>4 DEF Free
<1>7. inumber \in FileStore!Ids => Len(old) = de.size
  BY <1>1, MountedView
<1>8. CASE CanWrite(de, Len(data), offset)
  <2>1. /\ inumber \in FileStore!Ids /\ offset <= Len(old) /\ Len(old) + Len(data) <= MaxFileSize
    <3> HIDE DEF de, old
    <3> QED BY <1>2, <1>7, <1>8 DEF CanWrite
  <2>2. /\ f.name = NoName /\ f.inumber = inumber /\ f.data = data /\ f.offset = offset
        /\ f.cur = offset
    BY DEF NoFrame
  <2>3. Begin("write", f)
    BY <1>3, <1>8
  <2> HIDE DEF f
  <2>4. /\ Phase' = "write" /\ Result' = FileStore!NoCall
        /\ Request' = [name |-> f.name, id |-> f.inumber, data |-> f.data,
                       offset |-> f.offset, done |-> f.cur - f.offset]
    BY <2>3, Begins
  <2>5. Request' = [FileStore!NoReq EXCEPT !.id = inumber, !.data = data, !.offset = offset]
    <3>1. f.cur - f.offset = 0
      BY <1>1, <2>2
    <3>2. Request' = [name |-> NoName, id |-> inumber, data |-> data, offset |-> offset, done |-> 0]
      BY <2>2, <2>4, <3>1
    <3> DEFINE r == FileStore!NoReq
               F == {"name", "id", "data", "offset", "done"}
    <3> HIDE DEF de, old
    <3>3. r \in [F -> {r[x] : x \in F}]
      BY DEF FileStore!NoReq
    <3>4. [r EXCEPT !.id = inumber, !.data = data, !.offset = offset] =
            [x \in F |-> IF x = "offset" THEN offset ELSE IF x = "data" THEN data
                         ELSE IF x = "id" THEN inumber ELSE r[x]]
      BY <3>3
    <3> QED BY <3>2, <3>4 DEF FileStore!NoReq
  <2> QED BY <1>1, <1>4, <1>5, <1>6, <2>1, <2>4, <2>5 DEF FileStore!WriteBegin, FileStore!Begin
<1>9. CASE ~CanWrite(de, Len(data), offset)
  <2>1. \/ inumber \notin FileStore!Ids
        \/ offset > Len(old)
        \/ Len(old) + Len(data) > MaxFileSize
    <3>1. data \in Seq(Byte)
      BY ClientAssumption
    <3>2. inumber \in FileStore!Ids => de.size \in Nat
      <4>1. inumber \in FileStore!Ids => de \in Dirent
        BY <1>1, MountedView
      <4> QED BY <4>1, LayoutAssumption DEF Dirent, MaxFileSize
    <3>3. MaxFileSize \in Nat
      BY LayoutAssumption DEF MaxFileSize
    <3> HIDE DEF de, old
    <3> QED BY <1>1, <1>2, <1>7, <1>9, <3>1, <3>2, <3>3 DEF CanWrite
  <2>2. FileStore!Return("write", <<inumber, Len(data), offset>>, -1)
    BY <1>3, <1>9, Returns
  <2> QED BY <1>1, <1>4, <1>5, <1>6, <2>1, <2>2 DEF FileStore!WriteRefused
<1> QED BY <1>8, <1>9

(* While fs_write is under way. *)
LEMMA WriteRequest ==
  ASSUME Store, pc = "write"
  PROVE  /\ Phase = "write" /\ Request.id = frame.inumber /\ Request.data = frame.data
         /\ Request.offset = frame.offset /\ Request.done = frame.cur - frame.offset
         /\ FileStore!Written = Written
         /\ frame.cur \in Nat /\ frame.offset \in Nat /\ Len(frame.data) \in Nat
         /\ frame.offset <= frame.cur /\ frame.cur <= frame.offset + Len(frame.data)
         /\ WriteEnd = frame.offset + Len(frame.data) /\ WriteEnd <= MaxFileSize
         /\ MaxFileSize \in Nat /\ frame.data \in Seq(Byte)
         /\ frame.cur < WriteEnd <=> Request.done < Len(Request.data)
         /\ frame.cur >= WriteEnd => /\ Request.done = Len(Request.data)
                                     /\ frame.cur = frame.offset + Len(frame.data)
<1>1. TypeInv
  BY DEF Store, ContentsInv, DirectoryInv, SharingInv
<1>2. /\ frame.cur \in Nat /\ frame.offset \in Nat /\ Len(frame.data) \in Nat
      /\ frame.offset <= frame.cur /\ frame.cur <= frame.offset + Len(frame.data)
      /\ WriteEnd = frame.offset + Len(frame.data) /\ WriteEnd <= MaxFileSize
      /\ MaxFileSize \in Nat /\ frame.data \in Seq(Byte)
  BY <1>1, LayoutAssumption DEF TypeInv, ImageInv, TypeOK, InWrite, Frame, WriteEnd, MaxFileSize
<1>3. /\ Phase = "write" /\ Request.id = frame.inumber /\ Request.data = frame.data
      /\ Request.offset = frame.offset /\ Request.done = frame.cur - frame.offset
  BY DEF Phase, Request
<1>4. FileStore!Written = Written
  BY <1>3 DEF FileStore!Written, Written
<1> QED BY <1>2, <1>3, <1>4

LEMMA StoreWriteTakes ==
  ASSUME Store, MaxBlocks <= BLOCKSIZE, WriteAlloc
  PROVE  FileStore!WriteTakesBlock \/ FileStore!WriteFails
<1> DEFINE b == alloc_block(disk, rootSB)
<1>1. /\ pc = "write" /\ frame.cur < WriteEnd /\ ContentsInv /\ VolumeInv
      /\ TypeInv /\ CurPtr \in Ptr
  BY WritePlace DEF WriteAlloc, TypeInv, Store, ContentsInv, DirectoryInv, SharingInv
<1>2. /\ Mounted /\ Root(disk).magic /\ RootDir = rootSB /\ Listed = rootSB.size
      /\ rootSB.blk[0] = 2 /\ 1 \in BlockNo /\ 2 \in BlockNo
  BY <1>1, WriteView
<1>3. /\ Phase = "write" /\ Request.done < Len(Request.data) /\ FileStore!Written = Written
  BY <1>1, WriteRequest
<1>4. ASSUME rootSB' = rootSB, pc' # "super", Root(disk)' = Root(disk),
             \A m \in BlockNo : m # 1 => disk'[m] = disk[m]
      PROVE  Formatted' = Formatted /\ Files' = Files /\ Mounted' = Mounted
  <2>1. RootDir' = rootSB /\ Listed' = Listed /\ Mounted' = Mounted
    BY <1>2, <1>4 DEF RootDir, Mounted, Listed
  <2>2. \A n \in 0 .. Listed - 1 : AsDir(disk'[2])[n] = DirEntry(n)
    BY <1>2, <1>4 DEF DirEntry
  <2>3. \A m \in DataPtr : AsData(disk'[m]) = AsData(disk[m])
    BY <1>4 DEF DataPtr
  <2>4. Listed > 0 => RootDir'.blk[0] = 2
    BY <1>2, <2>1
  <2>5. Files' = Files
    BY <1>1, <1>2, <2>1, <2>2, <2>3, <2>4, FilesKept
  <2> QED BY <1>4, <2>1, <2>5 DEF Formatted
<1>5. CASE /\ b = NOBLOCK /\ disk_read /\ Return("write", Written, -1) /\ UNCHANGED <<nblocks, rootSB>>
  <2>1. /\ disk' = disk /\ pc' = "idle" /\ rootSB' = rootSB
    BY <1>5 DEF disk_read, Return, ReturnWith
  <2>2. Formatted' = Formatted /\ Files' = Files /\ Mounted' = Mounted
    BY <1>4, <2>1 DEF Root
  <2>3. Free' = Free /\ Free = 0
    BY <1>1, <1>2, <1>5, <2>1, NoFreeBlock DEF Free, Root
  <2>4. FileStore!Return("write", Written, -1)
    BY <1>5, Returns
  <2> QED BY <1>3, <2>2, <2>3, <2>4 DEF FileStore!WriteFails
<1>6. CASE /\ b # NOBLOCK /\ disk_write(1, Marked(b)) /\ frame' = [frame EXCEPT !.dirent.blk[CurPtr] = b]
           /\ UNCHANGED <<nblocks, rootSB, pc, ret>>
  <2>1. /\ Free \in Nat /\ Free > 0 /\ Free' = Free - 1
        /\ Root(disk)' = Root(disk) /\ \A m \in BlockNo : m # 1 => disk'[m] = disk[m]
    BY <1>1, <1>2, <1>6, TakesBlock
  <2>2. Formatted' = Formatted /\ Files' = Files /\ Mounted' = Mounted
    BY <1>1, <1>4, <1>6, <2>1
  <2>3. Phase' = Phase /\ Result' = Result /\ Request' = Request
    <3> HIDE DEF b
    <3>1. /\ frame'.name = frame.name /\ frame'.inumber = frame.inumber /\ frame'.data = frame.data
          /\ frame'.offset = frame.offset /\ frame'.cur = frame.cur
      BY <1>1, <1>6 DEF TypeInv, ImageInv, TypeOK, Frame
    <3> QED BY <1>6, <3>1 DEF Phase, Result, Request
  <2> QED BY <1>3, <2>1, <2>2, <2>3 DEF FileStore!WriteTakesBlock
<1> QED BY <1>5, <1>6 DEF WriteAlloc

(* Only the bytes of the file written change. *)
LEMMA OneFileChanged ==
  ASSUME Store, pc = "write", Listed' = Listed, NEW X,
         \A n \in 0 .. Listed - 1 : n # frame.inumber => File(n)' = Files[n + 1],
         \A n \in 0 .. Listed - 1 : n = frame.inumber =>
           File(n)' = [name |-> DirEntry(n).name, data |-> X]
  PROVE  Files' = [Files EXCEPT ![Request.id + 1].data = X]
<1> DEFINE id == frame.inumber
           new == [Files EXCEPT ![id + 1].data = X]
<1>1. /\ id \in 0 .. Listed - 1 /\ Root(disk).magic /\ Listed \in Nat
      /\ ContentsInv /\ VolumeInv
  BY WriteView, LayoutAssumption DEF Store
<1>2. /\ Files = [j \in 1 .. Listed |-> Files[j]]
      /\ Files[id + 1] = [name |-> DirEntry(id).name,
                          data |-> FileBytes(disk, DirEntry(id), 0, DirEntry(id).size)]
  <2>1. Files = [j \in 1 .. Listed |-> Files[j]]
    BY DEF Files
  <2> QED BY <1>1, <2>1, FilesView
<1>3. Files' = [j \in 1 .. Listed |-> File(j - 1)']
  BY DEF Files
<1>4. ASSUME NEW j \in 1 .. Listed PROVE File(j - 1)' = new[j]
  <2>1. j - 1 \in 0 .. Listed - 1 /\ (j - 1) + 1 = j /\ id + 1 \in 1 .. Listed
    BY <1>1
  <2>2. CASE j = id + 1
    <3>1. new[j] = [Files[id + 1] EXCEPT !.data = X]
      BY <1>2, <2>1, <2>2
    <3>3. j - 1 = id
      BY <1>1, <2>2
    <3>2. [Files[id + 1] EXCEPT !.data = X] = [name |-> DirEntry(id).name, data |-> X]
      BY <1>2
    <3>4. File(j - 1)' = [name |-> DirEntry(j - 1).name, data |-> X]
      BY <2>1, <3>3
    <3> HIDE DEF new, id
    <3> QED BY <3>1, <3>2, <3>3, <3>4
  <2>3. CASE j # id + 1
    <3>1. new[j] = Files[j] /\ j - 1 # id
      BY <1>1, <1>2, <2>1, <2>3
    <3>2. File(j - 1)' = Files[(j - 1) + 1]
      BY <2>1, <3>1
    <3> QED BY <2>1, <3>1, <3>2
  <2> QED BY <2>2, <2>3
<1>5. new = [j \in 1 .. Listed |-> new[j]]
  BY <1>2
<1>6. Files' = new
  <2> HIDE DEF new
  <2> QED BY <1>3, <1>4, <1>5
<1> QED BY <1>6, WriteRequest

(* The file that fs_write works on, and the bytes of it that have passed.   *)
LEMMA WriteOld ==
  ASSUME Store, pc = "write", NEW n \in 0 .. Listed - 1, n = frame.inumber
  PROVE  LET old == Files[Request.id + 1].data
         IN  /\ old = FileBytes(disk, DirEntry(n), 0, frame.dirent.size)
             /\ DirEntry(n).size = frame.dirent.size
             /\ Len(old) = frame.dirent.size /\ frame.dirent.size \in 0 .. MaxFileSize
             /\ old = [k \in 1 .. frame.dirent.size |-> old[k]]
             /\ \A k \in 1 .. frame.dirent.size :
                  /\ k - 1 \in 0 .. frame.dirent.size - 1
                  /\ old[k] = AsData(disk[frame.dirent.blk[(k - 1) \div BLOCKSIZE]])[(k - 1) % BLOCKSIZE]
<1> DEFINE old == Files[Request.id + 1].data
           de == frame.dirent
<1>1. /\ Request.id = n /\ DirEntry(n).size = de.size /\ Root(disk).magic
      /\ de.size \in 0 .. MaxFileSize /\ de.size \in Nat
      /\ ContentsInv /\ VolumeInv
  BY WriteRequest, WriteView, LayoutAssumption DEF Store, Dirent, MaxFileSize
<1>2. old = FileBytes(disk, DirEntry(n), 0, de.size)
  BY <1>1, FilesView
<1>3. ASSUME NEW k \in 1 .. de.size
      PROVE  /\ k - 1 \in 0 .. de.size - 1
             /\ old[k] = AsData(disk[de.blk[(k - 1) \div BLOCKSIZE]])[(k - 1) % BLOCKSIZE]
  <2>1. k - 1 \in 0 .. de.size - 1 /\ 0 + k - 1 = k - 1
    BY <1>1
  <2>2. old[k] = AsData(disk[DirEntry(n).blk[(0 + k - 1) \div BLOCKSIZE]])[(0 + k - 1) % BLOCKSIZE]
    BY <1>2 DEF FileBytes
  <2>3. DirEntry(n).blk[(k - 1) \div BLOCKSIZE] = de.blk[(k - 1) \div BLOCKSIZE]
    BY <1>1, <2>1, WriteBlocksKnown
  <2> QED BY <2>1, <2>2, <2>3
<1>4. Len(old) = de.size /\ old = [k \in 1 .. de.size |-> old[k]]
  <2> DEFINE S == de.size
             bytes == FileBytes(disk, DirEntry(n), 0, S)
  <2> HIDE DEF S, old
  <2>1. S \in Nat /\ old = bytes
    BY <1>1, <1>2 DEF S
  <2>2. bytes = [k \in 1 .. S |-> bytes[k]]
    BY DEF FileBytes
  <2> HIDE DEF bytes
  <2>3. bytes \in Seq({bytes[k] : k \in 1 .. S}) /\ Len(bytes) = S
    BY <2>1, <2>2, SeqOfFunction
  <2> QED BY <2>1, <2>2, <2>3 DEF S
<1> QED BY <1>1, <1>2, <1>3, <1>4

LEMMA WriteOthers ==
  ASSUME Store, WriteBlock, NEW n \in 0 .. Listed - 1, n # frame.inumber
  PROVE  FileBytes(disk', DirEntry(n), 0, DirEntry(n).size)
           = FileBytes(disk, DirEntry(n), 0, DirEntry(n).size)
<1> DEFINE b == frame.dirent.blk[CurPtr]
           de == DirEntry(n)
<1>1. /\ pc = "write" /\ ContentsInv /\ VolumeInv /\ SharingInv
      /\ b # 0 /\ \A m \in BlockNo : m # b => disk'[m] = disk[m]
      /\ CurPtr \in Ptr
  <2>1. ContentsInv /\ VolumeInv /\ DirectoryInv /\ SharingInv
    BY DEF Store, ContentsInv, DirectoryInv
  <2>2. ~Abort
    BY <2>1, AccessesOnDisk
  <2> QED BY <2>1, <2>2, WriteBlockPlace DEF WriteBlock
<1>2. /\ Root(disk).magic /\ RootDir = rootSB /\ Listed = rootSB.size
  BY <1>1, WriteView
<1>3. de \in Dirent
  BY <1>1, <1>2, DirectoryView
<1>4. ASSUME NEW k \in 1 .. de.size
      PROVE  disk'[de.blk[(0 + k - 1) \div BLOCKSIZE]] = disk[de.blk[(0 + k - 1) \div BLOCKSIZE]]
  <2> DEFINE q == (0 + k - 1) \div BLOCKSIZE
  <2>1. de.size \in 0 .. MaxFileSize /\ 0 + k - 1 \in 0 .. de.size - 1
    BY <1>3, LayoutAssumption DEF Dirent, MaxFileSize
  <2>2. q \in Ptr
    BY <2>1, BytePlace
  <2> HIDE DEF q
  <2>3. de.blk[q] # b /\ de.blk[q] \in BlockNo
    <3>1. de.blk[q] \in DataPtr
      BY <1>3, <2>2 DEF Dirent
    <3>2. de.blk[q] # b
      BY <1>1, <1>2, <2>2, WriteView
    <3> QED BY <3>1, <3>2 DEF DataPtr
  <2>4. disk'[de.blk[q]] = disk[de.blk[q]]
    BY <1>1, <2>3
  <2> QED BY <2>4 DEF q
<1> DEFINE x == FileBytes(disk', de, 0, de.size)
           y == FileBytes(disk, de, 0, de.size)
<1> HIDE DEF de
<1>5. x = [k \in 1 .. de.size |-> x[k]] /\ y = [k \in 1 .. de.size |-> y[k]]
  BY DEF FileBytes
<1>6. ASSUME NEW k \in 1 .. de.size PROVE x[k] = y[k]
  <2>1. x[k] = AsData(disk'[de.blk[(0 + k - 1) \div BLOCKSIZE]])[(0 + k - 1) % BLOCKSIZE]
    BY DEF FileBytes
  <2>2. y[k] = AsData(disk[de.blk[(0 + k - 1) \div BLOCKSIZE]])[(0 + k - 1) % BLOCKSIZE]
    BY DEF FileBytes
  <2> QED BY <1>4, <2>1, <2>2
<1>7. x = y
  <2> HIDE DEF x, y
  <2> QED BY <1>5, <1>6
<1> QED BY <1>7 DEF de

(* The bytes a call has passed, counted from 1 or from 0. *)
LEMMA PassedPlace ==
  ASSUME NEW offset \in Nat, NEW n \in Nat, NEW end, end = offset + n, NEW k \in Int
  PROVE  /\ k \in offset + 1 .. offset + n =>
              k - 1 \in offset .. end - 1 /\ (k - 1) - offset + 1 = k - offset
         /\ k \notin offset + 1 .. offset + n =>
              \A cur \in Nat : offset <= cur => k - 1 \notin cur .. end - 1
OBVIOUS

LEMMA StoreWriteSome ==
  ASSUME Store, WriteBlock
  PROVE  FileStore!WriteSome
<1> USE LayoutAssumption
<1> DEFINE n == frame.cur + nCopy - frame.offset
           old == Files[Request.id + 1].data
           X == FileStore!Overlay(old, Request.data, n, Request.offset, FALSE)
           de == frame.dirent
<1>1. /\ pc = "write" /\ pc' = "write" /\ ContentsInv /\ VolumeInv /\ TypeInv /\ SharingInv
      /\ Root(disk)' = Root(disk) /\ rootSB' = rootSB /\ ret' = ret /\ frame.cur < WriteEnd
      /\ de.blk[CurPtr] # 0 /\ CurPtr \in Ptr
      /\ \A m \in BlockNo : m # de.blk[CurPtr] => disk'[m] = disk[m]
  <2>1. ContentsInv /\ VolumeInv /\ DirectoryInv /\ SharingInv /\ TypeInv
    BY DEF Store, ContentsInv, DirectoryInv, SharingInv
  <2>2. ~Abort
    BY <2>1, AccessesOnDisk
  <2> QED BY <2>1, <2>2, WriteBlockPlace DEF WriteBlock, Abort
<1>2. /\ Mounted /\ Root(disk).magic /\ RootDir = rootSB /\ Listed = rootSB.size
      /\ rootSB.blk[0] = 2 /\ 1 \in BlockNo /\ 2 \in BlockNo /\ rootSB.size \in Nat
      /\ de.blk[CurPtr] # 2 /\ frame.inumber \in 0 .. Listed - 1
  BY <1>1, WriteView
<1>3. /\ RootDir' = rootSB /\ Listed' = Listed /\ Mounted' = Mounted /\ Formatted' = Formatted
      /\ \A i \in 0 .. Listed - 1 : i \in Slot /\ AsDir(disk'[2])[i] = DirEntry(i)
  <2>1. RootDir' = rootSB /\ Listed' = Listed /\ Mounted' = Mounted /\ Formatted' = Formatted
    BY <1>1, <1>2 DEF RootDir, Mounted, Listed, Formatted
  <2>2. disk'[2] = disk[2]
    BY <1>1, <1>2
  <2>3. \A i \in 0 .. Listed - 1 : i \in Slot
    BY <1>1, <1>2, DirectoryView
  <2> QED BY <2>1, <2>2, <2>3 DEF DirEntry
<1>4. Free' = Free
  <2>1. de.blk[CurPtr] # 1
    <3>1. de \in Dirent
      BY <1>1, WriteView
    <3> QED BY <1>1, <3>1 DEF Dirent, DataPtr
  <2>2. disk'[1] = disk[1]
    BY <1>1, <1>2, <2>1
  <2>3. FreeBlocks(disk', Root(disk)) = FreeBlocks(disk, Root(disk))
    BY <2>2 DEF FreeBlocks
  <2> QED BY <1>1, <2>3 DEF Free
<1>5. /\ frame'.name = frame.name /\ frame'.inumber = frame.inumber /\ frame'.data = frame.data
      /\ frame'.offset = frame.offset /\ frame'.cur = frame.cur + nCopy /\ frame'.dirent = de
  BY <1>1 DEF WriteBlock, Abort, Die, TypeInv, ImageInv, TypeOK, Frame
<1>6. /\ nCopy \in Nat \ {0} /\ frame.cur + nCopy <= WriteEnd
      /\ frame.cur \in Nat /\ frame.offset \in Nat /\ frame.offset <= frame.cur
      /\ WriteEnd = frame.offset + Len(frame.data) /\ WriteEnd <= MaxFileSize
      /\ MaxFileSize \in Nat /\ Len(frame.data) \in Nat
      /\ Request.data = frame.data /\ Request.offset = frame.offset
      /\ Request.done = frame.cur - frame.offset /\ Phase = "write"
  BY <1>1, WritePlace, WriteRequest DEF TypeInv
<1>7. n \in Request.done + 1 .. Len(Request.data) /\ Request.offset + n = frame.cur + nCopy
      /\ n \in Nat
  BY <1>6
<1>8. Request' = [Request EXCEPT !.done = n] /\ Phase' = Phase /\ Result' = Result
  <2>1. Request' = [Request EXCEPT !.done = n]
    <3>1. frame'.cur - frame'.offset = n
      BY <1>5, <1>6 DEF n
    <3> DEFINE r == Request
               F == {"name", "id", "data", "offset", "done"}
    <3> HIDE DEF n
    <3>2. r \in [F -> {r[x] : x \in F}]
      BY DEF Request
    <3>3. [r EXCEPT !.done = n] = [x \in F |-> IF x = "done" THEN n ELSE r[x]]
      BY <3>2
    <3>4. Request' = [name |-> frame.name, id |-> frame.inumber, data |-> frame.data,
                      offset |-> frame.offset, done |-> n]
      BY <1>5, <3>1 DEF Request
    <3> QED BY <3>3, <3>4 DEF Request
  <2> QED BY <1>1, <2>1 DEF Phase, Result
<1> HIDE DEF n
<1>9. ASSUME NEW i \in 0 .. Listed - 1
      PROVE  File(i)' = [name |-> DirEntry(i).name,
                         data |-> FileBytes(disk', DirEntry(i), 0, DirEntry(i).size)]
  BY <1>2, <1>3, FileLater
<1>10. ASSUME NEW i \in 0 .. Listed - 1, i # frame.inumber
       PROVE  File(i)' = Files[i + 1]
  <2>1. FileBytes(disk', DirEntry(i), 0, DirEntry(i).size)
          = FileBytes(disk, DirEntry(i), 0, DirEntry(i).size)
    BY <1>10, WriteOthers
  <2> QED BY <1>1, <1>2, <1>9, <2>1, FilesView
<1>11. ASSUME NEW i \in 0 .. Listed - 1, i = frame.inumber
       PROVE  File(i)' = [name |-> DirEntry(i).name, data |-> X]
  <2> DEFINE new == FileBytes(disk', DirEntry(i), 0, de.size)
  <2>1. /\ DirEntry(i).size = de.size /\ de.size \in 0 .. MaxFileSize
        /\ Len(old) = de.size
        /\ \A k \in 1 .. de.size :
             /\ k - 1 \in 0 .. de.size - 1
             /\ old[k] = AsData(disk[de.blk[(k - 1) \div BLOCKSIZE]])[(k - 1) % BLOCKSIZE]
    BY <1>1, <1>11, WriteOld
  <2>2. X = [k \in 1 .. de.size |->
               IF k \in Request.offset + 1 .. Request.offset + n
               THEN Request.data[k - Request.offset] ELSE old[k]]
    <3> HIDE DEF old
    <3> QED BY <2>1 DEF FileStore!Overlay
  <2> HIDE DEF old, X
  <2>3. ASSUME NEW k \in 1 .. de.size
        PROVE  new[k] = IF k \in Request.offset + 1 .. Request.offset + n
                        THEN Request.data[k - Request.offset] ELSE old[k]
    <3> DEFINE pos == k - 1
    <3>1. /\ pos \in 0 .. de.size - 1 /\ pos \in 0 .. MaxFileSize - 1 /\ 0 + k - 1 = pos
      BY <1>6, <2>1
    <3>2. /\ DirEntry(i).blk[pos \div BLOCKSIZE] = de.blk[pos \div BLOCKSIZE]
          /\ de.blk[pos \div BLOCKSIZE] # 0
      BY <1>1, <1>11, <3>1, WriteBlocksKnown
    <3>3. new[k] = AsData(disk'[de.blk[pos \div BLOCKSIZE]])[pos % BLOCKSIZE]
      BY <3>1, <3>2 DEF FileBytes
    <3>4. old[k] = AsData(disk[de.blk[pos \div BLOCKSIZE]])[pos % BLOCKSIZE]
      BY <2>1
    <3> HIDE DEF new
    <3>5. CASE k \in Request.offset + 1 .. Request.offset + n
      <4>1. pos \in frame.offset .. frame.cur + nCopy - 1 /\ pos - frame.offset + 1 = k - frame.offset
        <5>1. k \in frame.offset + 1 .. frame.offset + n /\ frame.offset + n = frame.cur + nCopy
          BY <1>6, <1>7, <3>5
        <5>2. frame.offset \in Nat /\ n \in Nat /\ k \in Int
          BY <1>6, <1>7, <3>1
        <5> DEFINE end == frame.cur + nCopy
        <5> HIDE DEF end
        <5>3. pos \in frame.offset .. end - 1 /\ pos - frame.offset + 1 = k - frame.offset
          BY <5>1, <5>2, PassedPlace DEF end
        <5>4. end = frame.cur + nCopy
          BY DEF end
        <5>5. end \in Nat /\ frame.cur \in Nat /\ nCopy \in Nat /\ frame.offset \in Nat
          BY <1>6, <5>4
        <5> HIDE DEF pos
        <5> QED BY <5>3, <5>4, <5>5
      <4>2. AsData(disk'[de.blk[pos \div BLOCKSIZE]])[pos % BLOCKSIZE] = frame.data[pos - frame.offset + 1]
        <5>1. StoreInv'
          BY StoreWriteBlock DEF Store
        <5>2. \A p \in frame'.offset .. frame'.cur - 1 :
                AsData(disk'[frame'.dirent.blk[p \div BLOCKSIZE]])[p % BLOCKSIZE] =
                  frame'.data[p - frame'.offset + 1]
          BY <1>1, <5>1 DEF StoreInv
        <5>3. pos \in frame'.offset .. frame'.cur - 1
          <6> HIDE DEF pos
          <6> QED BY <1>5, <1>6, <4>1
        <5> HIDE DEF pos
        <5> QED BY <1>5, <5>2, <5>3
      <4> QED BY <1>6, <3>3, <3>5, <4>1, <4>2
    <3>6. CASE k \notin Request.offset + 1 .. Request.offset + n
      <4>1. pos \notin frame.cur .. frame.cur + nCopy - 1
        <5>1. k \notin frame.offset + 1 .. frame.offset + n /\ frame.offset + n = frame.cur + nCopy
          BY <1>6, <1>7, <3>6
        <5>2. frame.offset \in Nat /\ n \in Nat /\ k \in Int /\ frame.cur \in Nat /\ frame.offset <= frame.cur
          BY <1>6, <1>7, <3>1
        <5> DEFINE end == frame.cur + nCopy
        <5> HIDE DEF end
        <5>3. pos \notin frame.cur .. end - 1
          BY <5>1, <5>2, PassedPlace DEF end
        <5>4. end = frame.cur + nCopy
          BY DEF end
        <5>5. end \in Nat /\ frame.cur \in Nat /\ nCopy \in Nat /\ frame.offset \in Nat
          BY <1>6, <5>4
        <5> HIDE DEF pos
        <5> QED BY <5>3, <5>4, <5>5
      <4>2. AsData(disk'[de.blk[pos \div BLOCKSIZE]])[pos % BLOCKSIZE] =
              AsData(disk[de.blk[pos \div BLOCKSIZE]])[pos % BLOCKSIZE]
        <5> HIDE DEF pos
        <5> QED BY <1>1, <3>1, <3>2, <4>1, ByteWritten
      <4> QED BY <3>3, <3>4, <3>6, <4>2
    <3> QED BY <3>5, <3>6
  <2>4. new = [k \in 1 .. de.size |-> new[k]]
    BY DEF FileBytes
  <2>5. new = X
    <3> HIDE DEF new
    <3> QED BY <2>2, <2>3, <2>4
  <2> QED BY <1>9, <2>1, <2>5
<1>12. Files' = [Files EXCEPT ![Request.id + 1].data = X]
  <2> HIDE DEF X
  <2> QED BY <1>1, <1>3, <1>10, <1>11, OneFileChanged
<1> QED BY <1>3, <1>4, <1>6, <1>7, <1>8, <1>12 DEF FileStore!WriteSome

(* When fs_write has passed all its bytes, the blocks it has hold the file  *)
(* the client asked for.                                                    *)
LEMMA WriteWhole ==
  ASSUME Store, pc = "write", frame.cur >= WriteEnd, NEW n \in 0 .. Listed - 1, n = frame.inumber
  PROVE  LET old  == Files[Request.id + 1].data
             X    == FileStore!Overlay(old, Request.data, Request.done, Request.offset, TRUE)
             size == IF frame.cur > frame.dirent.size THEN frame.cur ELSE frame.dirent.size
         IN  /\ X = [k \in 1 .. size |-> X[k]]
             /\ \A k \in 1 .. size :
                  X[k] = AsData(disk[frame.dirent.blk[(k - 1) \div BLOCKSIZE]])[(k - 1) % BLOCKSIZE]
<1> DEFINE old  == Files[Request.id + 1].data
           X    == FileStore!Overlay(old, Request.data, Request.done, Request.offset, TRUE)
           size == IF frame.cur > frame.dirent.size THEN frame.cur ELSE frame.dirent.size
           At(k) == AsData(disk[frame.dirent.blk[(k - 1) \div BLOCKSIZE]])[(k - 1) % BLOCKSIZE]
           cur == frame.cur
           offset == frame.offset
           had == frame.dirent.size
<1>1. /\ Request.data = frame.data /\ Request.offset = offset
      /\ Request.done = Len(frame.data) /\ cur = offset + Len(frame.data)
      /\ cur \in Nat /\ offset \in Nat /\ Len(frame.data) \in Nat /\ offset <= cur
  BY WriteRequest
<1>2. /\ Len(old) = had /\ had \in 0 .. MaxFileSize
      /\ \A k \in 1 .. had : old[k] = At(k)
  BY WriteOld
<1>3. had \in Nat /\ offset <= had
  <2>1. MaxFileSize \in Nat
    BY WriteRequest
  <2>2. offset <= had
    BY DEF Store, VolumeInv, TakesOne
  <2> QED BY <1>2, <2>1, <2>2
<1>4. \A pos \in offset .. cur - 1 :
        AsData(disk[frame.dirent.blk[pos \div BLOCKSIZE]])[pos % BLOCKSIZE] =
          frame.data[pos - offset + 1]
  BY DEF Store, StoreInv
<1>5. X = [k \in 1 .. size |-> IF k \in offset + 1 .. cur THEN frame.data[k - offset] ELSE old[k]]
  <2>1. Request.offset + Request.done = cur
    BY <1>1
  <2> HIDE DEF old, cur, offset, had
  <2>2. X = [k \in 1 .. (IF cur > had THEN cur ELSE had) |->
               IF k \in offset + 1 .. cur THEN frame.data[k - offset] ELSE old[k]]
    BY <1>1, <1>2, <2>1 DEF FileStore!Overlay
  <2> QED BY <2>2 DEF cur, had
<1> HIDE DEF X
<1>6. ASSUME NEW k \in 1 .. size PROVE X[k] = At(k)
  <2>1. size = IF cur > had THEN cur ELSE had
    OBVIOUS
  <2> HIDE DEF old, cur, offset, had, size
  <2>2. k \in Int /\ k >= 1 /\ k <= size /\ size \in Nat
    BY <1>1, <1>3, <2>1
  <2>3. X[k] = IF k \in offset + 1 .. cur THEN frame.data[k - offset] ELSE old[k]
    BY <1>5
  <2>4. CASE k \in offset + 1 .. cur
    <3>1. k - 1 \in offset .. cur - 1 /\ (k - 1) - offset + 1 = k - offset
      BY <1>1, <2>4
    <3>2. At(k) = frame.data[(k - 1) - offset + 1]
      BY <1>4, <3>1
    <3> QED BY <2>3, <2>4, <3>1, <3>2
  <2>5. CASE k \notin offset + 1 .. cur
    <3>1. k \in 1 .. had
      BY <1>1, <1>3, <2>1, <2>2, <2>5
    <3> HIDE DEF At
    <3> QED BY <1>2, <2>3, <2>5, <3>1
  <2> QED BY <2>4, <2>5
<1> HIDE DEF At, size
<1>7. X = [k \in 1 .. size |-> X[k]]
  BY <1>5
<1> QED BY <1>6, <1>7 DEF At, size, X

(* fs_write ends: the dirent is written if the file has grown.              *)
LEMMA StoreWriteEnds ==
  ASSUME Store, WriteDirent, pc' # "astray"
  PROVE  FileStore!WriteEnd
<1> USE LayoutAssumption
<1> DEFINE old == Files[Request.id + 1].data
           X == FileStore!Overlay(old, Request.data, Request.done, Request.offset, TRUE)
           de == frame.dirent
           size == IF frame.cur > de.size THEN frame.cur ELSE de.size
           Later(i) == AsDir(disk'[2])[i]
<1>1. /\ pc = "write" /\ frame.cur >= WriteEnd /\ rootSB' = rootSB
      /\ Return("write", Written, Len(frame.data)) /\ pc' = "idle"
      /\ ContentsInv /\ VolumeInv /\ SharingInv
      /\ \/ frame.cur <= de.size /\ NoDisk
         \/ frame.cur > de.size /\ WritesDirent
  BY DEF WriteDirent, WritesDirent, Store, ContentsInv, DirectoryInv, GoAstray, Return, ReturnWith
<1>2. /\ Mounted /\ Root(disk).magic /\ RootDir = rootSB /\ Listed = rootSB.size
      /\ rootSB.blk[0] = 2 /\ 1 \in BlockNo /\ 2 \in BlockNo /\ rootSB.size \in Nat
      /\ frame.inumber \in 0 .. Listed - 1 /\ frame.inumber \in Slot
      /\ DirentBlock(frame.inumber) = 2 /\ frame.inumber % DIRENTS_PER_BLOCK = frame.inumber
      /\ disk[2].kind = "dir" /\ 0 \in InUse(rootSB)
  BY <1>1, WriteView DEF InUse, Ptr
<1>3. /\ Phase = "write" /\ Request.done = Len(Request.data) /\ Request.data = frame.data
      /\ FileStore!Written = Written
  BY <1>1, WriteRequest
<1>4. /\ FileStore!Return("write", FileStore!Written, Len(Request.data))
  BY <1>1, <1>3, Returns
<1>5. /\ Root(disk)' = Root(disk) /\ disk'[1] = disk[1]
      /\ \A m \in DataPtr : AsData(disk'[m]) = AsData(disk[m])
      /\ \A i \in 0 .. Listed - 1 : i # frame.inumber => Later(i) = DirEntry(i)
      /\ Later(frame.inumber).name = DirEntry(frame.inumber).name
      /\ Later(frame.inumber).size = size
      /\ \A pos \in 0 .. size - 1 :
           /\ pos \div BLOCKSIZE \in Ptr
           /\ Later(frame.inumber).blk[pos \div BLOCKSIZE] = de.blk[pos \div BLOCKSIZE]
  <2>1. /\ frame.cur \in Nat /\ de.size \in Nat /\ frame.cur <= MaxFileSize /\ de.size <= MaxFileSize
        /\ de \in Dirent /\ DirEntry(frame.inumber).size = de.size
        /\ DirEntry(frame.inumber).name = de.name
    <3>1. /\ MaxFileSize \in Nat /\ de \in Dirent /\ de.size \in 0 .. MaxFileSize
      BY <1>1, WriteRequest, WriteView DEF Dirent
    <3>2. /\ frame.cur \in Nat /\ frame.cur = frame.offset + Len(frame.data)
          /\ frame.offset + Len(frame.data) <= MaxFileSize
      BY <1>1, WriteRequest
    <3> HIDE DEF de
    <3> QED BY <1>1, <3>1, <3>2, WriteView DEF de
  <2>2. CASE frame.cur <= de.size /\ NoDisk
    <3>1. disk' = disk /\ size = de.size
      BY <2>1, <2>2 DEF NoDisk
    <3>2. \A i : Later(i) = DirEntry(i)
      BY <3>1 DEF DirEntry
    <3>3. ASSUME NEW pos \in 0 .. size - 1
          PROVE  /\ pos \div BLOCKSIZE \in Ptr
                 /\ Later(frame.inumber).blk[pos \div BLOCKSIZE] = de.blk[pos \div BLOCKSIZE]
      BY <1>1, <3>1, <3>2, WriteBlocksKnown
    <3> HIDE DEF size, Later
    <3> QED BY <2>1, <3>1, <3>2, <3>3 DEF Root
  <2>3. CASE frame.cur > de.size /\ WritesDirent
    <3>0. /\ SharingInv /\ WritesDirent /\ 2 \in BlockNo
          /\ DirentBlock(frame.inumber) = 2 /\ frame.inumber % DIRENTS_PER_BLOCK = frame.inumber
      BY <1>1, <1>2, <2>3
    <3>1. /\ \A m \in BlockNo : m # 2 => disk'[m] = disk[m]
          /\ disk'[2].kind = "dir" /\ Root(disk)' = Root(disk)
          /\ \A i \in InUse(rootSB), t \in Slot :
               IF rootSB.blk[i] = 2 /\ t = frame.inumber
               THEN /\ SlotEntry(disk', rootSB, i, t).name = frame.dirent.name
                    /\ SlotEntry(disk', rootSB, i, t).size = frame.cur
                    /\ SlotEntry(disk', rootSB, i, t).blk = frame.dirent.blk
               ELSE SlotEntry(disk', rootSB, i, t) = SlotEntry(disk, rootSB, i, t)
      BY <3>0, WritesDirentPlace
    <3>2. \A t : /\ SlotEntry(disk', rootSB, 0, t) = Later(t)
                 /\ SlotEntry(disk, rootSB, 0, t) = DirEntry(t)
      BY <1>2 DEF SlotEntry, DirEntry
    <3>3. \A i \in 0 .. Listed - 1 : i \in Slot
      BY <1>1, <1>2, DirectoryView
    <3>4. /\ \A i \in 0 .. Listed - 1 : i # frame.inumber => Later(i) = DirEntry(i)
          /\ Later(frame.inumber).name = de.name /\ Later(frame.inumber).size = frame.cur
          /\ Later(frame.inumber).blk = de.blk
      <4> HIDE DEF Later
      <4> QED BY <1>2, <3>1, <3>2, <3>3
    <3>5. \A m \in DataPtr : AsData(disk'[m]) = AsData(disk[m])
      BY <1>2, <3>1 DEF DataPtr, AsData
    <3>6. size = frame.cur
      BY <2>3
    <3>7. \A pos \in 0 .. size - 1 : pos \div BLOCKSIZE \in Ptr
      <4> HIDE DEF size
      <4>1. size \in 0 .. MaxFileSize
        BY <2>1, <3>6 DEF MaxFileSize
      <4> QED BY <4>1, BytePlace
    <3> HIDE DEF size, Later
    <3> QED BY <1>2, <2>1, <3>1, <3>4, <3>5, <3>6, <3>7
  <2> QED BY <1>1, <2>2, <2>3
<1>6. /\ RootDir' = rootSB /\ Listed' = Listed /\ Mounted' = Mounted /\ Formatted' = Formatted
      /\ \A i \in 0 .. Listed - 1 : i \in Slot /\ i \in 0 .. RootDir.size - 1
  <2>1. RootDir' = rootSB /\ Listed' = Listed /\ Mounted' = Mounted /\ Formatted' = Formatted
    BY <1>1, <1>2, <1>5 DEF RootDir, Mounted, Listed, Formatted
  <2> QED BY <1>1, <1>2, <2>1, DirectoryView
<1>7. Free' = Free
  <2>1. FreeBlocks(disk', Root(disk)) = FreeBlocks(disk, Root(disk))
    BY <1>5 DEF FreeBlocks
  <2> QED BY <1>1, <1>5, <2>1 DEF Free
<1>8. ASSUME NEW i \in 0 .. Listed - 1
      PROVE  File(i)' = [name |-> Later(i).name, data |-> FileBytes(disk', Later(i), 0, Later(i).size)]
  BY <1>2, <1>6, FileLater
<1> HIDE DEF Later
<1>9. ASSUME NEW i \in 0 .. Listed - 1, i # frame.inumber
      PROVE  File(i)' = Files[i + 1]
  <2>1. Later(i) = DirEntry(i) /\ DirEntry(i) \in Dirent
    BY <1>1, <1>2, <1>5, <1>6, <1>9, DirectoryView
  <2>2. FileBytes(disk', DirEntry(i), 0, DirEntry(i).size)
          = FileBytes(disk, DirEntry(i), 0, DirEntry(i).size)
    BY <1>5, <2>1, SameBytes
  <2> QED BY <1>1, <1>2, <1>8, <2>1, <2>2, FilesView
<1>10. ASSUME NEW i \in 0 .. Listed - 1, i = frame.inumber
       PROVE  File(i)' = [name |-> DirEntry(i).name, data |-> X]
  <2> DEFINE new == FileBytes(disk', Later(i), 0, Later(i).size)
             At(k) == AsData(disk[de.blk[(k - 1) \div BLOCKSIZE]])[(k - 1) % BLOCKSIZE]
  <2>1. X = [k \in 1 .. size |-> X[k]] /\ \A k \in 1 .. size : X[k] = At(k)
    BY <1>1, <1>10, WriteWhole
  <2>2. Later(i).name = DirEntry(i).name /\ Later(i).size = size
    BY <1>5, <1>10
  <2> HIDE DEF X
  <2>3. new = [k \in 1 .. size |-> new[k]]
    <3> HIDE DEF size
    <3> QED BY <2>2 DEF FileBytes
  <2>4. ASSUME NEW k \in 1 .. size PROVE new[k] = At(k)
    <3> DEFINE pos == k - 1
    <3>1. size \in Nat
      <4>1. frame.cur \in Nat /\ de.size \in Nat
        <5>1. de \in Dirent
          BY <1>1, WriteView
        <5>2. MaxFileSize \in Nat
          BY <1>1, WriteRequest
        <5> HIDE DEF de
        <5> QED BY <1>1, <5>1, <5>2, WriteRequest DEF Dirent
      <4> HIDE DEF de
      <4> QED BY <4>1
    <3> HIDE DEF size
    <3>2. pos \in 0 .. size - 1 /\ 0 + k - 1 = pos
      BY <3>1
    <3>3. new[k] = AsData(disk'[Later(i).blk[(0 + k - 1) \div BLOCKSIZE]])[(0 + k - 1) % BLOCKSIZE]
      BY <2>2 DEF FileBytes
    <3>4. /\ pos \div BLOCKSIZE \in Ptr
          /\ Later(i).blk[pos \div BLOCKSIZE] = de.blk[pos \div BLOCKSIZE]
      BY <1>5, <1>10, <3>2
    <3>5. de.blk[pos \div BLOCKSIZE] \in DataPtr
      <4>1. de \in Dirent
        BY <1>1, WriteView
      <4> HIDE DEF de, pos
      <4> QED BY <3>4, <4>1 DEF Dirent
    <3>6. AsData(disk'[de.blk[pos \div BLOCKSIZE]]) = AsData(disk[de.blk[pos \div BLOCKSIZE]])
      BY <1>5, <3>5
    <3> HIDE DEF new, de
    <3> QED BY <3>2, <3>3, <3>4, <3>6
  <2>5. new = X
    <3> HIDE DEF new, At, size
    <3> QED BY <2>1, <2>3, <2>4
  <2> QED BY <1>8, <2>2, <2>5
<1>11. Files' = [Files EXCEPT ![Request.id + 1].data = X]
  <2> HIDE DEF X
  <2> QED BY <1>1, <1>6, <1>9, <1>10, OneFileChanged
<1> QED BY <1>3, <1>4, <1>6, <1>7, <1>11 DEF FileStore!WriteEnd

-----------------------------------------------------------------------------
(* All the calls.                                                           *)

(* Every step is a step of FileStore or changes nothing that it has.        *)
LEMMA StoreNext ==
  ASSUME Store, NextNoCrash, AppendedIsLast, AppendedIsLast', pc' # "astray",
         DiskSizes = {MaxBlocks}, MaxBlocks <= BLOCKSIZE, LongNames = {}
  PROVE  FileStore!Next \/ UNCHANGED FileStore!vars
<1>1. CASE Session
  BY <1>1, StoreSession DEF FileStore!Next
<1>2. CASE Call
  <2>1. CASE FormatMounted \/ FormatSuper
    BY <2>1, StoreFormats DEF FileStore!Next
  <2>2. CASE Mount \/ Umount
    BY <2>2, StoreMounts DEF FileStore!Next
  <2>3. CASE Lsdir
    BY <2>3, StoreList DEF FileStore!Next
  <2>4. ~ScanGarbage
    BY DEF ScanGarbage, GoAstray
  <2>5. CASE Debug
    BY <2>5, StoreDebug
  <2>6. ASSUME NEW op \in {"read", "write"}, AccessUnmounted(op)
        PROVE  FileStore!Next
    BY <2>6, StoreUnmounted DEF FileStore!Next
  <2>7. ASSUME NEW name \in Names,
               \/ Open(name) \/ CreateFails(name) \/ CreateInBlock(name) \/ CreateInNewBlock(name)
        PROVE  FileStore!Next
    <3>1. FileStore!Open(name) \/ FileStore!CreateBegin(name) \/ FileStore!CreateRefused(name)
      BY <2>7, StoreOpen, StoreCreateFails, StoreCreateInBlock, StoreCreateInNewBlock
    <3> QED BY <3>1 DEF FileStore!Next
  <2>8. ASSUME NEW inumber \in EntryNumbers(rootSB), NEW offset \in Offsets, NEW data \in Payloads,
               WriteCall(inumber, data, offset)
        PROVE  FileStore!Next
    <3>1. \/ FileStore!WriteBegin(inumber, data, offset)
          \/ FileStore!WriteRefused(inumber, data, offset)
      BY <2>8, StoreWriteBegins
    <3>2. inumber \in 0 .. POINTERS_PER_ENT * DIRENTS_PER_BLOCK - 1
      BY <2>8, EntryLoaded DEF WriteCall
    <3> QED BY <3>1, <3>2 DEF FileStore!Next
  <2>9. ASSUME NEW inumber \in EntryNumbers(rootSB), NEW offset \in Offsets,
               NEW length \in ReadLengths, Read(inumber, length, offset)
        PROVE  FileStore!Next
    <3>1. FileStore!Read(inumber, length, offset)
      BY <2>9, StoreRead
    <3>2. inumber \in 0 .. POINTERS_PER_ENT * DIRENTS_PER_BLOCK - 1
      BY <2>9, EntryLoaded DEF Read
    <3> QED BY <3>1, <3>2 DEF FileStore!Next
  <2>10. ASSUME NEW inumber \in EntryNumbers(rootSB), LoadFails(inumber)
         PROVE  FALSE
    BY <2>10, DirectoryReadable DEF LoadFails, Readable, Store
  <2> QED BY <1>2, <2>1, <2>2, <2>3, <2>4, <2>5, <2>6, <2>7, <2>8, <2>9, <2>10 DEF Call
<1>3. CASE Step
  <2>1. CASE FormatBitmap
    BY <2>1, StoreFormats DEF FileStore!Next
  <2>2. CASE CreateDirent
    BY <2>2, StoreDirentWritten
  <2>3. CASE CreateSuper
    BY <2>3, StoreCreateEnds DEF FileStore!Next
  <2>4. ~CreateAborts
    BY DEF CreateAborts, AppendedIsLast
  <2>5. CASE WriteAlloc
    BY <2>5, StoreWriteTakes DEF FileStore!Next
  <2>6. CASE WriteBlock
    BY <2>6, StoreWriteSome DEF FileStore!Next
  <2>7. CASE WriteDirent
    BY <2>7, StoreWriteEnds DEF FileStore!Next
  <2> QED BY <1>3, <2>1, <2>2, <2>3, <2>4, <2>5, <2>6, <2>7 DEF Step
<1> QED BY <1>1, <1>2, <1>3 DEF NextNoCrash

LEMMA StoreInit == Init => FileStore!Init /\ StoreInv /\ VolumeInv
<1> SUFFICES ASSUME Init PROVE FileStore!Init /\ StoreInv /\ VolumeInv
  OBVIOUS
<1>1. Root(disk) = ZeroSB /\ rootSB = ZeroSB /\ pc = "down" /\ frame = NoFrame /\ ret = NoCall
  BY LayoutAssumption DEF Init, Root, AsSuper, ZeroBlock, BlockNo
<1>2. ZeroSB.magic = FALSE /\ ZeroSB.size = 0 /\ ZeroSB.nblocks = 0
  BY DEF ZeroSB
<1>3. StoreInv /\ VolumeInv
  BY <1>1, <1>2 DEF StoreInv, VolumeInv, TakesOne, Mounted
<1>4. Phase = "down" /\ Formatted = FALSE /\ Mounted = FALSE
  BY <1>1, <1>2 DEF Phase, Formatted, Mounted
<1>5. Files = <<>>
  <2>1. Listed = 0
    BY <1>1, <1>2 DEF Listed, RootDir
  <2> QED BY <2>1 DEF Files
<1>6. Free = 0
  <2>1. FreeBlocks(disk, Root(disk)) = {}
    BY <1>1, <1>2 DEF FreeBlocks
  <2> QED BY <1>1, <2>1, FS_EmptySet DEF Free
<1>7. Request = FileStore!NoReq
  BY <1>1 DEF Request, FileStore!NoReq, NoFrame
<1>8. Result = FileStore!NoCall
  BY <1>1 DEF Result, NoCall, FileStore!NoCall
<1> QED BY <1>3, <1>4, <1>5, <1>6, <1>7, <1>8 DEF FileStore!Init

LEMMA StoreStutters == UNCHANGED vars => UNCHANGED FileStore!vars
<1> SUFFICES ASSUME UNCHANGED vars PROVE UNCHANGED FileStore!vars
  OBVIOUS
<1>1. disk' = disk /\ rootSB' = rootSB /\ pc' = pc /\ frame' = frame /\ ret' = ret
  BY DEF vars
<1>2. Phase' = Phase /\ Formatted' = Formatted /\ Mounted' = Mounted /\ Request' = Request
      /\ Result' = Result /\ Free' = Free
  BY <1>1 DEF Phase, Formatted, Mounted, Request, Result, Free, Root
<1>3. RootDir' = RootDir /\ Listed' = Listed
  BY <1>1 DEF RootDir, Listed, Mounted, Root
<1>4. \A n : File(n)' = File(n)
  BY <1>1, <1>3 DEF File
<1>5. Files' = Files
  BY <1>3, <1>4 DEF Files
<1> QED BY <1>2, <1>5 DEF FileStore!vars

(* The states of the program until the directory outgrows its first block.  *)
StoreState == pc # "astray" /\ (Doomed \/ (VolumeInv /\ StoreInv))

LEMMA StoreStateStep ==
  ASSUME DiskSizes = {MaxBlocks}, MaxBlocks <= BLOCKSIZE, LongNames = {},
         \A data \in Payloads : Len(data) <= BLOCKSIZE,
         ContentsInv, StoreState, AppendedIsLast, AppendedIsLast', [NextNoCrash]_vars
  PROVE  StoreState' /\ [FileStore!Next]_FileStore!vars
<1>1. CASE UNCHANGED vars
  <2>1. UNCHANGED <<disk, rootSB, pc, frame>>
    BY <1>1 DEF vars
  <2>2. Doomed' = Doomed
    BY <2>1 DEF Doomed
  <2>3. VolumeInv' = VolumeInv
    BY <2>1
    DEF VolumeInv, OneBlock, BitmapExact, HeldBlocks, TakesOne, RootDir, Root, Mounted, DirEntry,
        WriteEnd, CurInBlock
  <2>4. StoreInv' = StoreInv
    BY <2>1 DEF StoreInv, Root, DirEntry
  <2> QED BY <1>1, <2>1, <2>2, <2>3, <2>4, StoreStutters DEF StoreState
<1>2. CASE NextNoCrash
  <2>1. VolumeInv /\ StoreInv
    BY <1>2, VolumeEnds DEF StoreState, ContentsInv
  <2>2. pc' # "astray"
    BY <1>2, <2>1, NeverAstray DEF StoreState
  <2>3. StoreInv'
    BY <1>2, <2>1, <2>2, StoreStep
  <2>4. VolumeInv' \/ Doomed'
    <3>1. VolumeState
      BY <2>1 DEF VolumeState
    <3>2. VolumeState'
      BY <3>1, VolumeStep
    <3> QED BY <2>2, <3>2 DEF VolumeState
  <2>5. FileStore!Next \/ UNCHANGED FileStore!vars
    BY <1>2, <2>1, <2>2, StoreNext DEF Store
  <2> QED BY <2>2, <2>3, <2>4, <2>5 DEF StoreState
<1> QED BY <1>1, <1>2

(* Without kills, fs.c keeps the promises of FileStore, one call at a time, *)
(* as long as the assertion of add_dirent holds, with clients that write at *)
(* most a block in a call and names that fit, on a disk whose blocks each   *)
(* have a bit of their own in the bitmap.                                   *)
THEOREM KeepsThePromises ==
  ASSUME DiskSizes = {MaxBlocks}, MaxBlocks <= BLOCKSIZE, LongNames = {},
         \A data \in Payloads : Len(data) <= BLOCKSIZE
  PROVE  SpecNoCrash /\ []AppendedIsLast => ImplementsFileStore
<1>1. SpecNoCrash => SpecFormatted
  <2>1. [NextNoCrash]_vars => [NextFormatted]_vars
    BY DEF NextFormatted
  <2> QED BY <2>1, PTL DEF SpecFormatted, SpecNoCrash
<1>2. ContentsInv /\ StoreState /\ AppendedIsLast /\ AppendedIsLast' /\ [NextNoCrash]_vars
        => StoreState' /\ [FileStore!Next]_FileStore!vars
  BY StoreStateStep
<1>3. Init => StoreState /\ FileStore!Init
  BY StoreInit DEF StoreState, Init
<1>4. SpecNoCrash => []ContentsInv
  <2>1. SpecFormatted => []ContentsInv
    BY ContentsKeepTheirShape
  <2> QED BY <1>1, <2>1, PTL
<1> QED
  BY <1>2, <1>3, <1>4, PTL DEF SpecNoCrash, ImplementsFileStore, FileStore!Spec
=============================================================================
