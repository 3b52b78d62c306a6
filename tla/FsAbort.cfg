CONSTANTS
  BLOCKSIZE = 6
  DIRENTS_PER_BLOCK = 1
  POINTERS_PER_ENT = 2
  Names = {n1, n2}
  LongNames = {n2}
  NoName = NoName
  byteA = byteA
  byteB = byteB
  Byte = {byteA}
  Stale = Stale
  MaxBlocks = 5
  DiskSizes = {2, 4, 5}
  Payloads <- LongChunks
  Offsets = {0, 5}
  ReadLengths = {10}
SPECIFICATION Spec
INVARIANTS
  TypeOK
  BlocksOnDisk
  WritesSpareMetadata
CHECK_DEADLOCK FALSE
