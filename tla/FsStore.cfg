CONSTANTS
  BLOCKSIZE = 6
  DIRENTS_PER_BLOCK = 2
  POINTERS_PER_ENT = 2
  Names = {n1, n2}
  LongNames = {}
  NoName = NoName
  byteA = byteA
  byteB = byteB
  Byte = {byteA, byteB}
  Stale = Stale
  MaxBlocks = 5
  DiskSizes = {5}
  Payloads <- MixedChunks
  Offsets = {0, 2, 4}
  ReadLengths = {5}
SPECIFICATION FairSpec
INVARIANT NoLeak
PROPERTIES
  ImplementsFileStore
  CallsReturn
