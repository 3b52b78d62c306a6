CONSTANTS
  BLOCKSIZE = 6
  DIRENTS_PER_BLOCK = 1
  POINTERS_PER_ENT = 2
  Names = {n1, n2}
  LongNames = {}
  NoName = NoName
  byteA = byteA
  byteB = byteB
  Byte = {byteA}
  Stale = Stale
  MaxBlocks = 5
  DiskSizes = {5}
  Payloads <- OneChunk
  Offsets = {0, 5}
  ReadLengths = {}
SPECIFICATION Spec
INVARIANTS
  DirectoryInDataBlocks
CHECK_DEADLOCK FALSE
