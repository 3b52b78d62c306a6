CONSTANTS
  a = a
  b = b
  Names = {n1, n2}
  NoName = NoName
  Payloads = {}
  Offsets = {}
  Lengths = {}
  Capacity = 2
  MaxFiles = 2
  MaxBytes = 3
  HostNames = {h1, h2}
  HostFiles <- ShortFiles
  Absent = Absent
  bufferSize = 2
SPECIFICATION ShellSpec
INVARIANTS
  CopiedInPrefix
  CopiedOutWhole
PROPERTY CopyEnds
