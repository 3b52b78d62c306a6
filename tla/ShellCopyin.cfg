CONSTANTS
  a = a
  b = b
  Names = {n1, n2}
  NoName = NoName
  Payloads = {}
  Offsets = {}
  Lengths = {}
  Capacity = 3
  MaxFiles = 2
  MaxBytes = 4
  HostNames = {h1}
  HostFiles <- ShortFiles
  Absent = Absent
  bufferSize = 2
SPECIFICATION ShellSpec
INVARIANT CopyinReportsErrors
