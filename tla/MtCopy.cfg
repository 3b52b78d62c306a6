CONSTANTS
  reader = reader
  writer = writer
  Producers = {reader}
  Consumers = {writer}
  d1 = d1
  d2 = d2
  EndBlock = EndBlock
  Blocks = {d1, d2, EndBlock}
  NoBlock = NoBlock
  maxsize = 2
  Files <- SmallFiles
SPECIFICATION CopySpec
INVARIANTS
  OutputIsPrefix
  ExitZeroCopied
PROPERTY ProcessEnds
CHECK_DEADLOCK FALSE
