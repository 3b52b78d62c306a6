CONSTANTS
  Producers = {p1, p2}
  Consumers = {c1, c2}
  Blocks = {d1, d2}
  NoBlock = NoBlock
  maxsize = 2
SPECIFICATION QueueSpec
INVARIANTS
  QueueInv
  NoOverrun
PROPERTY ImplementsFifo
