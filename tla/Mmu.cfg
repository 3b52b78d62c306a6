CONSTANTS
  MAX_VIRTUAL_PAGES = 6
  numFrames = 3
  MaxAccesses = 9
SPECIFICATION FairSpec
INVARIANTS
  MmuInv
  StatisticsAgree
PROPERTIES
  FaultEnds
  ImplementsSecondChance
  ImplementsFirstVersion
CHECK_DEADLOCK FALSE
