SPECIFICATION FairSpec
CONSTANTS
  u1 = u1
  u2 = u2
  b1 = b1
  b2 = b2
  b3 = b3
  Pages <- TwoPages
  Blocks <- TwoBlocks
  Original <- First
  MaxOps = 2
  MaxPaste = 1
  MaxFaults = 2
CHECK_DEADLOCK FALSE
INVARIANTS
  TypeOK
  RepeatsNeedDelete
  
PROPERTY EveryEditAnswered
