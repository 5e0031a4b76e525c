SPECIFICATION Spec
CONSTANTS
  u1 = u1
  u2 = u2
  b1 = b1
  b2 = b2
  b3 = b3
  Pages <- OnePage
  Blocks <- ThreeBlocks
  Original <- First
  MaxOps = 3
  MaxPaste = 2
  MaxFaults = 0
CHECK_DEADLOCK FALSE
INVARIANT InsertsReachServer
