SPECIFICATION FairSpec
CONSTANTS
  i1 = i1
  i2 = i2
  u1 = u1
  u2 = u2
  Instances <- TwoInstances
  Clients <- TwoPages
  Home <- Apart
  Failures <- Xadds
  StreamMaxLen = 9
  MaxConnects = 1
  MaxTyped = 2
  MaxPosts = 0
  MaxEntries = 4
  MaxFaults = 1
PROPERTY EveryoneHears
INVARIANTS TypeOK  EachOnce OriginOrder
CHECK_DEADLOCK FALSE
