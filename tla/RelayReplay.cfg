SPECIFICATION Spec
CONSTANTS
  i1 = i1
  i2 = i2
  u1 = u1
  u2 = u2
  Instances <- OneInstance
  Clients <- OnePage
  Home <- Alone
  Failures <- Everything
  StreamMaxLen = 1
  MaxConnects = 2
  MaxTyped = 0
  MaxPosts = 2
  MaxEntries = 2
  MaxFaults = 2
INVARIANTS ReplayMeetsLive 
CHECK_DEADLOCK FALSE
