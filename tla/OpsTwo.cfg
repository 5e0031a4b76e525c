SPECIFICATION FairSpec
CONSTANTS
  b1 = b1
  b2 = b2
  b3 = b3
  r1 = r1
  r2 = r2
  Blocks <- TwoBlocks
  Requests <- TwoRequests
  Kinds <- InsertAndAttrs
  Nested = TRUE
  Resends = TRUE
  Placed <- Apart
  Top = 64
  MaxOps = 2
  Failures <- NoFailures
  MaxFaults = 0
INVARIANT OnlyBrokenStrays
PROPERTY EveryRequestAnswered
CHECK_DEADLOCK FALSE
