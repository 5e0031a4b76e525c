SPECIFICATION Spec
CONSTANTS
  b1 = b1
  b2 = b2
  b3 = b3
  r1 = r1
  r2 = r2
  Blocks <- ThreeBlocks
  Requests <- TwoRequests
  Kinds <- EveryKind
  Nested = TRUE
  Resends = TRUE
  Placed <- Apart
  Top = 64
  MaxOps = 1
  Failures <- Everything
  MaxFaults = 1
SYMMETRY Symmetry
INVARIANTS
  TypeOK
  SiblingsDistinct
  StreamedIsCommitted
PROPERTY CommitsAreSerial
CHECK_DEADLOCK FALSE
