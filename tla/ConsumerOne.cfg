SPECIFICATION Spec
CONSTANTS
  b1 = b1
  b2 = b2
  w1 = w1
  w2 = w2
  Blocks <- TwoBlocks
  Workers <- OneWorker
  Routes <- RowsComeAndGo
  Encodings <- AllEncodings
  InsertFirst = FALSE
  ReadCount = 2
  StreamMaxLen = 2
  MaxEntries = 3
  MaxResets = 1
  MaxFaults = 1
SYMMETRY Symmetry
INVARIANTS
  TypeOK
  StateBelowCursor
  AckedIsApplied
PROPERTY ImplementsOrderedApply
