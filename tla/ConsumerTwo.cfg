SPECIFICATION FairSpec
CONSTANTS
  b1 = b1
  b2 = b2
  w1 = w1
  w2 = w2
  Blocks <- OneBlock
  Workers <- TwoWorkers
  Routes <- NoDeletes
  Encodings <- RawBytes
  InsertFirst = TRUE
  ReadCount = 2
  StreamMaxLen = 4
  MaxEntries = 3
  MaxResets = 1
  MaxFaults = 0
PROPERTIES
  
  MergedInStreamOrder
