SPECIFICATION Spec
CONSTANTS
  b1 = b1
  b2 = b2
  b3 = b3
  Base = 6
  Mid = 3
  Seed = 4
  Blocks <- ThreeBlocks
  MaxLen = 3
SYMMETRY Symmetry
INVARIANTS TypeOK OrderedAboveFloor RoomBetween
