SPECIFICATION Spec
CONSTANTS
  u1 = u1
  u2 = u2
  Pages <- TwoPages
  Contents <- Empty
  MaxEvents = 4
  MaxFaults = 1
SYMMETRY Symmetry
INVARIANTS
  TypeOK
  NothingSlips
  
  EachEditOnce
PROPERTY TextStays
CHECK_DEADLOCK FALSE
