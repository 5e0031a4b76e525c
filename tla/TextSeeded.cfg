SPECIFICATION Spec
CONSTANTS
  u1 = u1
  u2 = u2
  Pages <- TwoPages
  Contents <- Seeded
  MaxEvents = 3
  MaxFaults = 0
SYMMETRY Symmetry
INVARIANT QuietPagesAgree
CHECK_DEADLOCK FALSE
