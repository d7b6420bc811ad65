SPECIFICATION Spec
CONSTANTS
  b1 = b1
  b2 = b2
  c1 = c1
  c2 = c2
  Gone = Gone
  Branches = {b1, b2}
  Contents = {c1, c2}
  MaxMoves = 3
  MaxScans = 0
SYMMETRY Symmetry
CONSTRAINT RekeyOnly
INVARIANTS
  RekeyIsCertified
