SPECIFICATION Spec
CONSTANTS
  b1 = b1
  b2 = b2
  b3 = b3
  c1 = c1
  c2 = c2
  Gone = Gone
  Branches = {b1, b2, b3}
  Contents = {c1, c2}
  MaxMoves = 3
  MaxScans = 1
SYMMETRY Symmetry
CONSTRAINT Unharmed
INVARIANTS
  TypeOK
  HeadFollowsTree
  NoFabrication
  AwayKept
