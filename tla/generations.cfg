SPECIFICATION Spec
CONSTANTS
  b1 = b1
  b2 = b2
  c1 = c1
  c2 = c2
  Gone = Gone
  Branches = {b1, b2}
  Contents = {c1, c2}
  MaxConcurrent = 2
  ChanCap = 2
  MaxFile = 4
  MaxEdits = 3
  MaxUpsets = 2
SYMMETRY PathSymmetry
CONSTRAINT Binding
INVARIANTS
 TypeOK
 OneGenerationPerBranch
 RowsFollowDisk
 VectorsFollowDisk
 LinesFollowDisk
