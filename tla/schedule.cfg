SPECIFICATION FairSpec
CONSTANTS
  Kinds <- AllKinds
  BatchSize = 2
  MaxConcurrent = 2
  HighBatch = 2
  LowBatch = 1
  MaxReturns = 1
  Ages = 2
  Cap = 3
INVARIANTS
  TypeOK
PROPERTIES
  DeletesComeFirst
  TopIsServed
