SPECIFICATION FairSpec
CONSTANTS
  Kinds <- TwoProjects
  BatchSize = 1
  MaxConcurrent = 1
  HighBatch = 1
  LowBatch = 1
  MaxReturns = 1
  Ages = 2
  Cap = 4
PROPERTIES
  InactiveGetsATurn
