SPECIFICATION FairSpec
CONSTANTS
  f = f
  p = p
  b = b
  w1 = w1
  w2 = w2
  NoKey = NoKey
  Unindexed = {b}
  Keys = {f, b}
  PlainKeys = {}
  Slots = {w1, w2}
  MaxConcurrent = 1
  MaxRetries = 2
  FtsMaxRetries = 2
  MaxResurrections = 1
  ChanCap = 1
  LostWrites = FALSE
  InitTracked = {"stale"}
  MaxInserts = 1
  MaxUpsets = 2
  MaxOverruns = 0
PROPERTIES
  EverythingSettles
