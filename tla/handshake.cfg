SPECIFICATION Spec
CONSTANTS
  f = f
  p = p
  b = b
  w1 = w1
  w2 = w2
  NoKey = NoKey
  Unindexed = {}
  Keys = {f}
  PlainKeys = {}
  Slots = {w1, w2}
  MaxConcurrent = 2
  MaxRetries = 2
  FtsMaxRetries = 2
  MaxResurrections = 1
  ChanCap = 1
  LostWrites = FALSE
  InitTracked = {"none", "stale", "current"}
  MaxInserts = 2
  MaxUpsets = 5
  MaxOverruns = 0
SYMMETRY SlotSymmetry
INVARIANTS
  DecidedCompletionIsProved
  RetryCountBounded
PROPERTIES
  RetriesAreKept
  KeepsPromise
