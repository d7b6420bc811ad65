SPECIFICATION Spec
CONSTANTS
  Paths = {p1}
  Contents = {a,b}
  Gone = gone
  DeferCap = 1
  Trickle = 1
  Attempts = 2
  DegradedAt = 1
  BackoffAt = 1
  DisableAt = 2
  WindowAt = 2
  ResetAfter = 1
  MaxEdits = 3
  MaxFailures = 2
  MaxCrashes = 1
SYMMETRY Symmetry
CONSTRAINTS StartFirst Undecided
INVARIANTS
  TypeOK
  IndexFollowsDisk
