SPECIFICATION LiveSpec
CONSTANTS
  Paths = {p1, p2}
  Contents = {a}
  Gone = gone
  DeferCap = 2
  Trickle = 1
  Attempts = 1
  DegradedAt = 1
  BackoffAt = 1
  DisableAt = 1
  WindowAt = 1
  ResetAfter = 2
  MaxEdits = 2
  MaxFailures = 1
  MaxCrashes = 0
PROPERTIES
  GhostsLeave
  EventsLeave
