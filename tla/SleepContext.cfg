SPECIFICATION Spec
CONSTANTS
  Sleeps = {s1}
  Polls = {}
  Requests = {}
  Durations = {1}
  Width = 3
  MaxTime = 2
INVARIANT ClosingHandlesAreAllocated
CHECK_DEADLOCK FALSE
