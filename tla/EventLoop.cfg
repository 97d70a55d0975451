SPECIFICATION FairSpec
CONSTANTS
  Sleeps = {s1, s2}
  Polls = {p1}
  Requests = {r1}
  Durations = {0, 2}
  Width = 3
  MaxTime = 3
INVARIANT TypeOK
INVARIANT QueuedExactlyOnce
PROPERTY SleepsWakeInOrder
PROPERTY SleepEnds
PROPERTY CompletedIsDelivered
CHECK_DEADLOCK FALSE
