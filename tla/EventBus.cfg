SPECIFICATION FairSpec
CONSTANTS
  Queues = {f, g}
  Events = {e}
  Goroutines = {g1, g2, g3, g4}
  MaxCalls = 2
  MaxFaults = 1
  None = None
INVARIANTS RunsBounded  UnsubscribeStops
PROPERTY SubscribedDrains
CHECK_DEADLOCK FALSE
