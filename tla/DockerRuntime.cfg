SPECIFICATION FairSpec
CONSTANTS
  Requests = {r1, r2}
  Keys = {a}
  Contents = {x}
  Pools = {p1, p2}
  Containers = {c1, c2}
  MinSize = 1
  MaxFaults = 1
  None = None
INVARIANTS RunsRequestedCode NoOverdueReused  
PROPERTY ReplacedDrains
CHECK_DEADLOCK FALSE
