SPECIFICATION Spec
CONSTANTS
  Pods = {p1, p2, p3}
  Requests = {r1, r2, r3}
  MaxSize = 1
  MaxUseCount = 2
  None = None
INVARIANTS PodsWithinDemand AtMostTwoUsers PodsAccounted UseCountBound
