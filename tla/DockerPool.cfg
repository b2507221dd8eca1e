SPECIFICATION Spec
CONSTANTS
  Containers = {c1, c2}
  Callers = {w1, w2}
  Makers = {m1, m2}
  Closers = {k1}
  MinSize = 1
  MaxSize = 1
  MaxUseCount = 2
  None = None
SYMMETRY Symmetry
INVARIANTS TypeOK ExclusiveOwnership HandoutAlive UseCountBound
PROPERTY ImplementsLeasePool
