SPECIFICATION ShutdownSpec
CONSTANTS
  Containers = {c1}
  Callers = {w1}
  Makers = {m1, m2}
  Closers = {k1, k2}
  MinSize = 1
  MaxSize = 1
  MaxUseCount = 1
  None = None
INVARIANTS BackgroundSafe NoSilentLeak
PROPERTY ShutdownCompletes
