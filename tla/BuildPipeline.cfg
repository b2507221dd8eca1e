SPECIFICATION FairSpec
CONSTANTS
  Requests = {r1, r2}
  Workers = {w1, w2}
  Submissions <- MCSubmissions
  Thresholds = {1, 2}
  MaxFaults = 1
  None = None
INVARIANTS TypeOK SettledHasVerdict  LogReclaimed  DuplicatesOverlap
PROPERTIES  BuiltRegistered
CHECK_DEADLOCK FALSE
