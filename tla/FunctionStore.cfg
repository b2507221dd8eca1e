SPECIFICATION FairSpec
CONSTANTS
  Ids = {f, g}
  Names = {n}
  Codes = {a, b}
  Writers = {p1, p2}
  Readers = {r1, r2}
  MaxOps = 2
  MaxFaults = 1
  None = None
INVARIANTS TypeOK  
 
CHECK_DEADLOCK FALSE
