SPECIFICATION FairSpec
CONSTANTS
  Requests = {r1, r2, r3}
  MaxFailures = 2
  ResetTimeout = 1
 
PROPERTIES OpenHolds Recovers
