SPECIFICATION FairSpec
CONSTANTS
  Clients = {c1, c2}
  Users = {u1}
  Capacity = 1
  RefillRate = 1
  GlobalLimit = 2
  UserLimit = 1
  Window = 2
  Thresholds = {1}
  Workers = 1
  MaxLag = 1
  MaxDebt = 1
INVARIANTS WithinBucket QueueBounded
PROPERTY WindowCloses
