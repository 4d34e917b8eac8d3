SPECIFICATION GuardedSpec
CONSTANTS
  Hash <- MCHash
  CAPACITY_LOG_MAX = 4
  Text <- Colliding
  Val = {v1, v2}
  NULL = NULL
CHECK_DEADLOCK FALSE
INVARIANTS
  NoDuplicates
PROPERTIES
  ImplementsDictionary
