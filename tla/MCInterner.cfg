SPECIFICATION FairSpec
CONSTANTS
  Hash <- MCHash
  CAPACITY_LOG_MAX = 2
  Thread = {t1, t2}
  Str <- MCStr
  MAX_CALLS = 2
  NONE = NONE
CHECK_DEADLOCK FALSE
INVARIANTS
  TypeOK
  OneInside
  AbortsOnlyForMemory
PROPERTIES
  ImplementsStringPool
  CallsReturn
