SPECIFICATION Spec
CONSTANTS
  Hash <- MCHash
  CAPACITY_LOG_MAX = 3
  Text <- MCText
  Val = {v1, v2}
  NULL = NULL
SYMMETRY Symmetry
CHECK_DEADLOCK FALSE
INVARIANTS
  TypeOK
  WellPlaced
  LoadBound
  IterNeverWraps
  PanicsOnlyWhenFull
