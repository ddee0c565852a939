CONSTANTS
  Keys <- MCKeys
  Vals = {v1, v2}
  Free = Free
  None = None
  INIT_SIZE = 8
  MaxTblSize = 16
  Hashes <- MCHashes
SPECIFICATION ISpec
INVARIANT EmptiedTableIsEmpty
CHECK_DEADLOCK FALSE
