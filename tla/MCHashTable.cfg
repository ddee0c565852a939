CONSTANTS
  Keys <- MCKeys
  Vals = {v1, v2}
  Free = Free
  None = None
  INIT_SIZE = 4
  MaxTblSize = 8
  Hashes <- MCHashes
SPECIFICATION ISpec
INVARIANTS
  ProbePathsUnbroken
  TableIsMap
  IterReturnsKept
SYMMETRY ValSymmetry
CHECK_DEADLOCK FALSE
