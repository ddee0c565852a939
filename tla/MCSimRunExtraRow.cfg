CONSTANTS
  Specs <- MCSpecs
  Ends <- MCEnds
  One = 1
SPECIFICATION Spec
INVARIANT ExtraRowSuffices
CHECK_DEADLOCK FALSE
