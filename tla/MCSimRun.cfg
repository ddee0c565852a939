CONSTANTS
  Specs <- MCSpecs
  Ends <- MCEnds
  One = 1
SPECIFICATION FairSpec
INVARIANTS
  SlabIsTrajectory
  FaultsExplained
  SeriesIsTrajectory
PROPERTIES SavedRowsFrozen ReturnsWhereAsked ImplementsTrajectory RunReturns
CHECK_DEADLOCK FALSE
