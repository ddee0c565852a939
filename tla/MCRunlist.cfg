CONSTANTS
  AVar <- MCAVar
  Root = "root"
  Time = "time"
  Models <- MCModels
SPECIFICATION FairSpec
INVARIANTS
  CircularIffCycle
  ListedOnceInOrder
  OrderedAcrossModules
PROPERTY SortReturns
CHECK_DEADLOCK FALSE
