CONSTANTS
  AVar <- MCAVar
  Root = "root"
  Time = "time"
  Models <- MCModels
SPECIFICATION Spec
INVARIANT DependenciesFirst
CHECK_DEADLOCK FALSE
