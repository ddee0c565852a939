CONSTANTS
  Projects <- MCProjects
  StartsWith <- MCStartsWith
SPECIFICATION Spec
CHECK_DEADLOCK FALSE
INVARIANT GhostsShareOffset
